------------------------------ MODULE Counter ------------------------------
(***************************************************************************)
(* What the program of ArcSwapTest.recursive promises the threads that run *)
(* it: they count together, one at a time, up to a limit.  Nothing is said *)
(* of calls within calls, of retries or of objects.                        *)
(*                                                                         *)
(* A thread decides on the number it has looked at.  Others may count      *)
(* before it does, so what it then adds one to may be a greater number.    *)
(***************************************************************************)
EXTENDS Naturals

CONSTANTS
  Threads,   \* the threads that count
  Limit      \* what they count up to

VARIABLES
  count,     \* the number reached
  stance     \* stance[t]: what t, having looked, is about to do

counterVars == <<count, stance>>

CounterInit ==
  /\ count = 0
  /\ stance = [t \in Threads |-> "ready"]

\* A thread looks at the number when it begins, and again after it counted.
Look(t) ==
  /\ stance[t] \in {"ready", "added"}
  /\ stance' = [stance EXCEPT ![t] = IF count < Limit THEN "low" ELSE "high"]
  /\ UNCHANGED count

\* It found a number below the limit, and counts: once.
Add(t) ==
  /\ stance[t] = "low"
  /\ stance' = [stance EXCEPT ![t] = "added"]
  /\ count' = count + 1

\* It found the limit reached.
Finish(t) ==
  /\ stance[t] = "high"
  /\ stance' = [stance EXCEPT ![t] = "done"]
  /\ UNCHANGED count

CounterNext == \E t \in Threads : Look(t) \/ Add(t) \/ Finish(t)

CounterSpec == CounterInit /\ [][CounterNext]_counterVars
=============================================================================
