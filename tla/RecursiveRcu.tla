---------------------------- MODULE RecursiveRcu ----------------------------
(***************************************************************************)
(* The program of ArcSwapTest.recursive, run by several threads at once on *)
(* one storage:                                                            *)
(*                                                                         *)
(*     shared.rcu { i -> if (i < Limit) shared.rcu { j -> j + 1 }; i }     *)
(*                                                                         *)
(* The outer call returns its argument unchanged; the counting is done by  *)
(* the inner call, which makes the outer compareAndSwap miss and retry.    *)
(* The storage is ArcSwapAny's, used through its own actions.              *)
(***************************************************************************)
EXTENDS ArcSwapAny, FiniteSets

CONSTANT Limit   \* what the callback counts up to: 10 in the test

ASSUME LimitAssumption == Limit \in Nat

VARIABLES
  boxCache,  \* do equal numbers share one box (JVM, JS) or not (native)
  phase,     \* phase[t]: has t called the outer rcu, and has it returned
  counted,   \* counted[t]: has this evaluation of t's outer callback counted
  incs       \* how many inner rcu calls have returned

clientVars == <<boxCache, phase, counted, incs>>

allVars == <<vars, clientVars>>

Plus1 == [v \in Vals |-> IF v + 1 \in Vals THEN v + 1 ELSE v]

Same == [v \in Vals |-> v]

\* Numbers large enough, each with an address for its box, and more addresses
\* than reachable objects: the one stored, and for each thread the one it
\* received last and two for each of its two rcu calls.
ASSUME NumbersAssumption ==
  /\ IsFiniteSet(Threads) /\ Threads # {}
  /\ 0..(Limit + Cardinality(Threads)) \subseteq Vals
  /\ Vals \subseteq Nat /\ Vals \subseteq Refs
  /\ IsFiniteSet(Refs) => Cardinality(Refs) > 6 * Cardinality(Threads)

ASSUME CallbacksAssumption == {Plus1, Same} \subseteq Fns

ClientTypeOK ==
  /\ TypeOK
  /\ boxCache \in BOOLEAN
  /\ phase \in [Threads -> {"ready", "running", "done"}]
  /\ counted \in [Threads -> BOOLEAN]
  /\ incs \in Nat

-----------------------------------------------------------------------------
\* The box of the number v: its one and only box, or a box just allocated.
Box(v) == IF boxCache THEN v ELSE CHOOSE r \in Refs : r \notin Live

CallOuter(t) ==
  /\ phase[t] = "ready"
  /\ RcuLoad(t, Same)
  /\ phase' = [phase EXCEPT ![t] = "running"]
  /\ counted' = [counted EXCEPT ![t] = FALSE]
  /\ UNCHANGED <<boxCache, incs>>

\* Mutant: if (i <= Limit)
CallInnerAtLimit(t) ==
  /\ Depth(t) = 1
  /\ ~counted[t]
  /\ heap[Top(t).cur] <= Limit
  /\ RcuLoad(t, Plus1)
  /\ UNCHANGED clientVars

\* if (i < Limit) shared.rcu { j -> j + 1 }
CallInner(t) ==
  /\ Depth(t) = 1
  /\ ~counted[t]
  /\ heap[Top(t).cur] < Limit
  /\ RcuLoad(t, Plus1)
  /\ UNCHANGED clientVars

\* A callback returns: the outer one when it need not count any more.
Return(t) ==
  /\ Depth(t) > 0
  /\ Depth(t) = 1 => counted[t] \/ heap[Top(t).cur] >= Limit
  /\ RcuEval(t, Box(Top(t).fn[heap[Top(t).cur]]))
  /\ UNCHANGED clientVars

Cas(t) ==
  /\ Depth(t) > 0
  /\ RcuCas(t)
  /\ LET returns == Top(t).cur = ptr
         inner   == Depth(t) = 2
     IN /\ incs' = IF returns /\ inner THEN incs + 1 ELSE incs
        /\ counted' = [counted EXCEPT ![t] = returns /\ inner]
        /\ phase' = IF returns /\ ~inner THEN [phase EXCEPT ![t] = "done"] ELSE phase
  /\ UNCHANGED boxCache

Finished == (\A t \in Threads : phase[t] = "done") /\ UNCHANGED allVars

Step(t) == CallOuter(t) \/ CallInner(t) \/ Return(t) \/ Cas(t)

ClientInit ==
  /\ ptr = 0
  /\ boxCache \in BOOLEAN
  /\ heap = [r \in Refs |-> IF boxCache /\ r \in Vals THEN r ELSE 0]
  /\ held = [t \in Threads |-> ptr]
  /\ stack = [t \in Threads |-> <<>>]
  /\ last = Cell!Created
  /\ phase = [t \in Threads |-> "ready"]
  /\ counted = [t \in Threads |-> FALSE]
  /\ incs = 0

ClientNext == Finished \/ \E t \in Threads : Step(t)

ClientSpec ==
  ClientInit /\ [][ClientNext]_allVars /\ \A t \in Threads : WF_allVars(Step(t))

-----------------------------------------------------------------------------
\* The counter that the program implements: between two calls a thread is what
\* its phase says, and in a call it is what the number it looked at makes of it.
Stance(t) ==
  IF stack[t] = <<>> THEN phase[t]
  ELSE IF counted[t] THEN "added"
  ELSE IF Depth(t) = 2 \/ stack[t][1].seen < Limit THEN "low"
  ELSE "high"

Counter == INSTANCE Counter WITH
             count  <- heap[ptr],
             stance <- [t \in Threads |-> Stance(t)]

-----------------------------------------------------------------------------
\* Properties.

\* No increment is lost and none is made twice, at any moment and however the
\* calls nest and interleave (ArcSwapAny.kt:176-180: "This will").
NoLostIncrement == heap[ptr] = incs

\* An outer call that returned left at least Limit in the storage, and the
\* threads overshoot by at most one increment each beyond the first: a callback
\* decides on the number it was given, which may be stale when it counts.  For
\* one thread this is ArcSwapTest.recursive's assertEquals(10, ...).
CountsToLimit ==
  /\ (\E t \in Threads : phase[t] = "done") => heap[ptr] >= Limit
  /\ heap[ptr] < Limit + Cardinality(Threads)

\* The program is a counter: of all its steps, those of other calls in between
\* included, only the return of an inner call counts, each time a thread has
\* looked and found the limit not reached; the retry that this costs the outer
\* call is how it looks again, and only a call that found the limit reached
\* returns (ArcSwapTest.kt:133-138, ArcSwapAny.kt:207-216).
ImplementsCounter == Counter!CounterSpec

\* Nested calls that retry because of their own inner calls, and because of
\* each other, all return (ArcSwapAny.kt:208-216).
AllReturn == <>(\A t \in Threads : phase[t] = "done")
=============================================================================
