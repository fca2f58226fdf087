----------------------------- MODULE AtomicCell -----------------------------
(***************************************************************************)
(* What an ArcSwapAny promises its callers: one cell that holds a value    *)
(* and whose operations each take effect in a single indivisible step,     *)
(* rcu included.  Nothing is said of objects, references, guards or        *)
(* retries.  A value is the CONTENT a reader sees, not an identity.        *)
(*                                                                         *)
(* ret[t] is the value thread t last received from an operation: what its  *)
(* guard shows, and what it offers as `current` in its next                *)
(* compareAndSwap.  `last` names the operation, so that nothing but an rcu *)
(* passes for an rcu: a swap may store anything, an rcu only its function  *)
(* of what it replaces.                                                    *)
(***************************************************************************)
CONSTANTS
  Threads,   \* the threads that share the cell
  Vals,      \* the contents a caller may store
  Fns        \* the update functions callers pass to rcu, as functions on Vals

ASSUME FnsAssumption == Fns \subseteq [Vals -> Vals]

VARIABLES
  value,     \* the content of the cell
  ret,       \* ret[t]: the value thread t last received
  last       \* the operation that took effect last: which, whose, with what

cellVars == <<value, ret, last>>

Created == [op |-> "new"]
LoadBy(t) == [op |-> "load", by |-> t]
SwapBy(t, v) == [op |-> "swap", by |-> t, new |-> v]
StoreBy(t, v) == [op |-> "store", by |-> t, new |-> v]
CasBy(t, v) == [op |-> "cas", by |-> t, new |-> v]
RcuBy(t, f) == [op |-> "rcu", by |-> t, f |-> f]

Operation ==
  {Created} \cup [op : {"load"}, by : Threads]
            \cup [op : {"swap", "store", "cas"}, by : Threads, new : Vals]
            \cup [op : {"rcu"}, by : Threads, f : Fns]

CellTypeOK ==
  /\ value \in Vals
  /\ ret \in [Threads -> Vals]
  /\ last \in Operation

CellInit ==
  /\ value \in Vals
  /\ ret = [t \in Threads |-> value]
  /\ last = Created

Receive(t) == ret' = [ret EXCEPT ![t] = value]

\* load, loadFull, intoInner: all of them return the value held right now.
Read(t) ==
  /\ last' = LoadBy(t)
  /\ Receive(t)
  /\ UNCHANGED value

\* swap: the new value replaces the old one, and the old one is returned.
Exchange(t, v) ==
  /\ last' = SwapBy(t, v)
  /\ Receive(t)
  /\ value' = v

\* store: swap, with the old value dropped.
Write(t, v) ==
  /\ last' = StoreBy(t, v)
  /\ value' = v
  /\ UNCHANGED ret

\* compareAndSwap with the value t last received as `current`.  A swap needs
\* a right guess; a right guess may still miss, because the comparison is of
\* object identity and two objects may have the same content.
TestAndSet(t, v) ==
  /\ last' = CasBy(t, v)
  /\ Receive(t)
  /\ \/ ret[t] = value /\ value' = v
     \/ UNCHANGED value

\* rcu: read, update and write back with nobody in between.
Update(t, f) ==
  /\ last' = RcuBy(t, f)
  /\ Receive(t)
  /\ value' = f[value]

CellNext ==
  \E t \in Threads :
    \/ Read(t)
    \/ \E v \in Vals : Exchange(t, v) \/ Write(t, v) \/ TestAndSet(t, v)
    \/ \E f \in Fns : Update(t, f)

CellSpec == CellInit /\ [][CellNext]_cellVars
=============================================================================
