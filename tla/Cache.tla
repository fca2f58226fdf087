-------------------------------- MODULE Cache --------------------------------
(***************************************************************************)
(* Cache and MapCache of Cache.kt over an ArcSwapAny that behaves as       *)
(* AtomicCell says (ArcSwapAny_proofs!RefinesAtomicCell).  A value is here *)
(* an object, so that `!==` is #, and ret[t] is the local `current` of     *)
(* revalidate().                                                           *)
(*                                                                         *)
(* revalidate() takes three steps, each of which other threads may come    *)
(* between: it loads the storage, compares the plain field `cached` with   *)
(* what it got, and writes the field.  load() reads the field once more    *)
(* after that.  Mapped caches share the field of the cache they came from. *)
(***************************************************************************)
EXTENDS AtomicCell

CONSTANTS
  Caches,    \* the Cache objects
  Users      \* Users[t]: the handles thread t uses

(***************************************************************************)
(* A handle is a Cache or a MapCache: the cache whose field it reads and   *)
(* the projection it applies, the identity for the cache itself.           *)
(***************************************************************************)
Handle == [cache : Caches, projection : [Vals -> Vals]]

ASSUME UsersAssumption == Users \in [Threads -> SUBSET Handle]

VARIABLES
  cached,    \* cached[c]: the field of cache c
  call,      \* call[t]: t's present or last call of load() or revalidate()
  current,   \* history: the values that were current during that call
  excused    \* history: those current during calls it overlapped, before it

cacheVars == <<cached, call, current, excused>>

allVars == <<cellVars, cacheVars>>

Call ==
  [handle : Handle, op : {"load", "revalidate"}, result : Vals,
   pc : {"loadFull", "compare", "write", "read", "done"}]

CacheTypeOK ==
  /\ CellTypeOK
  /\ cached \in [Caches -> Vals]
  /\ call \in [Threads -> {<<>>} \cup Call]
  /\ current \in [Threads -> SUBSET Vals]
  /\ excused \in [Threads -> SUBSET Vals]

-----------------------------------------------------------------------------
InCall(t) == call[t] # <<>> /\ call[t].pc # "done"

At(t, pc) == call[t] # <<>> /\ call[t].pc = pc

Field(t) == call[t].handle.cache

Goto(t, pc) == call' = [call EXCEPT ![t].pc = pc]

\* What becomes current now is current during every call in progress.
Witness == current' = [t \in Threads |->
  IF InCall(t) THEN current[t] \cup {value'} ELSE current[t]]

\* The rest of the program goes on changing the storage.  What a swap, a
\* compareAndSwap or an rcu does to its content, a store can do too.
Store(t) ==
  /\ ~InCall(t)
  /\ \E v \in Vals : Write(t, v)
  /\ Witness
  /\ UNCHANGED <<cached, call, excused>>

-----------------------------------------------------------------------------
\* load() and revalidate().

Begin(t, h, op) ==
  /\ ~InCall(t)
  /\ call' = [call EXCEPT ![t] =
       [handle |-> h, op |-> op, result |-> cached[h.cache], pc |-> "loadFull"]]
  /\ current' = [current EXCEPT ![t] = {value}]
  /\ excused' = [excused EXCEPT ![t] =
       UNION {current[u] : u \in {u \in Threads : InCall(u) /\ Field(u) = h.cache}}]
  /\ UNCHANGED <<cellVars, cached>>

\* Mutant: the storage is not loaded again.
SkippedLoadFull(t) ==
  /\ At(t, "loadFull")
  /\ Goto(t, "compare")
  /\ UNCHANGED <<cellVars, cached, current, excused>>

\* val current = arcSwap.loadFull()
LoadFull(t) ==
  /\ At(t, "loadFull")
  /\ Read(t)
  /\ Goto(t, "compare")
  /\ UNCHANGED <<cached, current, excused>>

\* Mutant: a standalone revalidate() falls through into load().
FallThrough(t) == call[t].op

AfterRevalidate(t) == IF call[t].op = "load" THEN "read" ELSE "done"

\* Mutant: the comparison is inverted.
InvertedCompare(t) ==
  /\ At(t, "compare")
  /\ Goto(t, IF cached[Field(t)] = ret[t] THEN "write" ELSE AfterRevalidate(t))
  /\ UNCHANGED <<cellVars, cached, current, excused>>

\* if (cached !== current)
Compare(t) ==
  /\ At(t, "compare")
  /\ Goto(t, IF cached[Field(t)] # ret[t] THEN "write" ELSE AfterRevalidate(t))
  /\ UNCHANGED <<cellVars, cached, current, excused>>

\* cached = current
Refresh(t) ==
  /\ At(t, "write")
  /\ cached' = [cached EXCEPT ![Field(t)] = ret[t]]
  /\ Goto(t, AfterRevalidate(t))
  /\ UNCHANGED <<cellVars, current, excused>>

\* return projection(loadNoRevalidate())
Return(t) ==
  /\ At(t, "read")
  /\ call' = [call EXCEPT ![t].pc = "done",
                          ![t].result = call[t].handle.projection[cached[Field(t)]]]
  /\ UNCHANGED <<cellVars, cached, current, excused>>

-----------------------------------------------------------------------------
\* A cache starts with what the storage held, or with what its creator chose.
CacheInit ==
  /\ CellInit
  /\ cached \in [Caches -> Vals]
  /\ call = [t \in Threads |-> <<>>]
  /\ current = [t \in Threads |-> {}]
  /\ excused = [t \in Threads |-> {}]

CacheNext ==
  \E t \in Threads :
    \/ Store(t)
    \/ \E h \in Users[t], op \in {"load", "revalidate"} : Begin(t, h, op)
    \/ LoadFull(t)
    \/ Compare(t)
    \/ Refresh(t)
    \/ Return(t)

CacheSpec == CacheInit /\ [][CacheNext]_allVars

-----------------------------------------------------------------------------
\* Properties.

Loaded(t) == At(t, "done") /\ call[t].op = "load"

\* load() returns the projection of an object that was in the storage at some
\* moment of the call, or, when the cache is shared, of a call on the same
\* cache that was still going on when this one began: a slow revalidation may
\* put an older object back, but never after it has ended (Cache.kt:44-69).
FreshResult ==
  \A t \in Threads : Loaded(t) =>
    \E v \in current[t] \cup excused[t] : call[t].result = call[t].handle.projection[v]

\* No other thread has a handle on cache k.
Sole(t, k) == \A u \in Threads \ {t} : \A h \in Users[u] : h.cache # k

\* A cache that only one thread uses excuses nothing: its load() returns what
\* was current during the call, as a load() of the storage would, whatever
\* that thread and others do with other caches (Cache.kt:44-50).
SoleUserFresh ==
  \A t \in Threads : (Loaded(t) /\ Sole(t, Field(t))) =>
    \E v \in current[t] : call[t].result = call[t].handle.projection[v]
=============================================================================
