---------------------------- MODULE Cache_proofs ----------------------------
(***************************************************************************)
(* What load() of a Cache returns, for every set of threads, caches,       *)
(* handles, projections and values.                                        *)
(***************************************************************************)
EXTENDS Cache, TLAPS

\* What t may find in the field of its cache without being to blame.
Allowed(t) == current[t] \cup excused[t]

\* The call t is in has a loaded value that was current since it began.
LoadedIsCurrent ==
  \A t \in Threads : (At(t, "compare") \/ At(t, "write")) => ret[t] \in current[t]

\* What is stored now is current during every call in progress.
ValueIsCurrent == \A t \in Threads : InCall(t) => value \in current[t]

\* A call that could still write the field writes nothing the others on the
\* same cache may not find there.
OverlapsAreExcused ==
  \A t, u \in Threads :
    (InCall(t) /\ InCall(u) /\ Field(t) = Field(u)) => current[u] \subseteq Allowed(t)

\* Once revalidated, the field holds something allowed, whoever wrote it last.
FieldIsAllowed ==
  \A t \in Threads : At(t, "read") => cached[Field(t)] \in Allowed(t)

IInv ==
  /\ CacheTypeOK
  /\ LoadedIsCurrent
  /\ ValueIsCurrent
  /\ OverlapsAreExcused
  /\ FieldIsAllowed
  /\ FreshResult

-----------------------------------------------------------------------------
\* Typing.

\* A thread that has made a call has the record of one.
LEMMA CallTyped ==
  ASSUME CacheTypeOK, NEW t \in Threads, call[t] # <<>>
  PROVE  /\ call[t] \in Call
         /\ Field(t) \in Caches
         /\ call[t].handle.projection \in [Vals -> Vals]
BY DEF CacheTypeOK, Call, Handle, Field

\* Going on to another point of a call changes nothing but the point.
LEMMA GotoKeeps ==
  ASSUME CacheTypeOK, NEW t \in Threads, call[t] # <<>>,
         NEW pc \in {"loadFull", "compare", "write", "read", "done"}, Goto(t, pc)
  PROVE  /\ call' \in [Threads -> {<<>>} \cup Call]
         /\ call'[t] # <<>> /\ call'[t].pc = pc
         /\ call'[t].handle = call[t].handle /\ call'[t].result = call[t].result
         /\ call'[t].op = call[t].op
         /\ \A u \in Threads : u # t => call'[u] = call[u]
<1>1. call[t] \in Call
  BY CallTyped
<1>2. [call[t] EXCEPT !.pc = pc] \in Call
  BY <1>1 DEF Call
<1>3. call' = [call EXCEPT ![t] = [call[t] EXCEPT !.pc = pc]]
  BY DEF Goto, CacheTypeOK
<1>4. [call[t] EXCEPT !.pc = pc] # <<>>
  BY <1>2 DEF Call
<1>5. QED  BY <1>1, <1>2, <1>3, <1>4 DEF CacheTypeOK, Call
-----------------------------------------------------------------------------
\* The invariant is inductive.

LEMMA InitIInv == CacheInit => IInv
BY DEF CacheInit, IInv, CacheTypeOK, CellInit, CellTypeOK, Operation, LoadedIsCurrent,
       ValueIsCurrent, OverlapsAreExcused, FieldIsAllowed, FreshResult, At, InCall, Loaded

\* A store elsewhere in the program: what it stores is current for all.
LEMMA StoreIInv ==
  ASSUME IInv, NEW t \in Threads, Store(t)
  PROVE  IInv'
<1>1. PICK v \in Vals : Write(t, v)
  BY DEF Store
<1>2. UNCHANGED <<cached, call, excused, ret>> /\ value' = v
  BY <1>1 DEF Store, Write
<1>3. \A u \in Threads :
        current'[u] = IF InCall(u) THEN current[u] \cup {v} ELSE current[u]
  BY <1>2 DEF Store, Witness
<1>4. CacheTypeOK'
  BY <1>1, <1>2 DEF IInv, CacheTypeOK, CellTypeOK, Store, Witness, Write, Operation, StoreBy
<1>5. LoadedIsCurrent' /\ ValueIsCurrent'
  BY <1>2, <1>3 DEF IInv, LoadedIsCurrent, ValueIsCurrent, At, InCall
<1>6. OverlapsAreExcused'
  BY <1>2, <1>3 DEF IInv, OverlapsAreExcused, Allowed, Field, InCall
<1>7. FieldIsAllowed'
  BY <1>2, <1>3 DEF IInv, FieldIsAllowed, Allowed, Field, At
<1>8. FreshResult'
  BY <1>2, <1>3 DEF IInv, FreshResult, Loaded, At
<1>9. QED  BY <1>4, <1>5, <1>6, <1>7, <1>8 DEF IInv

\* A new call excuses the calls on its cache that are going on.
LEMMA BeginIInv ==
  ASSUME IInv, NEW t \in Threads, NEW h \in Users[t],
         NEW op \in {"load", "revalidate"}, Begin(t, h, op)
  PROVE  IInv'
<1> DEFINE new == [handle |-> h, op |-> op, result |-> cached[h.cache], pc |-> "loadFull"]
<1>1. h \in Handle
  BY UsersAssumption
<1>2. new \in Call /\ new # <<>> /\ new.pc = "loadFull"
  BY <1>1 DEF IInv, CacheTypeOK, Call, Handle
<1>3. /\ UNCHANGED <<value, ret, last, cached>>
      /\ call' = [call EXCEPT ![t] = new]
      /\ current' = [current EXCEPT ![t] = {value}]
      /\ excused' = [excused EXCEPT ![t] =
           UNION {current[u] : u \in {u \in Threads : InCall(u) /\ Field(u) = h.cache}}]
      /\ ~InCall(t)
  BY DEF Begin, cellVars
<1> HIDE DEF new
<1>4. CacheTypeOK'
  BY <1>2, <1>3 DEF IInv, CacheTypeOK, CellTypeOK
<1>5. /\ call'[t] = new /\ current'[t] = {value}
      /\ \A u \in Threads : u # t => /\ call'[u] = call[u]
                                     /\ current'[u] = current[u]
                                     /\ excused'[u] = excused[u]
  BY <1>3 DEF IInv, CacheTypeOK
<1>6. LoadedIsCurrent' /\ ValueIsCurrent'
  BY <1>2, <1>3, <1>5 DEF IInv, LoadedIsCurrent, ValueIsCurrent, At, InCall
<1>7. OverlapsAreExcused'
  <2> SUFFICES ASSUME NEW x \in Threads, NEW y \in Threads,
                      InCall(x)', InCall(y)', Field(x)' = Field(y)'
               PROVE  current'[y] \subseteq Allowed(x)'
    BY DEF OverlapsAreExcused
  <2>1. CASE x = y
    BY <2>1 DEF Allowed
  <2>2. CASE x = t /\ y # t
    <3>1. InCall(y) /\ Field(y) = h.cache
      <4>1. Field(t)' = h.cache
        BY <1>5 DEF Field, new
      <4>2. QED  BY <1>5, <2>2, <4>1 DEF InCall, Field
    <3>2. current[y] \subseteq excused'[t]
      BY <1>3, <3>1 DEF IInv, CacheTypeOK
    <3>3. QED  BY <1>5, <2>2, <3>2 DEF Allowed
  <2>3. CASE x # t /\ y = t
    <3>1. InCall(x)
      BY <1>5, <2>3 DEF InCall
    <3>2. value \in current[x]
      BY <3>1 DEF IInv, ValueIsCurrent
    <3>3. QED  BY <1>5, <2>3, <3>2 DEF Allowed
  <2>4. CASE x # t /\ y # t
    <3>1. InCall(x) /\ InCall(y) /\ Field(x) = Field(y)
      BY <1>5, <2>4 DEF InCall, Field
    <3>2. current[y] \subseteq Allowed(x)
      BY <3>1 DEF IInv, OverlapsAreExcused
    <3>3. QED  BY <1>5, <2>4, <3>2 DEF Allowed
  <2>5. QED  BY <2>1, <2>2, <2>3, <2>4
<1>8. FieldIsAllowed'
  BY <1>2, <1>3, <1>5 DEF IInv, FieldIsAllowed, Allowed, Field, At
<1>9. FreshResult'
  BY <1>2, <1>3, <1>5 DEF IInv, FreshResult, Loaded, At
<1>10. QED  BY <1>4, <1>6, <1>7, <1>8, <1>9 DEF IInv

\* What the steps inside a call have in common: the histories and the storage
\* stay as they are, and nobody else's call moves.
Inside(t, pc) ==
  /\ InCall(t)
  /\ call[t].pc # "done" /\ call'[t] # <<>> /\ call'[t].pc = pc
  /\ call'[t].handle = call[t].handle
  /\ call' \in [Threads -> {<<>>} \cup Call]
  /\ \A u \in Threads : u # t => call'[u] = call[u]
  /\ UNCHANGED <<value, current, excused>>

LEMMA InsideKeeps ==
  ASSUME IInv, NEW t \in Threads, NEW pc, Inside(t, pc)
  PROVE  /\ ValueIsCurrent'
         /\ OverlapsAreExcused'
         /\ \A u \in Threads : call[u] # <<>> => Field(u)' = Field(u)
         /\ \A u \in Threads : Allowed(u)' = Allowed(u)
<1>1. \A u \in Threads : InCall(u)' => InCall(u)
  BY DEF Inside, InCall
<1>2. \A u \in Threads : call[u] # <<>> => Field(u)' = Field(u)
  BY DEF Inside, Field
<1>3. \A u \in Threads : Allowed(u)' = Allowed(u)
  BY DEF Inside, Allowed
<1>4. ValueIsCurrent'
  BY <1>1 DEF IInv, ValueIsCurrent, Inside
<1>5. OverlapsAreExcused'
  BY <1>1, <1>2, <1>3 DEF IInv, OverlapsAreExcused, Inside, InCall
<1>6. QED  BY <1>2, <1>3, <1>4, <1>5

\* loadFull() returns what is current.
LEMMA LoadFullIInv ==
  ASSUME IInv, NEW t \in Threads, LoadFull(t)
  PROVE  IInv'
<1>1. call[t] # <<>> /\ call[t].pc = "loadFull" /\ Goto(t, "compare")
      /\ ret' = [ret EXCEPT ![t] = value] /\ last' = LoadBy(t)
      /\ UNCHANGED <<value, cached, current, excused>>
  BY DEF LoadFull, Read, Receive, At
<1>2. Inside(t, "compare")
  BY <1>1, GotoKeeps DEF IInv, Inside, InCall
<1>3. CacheTypeOK'
  BY <1>1, <1>2 DEF IInv, CacheTypeOK, CellTypeOK, Inside, Operation, LoadBy
<1>4. LoadedIsCurrent'
  <2>1. value \in current[t]
    BY <1>1 DEF IInv, ValueIsCurrent, InCall
  <2>2. QED  BY <1>1, <1>2, <2>1 DEF IInv, LoadedIsCurrent, CacheTypeOK, CellTypeOK, Inside, At
<1>5. FieldIsAllowed'
  BY <1>1, <1>2, InsideKeeps DEF IInv, FieldIsAllowed, Inside, At
<1>6. FreshResult'
  BY <1>1, <1>2 DEF IInv, FreshResult, Loaded, Inside, At
<1>7. QED  BY <1>2, <1>3, <1>4, <1>5, <1>6, InsideKeeps DEF IInv

\* Equal to what was loaded: the field is as good as the storage was.
LEMMA CompareIInv ==
  ASSUME IInv, NEW t \in Threads, Compare(t)
  PROVE  IInv'
<1> DEFINE pc == IF cached[Field(t)] # ret[t] THEN "write" ELSE AfterRevalidate(t)
<1>1. call[t] # <<>> /\ call[t].pc = "compare" /\ Goto(t, pc)
      /\ UNCHANGED <<value, ret, last, cached, current, excused>>
  BY DEF Compare, At, cellVars
<1>2. pc \in {"write", "read", "done"}
  BY DEF AfterRevalidate
<1>3. Inside(t, pc)
  BY <1>1, <1>2, GotoKeeps DEF IInv, Inside, InCall
<1>4. ret[t] \in current[t]
  BY <1>1 DEF IInv, LoadedIsCurrent, At
<1>5. CacheTypeOK'
  BY <1>1, <1>3 DEF IInv, CacheTypeOK, CellTypeOK, Inside
<1>6. LoadedIsCurrent'
  BY <1>1, <1>3, <1>4 DEF IInv, LoadedIsCurrent, Inside, At
<1>7. FieldIsAllowed'
  <2>1. pc = "read" => cached[Field(t)] \in Allowed(t)
    BY <1>4 DEF Allowed
  <2> HIDE DEF pc
  <2>2. QED  BY <1>1, <1>3, <2>1, InsideKeeps DEF IInv, FieldIsAllowed, Inside, At
<1>8. FreshResult'
  <2>1. pc = "done" => call'[t].op = "revalidate"
    BY <1>1, <1>2, GotoKeeps, CallTyped DEF AfterRevalidate, IInv, Call
  <2> HIDE DEF pc
  <2>2. QED  BY <1>1, <1>3, <2>1 DEF IInv, FreshResult, Loaded, Inside, At
<1>9. QED  BY <1>3, <1>5, <1>6, <1>7, <1>8, InsideKeeps DEF IInv

\* The write: allowed for its own call, and excused for those it overlaps.
LEMMA RefreshIInv ==
  ASSUME IInv, NEW t \in Threads, Refresh(t)
  PROVE  IInv'
<1> DEFINE pc == AfterRevalidate(t)
<1>1. call[t] # <<>> /\ call[t].pc = "write" /\ Goto(t, pc)
      /\ cached' = [cached EXCEPT ![Field(t)] = ret[t]]
      /\ UNCHANGED <<value, ret, last, current, excused>>
  BY DEF Refresh, At, cellVars
<1>2. pc \in {"read", "done"}
  BY DEF AfterRevalidate
<1>3. Inside(t, pc)
  BY <1>1, <1>2, GotoKeeps DEF IInv, Inside, InCall
<1>4. ret[t] \in current[t] /\ InCall(t) /\ Field(t) \in Caches
  BY <1>1, CallTyped DEF IInv, LoadedIsCurrent, At, InCall
<1>5. CacheTypeOK'
  BY <1>1, <1>3, <1>4 DEF IInv, CacheTypeOK, CellTypeOK, Inside
<1>6. LoadedIsCurrent'
  BY <1>1, <1>2, <1>3 DEF IInv, LoadedIsCurrent, Inside, At
<1>7. FieldIsAllowed'
  <2> SUFFICES ASSUME NEW u \in Threads, At(u, "read")'
               PROVE  cached'[Field(u)'] \in Allowed(u)'
    BY DEF FieldIsAllowed
  <2>1. InCall(u) /\ (u # t => At(u, "read"))
    BY <1>3 DEF Inside, At, InCall
  <2>2. Field(u)' = Field(u) /\ Allowed(u)' = Allowed(u) /\ Field(u) \in Caches
    BY <1>3, <2>1, InsideKeeps, CallTyped DEF InCall, IInv
  <2>3. CASE Field(u) = Field(t)
    <3>1. ret[t] \in Allowed(u)
      BY <1>4, <2>1, <2>3 DEF IInv, OverlapsAreExcused
    <3>2. QED  BY <1>1, <1>4, <2>2, <2>3, <3>1 DEF IInv, CacheTypeOK
  <2>4. CASE Field(u) # Field(t)
    <3>1. cached[Field(u)] \in Allowed(u)
      BY <2>1, <2>4 DEF IInv, FieldIsAllowed
    <3>2. QED  BY <1>1, <1>4, <2>2, <2>4, <3>1 DEF IInv, CacheTypeOK
  <2>5. QED  BY <2>3, <2>4
<1>8. FreshResult'
  <2>1. pc = "done" => call'[t].op = "revalidate"
    BY <1>1, <1>2, GotoKeeps, CallTyped DEF AfterRevalidate, IInv, Call
  <2> HIDE DEF pc
  <2>2. QED  BY <1>1, <1>3, <2>1 DEF IInv, FreshResult, Loaded, Inside, At
<1>9. QED  BY <1>3, <1>5, <1>6, <1>7, <1>8, InsideKeeps DEF IInv

\* The second look at the field, projected.
LEMMA ReturnIInv ==
  ASSUME IInv, NEW t \in Threads, Return(t)
  PROVE  IInv'
<1> DEFINE v == cached[Field(t)]
           res == call[t].handle.projection[v]
           c == [[call[t] EXCEPT !.pc = "done"] EXCEPT !.result = res]
<1>1. call[t] # <<>> /\ call[t].pc = "read"
      /\ UNCHANGED <<value, ret, last, cached, current, excused>>
  BY DEF Return, At, cellVars
<1>2. call[t] \in Call /\ v \in Vals /\ res \in Vals
  BY <1>1, CallTyped DEF IInv, CacheTypeOK
<1>3. /\ c \in Call /\ c # <<>> /\ c.pc = "done" /\ c.result = res
      /\ c.handle = call[t].handle /\ c.op = call[t].op
  <2> HIDE DEF v, res
  <2>1. c \in Call
    BY <1>2 DEF Call
  <2>2. c.pc = "done" /\ c.result = res /\ c.handle = call[t].handle /\ c.op = call[t].op
    BY <1>2 DEF Call
  <2> HIDE DEF c
  <2>3. c # <<>>
    BY <2>1 DEF Call
  <2>4. QED  BY <2>1, <2>2, <2>3
<1>4. call' = [call EXCEPT ![t] = c]
  BY DEF Return, IInv, CacheTypeOK
<1> HIDE DEF c
<1>5. call'[t] = c /\ \A u \in Threads : u # t => call'[u] = call[u]
  BY <1>4 DEF IInv, CacheTypeOK
<1>6. Inside(t, "done")
  BY <1>1, <1>3, <1>4, <1>5 DEF Inside, InCall, IInv, CacheTypeOK
<1>7. CacheTypeOK'
  BY <1>1, <1>6 DEF IInv, CacheTypeOK, CellTypeOK, Inside
<1>8. LoadedIsCurrent'
  BY <1>1, <1>6 DEF IInv, LoadedIsCurrent, Inside, At
<1>9. FieldIsAllowed'
  BY <1>1, <1>6, InsideKeeps DEF IInv, FieldIsAllowed, Inside, At
<1>10. FreshResult'
  <2>1. v \in Allowed(t)
    BY <1>1 DEF IInv, FieldIsAllowed, At
  <2>2. call'[t].result = call'[t].handle.projection[v]
    BY <1>3, <1>5
  <2>3. v \in current'[t] \cup excused'[t]
    BY <1>1, <2>1 DEF Allowed
  <2> HIDE DEF v, res
  <2>4. QED  BY <1>1, <1>5, <2>2, <2>3 DEF IInv, FreshResult, Loaded, At
<1>11. QED  BY <1>6, <1>7, <1>8, <1>9, <1>10, InsideKeeps DEF IInv

LEMMA NextIInv == IInv /\ [CacheNext]_allVars => IInv'
<1> SUFFICES ASSUME IInv, [CacheNext]_allVars
             PROVE  IInv'
  OBVIOUS
<1>1. CASE UNCHANGED allVars
  BY <1>1 DEF IInv, CacheTypeOK, CellTypeOK, LoadedIsCurrent, ValueIsCurrent,
              OverlapsAreExcused, FieldIsAllowed, FreshResult, Allowed, At, InCall,
              Field, Loaded, allVars, cellVars, cacheVars
<1>2. CASE CacheNext
  BY <1>2, StoreIInv, BeginIInv, LoadFullIInv, CompareIInv, RefreshIInv, ReturnIInv
     DEF CacheNext
<1>3. QED  BY <1>1, <1>2

\* The storage, the fields of the caches and the calls in progress hold what
\* their classes say, for every thread (Cache.kt:27-69).
THEOREM CacheTypeCorrect == CacheSpec => []CacheTypeOK
<1>1. IInv => CacheTypeOK
  BY DEF IInv
<1>2. QED  BY <1>1, InitIInv, NextIInv, PTL DEF CacheSpec

\* However calls on a shared cache interleave with each other and with stores,
\* load() returns an object that was current during the call, or during a call
\* on the same cache that was going on when it began (Cache.kt:44-69).
THEOREM LoadIsFresh == CacheSpec => []FreshResult
<1>1. CacheInit => IInv
  BY InitIInv
<1>2. IInv /\ [CacheNext]_allVars => IInv'
  BY NextIInv
<1>3. IInv => FreshResult
  BY DEF IInv
<1>4. QED  BY <1>1, <1>2, <1>3, PTL DEF CacheSpec
-----------------------------------------------------------------------------
\* A cache with one user.

\* A thread calls load() on handles it has.
HandlesAreUsed == \A t \in Threads : call[t] # <<>> => call[t].handle \in Users[t]

\* Nobody overlaps the calls a thread makes on a cache only it uses.
SoleExcusesNothing ==
  \A t \in Threads : (call[t] # <<>> /\ Sole(t, Field(t))) => excused[t] = {}

SoleInv == IInv /\ HandlesAreUsed /\ SoleExcusesNothing

LEMMA NextSoleInv == SoleInv /\ [CacheNext]_allVars => SoleInv'
<1> SUFFICES ASSUME SoleInv, [CacheNext]_allVars
             PROVE  HandlesAreUsed' /\ SoleExcusesNothing'
  BY NextIInv DEF SoleInv
<1> USE DEF SoleInv
<1>1. CASE UNCHANGED allVars
  BY <1>1 DEF HandlesAreUsed, SoleExcusesNothing, Field, allVars, cacheVars
<1>2. ASSUME NEW t \in Threads, Store(t)
      PROVE  HandlesAreUsed' /\ SoleExcusesNothing'
  BY <1>2 DEF Store, HandlesAreUsed, SoleExcusesNothing, Field
<1>3. ASSUME NEW t \in Threads, NEW h \in Users[t], NEW op \in {"load", "revalidate"},
             Begin(t, h, op)
      PROVE  HandlesAreUsed' /\ SoleExcusesNothing'
  <2> DEFINE new == [handle |-> h, op |-> op, result |-> cached[h.cache], pc |-> "loadFull"]
             overlapping == {u \in Threads : InCall(u) /\ Field(u) = h.cache}
  <2>1. /\ call' = [call EXCEPT ![t] = new]
        /\ excused' = [excused EXCEPT ![t] = UNION {current[u] : u \in overlapping}]
        /\ ~InCall(t)
        /\ new.handle = h
    BY <1>3 DEF Begin
  <2>2. HandlesAreUsed'
    <3> HIDE DEF new
    <3>1. QED  BY <2>1 DEF HandlesAreUsed, IInv, CacheTypeOK
  <2>3. Sole(t, h.cache) => overlapping = {}
    <3> SUFFICES ASSUME Sole(t, h.cache), NEW u \in Threads, InCall(u), Field(u) = h.cache
                 PROVE  FALSE
      OBVIOUS
    <3>1. u # t /\ call[u].handle \in Users[u]
      BY <2>1 DEF HandlesAreUsed, InCall
    <3>2. QED  BY <3>1 DEF Sole, Field
  <2>4. SoleExcusesNothing'
    <3> HIDE DEF overlapping, new
    <3>1. Sole(t, h.cache) => excused'[t] = {}
      BY <2>1, <2>3 DEF IInv, CacheTypeOK
    <3>2. call'[t].handle = h
      BY <2>1 DEF IInv, CacheTypeOK
    <3>3. \A u \in Threads : u # t => excused'[u] = excused[u] /\ call'[u] = call[u]
      BY <2>1 DEF IInv, CacheTypeOK
    <3>4. QED  BY <3>1, <3>2, <3>3 DEF SoleExcusesNothing, Field
  <2>5. QED  BY <2>2, <2>4
<1>4. ASSUME NEW t \in Threads, LoadFull(t) \/ Compare(t) \/ Refresh(t) \/ Return(t)
      PROVE  HandlesAreUsed' /\ SoleExcusesNothing'
  <2>1. call[t] # <<>> /\ excused' = excused
    BY <1>4 DEF LoadFull, Compare, Refresh, Return, At
  <2>2. call'[t].handle = call[t].handle /\ \A u \in Threads : u # t => call'[u] = call[u]
    <3>1. CASE LoadFull(t)
      BY <2>1, <3>1, GotoKeeps DEF LoadFull, IInv
    <3>2. CASE Compare(t)
      BY <2>1, <3>2, GotoKeeps DEF Compare, AfterRevalidate, IInv
    <3>3. CASE Refresh(t)
      BY <2>1, <3>3, GotoKeeps DEF Refresh, AfterRevalidate, IInv
    <3>4. CASE Return(t)
      BY <2>1, <3>4, CallTyped DEF Return, IInv, CacheTypeOK, Call
    <3>5. QED  BY <1>4, <3>1, <3>2, <3>3, <3>4
  <2>3. QED  BY <2>1, <2>2 DEF HandlesAreUsed, SoleExcusesNothing, Field
<1>5. QED  BY <1>1, <1>2, <1>3, <1>4 DEF CacheNext

\* A cache that one thread uses never gives it anything older than its call:
\* what load() returns was in the storage while load() ran (Cache.kt:44-50).
THEOREM SoleUserLoadIsFresh == CacheSpec => []SoleUserFresh
<1>1. CacheInit => SoleInv
  BY InitIInv DEF CacheInit, SoleInv, HandlesAreUsed, SoleExcusesNothing
<1>2. SoleInv /\ [CacheNext]_allVars => SoleInv'
  BY NextSoleInv
<1>3. SoleInv => SoleUserFresh
  BY DEF SoleInv, IInv, FreshResult, SoleExcusesNothing, SoleUserFresh, Loaded, At
<1>4. QED  BY <1>1, <1>2, <1>3, PTL DEF CacheSpec
=============================================================================
