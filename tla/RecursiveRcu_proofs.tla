------------------------- MODULE RecursiveRcu_proofs -------------------------
(***************************************************************************)
(* What holds of nested rcu calls that count, for any number of threads    *)
(* and any limit, whether or not equal numbers share a box.                *)
(*                                                                         *)
(* The invariant follows one number, the content stored: it only grows,    *)
(* every call has looked at a number that is not above it, and once it has *)
(* reached Limit each thread has at most one increment left to make.       *)
(***************************************************************************)
EXTENDS RecursiveRcu, ArcSwapAny_proofs, FiniteSetTheorems

\* The number stored.
Stored == heap[ptr]

\* The calls of a thread, by nesting.
Shape(t) ==
  /\ Depth(t) \in {0, 1, 2}
  /\ (phase[t] = "running") = (Depth(t) > 0)
  /\ Depth(t) > 0 => stack[t][1].fn = Same
  /\ Depth(t) = 2 => stack[t][1].pc = "eval" /\ stack[t][2].fn = Plus1
  /\ counted[t] => Depth(t) = 1

\* What a call has looked at was stored before; if its callback has counted
\* since, it is no longer.
Past(t) ==
  /\ \A i \in DOMAIN stack[t] : stack[t][i].seen <= Stored
  /\ counted[t] => stack[t][1].seen < Stored

\* An outer callback returns, and an outer call returns, for a reason.
Decided(t) ==
  /\ Depth(t) = 1 /\ stack[t][1].pc = "cas" => counted[t] \/ stack[t][1].seen >= Limit
  /\ phase[t] = "done" => Stored >= Limit

Sound(t) == Shape(t) /\ Past(t) /\ Decided(t)

\* The threads that may still count on the strength of what they have seen.
Counts(t) ==
  \/ Depth(t) = 2
  \/ Depth(t) = 1 /\ ~counted[t] /\ stack[t][1].seen < Limit

Counting == {t \in Threads : Counts(t)}

Overshoot ==
  Stored >= Limit => Stored + Cardinality(Counting) < Limit + Cardinality(Threads)

Boxes == boxCache => \A v \in Vals : heap[v] = v

ClientInv ==
  /\ Inv
  /\ ClientTypeOK
  /\ \A t \in Threads : Sound(t)
  /\ Boxes /\ Overshoot
  /\ NoLostIncrement

-----------------------------------------------------------------------------
\* There is always a free address for a new box.

\* The i-th object that t keeps reachable, counting the one stored.
KeptBy(t, i) ==
  LET s == stack[t] IN
    IF i = 1 THEN held[t]
    ELSE IF i = 2 /\ Len(s) >= 1 THEN s[1].cur
    ELSE IF i = 3 /\ Len(s) >= 1 THEN s[1].new
    ELSE IF i = 4 /\ Len(s) = 2 THEN s[2].cur
    ELSE IF i = 5 /\ Len(s) = 2 THEN s[2].new
    ELSE ptr

Kept == [k \in Threads \X (1..6) |-> KeptBy(k[1], k[2])]

LEMMA KeptAt ==
  ASSUME NEW t \in Threads
  PROVE  /\ \A i \in 1..6 : Kept[<<t, i>>] = KeptBy(t, i)
         /\ Kept[<<t, 1>>] = held[t]
         /\ Len(stack[t]) >= 1 =>
              Kept[<<t, 2>>] = stack[t][1].cur /\ Kept[<<t, 3>>] = stack[t][1].new
         /\ Len(stack[t]) = 2 =>
              Kept[<<t, 4>>] = stack[t][2].cur /\ Kept[<<t, 5>>] = stack[t][2].new
         /\ Kept[<<t, 6>>] = ptr
<1>1. \A i \in 1..6 : Kept[<<t, i>>] = KeptBy(t, i)
  BY DEF Kept
<1>2. 1 \in 1..6 /\ 2 \in 1..6 /\ 3 \in 1..6 /\ 4 \in 1..6 /\ 5 \in 1..6 /\ 6 \in 1..6
  OBVIOUS
<1>3. KeptBy(t, 1) = held[t] /\ KeptBy(t, 6) = ptr
  BY DEF KeptBy
<1>4. Len(stack[t]) >= 1 => KeptBy(t, 2) = stack[t][1].cur /\ KeptBy(t, 3) = stack[t][1].new
  BY DEF KeptBy
<1>5. Len(stack[t]) = 2 => KeptBy(t, 4) = stack[t][2].cur /\ KeptBy(t, 5) = stack[t][2].new
  BY DEF KeptBy
<1> HIDE DEF KeptBy, Kept
<1>6. QED  BY <1>1, <1>2, <1>3, <1>4, <1>5

LEMMA LiveIsSmall ==
  ASSUME TypeOK, \A t \in Threads : Depth(t) \in {0, 1, 2}
  PROVE  IsFiniteSet(Live) /\ Cardinality(Live) <= 6 * Cardinality(Threads)
<1> DEFINE S == Threads \X (1..6)
<1>1. IsFiniteSet(S) /\ Cardinality(S) = 6 * Cardinality(Threads)
  <2>1. IsFiniteSet(1..6) /\ Cardinality(1..6) = 6
    <3>1. 1 \in Int /\ 6 \in Int
      OBVIOUS
    <3>2. IsFiniteSet(1..6) /\ Cardinality(1..6) = IF 1 > 6 THEN 0 ELSE 6 - 1 + 1
      BY <3>1, FS_Interval
    <3>3. QED  BY <3>2
  <2>2. IsFiniteSet(S) /\ Cardinality(S) = Cardinality(Threads) * Cardinality(1..6)
    BY <2>1, NumbersAssumption, FS_Product
  <2>3. Cardinality(Threads) \in Nat
    BY NumbersAssumption, FS_CardinalityType
  <2> HIDE DEF S
  <2>4. QED  BY <2>1, <2>2, <2>3
<1>2. \A t \in Threads : stack[t] \in Seq(Frame) /\ Len(stack[t]) \in {0, 1, 2}
  BY DEF TypeOK, Depth
<1>3. Kept \in [S -> Live]
  <2> SUFFICES ASSUME NEW t \in Threads, NEW i \in 1..6 PROVE KeptBy(t, i) \in Live
    BY DEF Kept
  <2>1. /\ Len(stack[t]) >= 1 => 1 \in DOMAIN stack[t]
        /\ Len(stack[t]) = 2 => 2 \in DOMAIN stack[t]
    BY <1>2
  <2>2. /\ ptr \in Live /\ held[t] \in Live
        /\ Len(stack[t]) >= 1 => stack[t][1].cur \in Live /\ stack[t][1].new \in Live
        /\ Len(stack[t]) = 2 => stack[t][2].cur \in Live /\ stack[t][2].new \in Live
    BY <2>1, Roots
  <2>3. QED  BY <2>2 DEF KeptBy
<1>4. \A x \in Live : \E k \in S : Kept[k] = x
  <2>1. ASSUME NEW x, x = ptr PROVE \E k \in S : Kept[k] = x
    <3>1. PICK t \in Threads : TRUE
      BY NumbersAssumption
    <3>2. Kept[<<t, 6>>] = ptr
      BY KeptAt
    <3>3. QED  BY <2>1, <3>2
  <2>2. ASSUME NEW t \in Threads PROVE \E k \in S : Kept[k] = held[t]
    <3>1. Kept[<<t, 1>>] = held[t]
      BY KeptAt
    <3>2. QED  BY <3>1
  <2>3. ASSUME NEW t \in Threads, NEW i \in DOMAIN stack[t]
        PROVE  /\ \E k \in S : Kept[k] = stack[t][i].cur
               /\ \E k \in S : Kept[k] = stack[t][i].new
    <3>1. (i = 1 /\ Len(stack[t]) >= 1) \/ (i = 2 /\ Len(stack[t]) = 2)
      BY <1>2
    <3>2. CASE i = 1 /\ Len(stack[t]) >= 1
      <4>1. Kept[<<t, 2>>] = stack[t][i].cur /\ Kept[<<t, 3>>] = stack[t][i].new
        BY <3>2, KeptAt
      <4>2. QED  BY <4>1
    <3>3. CASE i = 2 /\ Len(stack[t]) = 2
      <4>1. Kept[<<t, 4>>] = stack[t][i].cur /\ Kept[<<t, 5>>] = stack[t][i].new
        BY <3>3, KeptAt
      <4>2. QED  BY <4>1
    <3>4. QED  BY <3>1, <3>2, <3>3
  <2>4. QED  BY <2>1, <2>2, <2>3 DEF Live, StackRoots, FrameRoots
<1>5. Kept \in Surjection(S, Live)
  BY <1>3, <1>4 DEF Surjection
<1> HIDE DEF S
<1>6. QED  BY <1>1, <1>5, FS_Surjection

LEMMA FreeAddress ==
  ASSUME TypeOK, \A t \in Threads : Depth(t) \in {0, 1, 2}
  PROVE  \E r \in Refs : r \notin Live
<1> SUFFICES ASSUME Refs \subseteq Live PROVE FALSE
  OBVIOUS
<1>1. IsFiniteSet(Live) /\ Cardinality(Live) <= 6 * Cardinality(Threads)
  BY LiveIsSmall
<1>2. IsFiniteSet(Refs) /\ Cardinality(Refs) <= Cardinality(Live)
  BY <1>1, FS_Subset
<1>3. /\ Cardinality(Threads) \in Nat /\ Cardinality(Refs) \in Nat
      /\ Cardinality(Live) \in Nat
  BY <1>1, <1>2, NumbersAssumption, FS_CardinalityType
<1>4. QED  BY <1>1, <1>2, <1>3, NumbersAssumption

\* The box of a number is an object that a callback may return.
LEMMA BoxYields ==
  ASSUME TypeOK, Boxes, \A t \in Threads : Depth(t) \in {0, 1, 2}, NEW v \in Vals
  PROVE  /\ Box(v) \in Refs
         /\ Box(v) \notin Live \/ heap[Box(v)] = v
         /\ boxCache => Box(v) = v
<1>1. CASE boxCache
  BY <1>1, NumbersAssumption DEF Box, Boxes
<1>2. CASE ~boxCache
  BY <1>2, FreeAddress DEF Box
<1>3. QED  BY <1>1, <1>2

-----------------------------------------------------------------------------
\* What a step changes.

LEMMA Numbers ==
  ASSUME ClientInv
  PROVE  /\ Stored \in Vals /\ Stored \in Nat /\ Limit \in Nat
         /\ Cardinality(Threads) \in Nat
         /\ IsFiniteSet(Counting) /\ Cardinality(Counting) \in Nat
<1>1. Stored \in Vals
  BY DEF ClientInv, Inv, TypeOK, Stored
<1>2. IsFiniteSet(Counting)
  BY NumbersAssumption, FS_Subset DEF Counting
<1>3. QED
  BY <1>1, <1>2, NumbersAssumption, LimitAssumption, FS_CardinalityType

LEMMA Frames ==
  ASSUME TypeOK, NEW t \in Threads
  PROVE  /\ stack[t] \in Seq(Frame) /\ Depth(t) = Len(stack[t]) /\ Depth(t) \in Nat
         /\ \A i \in 1..Depth(t) :
              /\ i \in DOMAIN stack[t] /\ stack[t][i] \in Frame
              /\ stack[t][i].seen \in Nat
<1>1. stack[t] \in Seq(Frame)
  BY DEF TypeOK
<1>2. \A fr \in Frame : fr.seen \in Nat
  BY NumbersAssumption DEF Frame
<1>3. QED  BY <1>1, <1>2 DEF Depth

\* A thread that does nothing stays sound while the number grows.
LEMMA SoundKept ==
  ASSUME ClientInv, TypeOK', NEW t \in Threads,
         stack'[t] = stack[t], phase'[t] = phase[t], counted'[t] = counted[t],
         Stored' \in Nat, Stored' >= Stored
  PROVE  Sound(t)' /\ Counts(t)' = Counts(t)
<1>1. Sound(t) /\ TypeOK /\ Stored \in Nat /\ Limit \in Nat
  BY Numbers DEF ClientInv, Inv
<1>2. Depth(t)' = Depth(t)
  BY DEF Depth
<1>3. Shape(t)'
  BY <1>1, <1>2 DEF Sound, Shape
<1>4. Past(t)'
  <2>1. \A i \in DOMAIN stack[t] : stack[t][i].seen \in Nat /\ stack[t][i].seen <= Stored
    BY <1>1, Frames DEF Sound, Past
  <2>2. counted[t] => stack[t][1].seen \in Nat /\ stack[t][1].seen < Stored
    BY <1>1, Frames DEF Sound, Past, Shape
  <2>3. QED  BY <1>1, <2>1, <2>2 DEF Past
<1>5. Decided(t)'
  BY <1>1, <1>2 DEF Sound, Decided
<1>6. Counts(t)' = Counts(t)
  BY <1>2 DEF Counts
<1>7. QED  BY <1>3, <1>4, <1>5, <1>6 DEF Sound

\* Past the limit each increment uses up one thread that counts, and nobody
\* joins them.
LEMMA OvershootKept ==
  ASSUME ClientInv, Stored' \in Nat,
         Stored' >= Limit =>
           \/ Stored' = Stored /\ Counting' \subseteq Counting
           \/ /\ Stored' = Stored + 1
              /\ \E t \in Counting : Counting' \subseteq Counting \ {t}
  PROVE  Overshoot'
<1> SUFFICES ASSUME Stored' >= Limit
             PROVE  Stored' + Cardinality(Counting') < Limit + Cardinality(Threads)
  BY DEF Overshoot
<1>1. /\ Stored \in Nat /\ Limit \in Nat /\ Cardinality(Threads) \in Nat
      /\ IsFiniteSet(Counting) /\ Cardinality(Counting) \in Nat /\ Overshoot
  BY Numbers DEF ClientInv
<1>2. CASE Stored' = Stored /\ Counting' \subseteq Counting
  <2>1. Cardinality(Counting') <= Cardinality(Counting) /\ Cardinality(Counting') \in Nat
    BY <1>1, <1>2, FS_Subset, FS_CardinalityType
  <2>2. QED  BY <1>1, <1>2, <2>1 DEF Overshoot
<1>3. ASSUME Stored' = Stored + 1,
             NEW t \in Counting, Counting' \subseteq Counting \ {t}
      PROVE  Stored' + Cardinality(Counting') < Limit + Cardinality(Threads)
  <2>1. /\ IsFiniteSet(Counting \ {t})
        /\ Cardinality(Counting \ {t}) = Cardinality(Counting) - 1
    BY <1>1, FS_RemoveElement
  <2>2. Cardinality(Counting') \in Nat /\ Cardinality(Counting') <= Cardinality(Counting) - 1
    BY <1>3, <2>1, FS_Subset, FS_CardinalityType
  <2>3. Cardinality(Counting) <= Cardinality(Threads)
    BY NumbersAssumption, FS_Subset DEF Counting
  <2>4. QED  BY <1>1, <1>3, <2>2, <2>3 DEF Overshoot
<1>4. QED  BY <1>2, <1>3

\* What is left to show of a step of t.
LEMMA StepOf ==
  ASSUME ClientInv, Next, NEW t \in Threads,
         boxCache' = boxCache, phase' \in [Threads -> {"ready", "running", "done"}],
         counted' \in [Threads -> BOOLEAN], incs' \in Nat,
         \A u \in Threads \ {t} : /\ stack'[u] = stack[u]
                                  /\ phase'[u] = phase[u] /\ counted'[u] = counted[u],
         Sound(t)', Boxes', Stored' = incs',
         \/ Stored' = Stored /\ (Stored >= Limit /\ Counts(t)' => Counts(t))
         \/ Stored' = Stored + 1 /\ Counts(t) /\ ~Counts(t)'
  PROVE  ClientInv'
<1>1. Inv'
  BY InvInductive DEF ClientInv
<1>2. ClientTypeOK'
  BY <1>1 DEF Inv, ClientTypeOK, ClientInv
<1>3. Stored \in Nat /\ Stored' \in Nat /\ Stored' >= Stored
  BY Numbers
<1>4. \A u \in Threads \ {t} : Sound(u)' /\ Counts(u)' = Counts(u)
  BY <1>1, <1>3, SoundKept DEF Inv
<1>5. \A u \in Threads : Sound(u)'
  BY <1>4
<1>6. CASE Stored' = Stored /\ (Stored >= Limit /\ Counts(t)' => Counts(t))
  <2>1. Stored' >= Limit => Counting' \subseteq Counting
    BY <1>4, <1>6 DEF Counting
  <2>2. Overshoot'
    BY <1>3, <1>6, <2>1, OvershootKept
  <2>3. QED  BY <1>1, <1>2, <1>5, <2>2 DEF ClientInv, NoLostIncrement, Stored
<1>7. CASE Stored' = Stored + 1 /\ Counts(t) /\ ~Counts(t)'
  <2>1. t \in Counting /\ Counting' \subseteq Counting \ {t}
    BY <1>4, <1>7 DEF Counting
  <2>2. Overshoot'
    BY <1>3, <1>7, <2>1, OvershootKept
  <2>3. QED  BY <1>1, <1>2, <1>5, <2>2 DEF ClientInv, NoLostIncrement, Stored
<1>8. QED  BY <1>6, <1>7

\* What a step of t is to the counter.
LEMMA CounterStep ==
  ASSUME NEW t \in Threads,
         \A u \in Threads \ {t} : /\ stack'[u] = stack[u]
                                  /\ phase'[u] = phase[u] /\ counted'[u] = counted[u]
  PROVE  /\ /\ Stored' = Stored /\ Stance(t) \in {"ready", "added"}
            /\ Stance(t)' = IF Stored < Limit THEN "low" ELSE "high"
            => Counter!Look(t)
         /\ Stored' = Stored + 1 /\ Stance(t) = "low" /\ Stance(t)' = "added" => Counter!Add(t)
         /\ Stored' = Stored /\ Stance(t) = "high" /\ Stance(t)' = "done" => Counter!Finish(t)
         /\ Stored' = Stored /\ Stance(t)' = Stance(t) => UNCHANGED Counter!counterVars
<1> DEFINE stances == [u \in Threads |-> Stance(u)]
<1>1. \A u \in Threads \ {t} : Stance(u)' = Stance(u)
  BY DEF Stance, Depth
<1>2. stances' = [stances EXCEPT ![t] = Stance(t)']
  BY <1>1
<1>3. stances[t] = Stance(t)
  OBVIOUS
<1>4. Stance(t)' = Stance(t) => stances' = stances
  BY <1>1
<1> HIDE DEF stances
<1>5. QED
  BY <1>2, <1>3, <1>4
     DEF stances, Stored, Counter!Look, Counter!Add, Counter!Finish, Counter!counterVars

-----------------------------------------------------------------------------
\* The steps of the program are steps of the storage, are those of the counter
\* or nothing to it, and keep the invariant.

LEMMA CallOuterKeeps ==
  ASSUME ClientInv, NEW t \in Threads, CallOuter(t)
  PROVE  Next /\ ClientInv' /\ Counter!Look(t)
<1> DEFINE e == Iteration(Same)
<1>1. RcuLoad(t, Same) /\ Same \in Fns /\ Next
  BY CallbacksAssumption DEF CallOuter, Next
<1>2. TypeOK /\ Sound(t) /\ ClientTypeOK /\ NoLostIncrement /\ Boxes
  BY DEF ClientInv, Inv
<1>3. Depth(t) = 0 /\ phase[t] = "ready"
  BY <1>2 DEF CallOuter, Sound, Shape
<1>4. stack' = [stack EXCEPT ![t] = Append(stack[t], e)] /\ UNCHANGED <<ptr, heap>>
  BY <1>1 DEF RcuLoad
<1>5. /\ phase' = [phase EXCEPT ![t] = "running"] /\ counted' = [counted EXCEPT ![t] = FALSE]
      /\ UNCHANGED <<boxCache, incs>>
  BY DEF CallOuter
<1>6. stack[t] \in Seq(Frame) /\ stack[t] = <<>> /\ Len(stack[t]) = 0
  BY <1>2, <1>3, Frames
<1>7. stack'[t] = <<e>> /\ Depth(t)' = 1
  BY <1>2, <1>4, <1>6 DEF Depth, TypeOK
<1>8. e.fn = Same /\ e.pc = "eval" /\ e.seen = Stored
  BY DEF Iteration, Stored
<1>9. Stored' = Stored /\ Stored \in Nat /\ Limit \in Nat
  BY <1>4, Numbers DEF Stored
<1>10. phase'[t] = "running" /\ counted'[t] = FALSE
  BY <1>2, <1>5 DEF ClientTypeOK
<1> HIDE DEF e
<1>11. Sound(t)'
  <2>1. stack'[t][1] = e /\ DOMAIN stack'[t] = {1}
    BY <1>7
  <2>2. Shape(t)'
    BY <1>7, <1>8, <1>10, <2>1 DEF Shape
  <2>3. Past(t)'
    BY <1>8, <1>9, <1>10, <2>1 DEF Past
  <2>4. Decided(t)'
    BY <1>8, <1>10, <2>1 DEF Decided
  <2>5. QED  BY <2>2, <2>3, <2>4 DEF Sound
<1>12. Stored >= Limit => ~Counts(t)'
  BY <1>7, <1>8, <1>9 DEF Counts
<1>13. Boxes' /\ Stored' = incs'
  BY <1>2, <1>4, <1>5 DEF Boxes, NoLostIncrement, Stored
<1>14. \A u \in Threads \ {t} : /\ stack'[u] = stack[u]
                               /\ phase'[u] = phase[u] /\ counted'[u] = counted[u]
  BY <1>2, <1>4, <1>5 DEF TypeOK, ClientTypeOK
<1>15. /\ phase' \in [Threads -> {"ready", "running", "done"}]
       /\ counted' \in [Threads -> BOOLEAN] /\ incs' \in Nat
  BY <1>2, <1>5 DEF ClientTypeOK
<1>16. ClientInv'
  BY <1>1, <1>5, <1>9, <1>11, <1>12, <1>13, <1>14, <1>15, StepOf
<1>17. Stance(t) = "ready" /\ Stance(t)' = IF Stored < Limit THEN "low" ELSE "high"
  <2>1. stack'[t] # <<>> /\ stack'[t][1].seen = Stored /\ Limit' = Limit
    BY <1>7, <1>8
  <2>2. QED  BY <1>3, <1>6, <1>7, <1>10, <2>1 DEF Stance
<1>18. QED  BY <1>1, <1>9, <1>14, <1>16, <1>17, CounterStep

LEMMA CallInnerKeeps ==
  ASSUME ClientInv, NEW t \in Threads, CallInner(t)
  PROVE  Next /\ ClientInv' /\ UNCHANGED Counter!counterVars
<1> DEFINE e == Iteration(Plus1)
<1>1. RcuLoad(t, Plus1) /\ Plus1 \in Fns /\ Next
  BY CallbacksAssumption DEF CallInner, Next
<1>2. TypeOK /\ GuardsPin /\ Sound(t) /\ ClientTypeOK /\ NoLostIncrement /\ Boxes
  BY DEF ClientInv, Inv
<1>3. Depth(t) = 1 /\ ~counted[t] /\ heap[Top(t).cur] < Limit
  BY DEF CallInner
<1>4. stack' = [stack EXCEPT ![t] = Append(stack[t], e)] /\ UNCHANGED <<ptr, heap>>
  BY <1>1 DEF RcuLoad
<1>5. UNCHANGED <<boxCache, phase, counted, incs>>
  BY DEF CallInner, clientVars
<1>6. stack[t] \in Seq(Frame) /\ Len(stack[t]) = 1 /\ Top(t) = stack[t][1]
  BY <1>2, <1>3, Frames DEF Top
<1>7. /\ stack'[t] = Append(stack[t], e) /\ Depth(t)' = 2 /\ DOMAIN stack'[t] = {1, 2}
      /\ stack'[t][1] = stack[t][1] /\ stack'[t][2] = e
  <2>0. e \in Frame
    BY <1>1, <1>2, IterationIsFrame
  <2> HIDE DEF e
  <2>1. stack'[t] = Append(stack[t], e)
    BY <1>2, <1>4 DEF TypeOK
  <2>2. Len(Append(stack[t], e)) = 2 /\ DOMAIN Append(stack[t], e) = 1..2
    <3>1. Append(stack[t], e) \in Seq(Frame) /\ Len(Append(stack[t], e)) = Len(stack[t]) + 1
      BY <1>6, <2>0, Push
    <3>2. QED  BY <1>6, <3>1
  <2>3. Append(stack[t], e)[1] = stack[t][1] /\ Append(stack[t], e)[2] = e
    BY <1>6, <2>0
  <2>4. 1..2 = {1, 2}
    OBVIOUS
  <2>5. QED  BY <2>1, <2>2, <2>3, <2>4 DEF Depth
<1>8. e.fn = Plus1 /\ e.seen = Stored
  BY DEF Iteration, Stored
<1>9. Stored' = Stored /\ Stored \in Nat
  BY <1>4, Numbers DEF Stored
<1>10. stack[t][1].pc = "eval" /\ stack[t][1].seen < Limit
  BY <1>1, <1>2, <1>3, <1>6 DEF RcuLoad, RunsCallerCode, GuardsPin
<1> HIDE DEF e
<1>11. Sound(t)'
  <2>1. Shape(t)'
    BY <1>2, <1>3, <1>5, <1>7, <1>8, <1>10 DEF Sound, Shape
  <2>2. stack[t][1].seen <= Stored
    BY <1>2, <1>6 DEF Sound, Past
  <2>3. Past(t)'
    BY <1>3, <1>5, <1>7, <1>8, <1>9, <2>2 DEF Past
  <2>4. Decided(t)'
    BY <1>2, <1>3, <1>5, <1>7, <1>9 DEF Sound, Shape, Decided
  <2>5. QED  BY <2>1, <2>3, <2>4 DEF Sound
<1>12. Counts(t)
  BY <1>3, <1>10 DEF Counts
<1>13. Boxes' /\ Stored' = incs'
  BY <1>2, <1>4, <1>5 DEF Boxes, NoLostIncrement, Stored
<1>14. \A u \in Threads \ {t} : /\ stack'[u] = stack[u]
                               /\ phase'[u] = phase[u] /\ counted'[u] = counted[u]
  BY <1>2, <1>4, <1>5 DEF TypeOK
<1>15. ClientInv'
  BY <1>1, <1>2, <1>5, <1>9, <1>11, <1>12, <1>13, <1>14, StepOf DEF ClientTypeOK
<1>16. Stance(t) = "low" /\ Stance(t)' = "low"
  BY <1>3, <1>5, <1>6, <1>7, <1>10 DEF Stance
<1>17. QED  BY <1>1, <1>9, <1>14, <1>15, <1>16, CounterStep

LEMMA ReturnKeeps ==
  ASSUME ClientInv, NEW t \in Threads, Return(t)
  PROVE  Next /\ ClientInv' /\ UNCHANGED Counter!counterVars
<1> DEFINE n == Depth(t)
           v == Top(t).fn[heap[Top(t).cur]]
           r == Box(v)
           e == [Top(t) EXCEPT !.pc = "cas", !.new = r]
<1>1. TypeOK /\ GuardsPin /\ Sound(t) /\ ClientTypeOK /\ NoLostIncrement /\ Boxes
  BY DEF ClientInv, Inv
<1>2. n \in {1, 2} /\ (n = 1 => counted[t] \/ heap[Top(t).cur] >= Limit)
  BY <1>1 DEF Return, Sound, Shape
<1>3. RcuEval(t, r) /\ UNCHANGED <<boxCache, phase, counted, incs>>
  BY DEF Return, clientVars
<1>4. /\ stack[t] \in Seq(Frame) /\ Len(stack[t]) = n /\ stack[t] # <<>> /\ n \in DOMAIN stack[t]
      /\ Top(t) = stack[t][n] /\ Top(t) \in Frame
  BY <1>1, <1>2, Frames DEF Top
<1>5. v \in Vals
  BY <1>1, <1>4, FnsAssumption DEF Frame, TypeOK
<1>6. r \in Refs /\ (boxCache => r = v)
  BY <1>1, <1>5, BoxYields DEF ClientInv, Sound, Shape
<1>7. Next
  BY <1>3, <1>6 DEF Next
<1>8. Yields(r, v) /\ ptr' = ptr /\ stack' = [stack EXCEPT ![t] = [stack[t] EXCEPT ![n] = e]]
  BY <1>1, <1>3 DEF RcuEval, Rewrite, TypeOK
<1>9. Stored' = Stored /\ Stored \in Nat /\ Limit \in Nat
  BY <1>1, <1>5, <1>6, <1>8, ContentsKept, Numbers DEF Stored
<1>10. Boxes'
  BY <1>1, <1>3, <1>6, <1>8 DEF Boxes, Yields, TypeOK
<1>11. e.fn = Top(t).fn /\ e.seen = Top(t).seen /\ e \in Frame
  BY <1>4, <1>6 DEF Frame
<1>12. heap[Top(t).cur] = Top(t).seen
  BY <1>1, <1>4 DEF GuardsPin
<1> HIDE DEF e, r, v
<1>13. /\ Depth(t)' = n /\ DOMAIN stack'[t] = DOMAIN stack[t] /\ stack'[t][n] = e
       /\ \A i \in DOMAIN stack[t] : i # n => stack'[t][i] = stack[t][i]
  BY <1>1, <1>4, <1>8, <1>11 DEF Depth, TypeOK
<1>14. /\ stack'[t][1].fn = stack[t][1].fn /\ stack'[t][1].seen = stack[t][1].seen
       /\ n = 2 => stack'[t][1] = stack[t][1] /\ stack'[t][2].fn = stack[t][2].fn
  BY <1>2, <1>4, <1>11, <1>13
<1>15. Sound(t)'
  <2>1. Shape(t)'
    BY <1>1, <1>2, <1>3, <1>13, <1>14 DEF Sound, Shape
  <2>2. \A i \in DOMAIN stack[t] : stack'[t][i].seen = stack[t][i].seen
    BY <1>4, <1>11, <1>13
  <2>3. Past(t)'
    BY <1>1, <1>3, <1>9, <1>13, <1>14, <2>2 DEF Sound, Past
  <2>4. n = 1 => counted[t] \/ stack[t][1].seen >= Limit
    BY <1>2, <1>4, <1>12
  <2>5. Decided(t)'
    BY <1>1, <1>2, <1>3, <1>9, <1>13, <1>14, <2>4 DEF Sound, Shape, Decided
  <2>6. QED  BY <2>1, <2>3, <2>5 DEF Sound
<1>16. Counts(t)' = Counts(t)
  BY <1>2, <1>3, <1>13, <1>14 DEF Counts
<1>17. Stored' = incs'
  BY <1>1, <1>3, <1>9 DEF NoLostIncrement, Stored
<1>18. \A u \in Threads \ {t} : /\ stack'[u] = stack[u]
                               /\ phase'[u] = phase[u] /\ counted'[u] = counted[u]
  BY <1>1, <1>3, <1>8 DEF TypeOK
<1>19. ClientInv'
  BY <1>1, <1>3, <1>7, <1>9, <1>10, <1>15, <1>16, <1>17, <1>18, StepOf DEF ClientTypeOK
<1>20. Stance(t)' = Stance(t)
  BY <1>2, <1>3, <1>4, <1>13, <1>14 DEF Stance
<1>21. QED  BY <1>7, <1>9, <1>18, <1>19, <1>20, CounterStep

\* An rcu that misses starts over, and its callback has not counted yet.
LEMMA RetryKeeps ==
  ASSUME ClientInv, NEW t \in Threads, Cas(t), Top(t).cur # ptr
  PROVE  ClientInv' /\ (Counter!Look(t) \/ UNCHANGED Counter!counterVars)
<1> DEFINE n == Depth(t)
           e == Iteration(Top(t).fn)
<1>1. TypeOK /\ Sound(t) /\ ClientTypeOK /\ NoLostIncrement /\ Boxes
  BY DEF ClientInv, Inv
<1>2. n \in {1, 2} /\ RcuCas(t) /\ Next
  BY <1>1 DEF Cas, Sound, Shape, Next
<1>3. /\ stack[t] \in Seq(Frame) /\ Len(stack[t]) = n /\ stack[t] # <<>> /\ n \in DOMAIN stack[t]
      /\ Top(t) = stack[t][n] /\ Top(t) \in Frame
  BY <1>1, <1>2, Frames DEF Top
<1>4. /\ UNCHANGED <<ptr, heap>>
      /\ stack' = [stack EXCEPT ![t] = [stack[t] EXCEPT ![n] = e]]
  BY <1>1, <1>2 DEF RcuCas, CompareAndExchange, SameObject, Rewrite, TypeOK
<1>5. /\ incs' = incs /\ phase' = phase /\ boxCache' = boxCache
      /\ counted' = [counted EXCEPT ![t] = FALSE]
  BY DEF Cas
<1>6. e.fn = Top(t).fn /\ e.seen = Stored /\ e.pc = "eval"
  BY DEF Iteration, Stored
<1>7. e \in Frame
  BY <1>1, <1>3, IterationIsFrame DEF Frame
<1> HIDE DEF e
<1>8. /\ Depth(t)' = n /\ DOMAIN stack'[t] = DOMAIN stack[t] /\ stack'[t][n] = e
      /\ \A i \in DOMAIN stack[t] : i # n => stack'[t][i] = stack[t][i]
  BY <1>1, <1>3, <1>4, <1>7 DEF Depth, TypeOK
<1>9. Stored' = Stored /\ Stored \in Nat /\ Limit \in Nat
  BY <1>4, Numbers DEF Stored
<1>10. counted'[t] = FALSE
  BY <1>1, <1>5 DEF ClientTypeOK
<1>11. /\ stack'[t][1].fn = stack[t][1].fn
       /\ n = 2 => stack'[t][1] = stack[t][1] /\ stack'[t][2].fn = stack[t][2].fn
       /\ n = 1 => stack'[t][1] = e
  BY <1>2, <1>3, <1>6, <1>8
<1>12. Sound(t)'
  <2>1. Shape(t)'
    BY <1>1, <1>2, <1>5, <1>8, <1>10, <1>11 DEF Sound, Shape
  <2>2. \A i \in DOMAIN stack[t] : stack'[t][i].seen <= Stored
    BY <1>1, <1>6, <1>8, <1>9 DEF Sound, Past
  <2>3. Past(t)'
    BY <1>8, <1>9, <1>10, <2>2 DEF Past
  <2>4. Decided(t)'
    BY <1>1, <1>2, <1>5, <1>6, <1>8, <1>9, <1>11 DEF Sound, Decided
  <2>5. QED  BY <2>1, <2>3, <2>4 DEF Sound
<1>13. Stored >= Limit /\ Counts(t)' => Counts(t)
  BY <1>2, <1>6, <1>8, <1>9, <1>11 DEF Counts
<1>14. Boxes' /\ Stored' = incs'
  BY <1>1, <1>4, <1>5, <1>9 DEF Boxes, NoLostIncrement, Stored
<1>15. \A u \in Threads \ {t} : /\ stack'[u] = stack[u]
                               /\ phase'[u] = phase[u] /\ counted'[u] = counted[u]
  BY <1>1, <1>4, <1>5 DEF TypeOK, ClientTypeOK
<1>16. ClientInv'
  BY <1>1, <1>2, <1>5, <1>9, <1>12, <1>13, <1>14, <1>15, StepOf DEF ClientTypeOK
<1>17. stack[t] # <<>> /\ stack'[t] # <<>>
  BY <1>2, <1>3, <1>8 DEF Depth
<1>18. CASE n = 2
  <2>1. ~counted[t]
    BY <1>1, <1>18 DEF Sound, Shape
  <2>2. Stance(t) = "low" /\ Stance(t)' = "low"
    BY <1>8, <1>10, <1>17, <1>18, <2>1 DEF Stance
  <2>3. QED  BY <1>9, <1>15, <1>16, <2>2, CounterStep
<1>19. CASE n = 1
  <2>1. stack[t][1].pc = "cas" /\ stack[t][1].seen \in Nat /\ stack[t][1].seen <= Stored
    BY <1>1, <1>2, <1>3, <1>19, Frames DEF RcuCas, Sound, Past
  <2>2. Stance(t) = "added" \/ (Stance(t) = "high" /\ Stored >= Limit)
    BY <1>1, <1>9, <1>17, <1>19, <2>1 DEF Stance, Sound, Decided
  <2>3. Stance(t)' = IF Stored < Limit THEN "low" ELSE "high"
    BY <1>6, <1>8, <1>10, <1>11, <1>17, <1>19 DEF Stance
  <2>4. QED  BY <1>9, <1>15, <1>16, <2>2, <2>3, CounterStep
<1>20. QED  BY <1>2, <1>18, <1>19

\* An inner rcu that returns has made one increment, from the number stored.
LEMMA InnerReturnKeeps ==
  ASSUME ClientInv, NEW t \in Threads, Cas(t), Top(t).cur = ptr, Depth(t) = 2
  PROVE  ClientInv' /\ Counter!Add(t)
<1>1. TypeOK /\ GuardsPin /\ Sound(t) /\ ClientTypeOK /\ NoLostIncrement /\ Boxes /\ Overshoot
  BY DEF ClientInv, Inv
<1>2. RcuCas(t) /\ Next
  BY DEF Cas, Next
<1>3. /\ stack[t] \in Seq(Frame) /\ Len(stack[t]) = 2 /\ stack[t] # <<>>
      /\ Top(t) = stack[t][2] /\ Top(t) \in Frame /\ Pop(t) = SubSeq(stack[t], 1, 1)
  <2>1. stack[t] \in Seq(Frame) /\ Len(stack[t]) = 2 /\ stack[t][2] \in Frame
    <3>1. stack[t] \in Seq(Frame) /\ Len(stack[t]) = 2
      BY <1>1, Frames
    <3>2. QED  BY <3>1
  <2>2. Top(t) = stack[t][2] /\ Pop(t) = SubSeq(stack[t], 1, 2 - 1)
    BY DEF Top, Pop
  <2>3. QED  BY <2>1, <2>2
<1>4. /\ ptr' = Top(t).new /\ heap' = heap /\ Top(t).pc = "cas"
      /\ stack' = [stack EXCEPT ![t] = Pop(t)]
  BY <1>2 DEF RcuCas, CompareAndExchange, SameObject
<1>5. /\ incs' = incs + 1 /\ phase' = phase /\ boxCache' = boxCache
      /\ counted' = [counted EXCEPT ![t] = TRUE]
  BY DEF Cas
<1>6. /\ stack'[t] = Pop(t) /\ Depth(t)' = 1 /\ DOMAIN stack'[t] = {1}
      /\ stack'[t][1] = stack[t][1]
  BY <1>1, <1>3, <1>4 DEF Depth, TypeOK
<1>7. Counts(t) /\ t \in Counting
  BY DEF Counts, Counting
<1>8. /\ Stored \in Nat /\ Stored \in Vals /\ Limit \in Nat /\ Cardinality(Threads) \in Nat
      /\ IsFiniteSet(Counting) /\ Cardinality(Counting) \in Nat
  BY Numbers
<1>9. Stored + 1 \in Vals
  <2>1. Cardinality(Counting) # 0
    BY <1>7, <1>8, FS_EmptySet
  <2>2. Cardinality(Threads) # 0
    BY NumbersAssumption, FS_EmptySet
  <2>3. Stored + 1 \in 0..(Limit + Cardinality(Threads))
    BY <1>1, <1>8, <2>1, <2>2 DEF Overshoot
  <2>4. QED  BY <2>3, NumbersAssumption
<1>10. Stored' = Stored + 1
  <2>1. Top(t).fn = Plus1 /\ heap[Top(t).cur] = Top(t).seen
        /\ heap[Top(t).new] = Top(t).fn[Top(t).seen]
    BY <1>1, <1>3, <1>4 DEF Sound, Shape, GuardsPin
  <2>2. Stored' = Plus1[Stored]
    BY <1>4, <2>1 DEF Stored
  <2>3. QED  BY <1>8, <1>9, <2>2 DEF Plus1
<1>11. counted'[t] = TRUE
  BY <1>1, <1>5 DEF ClientTypeOK
<1>12. Sound(t)'
  <2>1. Shape(t)'
    BY <1>1, <1>5, <1>6, <1>11 DEF Sound, Shape
  <2>2. stack[t][1].seen \in Nat /\ stack[t][1].seen <= Stored
    BY <1>1, <1>3, Frames DEF Sound, Past
  <2>3. Past(t)'
    BY <1>6, <1>8, <1>10, <2>2 DEF Past
  <2>4. Decided(t)'
    BY <1>1, <1>5, <1>6, <1>8, <1>10, <1>11 DEF Sound, Shape, Decided
  <2>5. QED  BY <2>1, <2>3, <2>4 DEF Sound
<1>13. ~Counts(t)'
  BY <1>6, <1>11 DEF Counts
<1>14. Boxes' /\ Stored' = incs'
  BY <1>1, <1>4, <1>5, <1>10 DEF Boxes, NoLostIncrement, Stored
<1>15. \A u \in Threads \ {t} : /\ stack'[u] = stack[u]
                               /\ phase'[u] = phase[u] /\ counted'[u] = counted[u]
  BY <1>1, <1>4, <1>5 DEF TypeOK, ClientTypeOK
<1>16. /\ phase' \in [Threads -> {"ready", "running", "done"}]
       /\ counted' \in [Threads -> BOOLEAN] /\ incs' \in Nat
  BY <1>1, <1>5 DEF ClientTypeOK
<1>17. ClientInv'
  BY <1>2, <1>5, <1>7, <1>10, <1>12, <1>13, <1>14, <1>15, <1>16, StepOf
<1>18. Stance(t) = "low" /\ Stance(t)' = "added"
  <2>1. ~counted[t]
    BY <1>1 DEF Sound, Shape
  <2>2. stack'[t] # <<>>
    BY <1>6 DEF Depth
  <2>3. QED  BY <1>3, <1>11, <2>1, <2>2 DEF Stance
<1>19. QED  BY <1>10, <1>15, <1>17, <1>18, CounterStep

\* An outer rcu that returns has changed no number, and has seen the limit:
\* had its callback counted, it would have missed.
LEMMA OuterReturnKeeps ==
  ASSUME ClientInv, NEW t \in Threads, Cas(t), Top(t).cur = ptr, Depth(t) # 2
  PROVE  ClientInv' /\ Counter!Finish(t)
<1>1. TypeOK /\ GuardsPin /\ Sound(t) /\ ClientTypeOK /\ NoLostIncrement /\ Boxes
  BY DEF ClientInv, Inv
<1>2. RcuCas(t) /\ Next /\ Depth(t) = 1
  BY <1>1 DEF Cas, Next, Sound, Shape
<1>3. /\ stack[t] \in Seq(Frame) /\ Len(stack[t]) = 1 /\ stack[t] # <<>>
      /\ Top(t) = stack[t][1] /\ Top(t) \in Frame /\ Pop(t) = SubSeq(stack[t], 1, 0)
  <2>1. stack[t] \in Seq(Frame) /\ Len(stack[t]) = 1 /\ stack[t][1] \in Frame
    <3>1. stack[t] \in Seq(Frame) /\ Len(stack[t]) = 1
      BY <1>1, <1>2, Frames
    <3>2. QED  BY <3>1
  <2>2. Top(t) = stack[t][1] /\ Pop(t) = SubSeq(stack[t], 1, 1 - 1)
    BY <1>2 DEF Top, Pop
  <2>3. QED  BY <2>1, <2>2
<1>4. /\ ptr' = Top(t).new /\ heap' = heap /\ Top(t).pc = "cas"
      /\ stack' = [stack EXCEPT ![t] = Pop(t)]
  BY <1>2 DEF RcuCas, CompareAndExchange, SameObject
<1>5. /\ incs' = incs /\ phase' = [phase EXCEPT ![t] = "done"] /\ boxCache' = boxCache
      /\ counted' = [counted EXCEPT ![t] = FALSE]
  BY <1>2 DEF Cas
<1>6. stack'[t] = <<>> /\ Depth(t)' = 0 /\ DOMAIN stack'[t] = {}
  BY <1>1, <1>3, <1>4 DEF Depth, TypeOK
<1>7. Stored \in Nat /\ Stored \in Vals /\ Limit \in Nat
  BY Numbers
<1>8. Top(t).seen = Stored /\ Stored' = Stored
  <2>1. Top(t).fn = Same /\ heap[Top(t).cur] = Top(t).seen
        /\ heap[Top(t).new] = Top(t).fn[Top(t).seen]
    BY <1>1, <1>2, <1>3, <1>4 DEF Sound, Shape, GuardsPin
  <2>2. QED  BY <1>4, <1>7, <2>1 DEF Stored, Same
<1>9. Stored >= Limit
  BY <1>1, <1>2, <1>3, <1>4, <1>7, <1>8 DEF Sound, Past, Decided
<1>10. counted'[t] = FALSE /\ phase'[t] = "done"
  BY <1>1, <1>5 DEF ClientTypeOK
<1>11. Sound(t)'
  BY <1>6, <1>8, <1>9, <1>10 DEF Sound, Shape, Past, Decided
<1>12. ~Counts(t)'
  BY <1>6 DEF Counts
<1>13. Boxes' /\ Stored' = incs'
  BY <1>1, <1>4, <1>5, <1>8 DEF Boxes, NoLostIncrement, Stored
<1>14. \A u \in Threads \ {t} : /\ stack'[u] = stack[u]
                               /\ phase'[u] = phase[u] /\ counted'[u] = counted[u]
  BY <1>1, <1>4, <1>5 DEF TypeOK, ClientTypeOK
<1>15. /\ phase' \in [Threads -> {"ready", "running", "done"}]
       /\ counted' \in [Threads -> BOOLEAN] /\ incs' \in Nat
  BY <1>1, <1>5 DEF ClientTypeOK
<1>16. ClientInv'
  BY <1>2, <1>5, <1>8, <1>11, <1>12, <1>13, <1>14, <1>15, StepOf
<1>17. Stance(t) = "high" /\ Stance(t)' = "done"
  <2>1. ~counted[t] /\ stack[t][1].seen = Stored
    BY <1>1, <1>3, <1>7, <1>8 DEF Sound, Past
  <2>2. QED  BY <1>2, <1>3, <1>6, <1>7, <1>9, <1>10, <2>1 DEF Stance
<1>18. QED  BY <1>8, <1>14, <1>16, <1>17, CounterStep


-----------------------------------------------------------------------------
\* The invariant.

LEMMA ClientInitSound == ClientInit => Init /\ ClientInv
<1> SUFFICES ASSUME ClientInit PROVE Init /\ ClientInv
  OBVIOUS
<1>1. Limit \in Nat /\ Cardinality(Threads) \in Nat /\ Cardinality(Threads) # 0
  BY LimitAssumption, NumbersAssumption, FS_CardinalityType, FS_EmptySet
<1>2. 0 \in Vals /\ 0 \in Refs
  BY <1>1, NumbersAssumption
<1>3. heap \in [Refs -> Vals] /\ heap[ptr] = 0
  BY <1>2 DEF ClientInit
<1>4. Init
  BY <1>2, <1>3 DEF ClientInit, Init
<1>5. Inv
  BY <1>4, InvInductive
<1>6. \A t \in Threads : Depth(t) = 0 /\ stack[t] = <<>>
  BY DEF ClientInit, Depth
<1>7. \A t \in Threads : Sound(t)
  <2> SUFFICES ASSUME NEW t \in Threads PROVE Sound(t)
    OBVIOUS
  <2>1. phase[t] = "ready" /\ counted[t] = FALSE
    BY DEF ClientInit
  <2>2. QED  BY <1>6, <2>1 DEF Sound, Shape, Past, Decided
<1>8. Overshoot
  <2>1. Counting = {}
    BY <1>6 DEF Counting, Counts
  <2>2. QED  BY <1>1, <1>3, <2>1, FS_EmptySet DEF Overshoot, Stored
<1>9. ClientTypeOK /\ Boxes /\ NoLostIncrement
  BY <1>3, <1>5, NumbersAssumption DEF ClientInit, ClientTypeOK, Inv, Boxes, NoLostIncrement
<1>10. QED  BY <1>4, <1>5, <1>7, <1>8, <1>9 DEF ClientInv

LEMMA ClientStutter ==
  ASSUME ClientInv, UNCHANGED allVars
  PROVE  ClientInv' /\ UNCHANGED vars /\ UNCHANGED Counter!counterVars
<1>1. UNCHANGED <<ptr, heap, held, stack, last, boxCache, phase, counted, incs>>
  BY DEF allVars, vars, clientVars
<1>2. Inv'
  BY InvInductive DEF ClientInv, allVars
<1>3. \A t \in Threads : Sound(t)' = Sound(t) /\ Counts(t)' = Counts(t)
  BY <1>1 DEF Sound, Shape, Past, Decided, Counts, Depth, Stored
<1>4. Counting' = Counting
  BY <1>3 DEF Counting
<1>5. ClientInv' /\ UNCHANGED vars
  BY <1>1, <1>2, <1>3, <1>4 DEF ClientInv, Inv, ClientTypeOK, Boxes, NoLostIncrement,
                               Overshoot, Stored, vars
<1>6. \A t \in Threads : Stance(t)' = Stance(t)
  BY <1>1 DEF Stance, Depth
<1>7. UNCHANGED Counter!counterVars
  BY <1>1, <1>6 DEF Counter!counterVars
<1>8. QED  BY <1>5, <1>7

LEMMA ClientStep ==
  ClientInv /\ [ClientNext]_allVars =>
    ClientInv' /\ [Next]_vars /\ [Counter!CounterNext]_(Counter!counterVars)
<1> SUFFICES ASSUME ClientInv, [ClientNext]_allVars
             PROVE  /\ ClientInv' /\ [Next]_vars
                    /\ Counter!CounterNext \/ UNCHANGED Counter!counterVars
  OBVIOUS
<1>1. ASSUME NEW t \in Threads, CallOuter(t)
      PROVE  ClientInv' /\ [Next]_vars /\ Counter!CounterNext
  BY <1>1, CallOuterKeeps DEF Counter!CounterNext
<1>2. ASSUME NEW t \in Threads, CallInner(t)
      PROVE  ClientInv' /\ [Next]_vars /\ UNCHANGED Counter!counterVars
  BY <1>2, CallInnerKeeps
<1>3. ASSUME NEW t \in Threads, Return(t)
      PROVE  ClientInv' /\ [Next]_vars /\ UNCHANGED Counter!counterVars
  BY <1>3, ReturnKeeps
<1>4. ASSUME NEW t \in Threads, Cas(t)
      PROVE  /\ ClientInv' /\ [Next]_vars
             /\ Counter!CounterNext \/ UNCHANGED Counter!counterVars
  <2>1. /\ ClientInv'
        /\ \/ Counter!Look(t) \/ Counter!Add(t) \/ Counter!Finish(t)
           \/ UNCHANGED Counter!counterVars
    BY <1>4, RetryKeeps, InnerReturnKeeps, OuterReturnKeeps
  <2>2. Next
    BY <1>4 DEF Cas, Next
  <2>3. QED  BY <2>1, <2>2 DEF Counter!CounterNext
<1>5. CASE UNCHANGED allVars
  BY <1>5, ClientStutter
<1>6. QED
  BY <1>1, <1>2, <1>3, <1>4, <1>5 DEF ClientNext, Step, Finished

LEMMA ClientInvAlways == ClientSpec => []ClientInv
<1>1. ClientInit => ClientInv
  BY ClientInitSound
<1>2. ClientInv /\ [ClientNext]_allVars => ClientInv'
  BY ClientStep
<1>3. QED  BY <1>1, <1>2, PTL DEF ClientSpec

-----------------------------------------------------------------------------
\* The theorems.

\* The program uses the storage as its specification allows: it finds an
\* address for each box, and nests two calls at most.  Hence what is proved of
\* the storage holds of it (ArcSwapTest.recursive).
THEOREM ClientUsesStorage == ClientSpec => Spec
<1>1. ClientInit => Init
  BY ClientInitSound
<1>2. ClientInv /\ [ClientNext]_allVars => [Next]_vars
  BY ClientStep
<1>3. QED  BY <1>1, <1>2, ClientInvAlways, PTL DEF ClientSpec, Spec

\* The program and the storage keep their types: the calls of the recursive
\* test nest no deeper than the storage's bound (ArcSwapAny.kt:206-217).
THEOREM ClientTypeCorrect == ClientSpec => []ClientTypeOK
<1>1. ClientInv => ClientTypeOK
  BY DEF ClientInv
<1>2. QED  BY <1>1, ClientInvAlways, PTL

\* Whatever number of threads count, nested or not, no increment is lost and
\* none is made twice (ArcSwapAny.kt:176-180).
THEOREM IncrementsCorrect == ClientSpec => []NoLostIncrement
<1>1. ClientInv => NoLostIncrement
  BY DEF ClientInv
<1>2. QED  BY <1>1, ClientInvAlways, PTL

\* A call that has returned left at least the limit, and the number stored
\* exceeds the limit by less than the number of threads
\* (ArcSwapTest.recursive).
THEOREM CountCorrect == ClientSpec => []CountsToLimit
<1>1. ASSUME ClientInv PROVE CountsToLimit
  <2>1. /\ Stored \in Nat /\ Limit \in Nat /\ Cardinality(Threads) \in Nat
        /\ Cardinality(Counting) \in Nat /\ Overshoot
        /\ \A t \in Threads : Decided(t)
    BY <1>1, Numbers DEF ClientInv, Sound
  <2>2. Cardinality(Threads) # 0
    BY NumbersAssumption, FS_EmptySet
  <2>3. Stored < Limit + Cardinality(Threads)
    BY <2>1, <2>2 DEF Overshoot
  <2>4. QED  BY <2>1, <2>3 DEF CountsToLimit, Decided, Stored
<1>2. QED  BY <1>1, ClientInvAlways, PTL

\* The program implements the counter: whatever threads do inside their nested
\* calls and retries, each step of theirs is one look, one addition or one end
\* of the counter's, or nothing to it (ArcSwapTest.recursive).
THEOREM RefinesCounter == ClientSpec => ImplementsCounter
<1>1. ClientInit => Counter!CounterInit
  <2> SUFFICES ASSUME ClientInit PROVE Counter!CounterInit
    OBVIOUS
  <2>1. heap[ptr] = 0
    BY LimitAssumption, NumbersAssumption, FS_CardinalityType DEF ClientInit
  <2>2. \A t \in Threads : Stance(t) = "ready"
    BY DEF ClientInit, Stance
  <2>3. QED  BY <2>1, <2>2 DEF Counter!CounterInit
<1>2. ClientInv /\ [ClientNext]_allVars => [Counter!CounterNext]_(Counter!counterVars)
  BY ClientStep
<1>3. QED
  BY <1>1, <1>2, ClientInvAlways, PTL DEF ClientSpec, ImplementsCounter, Counter!CounterSpec
=============================================================================
