-------------------------- MODULE ArcSwapAny_proofs --------------------------
(***************************************************************************)
(* What holds of ArcSwapAny for every set of threads, addresses, contents  *)
(* and update functions and every nesting depth: the type invariant, that  *)
(* guards pin the objects an rcu depends on, and that the storage          *)
(* implements AtomicCell.  Then what follows for those that load it and    *)
(* do more with what they got (Readers).                                   *)
(***************************************************************************)
EXTENDS ArcSwapAny, Readers, TLAPS

-----------------------------------------------------------------------------
\* The rcu stack as a sequence.

\* A call pushes one frame and disturbs none of the others.
LEMMA Push ==
  ASSUME NEW S, NEW s \in Seq(S), NEW e \in S
  PROVE  /\ Append(s, e) \in Seq(S)
         /\ Len(Append(s, e)) = Len(s) + 1
         /\ \A i \in DOMAIN Append(s, e) :
              \/ Append(s, e)[i] = e
              \/ i \in DOMAIN s /\ Append(s, e)[i] = s[i]
  OBVIOUS

\* A return or a throw takes the innermost frame away, no other.
LEMMA PopProperties ==
  ASSUME NEW S, NEW s \in Seq(S), s # <<>>
  PROVE  LET p == SubSeq(s, 1, Len(s) - 1) IN
           /\ p \in Seq(S)
           /\ Len(p) = Len(s) - 1
           /\ \A i \in DOMAIN p : i \in DOMAIN s /\ p[i] = s[i]
  OBVIOUS

\* A step inside a call rewrites the innermost frame, no other.
LEMMA RewriteProperties ==
  ASSUME NEW S, NEW s \in Seq(S), s # <<>>, NEW e \in S
  PROVE  LET w == [s EXCEPT ![Len(s)] = e] IN
           /\ w \in Seq(S)
           /\ Len(w) = Len(s)
           /\ Len(s) \in DOMAIN s
           /\ w[Len(s)] = e
           /\ \A i \in DOMAIN w : i \in DOMAIN s /\ (i # Len(s) => w[i] = s[i])
  OBVIOUS
-----------------------------------------------------------------------------
\* Reachability.

\* The storage, every thread's last result and every frame keep their objects.
LEMMA Roots ==
  ASSUME NEW t \in Threads
  PROVE  /\ ptr \in Live
         /\ held[t] \in Live
         /\ \A i \in DOMAIN stack[t] :
              stack[t][i].cur \in Live /\ stack[t][i].new \in Live
<1>1. ptr \in Live /\ held[t] \in Live
  BY DEF Live
<1>2. ASSUME NEW i \in DOMAIN stack[t]
      PROVE  stack[t][i].cur \in Live /\ stack[t][i].new \in Live
  <2>1. {stack[t][i].cur, stack[t][i].new} \subseteq StackRoots(t)
    BY <1>2 DEF StackRoots, FrameRoots
  <2>2. StackRoots(t) \subseteq Live
    BY DEF Live
  <2>3. QED  BY <2>1, <2>2
<1>3. QED  BY <1>1, <1>2

\* Making an object, or finding one, disturbs no reachable object.
LEMMA YieldsKeeps ==
  ASSUME TypeOK, NEW r \in Refs, NEW v \in Vals, Yields(r, v)
  PROVE  /\ heap' \in [Refs -> Vals]
         /\ heap'[r] = v
         /\ \A x \in Live : x \in Refs => heap'[x] = heap[x]
BY DEF TypeOK, Yields

\* Hence the frames a step leaves in place still satisfy GuardsPin.
LEMMA FramesStayPinned ==
  ASSUME TypeOK, GuardsPin,
         NEW r \in Refs, NEW v \in Vals, Yields(r, v),
         NEW t \in Threads, NEW i \in DOMAIN stack[t]
  PROVE  /\ heap'[stack[t][i].cur] = stack[t][i].seen
         /\ stack[t][i].pc = "cas" =>
              heap'[stack[t][i].new] = stack[t][i].fn[stack[t][i].seen]
<1>1. stack[t][i] \in Frame
  BY DEF TypeOK
<1>2. stack[t][i].cur \in Refs /\ stack[t][i].new \in Refs
  BY <1>1 DEF Frame
<1>3. /\ heap'[stack[t][i].cur] = heap[stack[t][i].cur]
      /\ heap'[stack[t][i].new] = heap[stack[t][i].new]
  BY <1>2, YieldsKeeps, Roots
<1>4. QED  BY <1>3 DEF GuardsPin
-----------------------------------------------------------------------------
\* The type invariant.

LEMMA TopIsFrame ==
  ASSUME TypeOK, NEW t \in Threads, stack[t] # <<>>
  PROVE  /\ stack[t] \in Seq(Frame)
         /\ Depth(t) \in DOMAIN stack[t]
         /\ Top(t) = stack[t][Depth(t)]
         /\ Top(t) \in Frame
BY DEF TypeOK, Top, Depth

LEMMA IterationIsFrame ==
  ASSUME TypeOK, NEW f \in Fns
  PROVE  Iteration(f) \in Frame
BY DEF TypeOK, Iteration, Frame

\* Every step names an operation or leaves the name of the last one.
LEMMA Labels ==
  ASSUME NEW t \in Threads
  PROVE  /\ Cell!Created \in Cell!Operation
         /\ Cell!LoadBy(t) \in Cell!Operation
         /\ \A v \in Vals : /\ Cell!SwapBy(t, v) \in Cell!Operation
                            /\ Cell!StoreBy(t, v) \in Cell!Operation
                            /\ Cell!CasBy(t, v) \in Cell!Operation
         /\ \A f \in Fns : Cell!RcuBy(t, f) \in Cell!Operation
BY DEF Cell!Operation, Cell!Created, Cell!LoadBy, Cell!SwapBy, Cell!StoreBy,
       Cell!CasBy, Cell!RcuBy

LEMMA InitType == Init => TypeOK
BY DepthAssumption DEF Init, TypeOK, Cell!Operation

LEMMA NextType == TypeOK /\ [Next]_vars => TypeOK'
<1> SUFFICES ASSUME TypeOK, [Next]_vars
             PROVE  TypeOK'
  OBVIOUS
<1>1. ASSUME NEW t \in Threads, Load(t)
      PROVE  TypeOK'
  BY <1>1, Labels DEF TypeOK, Load
<1>2. ASSUME NEW t \in Threads, NEW r \in Refs, NEW v \in Vals, Swap(t, r, v)
      PROVE  TypeOK'
  BY <1>2, Labels DEF TypeOK, Swap, Yields
<1>3. ASSUME NEW t \in Threads, NEW r \in Refs, NEW v \in Vals, Store(t, r, v)
      PROVE  TypeOK'
  BY <1>3, Labels DEF TypeOK, Store, Yields
<1>4. ASSUME NEW t \in Threads, NEW r \in Refs, NEW v \in Vals,
             NEW current \in Refs, CompareAndSwap(t, current, r, v)
      PROVE  TypeOK'
  BY <1>4, Labels DEF TypeOK, CompareAndSwap, CompareAndExchange, Yields
<1>5. ASSUME NEW t \in Threads, NEW f \in Fns, RcuLoad(t, f)
      PROVE  TypeOK'
  <2>1. stack[t] \in Seq(Frame) /\ Iteration(f) \in Frame
    BY IterationIsFrame DEF TypeOK
  <2>2. /\ Append(stack[t], Iteration(f)) \in Seq(Frame)
        /\ Len(Append(stack[t], Iteration(f))) = Len(stack[t]) + 1
    BY <2>1, Push
  <2>3. stack' = [stack EXCEPT ![t] = Append(stack[t], Iteration(f))]
    BY <1>5 DEF RcuLoad
  <2>4. Len(stack[t]) + 1 <= MaxDepth
    BY <1>5, <2>1, DepthAssumption DEF RcuLoad, Depth
  <2>5. QED  BY <1>5, <2>2, <2>3, <2>4 DEF TypeOK, RcuLoad
<1>6. ASSUME NEW t \in Threads, NEW r \in Refs, RcuEval(t, r)
      PROVE  TypeOK'
  <2> DEFINE e == [Top(t) EXCEPT !.pc = "cas", !.new = r]
  <2>1. stack[t] # <<>>
    BY <1>6 DEF RcuEval
  <2>2. stack[t] \in Seq(Frame) /\ Top(t) \in Frame
    BY <2>1, TopIsFrame
  <2>3. e \in Frame
    BY <2>2 DEF Frame
  <2>4. stack' = [stack EXCEPT ![t] = [stack[t] EXCEPT ![Len(stack[t])] = e]]
    BY <1>6 DEF RcuEval, Rewrite, Top, Depth, TypeOK
  <2>5. /\ [stack[t] EXCEPT ![Len(stack[t])] = e] \in Seq(Frame)
        /\ Len([stack[t] EXCEPT ![Len(stack[t])] = e]) = Len(stack[t])
    BY <2>1, <2>2, <2>3, RewriteProperties
  <2>6. heap' \in [Refs -> Vals]
    <3>1. Top(t).fn[heap[Top(t).cur]] \in Vals
      BY <2>2, FnsAssumption DEF Frame, TypeOK
    <3>2. QED  BY <1>6, <3>1 DEF RcuEval, Yields, TypeOK
  <2>7. QED  BY <1>6, <2>4, <2>5, <2>6 DEF TypeOK, RcuEval
<1>7. ASSUME NEW t \in Threads, RcuThrow(t)
      PROVE  TypeOK'
  <2>1. stack[t] # <<>> /\ stack' = [stack EXCEPT ![t] = Pop(t)]
    BY <1>7 DEF RcuThrow
  <2>2. Pop(t) \in Seq(Frame) /\ Len(Pop(t)) = Len(stack[t]) - 1
    BY <2>1, TopIsFrame, PopProperties DEF Pop, Depth
  <2>3. Len(Pop(t)) <= MaxDepth
    BY <2>2, DepthAssumption DEF TypeOK
  <2>4. QED  BY <1>7, <2>1, <2>2, <2>3 DEF TypeOK, RcuThrow
<1>8. ASSUME NEW t \in Threads, RcuCas(t)
      PROVE  TypeOK'
  <2>1. stack[t] # <<>> /\ Top(t) \in Frame
    BY <1>8, TopIsFrame DEF RcuCas
  <2>2. /\ ptr' \in Refs /\ held' \in [Threads -> Refs] /\ heap' = heap
        /\ last' \in Cell!Operation
    <3>1. Cell!RcuBy(t, Top(t).fn) \in Cell!Operation
      BY <2>1, Labels DEF Frame
    <3>2. QED  BY <1>8, <2>1, <3>1 DEF RcuCas, CompareAndExchange, TypeOK, Frame
  <2>3. /\ stack' \in [Threads -> Seq(Frame)]
        /\ \A u \in Threads : Len(stack'[u]) <= MaxDepth
    <3>1. CASE SameObject(Top(t).cur, ptr)
      <4>1. stack' = [stack EXCEPT ![t] = Pop(t)]
        BY <1>8, <3>1 DEF RcuCas
      <4>2. Pop(t) \in Seq(Frame) /\ Len(Pop(t)) = Len(stack[t]) - 1
        BY <2>1, TopIsFrame, PopProperties DEF Pop, Depth
      <4>3. Len(Pop(t)) <= MaxDepth
        BY <4>2, DepthAssumption DEF TypeOK
      <4>4. QED  BY <4>1, <4>2, <4>3 DEF TypeOK
    <3>2. CASE ~SameObject(Top(t).cur, ptr)
      <4> DEFINE e == Iteration(Top(t).fn)
      <4>1. stack' = [stack EXCEPT ![t] = [stack[t] EXCEPT ![Len(stack[t])] = e]]
        BY <1>8, <3>2 DEF RcuCas, Rewrite, Top, Depth, TypeOK
      <4>2. e \in Frame
        BY <2>1, IterationIsFrame DEF Frame
      <4>3. /\ [stack[t] EXCEPT ![Len(stack[t])] = e] \in Seq(Frame)
            /\ Len([stack[t] EXCEPT ![Len(stack[t])] = e]) = Len(stack[t])
        BY <2>1, <4>2, TopIsFrame, RewriteProperties
      <4>4. QED  BY <4>1, <4>3 DEF TypeOK
    <3>3. QED  BY <3>1, <3>2
  <2>4. QED  BY <2>2, <2>3 DEF TypeOK
<1>9. CASE UNCHANGED vars
  BY <1>9 DEF TypeOK, vars
<1>10. QED
  BY <1>1, <1>2, <1>3, <1>4, <1>5, <1>6, <1>7, <1>8, <1>9 DEF Next

\* The storage always holds an object, guards and frames only objects, and no
\* thread nests rcu deeper than the bound (ArcSwapAny.kt:56, 206-217).
THEOREM TypeCorrect == Spec => []TypeOK
<1>1. Init => TypeOK
  BY InitType
<1>2. TypeOK /\ [Next]_vars => TypeOK'
  BY NextType
<1>3. QED  BY <1>1, <1>2, PTL DEF Spec
-----------------------------------------------------------------------------
\* Guards pin what rcu depends on.

\* A step that leaves every frame in place and makes at most one object.
LEMMA SameFrames ==
  ASSUME Inv, NEW r \in Refs, NEW v \in Vals, Yields(r, v), UNCHANGED stack
  PROVE  GuardsPin'
BY FramesStayPinned DEF Inv, GuardsPin

\* A step that keeps the contents and takes away or keeps each frame.
LEMMA FewerFrames ==
  ASSUME Inv, UNCHANGED heap,
         \A u \in Threads : \A i \in DOMAIN stack'[u] :
           i \in DOMAIN stack[u] /\ stack'[u][i] = stack[u][i]
  PROVE  GuardsPin'
BY DEF Inv, GuardsPin

\* A new iteration looks at what the storage holds now.
LEMMA IterationPinned ==
  ASSUME TypeOK, NEW f \in Fns
  PROVE  /\ heap[Iteration(f).cur] = Iteration(f).seen
         /\ Iteration(f).pc # "cas"
BY DEF Iteration

LEMMA NextGuardsPin == Inv /\ [Next]_vars => GuardsPin'
<1> SUFFICES ASSUME Inv, [Next]_vars
             PROVE  GuardsPin'
  OBVIOUS
<1> USE DEF Inv
<1>1. ASSUME NEW t \in Threads, Load(t)
      PROVE  GuardsPin'
  BY <1>1 DEF Load, GuardsPin
<1>2. ASSUME NEW t \in Threads, NEW r \in Refs, NEW v \in Vals, Swap(t, r, v)
      PROVE  GuardsPin'
  BY <1>2, SameFrames DEF Swap
<1>3. ASSUME NEW t \in Threads, NEW r \in Refs, NEW v \in Vals, Store(t, r, v)
      PROVE  GuardsPin'
  BY <1>3, SameFrames DEF Store
<1>4. ASSUME NEW t \in Threads, NEW r \in Refs, NEW v \in Vals,
             NEW current \in Refs, CompareAndSwap(t, current, r, v)
      PROVE  GuardsPin'
  BY <1>4, SameFrames DEF CompareAndSwap
<1>5. ASSUME NEW t \in Threads, NEW f \in Fns, RcuLoad(t, f)
      PROVE  GuardsPin'
  <2> DEFINE e == Iteration(f)
  <2>1. stack[t] \in Seq(Frame) /\ e \in Frame
    BY IterationIsFrame DEF TypeOK
  <2>2. stack' = [stack EXCEPT ![t] = Append(stack[t], e)] /\ heap' = heap
    BY <1>5 DEF RcuLoad
  <2>3. \A i \in DOMAIN stack'[t] :
          \/ stack'[t][i] = e
          \/ i \in DOMAIN stack[t] /\ stack'[t][i] = stack[t][i]
    BY <2>1, <2>2, Push DEF TypeOK
  <2>4. \A u \in Threads : u # t => stack'[u] = stack[u]
    BY <2>2 DEF TypeOK
  <2>5. QED  BY <2>2, <2>3, <2>4, IterationPinned DEF GuardsPin
<1>6. ASSUME NEW t \in Threads, NEW r \in Refs, RcuEval(t, r)
      PROVE  GuardsPin'
  <2> DEFINE e == [Top(t) EXCEPT !.pc = "cas", !.new = r]
             n == Depth(t)
             v == Top(t).fn[heap[Top(t).cur]]
  <2>1. stack[t] # <<>> /\ Yields(r, v)
    BY <1>6 DEF RcuEval
  <2>2. stack[t] \in Seq(Frame) /\ n \in DOMAIN stack[t] /\ Top(t) = stack[t][n]
        /\ Top(t) \in Frame
    BY <2>1, TopIsFrame
  <2>3. e.cur = Top(t).cur /\ e.seen = Top(t).seen /\ e.fn = Top(t).fn /\ e.new = r
        /\ e \in Frame
    BY <2>2 DEF Frame
  <2>4. v \in Vals
    BY <2>2, FnsAssumption DEF Frame, TypeOK
  <2>5. heap[Top(t).cur] = Top(t).seen
    BY <2>2 DEF GuardsPin
  <2>6. heap'[e.cur] = e.seen /\ heap'[e.new] = e.fn[e.seen]
    <3>1. heap'[Top(t).cur] = Top(t).seen
      BY <2>1, <2>2, <2>4, FramesStayPinned
    <3>2. heap'[r] = v
      BY <2>1, <2>4, YieldsKeeps
    <3>3. QED  BY <3>1, <3>2, <2>3, <2>5
  <2>7. stack' = [stack EXCEPT ![t] = [stack[t] EXCEPT ![Len(stack[t])] = e]]
    BY <1>6 DEF RcuEval, Rewrite, Top, Depth, TypeOK
  <2>8. \A i \in DOMAIN stack'[t] :
          \/ stack'[t][i] = e
          \/ i \in DOMAIN stack[t] /\ stack'[t][i] = stack[t][i]
    BY <2>1, <2>2, <2>3, <2>7, RewriteProperties DEF TypeOK
  <2>9. \A u \in Threads : u # t => stack'[u] = stack[u]
    BY <2>7 DEF TypeOK
  <2>10. \A u \in Threads : \A i \in DOMAIN stack[u] :
           /\ heap'[stack[u][i].cur] = stack[u][i].seen
           /\ stack[u][i].pc = "cas" =>
                heap'[stack[u][i].new] = stack[u][i].fn[stack[u][i].seen]
    BY <2>1, <2>4, FramesStayPinned
  <2> HIDE DEF e
  <2>11. QED  BY <2>6, <2>8, <2>9, <2>10 DEF GuardsPin
<1>7. ASSUME NEW t \in Threads, RcuThrow(t)
      PROVE  GuardsPin'
  <2>1. stack[t] # <<>> /\ stack' = [stack EXCEPT ![t] = Pop(t)] /\ heap' = heap
    BY <1>7 DEF RcuThrow
  <2>2. \A i \in DOMAIN Pop(t) : i \in DOMAIN stack[t] /\ Pop(t)[i] = stack[t][i]
    BY <2>1, TopIsFrame, PopProperties DEF Pop, Depth
  <2>3. QED  BY <2>1, <2>2, FewerFrames DEF TypeOK
<1>8. ASSUME NEW t \in Threads, RcuCas(t)
      PROVE  GuardsPin'
  <2>1. stack[t] # <<>> /\ heap' = heap
    BY <1>8 DEF RcuCas
  <2>2. CASE SameObject(Top(t).cur, ptr)
    <3>1. stack' = [stack EXCEPT ![t] = Pop(t)]
      BY <1>8, <2>2 DEF RcuCas
    <3>2. \A i \in DOMAIN Pop(t) : i \in DOMAIN stack[t] /\ Pop(t)[i] = stack[t][i]
      BY <2>1, TopIsFrame, PopProperties DEF Pop, Depth
    <3>3. QED  BY <2>1, <3>1, <3>2, FewerFrames DEF TypeOK
  <2>3. CASE ~SameObject(Top(t).cur, ptr)
    <3> DEFINE e == Iteration(Top(t).fn)
    <3>1. Top(t).fn \in Fns /\ stack[t] \in Seq(Frame)
      BY <2>1, TopIsFrame DEF Frame
    <3>2. e \in Frame /\ heap[e.cur] = e.seen /\ e.pc # "cas"
      BY <3>1, IterationIsFrame, IterationPinned
    <3>3. stack' = [stack EXCEPT ![t] = [stack[t] EXCEPT ![Len(stack[t])] = e]]
      BY <1>8, <2>3 DEF RcuCas, Rewrite, Top, Depth, TypeOK
    <3>4. \A i \in DOMAIN stack'[t] :
            \/ stack'[t][i] = e
            \/ i \in DOMAIN stack[t] /\ stack'[t][i] = stack[t][i]
      BY <2>1, <3>1, <3>2, <3>3, RewriteProperties DEF TypeOK
    <3>5. \A u \in Threads : u # t => stack'[u] = stack[u]
      BY <3>3 DEF TypeOK
    <3>6. QED  BY <2>1, <3>2, <3>4, <3>5 DEF GuardsPin
  <2>4. QED  BY <2>2, <2>3
<1>9. CASE UNCHANGED vars
  BY <1>9 DEF GuardsPin, vars
<1>10. QED
  BY <1>1, <1>2, <1>3, <1>4, <1>5, <1>6, <1>7, <1>8, <1>9 DEF Next

LEMMA InvInductive == (Init => Inv) /\ (Inv /\ [Next]_vars => Inv')
<1>1. Init => GuardsPin
  BY DEF Init, GuardsPin
<1>2. QED  BY <1>1, InitType, NextType, NextGuardsPin DEF Inv

\* However the threads interleave and whatever is collected meanwhile, an rcu
\* finds the object it looked at, and the object its callback returned, with
\* the contents they had (ArcSwapAny.kt:53-54, 207-210).
THEOREM GuardsArePins == Spec => []GuardsPin
<1>1. Init => Inv
  BY InvInductive
<1>2. Inv /\ [Next]_vars => Inv'
  BY InvInductive
<1>3. Inv => GuardsPin
  BY DEF Inv
<1>4. QED  BY <1>1, <1>2, <1>3, PTL DEF Spec
-----------------------------------------------------------------------------
\* The storage implements AtomicCell.

\* Making an object changes neither the content stored nor what guards show.
LEMMA ContentsKept ==
  ASSUME TypeOK, NEW r \in Refs, NEW v \in Vals, Yields(r, v)
  PROVE  /\ heap' \in [Refs -> Vals]
         /\ heap'[r] = v
         /\ heap'[ptr] = heap[ptr]
         /\ \A u \in Threads : heap'[held[u]] = heap[held[u]]
<1>1. ptr \in Live /\ ptr \in Refs
  BY DEF Live, TypeOK
<1>2. \A u \in Threads : held[u] \in Live /\ held[u] \in Refs
  BY Roots DEF TypeOK
<1>3. QED  BY <1>1, <1>2, YieldsKeeps

\* A step after which t's guard shows what was stored before is a Receive.
LEMMA ReceiveIfHeld ==
  ASSUME TypeOK, NEW t \in Threads, held' = [held EXCEPT ![t] = ptr],
         heap'[ptr] = heap[ptr],
         \A u \in Threads : heap'[held[u]] = heap[held[u]]
  PROVE  Cell!Receive(t)
<1>1. \A u \in Threads :
        heap'[held'[u]] = IF u = t THEN heap[ptr] ELSE heap[held[u]]
  BY DEF TypeOK
<1>2. QED  BY <1>1 DEF Cell!Receive

LEMMA CellInitMapped == Init => Cell!CellInit
BY DEF Init, Cell!CellInit

LEMMA CellStepMapped == Inv /\ Inv' /\ [Next]_vars => [Cell!CellNext]_(Cell!cellVars)
<1> SUFFICES ASSUME Inv, [Next]_vars
             PROVE  Cell!CellNext \/ UNCHANGED Cell!cellVars
  OBVIOUS
<1> USE DEF Inv
<1>1. ASSUME NEW t \in Threads, Load(t)
      PROVE  Cell!CellNext
  <2>1. Cell!Read(t)
    BY <1>1, ReceiveIfHeld DEF Load, Cell!Read
  <2>2. QED  BY <2>1 DEF Cell!CellNext
<1>2. ASSUME NEW t \in Threads, NEW r \in Refs, NEW v \in Vals, Swap(t, r, v)
      PROVE  Cell!CellNext
  <2>1. Cell!Exchange(t, v)
    BY <1>2, ContentsKept, ReceiveIfHeld DEF Swap, Cell!Exchange
  <2>2. QED  BY <2>1 DEF Cell!CellNext
<1>3. ASSUME NEW t \in Threads, NEW r \in Refs, NEW v \in Vals, Store(t, r, v)
      PROVE  Cell!CellNext
  <2>1. Cell!Write(t, v)
    BY <1>3, ContentsKept DEF Store, Cell!Write
  <2>2. QED  BY <2>1 DEF Cell!CellNext
<1>4. ASSUME NEW t \in Threads, NEW r \in Refs, NEW v \in Vals,
             NEW current \in Refs, CompareAndSwap(t, current, r, v)
      PROVE  Cell!CellNext
  <2>1. /\ Yields(r, v)
        /\ current = held[t] \/ current \notin Live
        /\ ptr' = IF ptr = current THEN r ELSE ptr
        /\ held' = [held EXCEPT ![t] = ptr]
        /\ last' = Cell!CasBy(t, v)
    BY <1>4 DEF CompareAndSwap, CompareAndExchange, SameObject
  <2>2. Cell!Receive(t)
    BY <2>1, ContentsKept, ReceiveIfHeld
  <2>3. CASE ptr = current
    <3>1. ptr = held[t]
      BY <2>1, <2>3, Roots
    <3>2. heap[held[t]] = heap[ptr] /\ heap'[ptr'] = v
      BY <2>1, <2>3, <3>1, ContentsKept
    <3>3. QED  BY <2>1, <2>2, <3>2 DEF Cell!TestAndSet, Cell!CellNext
  <2>4. CASE ptr # current
    <3>1. heap'[ptr'] = heap[ptr]
      BY <2>1, <2>4, ContentsKept
    <3>2. QED  BY <2>1, <2>2, <3>1 DEF Cell!TestAndSet, Cell!CellNext
  <2>5. QED  BY <2>3, <2>4
<1>5. ASSUME NEW t \in Threads, NEW f \in Fns, RcuLoad(t, f)
      PROVE  UNCHANGED Cell!cellVars
  BY <1>5 DEF RcuLoad, Cell!cellVars
<1>6. ASSUME NEW t \in Threads, NEW r \in Refs, RcuEval(t, r)
      PROVE  UNCHANGED Cell!cellVars
  <2>1. Top(t) \in Frame
    BY <1>6, TopIsFrame DEF RcuEval
  <2>2. Top(t).fn[heap[Top(t).cur]] \in Vals
    BY <2>1, FnsAssumption DEF Frame, TypeOK
  <2>3. heap'[ptr] = heap[ptr] /\ \A u \in Threads : heap'[held[u]] = heap[held[u]]
    BY <1>6, <2>2, ContentsKept DEF RcuEval
  <2>4. QED  BY <1>6, <2>3 DEF RcuEval, Cell!cellVars
<1>7. ASSUME NEW t \in Threads, RcuThrow(t)
      PROVE  UNCHANGED Cell!cellVars
  BY <1>7 DEF RcuThrow, Cell!cellVars
<1>8. ASSUME NEW t \in Threads, RcuCas(t)
      PROVE  Cell!CellNext \/ UNCHANGED Cell!cellVars
  <2>1. CASE SameObject(Top(t).cur, ptr)
    <3>1. /\ stack[t] # <<>>
          /\ Top(t).pc = "cas"
          /\ Top(t).cur = ptr
          /\ ptr' = Top(t).new
          /\ held' = [held EXCEPT ![t] = ptr]
          /\ last' = Cell!RcuBy(t, Top(t).fn)
          /\ heap' = heap
      BY <1>8, <2>1 DEF RcuCas, CompareAndExchange, SameObject
    <3>2. /\ Top(t).fn \in Fns
          /\ heap[ptr] = Top(t).seen
          /\ heap[Top(t).new] = Top(t).fn[Top(t).seen]
      BY <3>1, TopIsFrame DEF GuardsPin, Frame
    <3>3. Cell!Update(t, Top(t).fn)
      BY <3>1, <3>2, ReceiveIfHeld DEF Cell!Update
    <3>4. QED  BY <3>2, <3>3 DEF Cell!CellNext
  <2>2. CASE ~SameObject(Top(t).cur, ptr)
    BY <1>8, <2>2 DEF RcuCas, CompareAndExchange, SameObject, Cell!cellVars
  <2>3. QED  BY <2>1, <2>2
<1>9. CASE UNCHANGED vars
  BY <1>9 DEF vars, Cell!cellVars
<1>10. QED
  BY <1>1, <1>2, <1>3, <1>4, <1>5, <1>6, <1>7, <1>8, <1>9 DEF Next

\* The storage behaves like a cell whose operations, rcu included, are
\* indivisible: an rcu that returns has replaced exactly the content it
\* returns by its function of it (ArcSwapAny.kt:148-158, 206-217).
THEOREM RefinesAtomicCell == Spec => ImplementsAtomicCell
<1>1. Init => Cell!CellInit
  BY CellInitMapped
<1>2. Init => Inv
  BY InvInductive
<1>3. Inv /\ [Next]_vars => Inv'
  BY InvInductive
<1>4. Inv /\ Inv' /\ [Next]_vars => [Cell!CellNext]_(Cell!cellVars)
  BY CellStepMapped
<1>5. QED  BY <1>1, <1>2, <1>3, <1>4, PTL DEF Spec, ImplementsAtomicCell, Cell!CellSpec

-----------------------------------------------------------------------------
(***************************************************************************)
(* equals and serialization answer for a moment of the call, whatever is   *)
(* stored meanwhile, for any number of storages and contents.              *)
(*                                                                         *)
(* The invariant says where what the call has loaded comes from: some      *)
(* moment of the call had it (Loaded), and so what is written is the form  *)
(* of a content of some moment (Written).  Current is what the second load *)
(* needs: while a call runs, the storages are in one of its moments.       *)
(***************************************************************************)
Snapshot ==
  {f \in [Storages -> Contents \cup {null}] : \A s \in Storages : f[s] \in MayHold(made[s])}

Typed ==
  /\ made \in [Storages -> Makers]
  /\ content \in Snapshot
  /\ moments \subseteq Snapshot

Current == InCall => content \in moments

Loaded ==
  /\ call.op = "equals" => \E f \in moments : f[call.left] = call.first
  /\ call.op = "serialize" =>
       call.of \in Storages /\ \E f \in moments : f[call.of] = call.loaded

Written ==
  /\ call.op \in {"encoded", "decoded"} =>
       call.of \in Storages /\ \E f \in moments : call.wire = Form(made[call.of], f[call.of])
  /\ call.op = "decoded" =>
       /\ call.wire # Failure
       /\ call.reader \in {"ArcSwapDeserialize", "ArcSwapOptionDeserialize"}
       /\ call.copy = ReadBack(call.reader, call.wire)

ReadersInv == Typed /\ Current /\ Loaded /\ Written /\ EqualsOfAMoment

\* The deserializer of a storage's kind reads back what was written, and what
\* it makes is written the same way.
LEMMA ReadBackForm ==
  ASSUME NEW maker \in Makers, maker # "ArcSwapOption",
         NEW reader, (maker = "ArcSwap") = (reader = "ArcSwapDeserialize"),
         reader \in {"ArcSwapDeserialize", "ArcSwapOptionDeserialize"},
         NEW v \in MayHold(maker), Form(maker, v) # Failure
  PROVE  LET copy == ReadBack(reader, Form(maker, v)) IN
           /\ copy # NoStorage
           /\ copy.content = v
           /\ Form(copy.maker, copy.content) = Form(maker, v)
<1>1. v # null => v \notin Opaque
  BY DEF Form
<1>2. CASE maker = "ArcSwap"
  BY <1>1, <1>2, OpaqueAssumption
     DEF ReadBack, Form, MayHold, IsOption, Token, None, NoStorage
<1>3. CASE maker # "ArcSwap"
  BY <1>1, <1>3 DEF ReadBack, Form, Makers, IsOption, Token, None, NoStorage
<1> QED BY <1>2, <1>3

\* Only a value of an unknown class cannot be written.
LEMMA FailedForm ==
  ASSUME NEW maker, NEW v, Form(maker, v) = Failure
  PROVE  v \in Opaque
<1>1. CASE v = null
  BY <1>1 DEF Form, None, Failure, Token
<1>2. CASE v # null /\ IsOption(maker)
  BY <1>2 DEF Form, Failure, Token
<1>3. CASE v # null /\ ~IsOption(maker)
  BY <1>3 DEF Form, Failure, Token
<1> QED BY <1>1, <1>2, <1>3

LEMMA ReadersInvInit == ReadersInit => ReadersInv
<1> SUFFICES ASSUME ReadersInit PROVE ReadersInv
  OBVIOUS
<1>1. \A s \in Storages : content[s] \in MayHold(made[s])
  BY DEF ReadersInit, Made, MayHold, Makers
<1> QED
  BY <1>1 DEF ReadersInit, ReadersInv, Typed, Snapshot, Current, Loaded, Written,
              EqualsOfAMoment, InCall, Idle

\* Another thread's store is one more moment of the call.
LEMMA StoreKeeps ==
  ASSUME ReadersInv, NEW s \in Storages, NEW v \in Contents \cup {null}, StoreInto(s, v)
  PROVE  ReadersInv'
<1> USE DEF ReadersInv
<1>1. content' \in Snapshot /\ made' = made /\ call' = call /\ Snapshot' = Snapshot
  BY DEF StoreInto, Typed, Snapshot
<1>2. moments \subseteq moments' /\ (InCall => moments' = moments \cup {content'})
      /\ (~InCall => moments' = moments)
  BY DEF StoreInto
<1>3. Typed' /\ Current'
  BY <1>1, <1>2 DEF Typed, Current, InCall
<1>4. Loaded' /\ Written'
  BY <1>1, <1>2 DEF Loaded, Written, Form, ReadBack
<1>5. EqualsOfAMoment'
  BY <1>1, <1>2 DEF EqualsOfAMoment, Steady, InCall
<1> QED BY <1>3, <1>4, <1>5

\* The second load of equals: one of the operands is what it was throughout,
\* so the pair compared is that of the other operand's moment.
LEMMA EqualsKeeps ==
  ASSUME ReadersInv, EqualsRight
  PROVE  ReadersInv'
<1> USE DEF ReadersInv
<1>1. /\ call.op = "equals" /\ call'.op = "compared"
      /\ call'.left = call.left /\ call'.right = call.right
      /\ call'.answer = (call.first = content[call.right])
      /\ made' = made /\ content' = content /\ moments' = moments
  BY DEF EqualsRight
<1>2. content \in moments
  BY <1>1 DEF Current, InCall
<1>3. PICK f \in moments : f[call.left] = call.first
  BY <1>1 DEF Loaded
<1>4. EqualsOfAMoment'
  <2>1. CASE Steady(call.left)
    BY <1>1, <1>2, <1>3, <2>1 DEF Steady, EqualsOfAMoment
  <2>2. CASE Steady(call.right)
    BY <1>1, <1>2, <1>3, <2>2 DEF Steady, EqualsOfAMoment
  <2> QED BY <2>1, <2>2, <1>1 DEF EqualsOfAMoment, Steady
<1>5. Typed' /\ Current' /\ Loaded' /\ Written'
  BY <1>1 DEF Typed, Snapshot, Current, InCall, Loaded, Written
<1> QED BY <1>4, <1>5

LEMMA ReadersInvNext == ReadersInv /\ [ReadersNext]_readersVars => ReadersInv'
<1> SUFFICES ASSUME ReadersInv, [ReadersNext]_readersVars PROVE ReadersInv'
  OBVIOUS
<1> USE DEF ReadersInv
<1>1. ASSUME NEW s \in Storages, NEW v \in Contents \cup {null}, StoreInto(s, v)
      PROVE  ReadersInv'
  BY <1>1, StoreKeeps
<1>2. ASSUME NEW s \in Storages, NEW o \in Storages, EqualsLeft(s, o)
      PROVE  ReadersInv'
  BY <1>2 DEF EqualsLeft, Start, Typed, Snapshot, Current, InCall, Loaded, Written,
              EqualsOfAMoment
<1>3. CASE EqualsRight
  BY <1>3, EqualsKeeps
<1>4. ASSUME NEW s \in Storages, SerializeLoad(s)
      PROVE  ReadersInv'
  BY <1>4 DEF SerializeLoad, Start, Typed, Snapshot, Current, InCall, Loaded, Written,
              EqualsOfAMoment
<1>5. CASE Encode
  BY <1>5 DEF Encode, Typed, Snapshot, Current, InCall, Loaded, Written, EqualsOfAMoment
<1>6. ASSUME NEW reader \in {"ArcSwapDeserialize", "ArcSwapOptionDeserialize"}, Decode(reader)
      PROVE  ReadersInv'
  BY <1>6 DEF Decode, Typed, Snapshot, Current, InCall, Loaded, Written, EqualsOfAMoment
<1>7. CASE UNCHANGED readersVars
  BY <1>7 DEF readersVars, Typed, Snapshot, Current, InCall, Loaded, Written,
              EqualsOfAMoment, Steady
<1> QED BY <1>1, <1>2, <1>3, <1>4, <1>5, <1>6, <1>7 DEF ReadersNext

LEMMA ReadersInvAlways == ReadersSpec => []ReadersInv
BY ReadersInvInit, ReadersInvNext, PTL DEF ReadersSpec

\* equals answers for a moment of the call if one operand does not change
\* during it (ArcSwapAny.kt:224-225).
THEOREM EqualsCorrect == ReadersSpec => []EqualsOfAMoment
<1>1. ReadersInv => EqualsOfAMoment
  BY DEF ReadersInv
<1> QED BY <1>1, ReadersInvAlways, PTL

\* Serialization writes a content of a moment of the call, fails only for one
\* it cannot write, and what it writes is read back as that content
\* (Serde.kt:39-54, 59-63, 83-89).
THEOREM RoundTripCorrect == ReadersSpec => []RoundTrip
<1>1. ReadersInv => RoundTrip
  <2> SUFFICES ASSUME ReadersInv PROVE RoundTrip
    OBVIOUS
  <2>1. CASE call.op = "encoded"
    BY <2>1, FailedForm DEF ReadersInv, Written, RoundTrip
  <2>2. CASE call.op = "decoded"
    <3>1. PICK f \in moments : call.wire = Form(made[call.of], f[call.of])
      BY <2>2 DEF ReadersInv, Written
    <3>2. /\ call.of \in Storages /\ f[call.of] \in MayHold(made[call.of])
          /\ made[call.of] \in Makers /\ call.wire # Failure
          /\ call.reader \in {"ArcSwapDeserialize", "ArcSwapOptionDeserialize"}
          /\ call.copy = ReadBack(call.reader, call.wire)
      BY <2>2 DEF ReadersInv, Written, Typed, Snapshot
    <3> QED BY <2>2, <3>1, <3>2, ReadBackForm DEF RoundTrip
  <2> QED BY <2>1, <2>2 DEF RoundTrip
<1> QED BY <1>1, ReadersInvAlways, PTL
=============================================================================
