----------------------------- MODULE ArcSwapAny -----------------------------
(***************************************************************************)
(* The storage of ArcSwapAny.kt at the level of object references: the     *)
(* atomic reference `ptr`, the guards threads keep, and rcu's load / call  *)
(* f / compareAndSwap loop, whose three steps interleave with everything   *)
(* other threads do and with what the callback f itself does to the same   *)
(* storage (ArcSwapTest.recursive runs rcu inside rcu's callback).         *)
(*                                                                         *)
(* An object is a reference in Refs with a content heap[r] that never      *)
(* changes while the object is reachable.  Once nothing refers to it, the  *)
(* garbage collector may hand the same address out for another object:     *)
(* that reuse is what could fool a comparison of identities, and what the  *)
(* source says needs no hazard pointers here, because a guard is an        *)
(* ordinary reference and keeps its object reachable.                      *)
(***************************************************************************)
EXTENDS Naturals, Sequences

CONSTANTS
  Threads,   \* the threads that share the storage
  Refs,      \* the addresses objects live at
  Vals,      \* the contents objects have
  Fns,       \* the update functions rcu is called with, as functions on Vals
  MaxDepth   \* bound: how deep rcu calls nest within one thread

ASSUME FnsAssumption == Fns \subseteq [Vals -> Vals]
ASSUME DepthAssumption == MaxDepth \in Nat \ {0}

VARIABLES
  ptr,       \* the AtomicReference: the object now stored
  heap,      \* heap[r]: the content of the object at r
  held,      \* held[t]: the object thread t last received from the storage
  stack,     \* stack[t]: the rcu calls thread t is in, innermost last
  last       \* history: the operation that took effect last

vars == <<ptr, heap, held, stack, last>>

Cell == INSTANCE AtomicCell WITH
          value <- heap[ptr],
          ret   <- [t \in Threads |-> heap[held[t]]]

(***************************************************************************)
(* One activation of rcu.  pc is "eval" while the callback runs and "cas"  *)
(* between its return and the compareAndSwap.  `seen` is a history field:  *)
(* the content of cur when it was loaded.                                  *)
(***************************************************************************)
Frame == [pc : {"eval", "cas"}, fn : Fns, cur : Refs, new : Refs, seen : Vals]

TypeOK ==
  /\ ptr \in Refs
  /\ heap \in [Refs -> Vals]
  /\ held \in [Threads -> Refs]
  /\ stack \in [Threads -> Seq(Frame)]
  /\ \A t \in Threads : Len(stack[t]) <= MaxDepth
  /\ last \in Cell!Operation

-----------------------------------------------------------------------------
\* Reachability: what the collector may not touch.

\* Mutant: a guard that does not keep its object alive.
WeakGuardRoots(fr) == {fr.new}

FrameRoots(fr) == {fr.cur, fr.new}

\* Mutant: only the innermost call's guard counts.
InnermostRoots(t) ==
  IF stack[t] = <<>> THEN {} ELSE FrameRoots(stack[t][Len(stack[t])])

StackRoots(t) == UNION {FrameRoots(stack[t][i]) : i \in DOMAIN stack[t]}

Live == {ptr} \cup {held[t] : t \in Threads} \cup UNION {StackRoots(t) : t \in Threads}

\* An expression of content v yields the object r: a new object at an
\* address nobody can reach, or an object that exists already and has that
\* content (the callback returned its argument, or the box of a small number
\* came from the runtime's cache).
Yields(r, v) ==
  /\ r \notin Live \/ heap[r] = v
  /\ heap' = [heap EXCEPT ![r] = v]

-----------------------------------------------------------------------------
\* AtomicReference and the identity comparison.

SameObject(a, b) == a = b

CompareAndExchange(current, new) ==
  ptr' = IF SameObject(ptr, current) THEN new ELSE ptr

-----------------------------------------------------------------------------
\* The operations.  A thread calls one when it is in no rcu, or from the
\* callback of the rcu it is in.

Depth(t) == Len(stack[t])

Top(t) == stack[t][Depth(t)]

Pop(t) == SubSeq(stack[t], 1, Depth(t) - 1)

\* The stack once t's innermost frame has become fr.
Rewrite(t, fr) == [stack EXCEPT ![t][Depth(t)] = fr]

RunsCallerCode(t) == stack[t] # <<>> => Top(t).pc = "eval"

Load(t) ==
  /\ RunsCallerCode(t)
  /\ held' = [held EXCEPT ![t] = ptr]
  /\ last' = Cell!LoadBy(t)
  /\ UNCHANGED <<ptr, heap, stack>>

Swap(t, r, v) ==
  /\ RunsCallerCode(t)
  /\ Yields(r, v)
  /\ ptr' = r
  /\ held' = [held EXCEPT ![t] = ptr]
  /\ last' = Cell!SwapBy(t, v)
  /\ UNCHANGED stack

Store(t, r, v) ==
  /\ RunsCallerCode(t)
  /\ Yields(r, v)
  /\ ptr' = r
  /\ last' = Cell!StoreBy(t, v)
  /\ UNCHANGED <<held, stack>>

\* `current` is the object the caller last received, or one of its own that
\* the storage never held (`stale` in ArcSwapTest.casRefIdentity).
CompareAndSwap(t, current, r, v) ==
  /\ RunsCallerCode(t)
  /\ current = held[t] \/ current \notin Live
  /\ Yields(r, v)
  /\ CompareAndExchange(current, r)
  /\ held' = [held EXCEPT ![t] = ptr]
  /\ last' = Cell!CasBy(t, v)
  /\ UNCHANGED stack

-----------------------------------------------------------------------------
\* rcu.

\* What the loop starts an iteration with: cur is what the storage holds.
Iteration(f) ==
  [pc |-> "eval", fn |-> f, cur |-> ptr, new |-> ptr, seen |-> heap[ptr]]

\* var cur = load()
RcuLoad(t, f) ==
  /\ RunsCallerCode(t)
  /\ Depth(t) < MaxDepth
  /\ stack' = [stack EXCEPT ![t] = Append(@, Iteration(f))]
  /\ UNCHANGED <<ptr, heap, held, last>>

\* val new = f(cur.value): the callback returns the object r.
RcuEval(t, r) ==
  /\ stack[t] # <<>>
  /\ Top(t).pc = "eval"
  /\ Yields(r, Top(t).fn[heap[Top(t).cur]])
  /\ stack' = Rewrite(t, [Top(t) EXCEPT !.pc = "cas", !.new = r])
  /\ UNCHANGED <<ptr, held, last>>

\* The callback throws: the exception leaves rcu, which has stored nothing.
\* The code around it, an outer callback perhaps, catches it or throws on.
RcuThrow(t) ==
  /\ stack[t] # <<>>
  /\ Top(t).pc = "eval"
  /\ stack' = [stack EXCEPT ![t] = Pop(t)]
  /\ UNCHANGED <<ptr, heap, held, last>>

\* Mutant: the retry is a recursive call.
RecursingRcuCas(t) ==
  /\ stack[t] # <<>>
  /\ Top(t).pc = "cas"
  /\ CompareAndExchange(Top(t).cur, Top(t).new)
  /\ IF SameObject(Top(t).cur, ptr)
       THEN /\ stack' = [stack EXCEPT ![t] = Pop(t)]
            /\ held' = [held EXCEPT ![t] = ptr]
            /\ last' = Cell!RcuBy(t, Top(t).fn)
       ELSE /\ stack' = [stack EXCEPT ![t] = Append(@, Iteration(Top(t).fn))]
            /\ UNCHANGED <<held, last>>
  /\ UNCHANGED heap

\* Mutant: store instead of compareAndSwap, as in the KDoc's example of what
\* does not work.
StoringRcuCas(t) ==
  /\ stack[t] # <<>>
  /\ Top(t).pc = "cas"
  /\ ptr' = Top(t).new
  /\ stack' = [stack EXCEPT ![t] = Pop(t)]
  /\ held' = [held EXCEPT ![t] = ptr]
  /\ last' = Cell!RcuBy(t, Top(t).fn)
  /\ UNCHANGED heap

\* Mutant: the retry forgets to take what compareAndSwap returned.
StuckRcuCas(t) ==
  /\ stack[t] # <<>>
  /\ Top(t).pc = "cas"
  /\ CompareAndExchange(Top(t).cur, Top(t).new)
  /\ IF SameObject(Top(t).cur, ptr)
       THEN /\ stack' = [stack EXCEPT ![t] = Pop(t)]
            /\ held' = [held EXCEPT ![t] = ptr]
            /\ last' = Cell!RcuBy(t, Top(t).fn)
       ELSE /\ stack' = Rewrite(t, [Top(t) EXCEPT !.pc = "eval"])
            /\ UNCHANGED <<held, last>>
  /\ UNCHANGED heap

\* Mutant: no loop, rcu returns whether or not compareAndSwap succeeded.
OneShotRcuCas(t) ==
  /\ stack[t] # <<>>
  /\ Top(t).pc = "cas"
  /\ CompareAndExchange(Top(t).cur, Top(t).new)
  /\ stack' = [stack EXCEPT ![t] = Pop(t)]
  /\ held' = [held EXCEPT ![t] = ptr]
  /\ last' = Cell!RcuBy(t, Top(t).fn)
  /\ UNCHANGED heap

\* val prev = compareAndSwap(cur.value, new), then return prev or retry
\* with cur = prev.
RcuCas(t) ==
  /\ stack[t] # <<>>
  /\ Top(t).pc = "cas"
  /\ CompareAndExchange(Top(t).cur, Top(t).new)
  /\ IF SameObject(Top(t).cur, ptr)
       THEN /\ stack' = [stack EXCEPT ![t] = Pop(t)]
            /\ held' = [held EXCEPT ![t] = ptr]
            /\ last' = Cell!RcuBy(t, Top(t).fn)
       ELSE /\ stack' = Rewrite(t, Iteration(Top(t).fn))
            /\ UNCHANGED <<held, last>>
  /\ UNCHANGED heap

-----------------------------------------------------------------------------
Init ==
  /\ ptr \in Refs
  /\ heap \in [Refs -> Vals]
  /\ held = [t \in Threads |-> ptr]
  /\ stack = [t \in Threads |-> <<>>]
  /\ last = Cell!Created

RcuStep(t) == (\E r \in Refs : RcuEval(t, r)) \/ RcuThrow(t) \/ RcuCas(t)

Next ==
  \E t \in Threads :
    \/ Load(t)
    \/ \E r \in Refs, v \in Vals :
         \/ Swap(t, r, v)
         \/ Store(t, r, v)
         \/ \E current \in Refs : CompareAndSwap(t, current, r, v)
    \/ \E f \in Fns : RcuLoad(t, f)
    \/ \E r \in Refs : RcuEval(t, r)
    \/ RcuThrow(t)
    \/ RcuCas(t)

Spec == Init /\ [][Next]_vars

\* A thread that is in an rcu is scheduled again and again, and the callbacks
\* come to an end.  Nobody is obliged to call anything.
FairSpec == Spec /\ \A t \in Threads : WF_vars(RcuStep(t))

-----------------------------------------------------------------------------
\* Properties.

\* An object an unfinished rcu looked at still has the content it had then,
\* and what the callback returned is the function of that content, whatever
\* was stored, dropped and collected since (ArcSwapAny.kt:53-54 and 207-210).
GuardsPin ==
  \A t \in Threads : \A i \in DOMAIN stack[t] :
    LET fr == stack[t][i] IN
      /\ heap[fr.cur] = fr.seen
      /\ fr.pc = "cas" => heap[fr.new] = fr.fn[fr.seen]

Inv == TypeOK /\ GuardsPin

\* Every operation takes effect at once for everybody, rcu too: what rcu
\* stores is its function of the content it replaces, never of an older one,
\* and it returns that content (ArcSwapAny.kt:148-158, 206-217).
ImplementsAtomicCell == Cell!CellSpec

\* Lock-freedom: rcu calls cannot keep each other from finishing.  As long as
\* some thread is in an rcu, again and again a call finishes or a new object
\* is stored (ArcSwapAny.kt:208-216 has no other way out of the loop).
Progress == ptr' # ptr \/ \E t \in Threads : Len(stack'[t]) < Depth(t)

LockFree ==
  []<>(\A t \in Threads : stack[t] = <<>>) \/ []<><<Progress>>_vars
=============================================================================
