---------------------------- MODULE MCArcSwapAny ----------------------------
(* Instances of ArcSwapAny for TLC. *)
EXTENDS ArcSwapAny, TLC

MCVals == 0..1

\* Int addition that wraps, as Kotlin's does, here at width 1.
Inc == [v \in MCVals |-> (v + 1) % 2]
Keep == [v \in MCVals |-> v]
MCFns == {Inc, Keep}
MCInc == {Inc}

\* Bound: at any time one thread at most has an rcu inside another.
NestOne == \E t \in Threads : Depth(t) <= 1

Symmetry == Permutations(Refs) \cup Permutations(Threads)
=============================================================================
