------------------------------- MODULE MCCache -------------------------------
(* An instance of Cache for TLC. *)
EXTENDS Cache, TLC

CONSTANTS t1, t2, a, b, c, shared, own

MCFns == {[v \in Vals |-> v]}

Whole(k) == [cache |-> k, projection |-> [v \in Vals |-> v]]

\* Another object for each of a and b: reading one for the other, forgetting
\* the projection or applying it twice all show.
Mapped(k) == [cache |-> k, projection |-> (a :> b) @@ (b :> a) @@ (c :> c)]

\* One cache both threads use, and one that is t1's alone, used through a
\* mapped cache.
MCUsers == (t1 :> {Whole(shared), Mapped(own)}) @@ (t2 :> {Whole(shared)})

\* Mapped treats a and b alike.
Symmetry == Permutations({a, b})

\* Nothing here depends on which operation took effect last, nor on what a
\* thread received once its call has compared it.
Pending(t) == At(t, "compare") \/ At(t, "write")
View == <<value, [t \in Threads |-> IF Pending(t) THEN ret[t] ELSE value], cacheVars>>
=============================================================================
