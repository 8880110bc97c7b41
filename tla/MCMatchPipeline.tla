---------------------------- MODULE MCMatchPipeline ----------------------------
(***************************************************************************)
(* Small instances of MatchPipeline: one match, one to three requests, one *)
(* worker or two workers on two processes.                                 *)
(***************************************************************************)
EXTENDS MatchPipeline, TLC

CONSTANTS w1, w2, p1, p2, m1, r1, r2, r3

HostOf == [w \in Workers |-> IF w = w1 THEN p1 ELSE p2]
TargetOf == [r \in Requests |-> m1]

\* The two workers may be exchanged together with their processes, and so may
\* the requests, which are for the same match.
Exchanged(S) == {[x \in S |-> x], w1 :> w2 @@ w2 :> w1 @@ p1 :> p2 @@ p2 :> p1}

Symmetry ==
    {f @@ g : f \in Exchanged({w1, w2, p1, p2}), g \in Permutations(Requests)}
=============================================================================
