----------------------------- MODULE MCMatchQueue -----------------------------
(***************************************************************************)
(* Small instances of MatchQueue: two processes, one of which may run two  *)
(* worker goroutines (cmd/worker/main.go starts a pool of two).            *)
(***************************************************************************)
EXTENDS MatchQueue, TLC

CONSTANTS w1, w2, w3, p1, p2, m1, m2

\* w1 and w2 share the process p1, and so the name in reserved_by.
HostThree == (w1 :> p1) @@ (w2 :> p1) @@ (w3 :> p2)
HostTwo == (w1 :> p1) @@ (w2 :> p2)
=============================================================================
