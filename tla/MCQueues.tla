------------------------------- MODULE MCQueues -------------------------------
(***************************************************************************)
(* The two implementations of the queue interface under fair workers, side *)
(* by side: a behaviour is one of the PostgreSQL queue's or one of the     *)
(* in-memory queue's, and kind says which.                                 *)
(***************************************************************************)
EXTENDS MCMatchQueue, MemoryQueue

CONSTANTS j1, j2, j3, c1, c2

\* j1 and j2 are for one match, j3 for the other.
JobMatchDef == (j1 :> m1) @@ (j2 :> m1) @@ (j3 :> m2)

VARIABLE kind

queueVars == <<vars, memVars, kind>>

QueuesInit == kind \in {"postgres", "memory"} /\ Init /\ MemInit

QueuesNext ==
    \/ kind = "postgres" /\ Next /\ UNCHANGED <<memVars, kind>>
    \/ kind = "memory" /\ MemNext /\ UNCHANGED <<vars, kind>>

\* The fairness of MatchQueue and of MemoryQueue, each in its own behaviours.
QueuesFairness ==
    /\ \A m \in Matches :
        /\ WF_vars(kind = "postgres" /\ \E w \in Workers : Dequeue(w, m))
        /\ WF_vars(kind = "postgres" /\ LeaseExpires(m))
        /\ WF_vars(kind = "postgres" /\ BackoffElapses(m))
    /\ \A w \in Workers :
        /\ WF_vars(kind = "postgres" /\ Complete(w))
        /\ WF_vars(kind = "postgres" /\ (Retry(w) \/ RetryLost(w)))
    /\ \A w \in Consumers :
        /\ WF_memVars(/\ kind = "memory"
                      /\ TakeJob(w) \/ Register(w) \/ Leaves(w) \/ GivesUpResending(w))
        /\ SF_memVars(kind = "memory" /\ Resends(w))

QueuesSpec == QueuesInit /\ [][QueuesNext]_queueVars /\ QueuesFairness
===============================================================================
