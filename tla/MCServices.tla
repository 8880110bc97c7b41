------------------------------ MODULE MCServices ------------------------------
(***************************************************************************)
(* The bookkeeping of the API: refresh sessions, permissions, request      *)
(* counts and idempotency keys.  They share no state: each is explored by  *)
(* itself, and part says which.                                            *)
(***************************************************************************)
EXTENDS Sessions, Permissions, RateLimiter, Idempotency, TLC

CONSTANTS c1, c2

\* The last sender has a key of its own; the one before it names another match
\* under the key of the others.
KeyOfDef == [s \in Senders |-> IF s = 5 THEN "l" ELSE "k"]
TargetOfDef == [s \in Senders |-> IF s = 4 THEN "n" ELSE "m"]

VARIABLE part

servicesVars == <<sessVars, permVars, limVars, idemVars, part>>

MCInit ==
    /\ part \in {"sessions", "permissions", "limiter", "keys"}
    /\ SessInit /\ PermInit /\ LimInit /\ IdemInit
    /\ part # "permissions" => userRoles = {} /\ rolePerms = [r \in Roles |-> {}]

MCNext ==
    \/ /\ part = "sessions" /\ SessNext
       /\ UNCHANGED <<permVars, limVars, idemVars, part>>
    \/ /\ part = "permissions" /\ PermNext
       /\ UNCHANGED <<sessVars, limVars, idemVars, part>>
    \/ /\ part = "limiter" /\ LimNext
       /\ UNCHANGED <<sessVars, permVars, idemVars, part>>
    \/ /\ part = "keys" /\ IdemNext
       /\ UNCHANGED <<sessVars, permVars, limVars, part>>

MCSpec == MCInit /\ [][MCNext]_servicesVars

\* The requests of Sessions may be exchanged.
Symmetry == Permutations(Calls)
===============================================================================
