------------------------ MODULE FencedOwnershipProofs ------------------------
(***************************************************************************)
(* Proofs about FencedOwnership, for any matches, rounds and grants.       *)
(***************************************************************************)
EXTENDS FencedOwnership, TLAPS

LEMMA InitIInv == Init => IInv
<1> SUFFICES ASSUME Init
             PROVE  IInv
  OBVIOUS
<1>1. TypeOK
  BY DEF Init, TypeOK
<1> QED
  BY <1>1 DEF Init, IInv, OneVerdictPerRound, OneVerdictPerEpoch,
     OpenRoundsRequested, DecidedRoundsClosed, EpochsAhead

LEMMA OpenIInv ==
    ASSUME IInv, NEW m \in Matches, NEW r \in Rounds, Open(m, r)
    PROVE  IInv'
<1> USE DEF IInv, Request
<1>1. \A c \in verdicts : c.match \in Matches /\ c.token \in Nat
  BY DEF TypeOK, Verdict
<1>2. used' \in [Matches -> SUBSET Rounds]
  BY DEF Open, TypeOK
<1>3. TypeOK'
  BY <1>2 DEF Open, TypeOK
<1>4. DecidedRoundsClosed' /\ OpenRoundsRequested'
  BY <1>1 DEF Open, TypeOK, DecidedRoundsClosed, OpenRoundsRequested
<1>5. EpochsAhead'
  BY <1>1 DEF Open, TypeOK, EpochsAhead
<1> QED
  BY <1>3, <1>4, <1>5 DEF Open, OneVerdictPerRound, OneVerdictPerEpoch

LEMMA DropIInv ==
    ASSUME IInv, NEW m \in Matches, NEW r \in Rounds, Drop(m, r)
    PROVE  IInv'
<1> USE DEF IInv, Request
<1>1. \A c \in verdicts : c.match \in Matches
  BY DEF TypeOK, Verdict
<1>2. TypeOK'
  BY DEF Drop, TypeOK
<1>3. DecidedRoundsClosed' /\ OpenRoundsRequested'
  BY <1>1 DEF Drop, TypeOK, DecidedRoundsClosed, OpenRoundsRequested
<1> QED
  BY <1>2, <1>3 DEF Drop, OneVerdictPerRound, OneVerdictPerEpoch, EpochsAhead

LEMMA GrantIInv ==
    ASSUME IInv, NEW m \in Matches, Grant(m)
    PROVE  IInv'
<1> USE DEF IInv
<1>1. \A c \in verdicts : c.match \in Matches /\ c.token \in Nat
  BY DEF TypeOK, Verdict
<1>2. grants[m] + 1 \in Nat /\ epoch[m] + 1 \in Nat
  BY DEF TypeOK
<1>3. TypeOK'
  BY <1>2 DEF Grant, TypeOK
<1>4. EpochsAhead'
  BY <1>1 DEF Grant, TypeOK, EpochsAhead
<1> QED
  BY <1>3, <1>4 DEF Grant, OneVerdictPerRound, OneVerdictPerEpoch,
     OpenRoundsRequested, DecidedRoundsClosed

LEMMA DecideIInv ==
    ASSUME IInv, NEW m \in Matches, Decide(m)
    PROVE  IInv'
<1> DEFINE d == [match |-> m, run |-> round[m], token |-> epoch[m]]
<1>1. /\ d.match = m /\ d.run = round[m] /\ d.token = epoch[m]
      /\ d \in Verdict
  BY DEF IInv, TypeOK, Verdict, Decide, OpenRoundsRequested
<1>2. /\ verdicts' = verdicts \union {d}
      /\ m \in open /\ grants[m] > 0
      /\ open' = open \ {m}
      /\ UNCHANGED <<used, round, grants, epoch>>
  BY DEF Decide
<1> HIDE DEF d
<1>3. epoch[m] \in Nat
  BY DEF IInv, TypeOK
<1>4. ASSUME NEW c \in verdicts
      PROVE  /\ c.match \in Matches /\ c.token \in Nat
             /\ c.match = m => c.run # d.run /\ c.token < d.token
  <2>1. c.match \in Matches /\ c.token \in Nat
    BY DEF IInv, TypeOK, Verdict
  <2> QED
    BY <1>1, <1>2, <1>3, <2>1 DEF IInv, DecidedRoundsClosed, EpochsAhead
<1>5. TypeOK'
  BY <1>1, <1>2 DEF IInv, TypeOK
<1>6. OneVerdictPerRound'
  BY <1>1, <1>2, <1>3, <1>4 DEF IInv, OneVerdictPerRound
<1>7. OneVerdictPerEpoch'
  BY <1>1, <1>2, <1>3, <1>4 DEF IInv, OneVerdictPerEpoch
<1>8. DecidedRoundsClosed'
  BY <1>1, <1>2, <1>4 DEF IInv, OpenRoundsRequested, DecidedRoundsClosed
<1>9. OpenRoundsRequested'
  BY <1>2 DEF IInv, OpenRoundsRequested
<1>10. EpochsAhead'
  BY <1>1, <1>2, <1>3, <1>4 DEF IInv, EpochsAhead
<1> QED
  BY <1>5, <1>6, <1>7, <1>8, <1>9, <1>10 DEF IInv

LEMMA GiveUpIInv ==
    ASSUME IInv, NEW m \in Matches, GiveUp(m)
    PROVE  IInv'
  BY DEF GiveUp, IInv, TypeOK, OneVerdictPerRound, OneVerdictPerEpoch,
         OpenRoundsRequested, DecidedRoundsClosed, EpochsAhead

LEMMA StepIInv == IInv /\ [Next]_vars => IInv'
<1> SUFFICES ASSUME IInv, [Next]_vars
             PROVE  IInv'
  OBVIOUS
<1>1. CASE Next
  BY <1>1, OpenIInv, DropIInv, GrantIInv, DecideIInv, GiveUpIInv DEF Next
<1>2. CASE UNCHANGED vars
  BY <1>2 DEF vars, IInv, TypeOK, OneVerdictPerRound, OneVerdictPerEpoch,
     OpenRoundsRequested, DecidedRoundsClosed, EpochsAhead
<1> QED
  BY <1>1, <1>2

\* Every verdict is of a closed round and of an epoch already used.
LEMMA InductiveInvariant == Spec => []IInv
<1>1. Init => IInv
  BY InitIInv
<1>2. IInv /\ [Next]_vars => IInv'
  BY StepIInv
<1> QED
  BY <1>1, <1>2, PTL DEF Spec

\* A round has at most one verdict, however often the right to decide it was
\* granted.
THEOREM OneVerdict == Spec => []OneVerdictPerRound
<1>1. IInv => OneVerdictPerRound
  BY DEF IInv
<1> QED
  BY <1>1, InductiveInvariant, PTL

\* A right to decide is used at most once, in any round.
THEOREM OneVerdictEach == Spec => []OneVerdictPerEpoch
<1>1. IInv => OneVerdictPerEpoch
  BY DEF IInv
<1> QED
  BY <1>1, InductiveInvariant, PTL
=============================================================================
