----------------------------- MODULE ServicesProofs -----------------------------
(***************************************************************************)
(* Proofs about the bookkeeping of the API: Sessions, for any users, requests*)
(* and limits; Idempotency, for any requests, keys and matches; RateLimiter,*)
(* for any clients, limit and window; and Permissions, for any roles, checks*)
(* and ages.                                                               *)
(***************************************************************************)
EXTENDS Sessions, Idempotency, RateLimiter, Permissions, FiniteSetTheorems,
        WellFoundedInduction, TLAPS

-----------------------------------------------------------------------------
(* Sessions.                                                               *)

\* Numbers are given out in order, and a family is named after one given out
\* before its members.
RowsMinted == \A n \in Numbers :
    /\ fam[n] # 0 <=> n <= minted
    /\ fam[n] <= minted
    /\ fam[n] = 0 => status[n] = "none"
    /\ status[n] = "none" => exchanged[n] = 0 /\ n \notin known

\* What a request carries from one statement to the next.
CallsCarry == \A c \in Calls :
    /\ call[c].family <= minted
    /\ call[c].step \in {"user", "rotate", "end", "drop"} =>
           /\ call[c].number # 0 /\ call[c].family # 0
           /\ status[call[c].number] # "none"
           /\ fam[call[c].number] = call[c].family
    /\ call[c].step = "insert" =>
           /\ call[c].number # 0 /\ call[c].family # 0
           /\ status[call[c].number] = "none"
           /\ fam[call[c].number] = call[c].family
    /\ call[c].step = "prune" =>
           call[c].number # 0 /\ status[call[c].number] # "none"

InsertsDistinct == \A b, c \in Calls :
    call[b].step = "insert" /\ call[c].step = "insert"
        /\ call[b].number = call[c].number => b = c

\* A token that was rotated is not live, whatever else happened to it.
LiveNotExchanged == \A n \in Numbers : status[n] = "live" => exchanged[n] = 0

\* A token of f that may still be exchanged without reuse, live or not.
Open(n, f) == status[n] # "none" /\ fam[n] = f /\ exchanged[n] = 0

\* FamilyLinear is not inductive: a request may rotate a token that has been
\* revoked since it was read.  Counting unexchanged tokens instead is.
OpenOnce == \A f \in Numbers :
    (\A n \in Numbers : fam[n] = f => exchanged[n] <= 1) =>
        /\ \A n, k \in Numbers : Open(n, f) /\ Open(k, f) => n = k
        /\ \A b, c \in Calls : Pending(b, f) /\ Pending(c, f) => b = c
        /\ \A n \in Numbers, c \in Calls : ~(Open(n, f) /\ Pending(c, f))

EndedMinted == \A f \in ended : f <= minted

SessInv ==
    /\ SessTypeOK
    /\ RowsMinted
    /\ CallsCarry
    /\ InsertsDistinct
    /\ LiveNotExchanged
    /\ OpenOnce
    /\ EndedMinted
    /\ EndedFamiliesStayEnded

LEMMA InitSessInv == SessInit => SessInv
<1> SUFFICES ASSUME SessInit
             PROVE  SessInv
  OBVIOUS
<1> USE MintedAssumption, NoUserAssumption DEF SessInit, Numbers
<1>1. SessTypeOK
  BY DEF SessTypeOK, CallState, CallSteps, NewCall
<1>2. RowsMinted /\ CallsCarry /\ InsertsDistinct
  BY DEF RowsMinted, CallsCarry, InsertsDistinct, NewCall
<1>3. LiveNotExchanged /\ EndedMinted /\ EndedFamiliesStayEnded
  BY DEF LiveNotExchanged, EndedMinted, EndedFamiliesStayEnded
<1>4. OpenOnce
  BY DEF OpenOnce, Open, Pending, NewCall
<1> QED
  BY <1>1, <1>2, <1>3, <1>4 DEF SessInv

-----------------------------------------------------------------------------
(* What most actions change is one call, or live rows into revoked ones.   *)

\* Request c goes on to d, a step that is no part of making a session.
RequestMoves(c, d) ==
    /\ d \in CallState
    /\ call' = [call EXCEPT ![c] = d]
    /\ UNCHANGED <<status, owner, fam, expired, minted, exchanged, ended, overlapped>>
    /\ activeUsers' \subseteq Users
    /\ known' \subseteq Numbers /\ unpruned' \in [Users -> Nat]
    /\ \A n \in known' : status[n] # "none"
    /\ d.family <= minted
    /\ d.step \notin {"insert", "prune"}
    /\ d.step = "issue" => d.family = 0
    /\ d.step \in {"user", "rotate", "end", "drop"} =>
           /\ d.number # 0 /\ d.family # 0
           /\ status[d.number] # "none"
           /\ fam[d.number] = d.family
    /\ d.step \in {"user", "rotate"} =>
           Refreshing(c, d.family) \/ status[d.number] = "live"

LEMMA CallMoves ==
    ASSUME SessInv, NEW c \in Calls, NEW d, RequestMoves(c, d)
    PROVE  SessInv'
<1> USE DEF RequestMoves
<1> USE MintedAssumption DEF SessInv, Numbers
<1>1. SessTypeOK'
  BY DEF SessTypeOK
<1>2. call'[c] = d /\ \A b \in Calls : b # c => call'[b] = call[b]
  BY DEF SessTypeOK
<1>3. RowsMinted' /\ LiveNotExchanged' /\ EndedMinted'
  BY DEF RowsMinted, LiveNotExchanged, EndedMinted
<1>4. CallsCarry'
  <2> SUFFICES ASSUME NEW b \in Calls
               PROVE  CallsCarry!(b)'
    BY DEF CallsCarry
  <2> QED
    BY <1>2 DEF CallsCarry
<1>5. InsertsDistinct'
  BY <1>2 DEF InsertsDistinct
<1>6. OpenOnce'
  BY <1>2 DEF OpenOnce, Open, Pending
<1>7. EndedFamiliesStayEnded'
  <2> SUFFICES ASSUME NEW f \in ended, f \notin overlapped
               PROVE  /\ \A n \in Numbers : ~LiveIn(n, f)
                      /\ \A b \in Calls : ~Refreshing(b, f)'
    BY DEF EndedFamiliesStayEnded, LiveIn
  <2>1. \A n \in Numbers : ~LiveIn(n, f)
    BY DEF EndedFamiliesStayEnded
  <2>2. \A b \in Calls : ~Refreshing(b, f)
    BY DEF EndedFamiliesStayEnded
  <2>3. ~Refreshing(c, f)'
    <3> SUFFICES ASSUME d.family = f, d.step \in {"user", "rotate", "issue"}
                 PROVE  FALSE
      BY <1>2 DEF Refreshing
    <3>1. f \in Numbers
      BY DEF SessTypeOK
    <3>2. d.step \in {"user", "rotate"}
      BY <3>1
    <3>3. status[d.number] = "live" /\ fam[d.number] = f /\ d.number \in Numbers
      BY <2>2, <3>2 DEF CallState
    <3> QED
      BY <2>1, <3>3 DEF LiveIn
  <2> QED
    BY <1>2, <2>1, <2>2, <2>3 DEF Refreshing
<1> QED
  BY <1>1, <1>3, <1>4, <1>5, <1>6, <1>7

\* The live sessions of S become revoked ones, those of the families F among
\* them, and a request may return.
RevokesIn(S, F) ==
    /\ F \subseteq 1..minted
    /\ status' = RevokedAll(S)
    /\ \A n \in Numbers : fam[n] \in F => n \in S
    /\ UNCHANGED call \/ \E c \in Calls : Returns(c)
    /\ UNCHANGED <<owner, fam, expired, minted, activeUsers, exchanged>>
    /\ known' \subseteq Numbers /\ unpruned' \in [Users -> Nat]
    /\ \A n \in known' : status[n] # "none"
    /\ ended' = ended \union F
    /\ overlapped' = overlapped \union {f \in F : \E c \in Calls : Refreshing(c, f)}

LEMMA Revokes ==
    ASSUME SessInv, NEW S, NEW F, RevokesIn(S, F)
    PROVE  SessInv'
<1> USE DEF RevokesIn
<1> USE MintedAssumption DEF SessInv, Numbers
<1>1. \A n \in Numbers : /\ status'[n] \in {"none", "live", "revoked"}
                         /\ status'[n] = "none" <=> status[n] = "none"
                         /\ status'[n] = "live" <=> status[n] = "live" /\ n \notin S
  BY DEF SessTypeOK, RevokedAll
<1>2. \A b \in Calls : call'[b] = call[b] \/ call'[b] = NewCall
  BY DEF SessTypeOK, Returns
<1>3. call' \in [Calls -> CallState]
  <2>1. NewCall \in CallState
    BY DEF NewCall, CallState, CallSteps
  <2> QED
    BY <2>1 DEF SessTypeOK, Returns
<1>4. SessTypeOK'
  <2>1. status' \in [Numbers -> {"none", "live", "revoked"}]
    BY DEF SessTypeOK, RevokedAll
  <2>2. F \subseteq Numbers
    BY DEF SessTypeOK
  <2>3. ended' \subseteq Numbers /\ overlapped' \subseteq ended'
    <3>1. {f \in F : \E c \in Calls : Refreshing(c, f)} \subseteq F
      OBVIOUS
    <3> QED
      BY <2>2, <3>1 DEF SessTypeOK
  <2> QED
    BY <1>3, <2>1, <2>3 DEF SessTypeOK
<1>5. RowsMinted'
  BY <1>1 DEF RowsMinted, SessTypeOK
<1>6. LiveNotExchanged' /\ EndedMinted'
  BY <1>1 DEF LiveNotExchanged, EndedMinted, SessTypeOK
<1>7. CallsCarry'
  <2> SUFFICES ASSUME NEW b \in Calls
               PROVE  CallsCarry!(b)'
    BY DEF CallsCarry
  <2>1. CASE call'[b] = NewCall
    BY <2>1 DEF NewCall, SessTypeOK
  <2>2. CASE call'[b] = call[b]
    BY <1>1, <2>2 DEF CallsCarry, SessTypeOK, CallState
  <2> QED
    BY <1>2, <2>1, <2>2
<1>8. InsertsDistinct'
  BY <1>2 DEF InsertsDistinct, NewCall
<1>9. OpenOnce'
  BY <1>1, <1>2 DEF OpenOnce, Open, Pending, NewCall
<1>10. EndedFamiliesStayEnded'
  <2> SUFFICES ASSUME NEW f \in ended', f \notin overlapped'
               PROVE  /\ \A n \in Numbers : ~LiveIn(n, f)'
                      /\ \A b \in Calls : ~Refreshing(b, f)'
    BY DEF EndedFamiliesStayEnded
  <2>1. \A b \in Calls : ~Refreshing(b, f)
    BY DEF EndedFamiliesStayEnded
  <2>2. \A b \in Calls : ~Refreshing(b, f)'
    BY <1>2, <2>1 DEF Refreshing, NewCall
  <2>3. CASE f \in F
    BY <1>1, <2>2, <2>3 DEF LiveIn
  <2>4. CASE f \in ended
    BY <1>1, <2>2, <2>4 DEF LiveIn, EndedFamiliesStayEnded
  <2> QED
    BY <2>3, <2>4
<1> QED
  BY <1>4, <1>5, <1>6, <1>7, <1>8, <1>9, <1>10

\* The clock or an administrator acts.
LEMMA OthersAct ==
    ASSUME SessInv, expired' \subseteq Numbers, activeUsers' \subseteq Users,
           UNCHANGED <<status, owner, fam, known, minted, call, exchanged, ended,
                       overlapped, unpruned>>
    PROVE  SessInv'
<1>1. SessTypeOK'
  BY DEF SessInv, SessTypeOK
<1>2. RowsMinted' /\ CallsCarry' /\ InsertsDistinct' /\ LiveNotExchanged'
  BY DEF SessInv, RowsMinted, CallsCarry, InsertsDistinct, LiveNotExchanged
<1>3. OpenOnce' /\ EndedMinted' /\ EndedFamiliesStayEnded'
  BY DEF SessInv, OpenOnce, Open, Pending, EndedMinted, EndedFamiliesStayEnded, LiveIn,
     Refreshing
<1> QED
  BY <1>1, <1>2, <1>3 DEF SessInv

-----------------------------------------------------------------------------
(* The statements by which a session is made.                              *)

LEMMA RotateKeeps ==
    ASSUME SessInv, NEW c \in Calls, Rotate(c)
    PROVE  SessInv'
<1> DEFINE n == call[c].number
           f == call[c].family
<1> USE MintedAssumption DEF SessInv, Numbers
<1>1. /\ n \in Numbers /\ f \in 1..minted /\ fam[n] = f /\ status[n] # "none"
      /\ call[c].step = "rotate"
  BY DEF Rotate, AtStep, SessTypeOK, CallState, CallsCarry
<1>2. \A k \in Numbers : /\ status'[k] \in {"none", "live", "revoked"}
                         /\ status'[k] = "none" <=> status[k] = "none"
                         /\ status'[k] = "live" <=> status[k] = "live" /\ k # n
  BY DEF SessTypeOK, RevokedAll, Rotate
<1>3. /\ exchanged'[n] = exchanged[n] + 1
      /\ \A k \in Numbers : k # n => exchanged'[k] = exchanged[k]
      /\ exchanged' \in [Numbers -> Nat]
      /\ \A k \in Numbers : exchanged[k] \in Nat
  BY <1>1 DEF Rotate, SessTypeOK
<1>4. /\ call'[c].step = "issue" /\ call'[c].family = f
      /\ \A b \in Calls : b # c => call'[b] = call[b]
      /\ call' \in [Calls -> CallState]
  BY <1>1 DEF Rotate, SessTypeOK, CallState, CallSteps
<1>5. SessTypeOK'
  BY <1>3, <1>4 DEF SessTypeOK, Rotate, RevokedAll
<1>6. RowsMinted'
  BY <1>1, <1>2, <1>3 DEF RowsMinted, Rotate, SessTypeOK
<1>7. CallsCarry'
  <2> SUFFICES ASSUME NEW b \in Calls
               PROVE  CallsCarry!(b)'
    BY DEF CallsCarry
  <2>1. CASE b = c
    BY <1>1, <1>4, <2>1 DEF Rotate
  <2>2. CASE b # c
    <3>1. call'[b] = call[b] /\ call[b].number \in 0..MaxMinted
      BY <1>4, <2>2 DEF SessTypeOK, CallState
    <3>2. CallsCarry!(b)
      BY DEF CallsCarry
    <3>3. minted' = minted /\ fam' = fam
      BY DEF Rotate
    <3> QED
      BY <1>2, <3>1, <3>2, <3>3
  <2> QED
    BY <2>1, <2>2
<1>8. InsertsDistinct'
  BY <1>4 DEF InsertsDistinct
<1>9. LiveNotExchanged' /\ EndedMinted'
  BY <1>2, <1>3 DEF LiveNotExchanged, EndedMinted, Rotate
<1>10. OpenOnce'
  <2> SUFFICES ASSUME NEW g \in Numbers, \A k \in Numbers : fam'[k] = g => exchanged'[k] <= 1
               PROVE  /\ \A k, l \in Numbers : Open(k, g)' /\ Open(l, g)' => k = l
                      /\ \A a, b \in Calls : Pending(a, g)' /\ Pending(b, g)' => a = b
                      /\ \A k \in Numbers, b \in Calls : ~(Open(k, g)' /\ Pending(b, g)')
    BY DEF OpenOnce
  <2>1. \A k \in Numbers : fam[k] = g => exchanged[k] <= 1 /\ exchanged'[k] <= 1
    <3>1. fam' = fam
      BY DEF Rotate
    <3> QED
      BY <1>3, <3>1
  <2>2. \A k \in Numbers : Open(k, g)' => Open(k, g) /\ k # n
    <3>1. fam' = fam /\ exchanged'[n] # 0
      BY <1>1, <1>3 DEF Rotate
    <3> QED
      BY <1>2, <1>3, <3>1 DEF Open
  <2>3. \A b \in Calls : Pending(b, g)' => Pending(b, g) \/ (b = c /\ g = f)
    BY <1>4 DEF Pending
  <2>4. OpenOnce!(g)
    BY DEF OpenOnce
  <2>5. CASE g # f
    BY <2>1, <2>2, <2>3, <2>4, <2>5
  <2>6. CASE g = f
    <3>1. Open(n, g)
      BY <1>1, <1>3, <2>1, <2>6 DEF Open
    <3>2. \A k \in Numbers : ~Open(k, g)'
      BY <1>1, <2>1, <2>2, <2>4, <3>1
    <3>3. \A b \in Calls : ~Pending(b, g)
      BY <1>1, <2>1, <2>4, <3>1
    <3> QED
      BY <2>3, <3>2, <3>3
  <2> QED
    BY <2>5, <2>6
<1>11. EndedFamiliesStayEnded'
  <2>1. \A b \in Calls, g \in ended : Refreshing(b, g)' => Refreshing(b, g)
    BY <1>1, <1>4 DEF Refreshing
  <2>2. \A k \in Numbers, g \in ended : LiveIn(k, g)' => LiveIn(k, g)
    BY <1>2 DEF LiveIn, Rotate
  <2> QED
    BY <2>1, <2>2 DEF EndedFamiliesStayEnded, Rotate
<1> QED
  BY <1>5, <1>6, <1>7, <1>8, <1>9, <1>10, <1>11

LEMMA MintKeeps ==
    ASSUME SessInv, NEW c \in Calls, Mint(c)
    PROVE  SessInv'
<1> DEFINE n == minted + 1
           f == IF call[c].family = 0 THEN n ELSE call[c].family
<1> USE MintedAssumption DEF SessInv, Numbers
<1>1. /\ n \in Numbers /\ minted \in Nat /\ minted' = n
      /\ call[c].family \in 0..minted /\ f \in 1..n /\ call[c].step = "issue"
      /\ f = IF call[c].family = 0 THEN n ELSE call[c].family
  BY DEF Mint, AtStep, SessTypeOK, CallState, CallsCarry
<1>2. /\ fam'[n] = f /\ fam' \in [Numbers -> 0..MaxMinted]
      /\ \A k \in Numbers : k # n => fam'[k] = fam[k]
  BY <1>1 DEF Mint, SessTypeOK
<1>3. fam[n] = 0 /\ status[n] = "none" /\ exchanged[n] = 0
  BY <1>1 DEF RowsMinted, SessTypeOK
<1>4. /\ call'[c].step = "insert" /\ call'[c].family = f /\ call'[c].number = n
      /\ \A b \in Calls : b # c => call'[b] = call[b]
      /\ call' \in [Calls -> CallState]
  <2>1. call' = [call EXCEPT ![c] = [step |-> "insert", user |-> call[c].user,
                                     family |-> f, number |-> n]]
    BY <1>1, <1>2 DEF Mint
  <2>2. [step |-> "insert", user |-> call[c].user, family |-> f, number |-> n] \in CallState
    BY <1>1 DEF SessTypeOK, CallState, CallSteps
  <2> QED
    BY <2>1, <2>2 DEF SessTypeOK
<1>5. SessTypeOK'
  <2>1. owner' \in [Numbers -> Users \union {NoUser}]
    BY DEF Mint, SessTypeOK, CallState
  <2>2. minted' \in 0..MaxMinted
    BY <1>1
  <2>3. UNCHANGED <<status, expired, known, activeUsers, exchanged, ended, overlapped,
                    unpruned>>
    BY DEF Mint
  <2> HIDE DEF n, f
  <2> QED
    BY <1>2, <1>4, <2>1, <2>2, <2>3 DEF SessTypeOK
<1>6. UNCHANGED <<status, known, exchanged, ended, overlapped>>
  BY DEF Mint
<1> HIDE DEF f
<1>7. RowsMinted'
  <2> SUFFICES ASSUME NEW k \in Numbers
               PROVE  RowsMinted!(k)'
    BY DEF RowsMinted
  <2>1. RowsMinted!(k) /\ fam[k] \in Nat
    BY DEF RowsMinted, SessTypeOK
  <2>2. CASE k = n
    BY <1>1, <1>2, <1>3, <1>6, <2>1, <2>2
  <2>3. CASE k # n
    BY <1>1, <1>2, <1>6, <2>1, <2>3
  <2> QED
    BY <2>2, <2>3
<1>8. CallsCarry'
  <2> SUFFICES ASSUME NEW b \in Calls
               PROVE  CallsCarry!(b)'
    BY DEF CallsCarry
  <2>1. CASE b = c
    BY <1>1, <1>2, <1>3, <1>4, <1>6, <2>1
  <2>2. CASE b # c
    <3>1. call'[b] = call[b] /\ call[b].number \in 0..MaxMinted
          /\ call[b].family \in 0..minted
      BY <1>4, <2>2 DEF SessTypeOK, CallState, CallsCarry
    <3>2. CallsCarry!(b)
      BY DEF CallsCarry
    <3>3. call[b].number = n =>
              call[b].step \notin {"user", "rotate", "end", "drop", "insert"}
      BY <1>1, <1>3, <3>2
    <3> QED
      BY <1>1, <1>2, <1>6, <3>1, <3>2, <3>3
  <2> QED
    BY <2>1, <2>2
<1>9. InsertsDistinct'
  <2>1. \A b \in Calls : call[b].step = "insert" => call[b].number # n
    BY <1>1, <1>3 DEF CallsCarry
  <2> QED
    BY <1>4, <2>1 DEF InsertsDistinct
<1>10. LiveNotExchanged' /\ EndedMinted'
  BY <1>1, <1>6 DEF LiveNotExchanged, EndedMinted, SessTypeOK
<1>11. OpenOnce'
  <2> SUFFICES ASSUME NEW g \in Numbers,
                      \A k \in Numbers : fam'[k] = g => exchanged[k] <= 1
               PROVE  /\ \A k, l \in Numbers : Open(k, g)' /\ Open(l, g)' => k = l
                      /\ \A a, b \in Calls : Pending(a, g)' /\ Pending(b, g)' => a = b
                      /\ \A k \in Numbers, b \in Calls : ~(Open(k, g)' /\ Pending(b, g)')
    BY <1>6 DEF OpenOnce
  <2>0. \A k \in Numbers : Open(k, g)' => Open(k, g)
    BY <1>1, <1>2, <1>3, <1>6 DEF Open
  <2>1. \A k \in Numbers : fam[k] = g => exchanged[k] <= 1
    BY <1>1, <1>2, <1>3
  <2>2. CASE g # f \/ call[c].family = g
    <3>1. \A b \in Calls : Pending(b, g)' => Pending(b, g)
      BY <1>1, <1>4, <2>2 DEF Pending
    <3>2. OpenOnce!(g)
      BY DEF OpenOnce
    <3> QED
      BY <2>0, <2>1, <3>1, <3>2
  <2>3. CASE g = n /\ call[c].family = 0
    <3>1. \A k \in Numbers : ~Open(k, g)
      BY <1>1, <1>3, <2>3 DEF Open, RowsMinted, SessTypeOK
    <3>2. \A b \in Calls : ~Pending(b, g)
      BY <1>1, <2>3 DEF Pending, CallsCarry
    <3>3. \A b \in Calls : Pending(b, g)' => b = c
      BY <1>4, <3>2 DEF Pending
    <3> QED
      BY <2>0, <3>1, <3>3
  <2> QED
    BY <1>1, <2>2, <2>3
<1>12. EndedFamiliesStayEnded'
  <2> SUFFICES ASSUME NEW g \in ended, g \notin overlapped
               PROVE  /\ \A k \in Numbers : ~LiveIn(k, g)'
                      /\ \A b \in Calls : ~Refreshing(b, g)'
    BY <1>6 DEF EndedFamiliesStayEnded
  <2>1. g \in Numbers /\ g <= minted
    BY DEF SessTypeOK, EndedMinted
  <2>2. /\ \A k \in Numbers : ~LiveIn(k, g)
        /\ \A b \in Calls : ~Refreshing(b, g)
    BY DEF EndedFamiliesStayEnded
  <2>3. f # g
    <3>1. call[c].family # g
      BY <1>1, <2>2 DEF Refreshing
    <3> QED
      BY <1>1, <2>1, <3>1
  <2>4. \A b \in Calls : ~Refreshing(b, g)'
    BY <1>4, <2>2, <2>3 DEF Refreshing
  <2>5. \A k \in Numbers : LiveIn(k, g)' => LiveIn(k, g)
    BY <1>1, <1>2, <1>3, <1>6 DEF LiveIn
  <2> QED
    BY <2>2, <2>4, <2>5
<1> QED
  BY <1>5, <1>7, <1>8, <1>9, <1>10, <1>11, <1>12

LEMMA InsertKeeps ==
    ASSUME SessInv, NEW c \in Calls, Insert(c)
    PROVE  SessInv'
<1> DEFINE n == call[c].number
           f == call[c].family
<1> USE MintedAssumption DEF SessInv, Numbers
<1>1. /\ n \in Numbers /\ f \in Numbers /\ fam[n] = f /\ status[n] = "none"
      /\ call[c].step = "insert"
  BY DEF Insert, AtStep, SessTypeOK, CallState, CallsCarry
<1>2. /\ status'[n] = "live" /\ status' \in [Numbers -> {"none", "live", "revoked"}]
      /\ \A k \in Numbers : k # n => status'[k] = status[k]
  BY <1>1 DEF Insert, SessTypeOK
<1>3. /\ call'[c].step = "prune" /\ call'[c].number = n /\ call'[c].family = f
      /\ \A b \in Calls : b # c => call'[b] = call[b]
      /\ call' \in [Calls -> CallState]
  BY <1>1 DEF Insert, GoesTo, SessTypeOK, CallState, CallSteps
<1>4. UNCHANGED <<owner, fam, expired, known, minted, activeUsers, exchanged, ended,
                  overlapped, unpruned>>
  BY DEF Insert
<1>5. SessTypeOK'
  BY <1>2, <1>3, <1>4 DEF SessTypeOK
<1>6. RowsMinted' /\ EndedMinted'
  BY <1>1, <1>2, <1>4 DEF RowsMinted, EndedMinted
<1>7. LiveNotExchanged'
  BY <1>1, <1>2, <1>4 DEF LiveNotExchanged, RowsMinted
<1>8. CallsCarry'
  <2> SUFFICES ASSUME NEW b \in Calls
               PROVE  CallsCarry!(b)'
    BY DEF CallsCarry
  <2>0. CallsCarry!(b)
    BY DEF CallsCarry
  <2>1. CASE b = c
    BY <1>1, <1>2, <1>3, <1>4, <2>0, <2>1
  <2>2. CASE b # c
    <3>1. call'[b] = call[b] /\ call[b].number \in 0..MaxMinted
      BY <1>3, <2>2 DEF SessTypeOK, CallState
    <3>2. call[b].step = "insert" => call[b].number # n
      BY <1>1, <2>2 DEF InsertsDistinct
    <3> QED
      BY <1>2, <1>4, <2>0, <3>1, <3>2
  <2> QED
    BY <2>1, <2>2
<1>9. InsertsDistinct'
  BY <1>3 DEF InsertsDistinct
<1>10. OpenOnce'
  <2>1. \A k, g \in Numbers : Open(k, g)' => Open(k, g) \/ (k = n /\ g = f)
    BY <1>1, <1>2, <1>4 DEF Open
  <2>2. \A b \in Calls, g \in Numbers : Pending(b, g)' => Pending(b, g) /\ b # c
    BY <1>3 DEF Pending
  <2>3. Pending(c, f)
    BY <1>1 DEF Pending
  <2> QED
    BY <1>1, <1>4, <2>1, <2>2, <2>3 DEF OpenOnce
<1>11. EndedFamiliesStayEnded'
  <2>1. Refreshing(c, f)
    BY <1>1 DEF Refreshing
  <2>2. \A b \in Calls, g \in ended : Refreshing(b, g)' => Refreshing(b, g)
    BY <1>3 DEF Refreshing
  <2>3. \A k \in Numbers, g \in ended : LiveIn(k, g)' => LiveIn(k, g) \/ g = f
    BY <1>1, <1>2, <1>4 DEF LiveIn
  <2> QED
    BY <1>4, <2>1, <2>2, <2>3 DEF EndedFamiliesStayEnded
<1> QED
  BY <1>5, <1>6, <1>7, <1>8, <1>9, <1>10, <1>11

-----------------------------------------------------------------------------

LEMMA CallStepKeeps ==
    ASSUME SessInv, NEW c \in Calls,
           \/ \E u \in Users : CreateSession(c, u)
           \/ \E n \in Numbers : RefreshSession(c, n) \/ RevokeSession(c, n)
           \/ CheckUser(c) \/ Rotate(c) \/ Mint(c) \/ Insert(c)
           \/ PruneOldestUserSessions(c) \/ PruneFails(c)
           \/ RevokeSessionFamily(c) \/ DropExpired(c) \/ StepFails(c)
    PROVE  SessInv'
<1>1. /\ call[c] \in CallState /\ minted \in Nat
      /\ known \subseteq Numbers /\ unpruned \in [Users -> Nat] /\ activeUsers \subseteq Users
      /\ \A n \in known : status[n] # "none" /\ fam[n] # 0 /\ fam[n] \in 0..minted
      /\ call[c].family <= minted
  BY MintedAssumption DEF SessInv, SessTypeOK, RowsMinted, CallsCarry, Numbers
<1>2. NewCall \in CallState /\ NewCall.step = "new" /\ NewCall.family = 0
  BY MintedAssumption DEF NewCall, CallState, CallSteps
<1>3. ASSUME NEW u \in Users, CreateSession(c, u)
      PROVE  SessInv'
  <2> DEFINE d == [step |-> "issue", user |-> u, family |-> 0, number |-> 0]
  <2>1. d \in CallState
    BY MintedAssumption DEF CallState, CallSteps
  <2>2. RequestMoves(c, d)
    BY <1>1, <1>3, <2>1 DEF CreateSession, RequestMoves
  <2> QED
    BY <2>2, CallMoves
<1>4. ASSUME NEW n \in Numbers, NEW s \in {"end", "drop", "user"}, n \in known,
             Presents(c, s, n), s = "user" => status[n] = "live",
             UNCHANGED <<status, owner, fam, expired, known, minted, activeUsers, exchanged,
                         ended, overlapped, unpruned>>
      PROVE  SessInv'
  <2> DEFINE d == [step |-> s, user |-> owner[n], family |-> fam[n], number |-> n]
  <2>1. d \in CallState
    BY MintedAssumption DEF CallState, CallSteps, SessInv, SessTypeOK, Numbers
  <2>2. call' = [call EXCEPT ![c] = d]
    BY <1>4 DEF Presents
  <2>3. RequestMoves(c, d)
    <3>1. d.step = s /\ d.family = fam[n] /\ d.number = n /\ n # 0
      BY MintedAssumption DEF Numbers
    <3>2. status[n] # "none" /\ fam[n] # 0 /\ fam[n] <= minted
      BY <1>1, <1>4
    <3> HIDE DEF d
    <3> QED
      BY <1>1, <1>4, <2>1, <2>2, <3>1, <3>2 DEF RequestMoves
  <2> QED
    BY <2>3, CallMoves
<1>5. ASSUME NEW n \in Numbers, RefreshSession(c, n) \/ RevokeSession(c, n)
      PROVE  SessInv'
  <2>1. n \in known /\ status[n] \in {"live", "revoked"}
    BY <1>1, <1>5 DEF RefreshSession, RevokeSession, SessInv, SessTypeOK
  <2> QED
    BY <1>4, <1>5, <2>1 DEF RefreshSession, RevokeSession
<1>6. ASSUME CheckUser(c)
      PROVE  SessInv'
  <2> PICK s \in {"rotate", "end"} : call' = [call EXCEPT ![c].step = s]
    BY <1>6 DEF CheckUser, GoesTo
  <2> DEFINE d == [call[c] EXCEPT !.step = s]
  <2>1. /\ d \in CallState /\ d.step = s /\ d.family = call[c].family
        /\ d.number = call[c].number /\ d.family <= minted
        /\ call' = [call EXCEPT ![c] = d]
    BY <1>1 DEF CallState, CallSteps, SessInv, SessTypeOK
  <2>2. /\ d.number # 0 /\ d.family # 0 /\ status[d.number] # "none"
        /\ fam[d.number] = d.family /\ Refreshing(c, d.family)
    BY <1>6, <2>1 DEF SessInv, CallsCarry, CheckUser, AtStep, Refreshing
  <2> HIDE DEF d
  <2>3. RequestMoves(c, d)
    BY <1>1, <1>6, <2>1, <2>2 DEF CheckUser, RequestMoves
  <2> QED
    BY <2>3, CallMoves
<1>7. ASSUME StepFails(c)
      PROVE  SessInv'
  <2>1. RequestMoves(c, NewCall)
    BY <1>1, <1>2, <1>7 DEF StepFails, Returns, RequestMoves
  <2> QED
    BY <2>1, CallMoves
<1>8. ASSUME AtStep(c, "prune")
      PROVE  /\ call[c].number \in Numbers /\ status[call[c].number] # "none"
  BY <1>1, <1>8, MintedAssumption DEF SessInv, AtStep, CallsCarry, CallState, Numbers
<1>9. ASSUME PruneFails(c)
      PROVE  SessInv'
  <2>1. known' \subseteq Numbers /\ \A n \in known' : status[n] # "none"
    BY <1>1, <1>8, <1>9 DEF PruneFails
  <2>2. unpruned' \in [Users -> Nat]
    <3>1. unpruned' = [unpruned EXCEPT ![call[c].user] = unpruned[call[c].user] + 1]
      BY <1>9 DEF PruneFails
    <3>2. \A u \in Users : unpruned[u] + 1 \in Nat
      BY <1>1
    <3> QED
      BY <1>1, <3>1, <3>2
  <2>3. RequestMoves(c, NewCall)
    BY <1>1, <1>2, <1>9, <2>1, <2>2 DEF PruneFails, Returns, RequestMoves
  <2> QED
    BY <2>3, CallMoves
<1>10. ASSUME PruneOldestUserSessions(c)
       PROVE  SessInv'
  <2>1. known' \subseteq Numbers /\ \A n \in known' : status[n] # "none"
    BY <1>1, <1>8, <1>10 DEF PruneOldestUserSessions
  <2>2. unpruned' \in [Users -> Nat]
    BY <1>1, <1>10 DEF PruneOldestUserSessions
  <2>3. RevokesIn(Oldest(call[c].user), {})
    BY <1>10, <2>1, <2>2 DEF PruneOldestUserSessions, RevokesIn
  <2> QED
    BY <2>3, Revokes
<1>11. ASSUME DropExpired(c)
       PROVE  SessInv'
  <2>1. RevokesIn({call[c].number}, {})
    BY <1>1, <1>11 DEF DropExpired, RevokesIn
  <2> QED
    BY <2>1, Revokes
<1>12. ASSUME RevokeSessionFamily(c)
       PROVE  SessInv'
  <2> DEFINE F == {call[c].family}
             S == {n \in Numbers : fam[n] \in F}
  <2>1. F \subseteq 1..minted
    BY <1>1, <1>12 DEF SessInv, RevokeSessionFamily, AtStep, CallsCarry, CallState
  <2>2. Ends(F) /\ Returns(c)
    BY <1>12 DEF RevokeSessionFamily
  <2>3. status' = RevokedAll(S) /\ \A n \in Numbers : fam[n] \in F => n \in S
    BY <2>2 DEF Ends
  <2> HIDE DEF F, S
  <2>4. RevokesIn(S, F)
    BY <1>1, <1>12, <2>1, <2>2, <2>3 DEF RevokeSessionFamily, Ends, RevokesIn
  <2> QED
    BY <2>4, Revokes
<1> QED
  BY <1>3, <1>5, <1>6, <1>7, <1>9, <1>10, <1>11, <1>12, RotateKeeps, MintKeeps, InsertKeeps

LEMMA SessStep == SessInv /\ [SessNext]_sessVars => SessInv'
<1> SUFFICES ASSUME SessInv, [SessNext]_sessVars
             PROVE  SessInv'
  OBVIOUS
<1> USE MintedAssumption
<1>1. /\ expired \subseteq Numbers /\ activeUsers \subseteq Users /\ known \subseteq Numbers
      /\ unpruned \in [Users -> Nat] /\ \A n \in known : status[n] # "none"
  BY DEF SessInv, SessTypeOK, RowsMinted
<1>2. CASE UNCHANGED sessVars
  BY <1>1, <1>2, OthersAct DEF sessVars
<1>3. ASSUME NEW u \in Users, ActivateUser(u)
      PROVE  SessInv'
  BY <1>1, <1>3, OthersAct DEF ActivateUser
<1>4. ASSUME NEW n \in Numbers, SessionExpires(n)
      PROVE  SessInv'
  BY <1>1, <1>4, OthersAct DEF SessionExpires
<1>5. ASSUME NEW u \in Users, RevokeAllUserSessions(u)
      PROVE  SessInv'
  <2> DEFINE F == {fam[n] : n \in LiveOf(u)}
             S == {n \in Numbers : fam[n] \in F}
  <2>1. F \subseteq 1..minted
    BY DEF SessInv, SessTypeOK, RowsMinted, LiveOf, Numbers
  <2>2. Ends(F)
    BY <1>5 DEF RevokeAllUserSessions
  <2>3. status' = RevokedAll(S) /\ \A n \in Numbers : fam[n] \in F => n \in S
    BY <2>2 DEF Ends
  <2> HIDE DEF F, S
  <2>4. RevokesIn(S, F)
    BY <1>1, <1>5, <2>1, <2>2, <2>3 DEF RevokeAllUserSessions, Ends, RevokesIn
  <2> QED
    BY <2>4, Revokes
<1> QED
  BY <1>2, <1>3, <1>4, <1>5, CallStepKeeps DEF SessNext

-----------------------------------------------------------------------------

LEMMA SessInvariant == SessSpec => []SessInv
BY InitSessInv, SessStep, PTL DEF SessSpec

\* Refresh sessions are well typed (auth/session.go, repository/session.go).
THEOREM SessionsTyped == SessSpec => []SessTypeOK
<1>1. SessInv => SessTypeOK
  BY DEF SessInv
<1> QED
  BY <1>1, SessInvariant, PTL

\* RefreshSession revokes the presented token before it issues the next: unless
\* two requests exchange one token, a family never has two live sessions.
THEOREM FamiliesAreChains == SessSpec => []FamilyLinear
<1>1. SessInv => FamilyLinear
  <2> SUFFICES ASSUME SessInv, NEW f \in Numbers,
                      \A n \in Numbers : fam[n] = f => exchanged[n] <= 1
               PROVE  FamilyLinear!(f)!2
    BY DEF FamilyLinear
  <2>1. \A n \in Numbers : LiveIn(n, f) => Open(n, f)
    BY DEF SessInv, LiveIn, Open, LiveNotExchanged
  <2> QED
    BY <2>1 DEF SessInv, OpenOnce
<1> QED
  BY <1>1, SessInvariant, PTL

\* Logout and reuse detection revoke a family for good, unless a refresh of it is
\* between its checks and its insert.
THEOREM EndedFamiliesStay == SessSpec => []EndedFamiliesStayEnded
<1>1. SessInv => EndedFamiliesStayEnded
  BY DEF SessInv
<1> QED
  BY <1>1, SessInvariant, PTL

-----------------------------------------------------------------------------
(* Sessions: the limit.                                                    *)

Pruning(u) == {c \in Calls : AtStep(c, "prune") /\ call[c].user = u}

\* Who is logged in is decided once: the sessions a request makes are its user's.
Owned ==
    /\ \A n \in Numbers : n <= minted => owner[n] \in Users
    /\ \A c \in Calls : ~AtStep(c, "new") => call[c].user \in Users
    /\ \A c \in Calls : AtStep(c, "insert") => owner[call[c].number] = call[c].user

PruningFinite == \A u \in Users : IsFiniteSet(Pruning(u))

LimitInv == SessInv /\ Owned /\ PruningFinite /\ SessionLimit

\* A non-empty set of numbers has a least one.
LEMMA LeastNumber ==
    ASSUME NEW T, T \subseteq Nat, T # {}
    PROVE  \E n \in T : \A k \in T : n <= k
<1>1. PICK n \in T : \A k \in T : ~(<<k, n>> \in OpToRel(<, Nat))
  BY NatLessThanWellFounded, WFMin
<1>2. \A k \in T : ~(k < n)
  BY <1>1 DEF OpToRel
<1> QED
  BY <1>2

LEMMA OneAdded ==
    ASSUME NEW S, IsFiniteSet(S), NEW a
    PROVE  /\ IsFiniteSet(S \union {a})
           /\ Cardinality(S) \in Nat /\ Cardinality(S \union {a}) \in Nat
           /\ Cardinality(S \union {a}) <= Cardinality(S) + 1
<1>1. /\ IsFiniteSet(S \union {a}) /\ Cardinality(S) \in Nat
      /\ Cardinality(S \union {a}) = Cardinality(S) \/
         Cardinality(S \union {a}) = Cardinality(S) + 1
  BY FS_AddElement, FS_CardinalityType
<1> QED
  BY <1>1

\* Those with fewer than m above them are m at most.
LEMMA NewestAreFew ==
    ASSUME NEW L, L \subseteq Nat, IsFiniteSet(L), NEW m \in Nat \ {0}
    PROVE  Cardinality({n \in L : Cardinality({k \in L : k > n}) < m}) <= m
<1> DEFINE Above(n) == {k \in L : k > n}
           T == {n \in L : Cardinality(Above(n)) < m}
<1>1. CASE T = {}
  <2>1. Cardinality({}) = 0
    BY FS_EmptySet
  <2> HIDE DEF T
  <2>2. Cardinality(T) <= m
    BY <1>1, <2>1
  <2> QED
    BY <2>2 DEF T
<1>2. CASE T # {}
  <2>1. PICK n \in T : \A k \in T : n <= k
    BY <1>2, LeastNumber
  <2>2. Above(n) \subseteq L /\ T \subseteq Above(n) \union {n}
    <3>1. T \subseteq L /\ n \in Nat
      OBVIOUS
    <3>2. Above(n) = {k \in L : k > n}
      OBVIOUS
    <3> HIDE DEF T, Above
    <3> QED
      BY <2>1, <3>1, <3>2
  <2>3. Cardinality(Above(n)) \in Nat /\ Cardinality(Above(n)) < m /\ IsFiniteSet(Above(n))
    BY <2>1, <2>2, FS_Subset, FS_CardinalityType
  <2> HIDE DEF T, Above
  <2>4. IsFiniteSet(Above(n) \union {n})
        /\ Cardinality(Above(n) \union {n}) \in 0..m
    <3>1. IsFiniteSet(Above(n) \union {n}) /\ Cardinality(Above(n) \union {n}) \in Nat
          /\ Cardinality(Above(n) \union {n}) <= Cardinality(Above(n)) + 1
      BY <2>3, OneAdded
    <3> QED
      BY <2>3, <3>1
  <2>5. Cardinality(T) <= Cardinality(Above(n) \union {n}) /\ IsFiniteSet(T)
    BY <2>2, <2>4, FS_Subset
  <2> QED
    BY <2>4, <2>5, FS_CardinalityType DEF T, Above
<1> QED
  BY <1>1, <1>2

LEMMA LiveFinite ==
    ASSUME NEW u
    PROVE  IsFiniteSet(LiveOf(u)) /\ Cardinality(LiveOf(u)) \in Nat
           /\ LiveOf(u) \subseteq Numbers
<1>1. IsFiniteSet(Numbers)
  BY MintedAssumption, FS_Interval DEF Numbers
<1>2. LiveOf(u) \subseteq Numbers
  BY DEF LiveOf
<1> QED
  BY <1>1, <1>2, FS_Subset, FS_CardinalityType

\* What an action may do to one user without breaking the limit.
LEMMA LimitKept ==
    ASSUME LimitInv, NEW u \in Users, unpruned'[u] \in Nat,
           \/ /\ LiveOf(u)' \subseteq LiveOf(u)
              /\ Pruning(u)' = Pruning(u) /\ unpruned'[u] = unpruned[u]
           \/ \E n : LiveOf(u)' \subseteq LiveOf(u) \union {n}
              /\ \E c : c \notin Pruning(u) /\ Pruning(u)' = Pruning(u) \union {c}
              /\ unpruned'[u] = unpruned[u]
           \/ /\ LiveOf(u)' \subseteq LiveOf(u)
              /\ \E c \in Pruning(u) : Pruning(u)' = Pruning(u) \ {c}
              /\ unpruned'[u] = unpruned[u] + 1
           \/ /\ Cardinality(LiveOf(u)') <= MaxSessions
              /\ \E c : Pruning(u)' = Pruning(u) \ {c}
    PROVE  /\ IsFiniteSet(Pruning(u)')
           /\ Cardinality(LiveOf(u)') <=
                MaxSessions + unpruned'[u] + Cardinality(Pruning(u)')
<1> DEFINE L == LiveOf(u)
           K == LiveOf(u)'
           P == Pruning(u)
           Q == Pruning(u)'
<1>1. /\ IsFiniteSet(P) /\ Cardinality(P) \in Nat /\ unpruned[u] \in Nat
      /\ Cardinality(L) <= MaxSessions + unpruned[u] + Cardinality(P)
      /\ IsFiniteSet(L) /\ Cardinality(L) \in Nat
      /\ MaxSessions \in Nat
  BY LiveFinite, FS_CardinalityType, MaxSessionsAssumption
     DEF LimitInv, PruningFinite, SessionLimit, SessInv, SessTypeOK, Pruning
<1>2. \/ K \subseteq L /\ Q = P /\ unpruned'[u] = unpruned[u]
      \/ \E n : K \subseteq L \union {n}
         /\ \E c : c \notin P /\ Q = P \union {c}
         /\ unpruned'[u] = unpruned[u]
      \/ K \subseteq L /\ \E c \in P : Q = P \ {c} /\ unpruned'[u] = unpruned[u] + 1
      \/ Cardinality(K) <= MaxSessions /\ \E c : Q = P \ {c}
  OBVIOUS
<1>3. IsFiniteSet(K) /\ Cardinality(K) \in Nat
  <2>1. IsFiniteSet(Numbers)
    <3>1. 1 \in Int /\ MaxMinted \in Int
      BY MintedAssumption
    <3>2. IsFiniteSet(1..MaxMinted)
      BY <3>1, FS_Interval
    <3> QED
      BY <3>2 DEF Numbers
  <2>2. K \subseteq Numbers
    BY DEF LiveOf, Numbers
  <2> QED
    BY <2>1, <2>2, FS_Subset, FS_CardinalityType
<1> HIDE DEF L, K, P, Q
<1> SUFFICES IsFiniteSet(Q) /\ Cardinality(K) <= MaxSessions + unpruned'[u] + Cardinality(Q)
  BY DEF K, Q
<1>4. CASE K \subseteq L /\ Q = P /\ unpruned'[u] = unpruned[u]
  BY <1>1, <1>3, <1>4, FS_Subset
<1>5. ASSUME NEW n, K \subseteq L \union {n}, NEW c, c \notin P, Q = P \union {c},
             unpruned'[u] = unpruned[u]
      PROVE  IsFiniteSet(Q) /\ Cardinality(K) <= MaxSessions + unpruned'[u] + Cardinality(Q)
  <2>1. IsFiniteSet(L \union {n}) /\ Cardinality(L \union {n}) <= Cardinality(L) + 1
        /\ Cardinality(L \union {n}) \in Nat
    BY <1>1, OneAdded
  <2>2. Cardinality(K) <= Cardinality(L) + 1
    <3>1. Cardinality(K) <= Cardinality(L \union {n})
      BY <1>5, <2>1, FS_Subset
    <3> QED
      BY <1>1, <1>3, <2>1, <3>1
  <2>3. IsFiniteSet(Q) /\ Cardinality(Q) = Cardinality(P) + 1
    BY <1>1, <1>5, FS_AddElement
  <2> QED
    BY <1>1, <1>3, <1>5, <2>2, <2>3
<1>6. ASSUME K \subseteq L, NEW c \in P, Q = P \ {c}, unpruned'[u] = unpruned[u] + 1
      PROVE  IsFiniteSet(Q) /\ Cardinality(K) <= MaxSessions + unpruned'[u] + Cardinality(Q)
  <2>1. IsFiniteSet(Q) /\ Cardinality(Q) = Cardinality(P) - 1
    BY <1>1, <1>6, FS_RemoveElement
  <2>2. Cardinality(K) <= Cardinality(L)
    BY <1>1, <1>6, FS_Subset
  <2> QED
    BY <1>1, <1>3, <1>6, <2>1, <2>2
<1>7. ASSUME Cardinality(K) <= MaxSessions, NEW c, Q = P \ {c}
      PROVE  IsFiniteSet(Q) /\ Cardinality(K) <= MaxSessions + unpruned'[u] + Cardinality(Q)
  <2>1. IsFiniteSet(Q)
    BY <1>1, <1>7, FS_RemoveElement
  <2>2. Cardinality(Q) \in Nat
    BY <2>1, FS_CardinalityType
  <2> QED
    BY <1>1, <1>3, <1>7, <2>1, <2>2
<1> QED
  BY <1>2, <1>4, <1>5, <1>6, <1>7

LEMMA InitLimitInv == SessInit => LimitInv
<1> SUFFICES ASSUME SessInit
             PROVE  LimitInv
  OBVIOUS
<1>1. Owned
  BY MintedAssumption DEF SessInit, Owned, AtStep, NewCall, Numbers
<1>2. \A u : Pruning(u) = {} /\ LiveOf(u) = {}
  BY DEF SessInit, Pruning, AtStep, NewCall, LiveOf
<1>3. IsFiniteSet({}) /\ Cardinality({}) = 0
  BY FS_EmptySet
<1>4. PruningFinite /\ SessionLimit
  <2>1. \A u \in Users : unpruned[u] = 0
    BY DEF SessInit
  <2>2. PruningFinite
    BY <1>2, <1>3 DEF PruningFinite
  <2>3. \A u \in Users : Cardinality(LiveOf(u)) <=
            MaxSessions + unpruned[u] + Cardinality(Pruning(u))
    BY <1>2, <1>3, <2>1, MaxSessionsAssumption
  <2> QED
    BY <2>2, <2>3 DEF SessionLimit, Pruning
<1> QED
  BY <1>1, <1>4, InitSessInv DEF LimitInv

\* Steps that put no row in and prune nothing: live sessions are only lost.
LEMMA LimitQuiet ==
    ASSUME LimitInv,
           \A n \in Numbers : status'[n] = "live" => status[n] = "live" /\ owner'[n] = owner[n],
           \A c \in Calls : (AtStep(c, "prune")' <=> AtStep(c, "prune"))
                            /\ (AtStep(c, "prune") => call'[c].user = call[c].user),
           unpruned' = unpruned
    PROVE  PruningFinite' /\ SessionLimit'
<1>1. ASSUME NEW u \in Users
      PROVE  /\ IsFiniteSet(Pruning(u)')
             /\ Cardinality(LiveOf(u)') <=
                  MaxSessions + unpruned'[u] + Cardinality(Pruning(u)')
  <2>1. LiveOf(u)' \subseteq LiveOf(u)
    BY DEF LiveOf, Numbers
  <2>2. Pruning(u)' = Pruning(u)
    BY DEF Pruning, AtStep
  <2>3. unpruned'[u] \in Nat
    BY DEF LimitInv, SessInv, SessTypeOK
  <2> QED
    BY <2>1, <2>2, <2>3, LimitKept
<1> QED
  BY <1>1 DEF PruningFinite, SessionLimit, Pruning

LEMMA InsertLimit ==
    ASSUME LimitInv, NEW c \in Calls, Insert(c)
    PROVE  PruningFinite' /\ SessionLimit'
<1> DEFINE n == call[c].number
<1>1. /\ AtStep(c, "insert") /\ call'[c] = [call[c] EXCEPT !.step = "prune"]
      /\ \A b \in Calls : b # c => call'[b] = call[b]
      /\ status' = [status EXCEPT ![n] = "live"] /\ owner' = owner
      /\ unpruned' = unpruned /\ owner[n] = call[c].user
      /\ call[c] \in CallState
  BY DEF Insert, GoesTo, LimitInv, Owned, SessInv, SessTypeOK
<1>2. ASSUME NEW u \in Users
      PROVE  /\ IsFiniteSet(Pruning(u)')
             /\ Cardinality(LiveOf(u)') <=
                  MaxSessions + unpruned'[u] + Cardinality(Pruning(u)')
  <2>1. unpruned'[u] \in Nat
    BY <1>1 DEF LimitInv, SessInv, SessTypeOK
  <2>2. CASE u = call[c].user
    <3>1. LiveOf(u)' \subseteq LiveOf(u) \union {n}
      BY <1>1 DEF LiveOf, LimitInv, SessInv, SessTypeOK, Numbers
    <3>2. c \notin Pruning(u) /\ Pruning(u)' = Pruning(u) \union {c}
      BY <1>1, <2>2 DEF Pruning, AtStep, CallState
    <3> HIDE DEF n
    <3> QED
      BY <1>1, <2>1, <3>1, <3>2, LimitKept
  <2>3. CASE u # call[c].user
    <3>1. LiveOf(u)' \subseteq LiveOf(u)
      BY <1>1, <2>3 DEF LiveOf, LimitInv, SessInv, SessTypeOK, Numbers
    <3>2. Pruning(u)' = Pruning(u)
      BY <1>1, <2>3 DEF Pruning, AtStep, CallState
    <3> QED
      BY <1>1, <2>1, <3>1, <3>2, LimitKept
  <2> QED
    BY <2>2, <2>3
<1> QED
  BY <1>2 DEF PruningFinite, SessionLimit, Pruning

LEMMA PruneLimit ==
    ASSUME LimitInv, NEW c \in Calls, PruneOldestUserSessions(c) \/ PruneFails(c)
    PROVE  PruningFinite' /\ SessionLimit'
<1>1. /\ AtStep(c, "prune") /\ call[c].user \in Users /\ owner' = owner
      /\ ~AtStep(c, "prune")' /\ \A b \in Calls : b # c => call'[b] = call[b]
      /\ unpruned \in [Users -> Nat] /\ status \in [Numbers -> {"none", "live", "revoked"}]
  BY DEF PruneOldestUserSessions, PruneFails, Returns, NewCall, AtStep,
         LimitInv, Owned, SessInv, SessTypeOK
<1>2. ASSUME NEW u \in Users
      PROVE  /\ u = call[c].user => c \in Pruning(u) /\ Pruning(u)' = Pruning(u) \ {c}
             /\ u # call[c].user => Pruning(u)' = Pruning(u)
  BY <1>1, <1>2 DEF Pruning, AtStep
<1>3. \A u : LiveOf(u)' \subseteq LiveOf(u)
  <2>1. \A n \in Numbers : status'[n] = "live" => status[n] = "live"
    BY DEF PruneOldestUserSessions, PruneFails, RevokedAll
  <2> QED
    BY <1>1, <2>1 DEF LiveOf, Numbers
<1>4. ASSUME NEW u \in Users
      PROVE  /\ IsFiniteSet(Pruning(u)')
             /\ Cardinality(LiveOf(u)') <=
                  MaxSessions + unpruned'[u] + Cardinality(Pruning(u)')
  <2>1. unpruned'[u] \in Nat
    BY <1>1 DEF PruneOldestUserSessions, PruneFails
  <2>2. CASE u # call[c].user
    <3>1. unpruned'[u] = unpruned[u]
      BY <1>1, <2>2 DEF PruneOldestUserSessions, PruneFails
    <3> QED
      BY <1>2, <1>3, <2>1, <2>2, <3>1, LimitKept
  <2>3. CASE u = call[c].user /\ PruneFails(c)
    <3>1. unpruned'[u] = unpruned[u] + 1
      BY <1>1, <2>3 DEF PruneFails
    <3> QED
      BY <1>2, <1>3, <2>1, <2>3, <3>1, LimitKept
  <2>4. CASE u = call[c].user /\ PruneOldestUserSessions(c)
    <3> DEFINE L == LiveOf(u)
               T == {n \in L : Cardinality({k \in L : k > n}) < MaxSessions}
    <3>1. L \subseteq Nat /\ IsFiniteSet(L)
      BY LiveFinite, MintedAssumption DEF Numbers
    <3>2. Cardinality(T) <= MaxSessions
      <4> HIDE DEF L
      <4> QED
        BY <3>1, NewestAreFew, MaxSessionsAssumption
    <3>3. LiveOf(u)' \subseteq T
      <4>1. \A n \in Numbers : status'[n] = "live" => status[n] = "live" /\ n \notin Oldest(u)
        BY <2>4 DEF PruneOldestUserSessions, RevokedAll
      <4>2. LiveOf(u)' \subseteq L \ Oldest(u)
        BY <1>3, <4>1 DEF LiveOf, Numbers
      <4>3. \A n \in L : Cardinality({k \in L : k > n}) \in Nat
        BY <3>1, FS_Subset, FS_CardinalityType
      <4> QED
        BY <4>2, <4>3, MaxSessionsAssumption DEF Oldest
    <3>4. Cardinality(LiveOf(u)') <= MaxSessions
      <4>1. IsFiniteSet(T) /\ Cardinality(T) \in Nat
        BY <3>1, FS_Subset, FS_CardinalityType
      <4> HIDE DEF T
      <4>2. Cardinality(LiveOf(u)') \in Nat /\ Cardinality(LiveOf(u)') <= Cardinality(T)
        BY <3>3, <4>1, FS_Subset, FS_CardinalityType
      <4> QED
        BY <3>2, <4>1, <4>2, MaxSessionsAssumption
    <3> QED
      BY <1>2, <2>1, <2>4, <3>4, LimitKept
  <2> QED
    BY <2>2, <2>3, <2>4
<1> QED
  BY <1>4 DEF PruningFinite, SessionLimit, Pruning

LEMMA OwnedKept ==
    ASSUME LimitInv, [SessNext]_sessVars
    PROVE  Owned'
<1> USE MintedAssumption DEF LimitInv, Owned, SessInv, SessTypeOK, RowsMinted, AtStep
<1>1. CASE UNCHANGED sessVars
  BY <1>1 DEF sessVars
<1>2. ASSUME NEW u \in Users, RevokeAllUserSessions(u) \/ ActivateUser(u)
      PROVE  Owned'
  BY <1>2 DEF RevokeAllUserSessions, ActivateUser
<1>3. ASSUME NEW n \in Numbers, SessionExpires(n)
      PROVE  Owned'
  BY <1>3 DEF SessionExpires
<1>4. ASSUME NEW c \in Calls, NEW u \in Users, CreateSession(c, u)
      PROVE  Owned'
  BY <1>4 DEF CreateSession
<1>5. ASSUME NEW c \in Calls, NEW n \in Numbers, RefreshSession(c, n) \/ RevokeSession(c, n)
      PROVE  Owned'
  <2>1. n \in known /\ fam[n] # 0 /\ n <= minted
    BY <1>5 DEF RefreshSession, RevokeSession
  <2> QED
    BY <1>5, <2>1 DEF RefreshSession, RevokeSession, Presents
<1>6. ASSUME NEW c \in Calls, CheckUser(c) \/ Rotate(c) \/ Insert(c)
      PROVE  Owned'
  <2>1. owner' = owner /\ minted' = minted
    BY <1>6 DEF CheckUser, Rotate, Insert
  <2>2. /\ call[c].step # "new" /\ call'[c].step # "insert"
        /\ call'[c].user = call[c].user
        /\ \A b \in Calls : b # c => call'[b] = call[b]
    <3>1. CASE CheckUser(c)
      BY <3>1 DEF CheckUser, GoesTo
    <3>2. CASE Rotate(c)
      BY <3>2 DEF Rotate, CallState
    <3>3. CASE Insert(c)
      BY <3>3 DEF Insert, GoesTo
    <3> QED
      BY <1>6, <3>1, <3>2, <3>3
  <2> QED
    BY <2>1, <2>2
<1>7. ASSUME NEW c \in Calls,
             \/ PruneOldestUserSessions(c) \/ PruneFails(c)
             \/ RevokeSessionFamily(c) \/ DropExpired(c) \/ StepFails(c)
      PROVE  Owned'
  BY <1>7 DEF PruneOldestUserSessions, PruneFails, RevokeSessionFamily, DropExpired,
              StepFails, Returns, NewCall
<1>8. ASSUME NEW c \in Calls, Mint(c)
      PROVE  Owned'
  <2>1. /\ minted + 1 \in Numbers /\ minted' = minted + 1 /\ minted \in Nat
        /\ owner'[minted + 1] = call[c].user /\ call[c].user \in Users
        /\ \A n \in Numbers : n # minted + 1 => owner'[n] = owner[n]
    BY <1>8 DEF Mint, Numbers
  <2>2. /\ call'[c].user = call[c].user /\ call'[c].number = minted + 1
        /\ \A b \in Calls : b # c => call'[b] = call[b]
    BY <1>8, <2>1 DEF Mint
  <2>3. \A b \in Calls : call[b].step = "insert" =>
            call[b].number \in Numbers /\ call[b].number <= minted
    BY <2>1 DEF CallsCarry, CallState, Numbers
  <2>4. \A n \in Numbers : n <= minted' => owner'[n] \in Users
    <3> SUFFICES ASSUME NEW n \in Numbers, n <= minted + 1
                 PROVE  owner'[n] \in Users
      BY <2>1
    <3>1. CASE n = minted + 1
      BY <2>1, <3>1
    <3>2. CASE n # minted + 1
      <4>1. n <= minted
        BY <2>1, <3>2 DEF Numbers
      <4>2. owner[n] \in Users
        BY <4>1
      <4> QED
        BY <2>1, <3>2, <4>2
    <3> QED
      BY <3>1, <3>2
  <2>5. \A b \in Calls : b # c => (call[b].step = "insert" =>
            owner'[call[b].number] = call[b].user)
    BY <2>1, <2>3
  <2> QED
    BY <2>1, <2>2, <2>4, <2>5
<1> QED
  BY <1>1, <1>2, <1>3, <1>4, <1>5, <1>6, <1>7, <1>8 DEF SessNext

LEMMA LimitStep ==
    ASSUME LimitInv, [SessNext]_sessVars
    PROVE  LimitInv'
<1>1. SessInv' /\ Owned'
  BY SessStep, OwnedKept DEF LimitInv
<1>2. CASE UNCHANGED sessVars
  <2>1. UNCHANGED <<status, owner, call, unpruned>>
    BY <1>2 DEF sessVars
  <2> QED
    <3>1. \A c \in Calls : (AtStep(c, "prune")' <=> AtStep(c, "prune"))
                            /\ (AtStep(c, "prune") => call'[c].user = call[c].user)
      BY <2>1 DEF AtStep
    <3>2. \A n \in Numbers :
              status'[n] = "live" => status[n] = "live" /\ owner'[n] = owner[n]
      BY <2>1
    <3> QED
      BY <1>1, <2>1, <3>1, <3>2, LimitQuiet DEF LimitInv
<1> USE DEF LimitInv, SessInv, SessTypeOK, AtStep
<1>3. ASSUME NEW c \in Calls, Insert(c)
      PROVE  PruningFinite' /\ SessionLimit'
  BY <1>3, InsertLimit
<1>4. ASSUME NEW c \in Calls, PruneOldestUserSessions(c) \/ PruneFails(c)
      PROVE  PruningFinite' /\ SessionLimit'
  BY <1>4, PruneLimit
<1>5. ASSUME NEW u \in Users, RevokeAllUserSessions(u) \/ ActivateUser(u)
      PROVE  PruningFinite' /\ SessionLimit'
  BY <1>5, LimitQuiet DEF RevokeAllUserSessions, ActivateUser, Ends, RevokedAll
<1>6. ASSUME NEW n \in Numbers, SessionExpires(n)
      PROVE  PruningFinite' /\ SessionLimit'
  BY <1>6, LimitQuiet DEF SessionExpires
<1>7. ASSUME NEW c \in Calls, NEW u \in Users, CreateSession(c, u)
      PROVE  PruningFinite' /\ SessionLimit'
  BY <1>7, LimitQuiet DEF CreateSession
<1>8. ASSUME NEW c \in Calls, NEW n \in Numbers, RefreshSession(c, n) \/ RevokeSession(c, n)
      PROVE  PruningFinite' /\ SessionLimit'
  BY <1>8, LimitQuiet DEF RefreshSession, RevokeSession, Presents
<1>9. ASSUME NEW c \in Calls, CheckUser(c) \/ Rotate(c)
      PROVE  PruningFinite' /\ SessionLimit'
  <2>1. owner' = owner /\ unpruned' = unpruned
    BY <1>9 DEF CheckUser, Rotate
  <2>2. \A n \in Numbers : status'[n] = "live" => status[n] = "live"
    BY <1>9 DEF CheckUser, Rotate, RevokedAll
  <2>3. /\ call[c].step # "prune" /\ call'[c].step # "prune"
        /\ \A b \in Calls : b # c => call'[b] = call[b]
    <3>1. CASE CheckUser(c)
      BY <3>1 DEF CheckUser, GoesTo
    <3>2. CASE Rotate(c)
      BY <3>2 DEF Rotate, CallState
    <3> QED
      BY <1>9, <3>1, <3>2
  <2> QED
    BY <2>1, <2>2, <2>3, LimitQuiet
<1>10. ASSUME NEW c \in Calls, RevokeSessionFamily(c) \/ DropExpired(c) \/ StepFails(c)
       PROVE  PruningFinite' /\ SessionLimit'
  BY <1>10, LimitQuiet DEF RevokeSessionFamily, DropExpired, StepFails, Ends, Returns,
                           NewCall, RevokedAll
<1>11. ASSUME NEW c \in Calls, Mint(c)
       PROVE  PruningFinite' /\ SessionLimit'
  <2>1. status' = status /\ unpruned' = unpruned /\ AtStep(c, "issue")
    BY <1>11 DEF Mint
  <2>2. minted + 1 \in Numbers /\ status[minted + 1] = "none"
        /\ \A n \in Numbers : n # minted + 1 => owner'[n] = owner[n]
    BY <1>11, MintedAssumption DEF Mint, RowsMinted, Numbers
  <2>3. call'[c].step = "insert" /\ \A b \in Calls : b # c => call'[b] = call[b]
    BY <1>11 DEF Mint
  <2> QED
    BY <2>1, <2>2, <2>3, LimitQuiet
<1> QED
  BY <1>1, <1>2, <1>3, <1>4, <1>5, <1>6, <1>7, <1>8, <1>9, <1>10, <1>11 DEF SessNext

\* A user has no more live sessions than the limit, beyond those whose prune is
\* still to come or has failed (issueSessionToken, PruneOldestUserSessions): for
\* any number of users and of requests at a time.
THEOREM SessionLimitHolds == SessSpec => []SessionLimit
<1>1. LimitInv /\ [SessNext]_sessVars => LimitInv'
  BY LimitStep
<1>2. LimitInv => SessionLimit
  BY DEF LimitInv
<1> QED
  BY InitLimitInv, <1>1, <1>2, PTL DEF SessSpec

-----------------------------------------------------------------------------
(* Idempotency.                                                            *)

Records ==
    /\ idemKeys \in [Keys -> SUBSET RunAnswers]
    /\ request \in [Senders -> [step: {"new", "run", "save", "answered", "failed"},
                                answer: SUBSET RunAnswers]]
    /\ matchStatus \in [Targets -> {"startable", "active", "finished"}]
    /\ lastRun \in [Targets -> 0..RunBound]
    /\ replayed \subseteq [sender: Senders, answer: RunAnswers]
    /\ started \subseteq Senders /\ disturbed \subseteq Keys

\* What a request is about to store is one answer, about its own match.
AnswersOwn == \A s \in Senders : OnStep(s, "save") =>
    \E a \in RunAnswers : request[s].answer = {a} /\ a.match = TargetOf[s]

\* A key has one stored answer, of a request that carried it.
RecordsOwn == \A k \in Keys : \A a \in idemKeys[k] :
    /\ idemKeys[k] = {a}
    /\ \E s \in Senders : KeyOf[s] = k /\ a.match = TargetOf[s]

\* What was answered from a record is still in it.
ReplaysRecorded == \A x \in replayed : x.answer \in idemKeys[KeyOf[x.sender]]

ActiveHasRun == \A m \in Targets : matchStatus[m] = "active" => lastRun[m] # 0

\* RepeatsAgree alone is not inductive: it says nothing of what is stored.
IdemInv ==
    Records /\ AnswersOwn /\ RecordsOwn /\ ReplaysRecorded /\ ActiveHasRun

InFlight(s) == OnStep(s, "run") \/ OnStep(s, "save")

\* The requests of an undisturbed key come one after the other; the run that was
\* started is about to be stored, or stored; and none is started after it.
KeyOrderly(k) ==
    /\ \A x, y \in Senders : KeyOf[x] = k /\ KeyOf[y] = k /\ InFlight(x) /\ InFlight(y) => x = y
    /\ \A x \in started : KeyOf[x] = k => OnStep(x, "save") \/ idemKeys[k] # {}
    /\ \A x \in Senders : KeyOf[x] = k /\ OnStep(x, "run") => \A y \in started : KeyOf[y] # k
    /\ \A x, y \in started : KeyOf[x] = k /\ KeyOf[y] = k => x = y

OrderInv == Records /\ \A k \in Keys \ disturbed : KeyOrderly(k)

LEMMA InitIdemInv == IdemInit => IdemInv /\ OrderInv
BY IdempotencyAssumption DEF IdemInit, IdemInv, Records, AnswersOwn, RecordsOwn,
   ReplaysRecorded, ActiveHasRun, OnStep, NoAnswer, OrderInv, KeyOrderly, InFlight

\* A request that moves changes its own step alone.
LEMMA MovesOne ==
    ASSUME Records, NEW s \in Senders, NEW p \in {"new", "run", "save", "answered", "failed"},
           NEW a \in SUBSET RunAnswers, Moves(s, p, a)
    PROVE  /\ request' \in [Senders -> [step: {"new", "run", "save", "answered", "failed"},
                                         answer: SUBSET RunAnswers]]
           /\ request'[s].step = p /\ request'[s].answer = a
           /\ \A x \in Senders : x # s => request'[x] = request[x]
BY DEF Moves, Records

LEMMA LookUpKeyKeeps ==
    ASSUME IdemInv, OrderInv, NEW s \in Senders, LookUpKey(s)
    PROVE  IdemInv' /\ OrderInv'
<1> DEFINE k == KeyOf[s]
           found == idemKeys[k]
<1> USE IdempotencyAssumption DEF IdemInv
<1>1. /\ found \subseteq RunAnswers /\ k \in Keys /\ OnStep(s, "new")
      /\ UNCHANGED <<idemKeys, matchStatus, lastRun, started>>
      /\ disturbed \subseteq disturbed' /\ disturbed' \subseteq Keys
  BY DEF Records, LookUpKey
<1>2. PICK p \in {"run", "answered"}, a \in {NoAnswer, found} :
          /\ Moves(s, p, a)
          /\ p = "run" => disturbed' = IF found # {} \/ UnderWay(k)
                                       THEN disturbed \union {k} ELSE disturbed
          /\ replayed' = IF p = "answered" THEN replayed \union [sender: {s}, answer: found]
                                           ELSE replayed
  BY DEF LookUpKey
<1>3. /\ request' \in [Senders -> [step: {"new", "run", "save", "answered", "failed"},
                                    answer: SUBSET RunAnswers]]
      /\ request'[s].step = p /\ request'[s].answer = a
      /\ \A x \in Senders : x # s => request'[x] = request[x]
  BY <1>1, <1>2, MovesOne DEF NoAnswer
<1>4. Records'
  BY <1>1, <1>2, <1>3 DEF Records
<1>5. AnswersOwn'
  BY <1>2, <1>3 DEF AnswersOwn, OnStep
<1>6. RecordsOwn'
  BY <1>1 DEF RecordsOwn
<1>7. ReplaysRecorded'
  BY <1>1, <1>2 DEF ReplaysRecorded
<1>8. ASSUME NEW j \in Keys \ disturbed'
      PROVE  KeyOrderly(j)'
  <2>1. KeyOrderly(j)
    BY <1>1, <1>8 DEF OrderInv
  <2>2. \A x \in Senders : x # s => (InFlight(x)' = InFlight(x))
                                   /\ (OnStep(x, "save")' = OnStep(x, "save"))
                                   /\ (OnStep(x, "run")' = OnStep(x, "run"))
    BY <1>3 DEF InFlight, OnStep
  <2>3. s \notin started \/ j # k \/ found # {}
    BY <1>1, <2>1 DEF KeyOrderly, OnStep
  <2>4. CASE InFlight(s)' /\ j = k
    <3>1. p = "run"
      BY <1>2, <1>3, <2>4 DEF InFlight, OnStep
    <3>2. found = {} /\ ~UnderWay(k)
      BY <1>2, <1>8, <2>4, <3>1
    <3>3. \A x \in Senders : KeyOf[x] = k => ~InFlight(x) /\ ~OnStep(x, "save")
      BY <3>2 DEF UnderWay, InFlight
    <3>4. \A x \in started : KeyOf[x] # k
      BY <2>1, <2>4, <3>2, <3>3 DEF KeyOrderly, Records
    <3> QED
      BY <1>1, <2>1, <2>2, <2>4, <3>3, <3>4 DEF KeyOrderly
  <2>5. CASE ~(InFlight(s)' /\ j = k)
    <3>1. ~OnStep(s, "save")
      BY <1>1 DEF OnStep
    <3>2. KeyOf[s] = j => ~InFlight(s)' /\ ~OnStep(s, "run")'
      BY <2>5 DEF InFlight
    <3>3. \A x, y \in Senders : KeyOf[x] = j /\ KeyOf[y] = j /\ InFlight(x)' /\ InFlight(y)' => x = y
      BY <2>1, <2>2, <3>2 DEF KeyOrderly
    <3>4. \A x \in started' : KeyOf[x] = j => OnStep(x, "save")' \/ idemKeys'[j] # {}
      BY <1>1, <2>1, <2>2, <3>1 DEF KeyOrderly, Records
    <3>5. \A x \in Senders : KeyOf[x] = j /\ OnStep(x, "run")'
                             => \A y \in started' : KeyOf[y] # j
      BY <1>1, <2>1, <2>2, <3>2 DEF KeyOrderly
    <3> QED
      BY <1>1, <2>1, <3>3, <3>4, <3>5 DEF KeyOrderly
  <2> QED
    BY <2>4, <2>5
<1>9. OrderInv'
  BY <1>4, <1>8 DEF OrderInv
<1> QED
  BY <1>1, <1>4, <1>5, <1>6, <1>7, <1>9 DEF ActiveHasRun

LEMMA StartRunKeeps ==
    ASSUME IdemInv, OrderInv, NEW s \in Senders, StartRun(s)
    PROVE  IdemInv' /\ OrderInv'
<1> DEFINE m == TargetOf[s]
           a == [match |-> m, run |-> lastRun'[m]]
<1> USE IdempotencyAssumption DEF IdemInv
<1>1. /\ m \in Targets /\ lastRun'[m] = lastRun[m] + 1 /\ lastRun'[m] \in 1..RunBound
      /\ UNCHANGED <<idemKeys, replayed, disturbed>>
      /\ OnStep(s, "run") /\ Moves(s, "save", {a}) /\ started' = started \union {s}
  BY DEF StartRun, Records
<1>2. a \in RunAnswers /\ a.match = TargetOf[s]
  BY <1>1 DEF RunAnswers
<1>3. /\ request' \in [Senders -> [step: {"new", "run", "save", "answered", "failed"},
                                    answer: SUBSET RunAnswers]]
      /\ request'[s].step = "save" /\ request'[s].answer = {a}
      /\ \A x \in Senders : x # s => request'[x] = request[x]
  BY <1>1, <1>2, MovesOne
<1>4. Records'
  BY <1>1, <1>3 DEF StartRun, Records
<1>5. AnswersOwn'
  BY <1>2, <1>3 DEF AnswersOwn, OnStep
<1>6. ActiveHasRun'
  BY <1>1 DEF StartRun, ActiveHasRun, Records
<1>7. ASSUME NEW j \in Keys \ disturbed'
      PROVE  KeyOrderly(j)'
  <2>1. KeyOrderly(j)
    BY <1>1, <1>7 DEF OrderInv
  <2>2. \A x \in Senders : InFlight(x)' = InFlight(x) /\ (OnStep(x, "run")' => OnStep(x, "run"))
    BY <1>1, <1>3 DEF InFlight, OnStep
  <2>3. \A x \in Senders : OnStep(x, "save") => OnStep(x, "save")'
    BY <1>1, <1>3 DEF OnStep
  <2>4. OnStep(s, "save")' /\ ~OnStep(s, "run")'
    BY <1>3 DEF OnStep
  <2>5. KeyOf[s] = j => \A x \in Senders : KeyOf[x] = j /\ OnStep(x, "run")' => FALSE
    BY <1>1, <2>1, <2>2, <2>4 DEF KeyOrderly, InFlight
  <2>6. KeyOf[s] = j => \A y \in started : KeyOf[y] # j
    BY <1>1, <2>1 DEF KeyOrderly
  <2>7. \A x \in started' : KeyOf[x] = j => OnStep(x, "save")' \/ idemKeys'[j] # {}
    BY <1>1, <2>1, <2>3, <2>4 DEF KeyOrderly, Records
  <2>8. \A x \in Senders : KeyOf[x] = j /\ OnStep(x, "run")' => \A y \in started' : KeyOf[y] # j
    BY <1>1, <2>1, <2>2, <2>5 DEF KeyOrderly
  <2>9. \A x, y \in started' : KeyOf[x] = j /\ KeyOf[y] = j => x = y
    BY <1>1, <2>1, <2>6 DEF KeyOrderly
  <2>10. \A x, y \in Senders : KeyOf[x] = j /\ KeyOf[y] = j /\ InFlight(x)' /\ InFlight(y)' => x = y
    BY <2>1, <2>2 DEF KeyOrderly
  <2> QED
    BY <2>7, <2>8, <2>9, <2>10 DEF KeyOrderly
<1>8. OrderInv'
  BY <1>4, <1>7 DEF OrderInv
<1> QED
  BY <1>1, <1>4, <1>5, <1>6, <1>8 DEF RecordsOwn, ReplaysRecorded

\* A request that ends, leaving its run stored or its key disturbed, makes room.
LEMMA EndKeepsOrder ==
    ASSUME OrderInv, Records', NEW s \in Senders, InFlight(s), UNCHANGED started,
           request'[s].step \in {"answered", "failed"},
           \A x \in Senders : x # s => request'[x] = request[x],
           disturbed \subseteq disturbed',
           \A k \in Keys : idemKeys[k] # {} => idemKeys'[k] # {},
           OnStep(s, "save") => idemKeys'[KeyOf[s]] # {} \/ KeyOf[s] \in disturbed'
    PROVE  OrderInv'
<1> USE IdempotencyAssumption
<1>1. SUFFICES ASSUME NEW j \in Keys \ disturbed'
               PROVE  KeyOrderly(j)'
  BY DEF OrderInv
<1>2. KeyOrderly(j) /\ started \subseteq Senders
  BY <1>1 DEF OrderInv, Records
<1>3. \A x \in Senders : /\ InFlight(x)' => InFlight(x)
                         /\ OnStep(x, "run")' => OnStep(x, "run")
                         /\ x # s => (OnStep(x, "save") => OnStep(x, "save")')
  BY DEF InFlight, OnStep
<1>4. \A x \in started' : KeyOf[x] = j => OnStep(x, "save")' \/ idemKeys'[j] # {}
  BY <1>1, <1>2, <1>3 DEF KeyOrderly
<1> QED
  BY <1>2, <1>3, <1>4 DEF KeyOrderly

LEMMA AnswerActiveKeeps ==
    ASSUME IdemInv, OrderInv, NEW s \in Senders, AnswerActive(s)
    PROVE  IdemInv' /\ OrderInv'
<1> USE IdempotencyAssumption DEF IdemInv
<1> DEFINE m == TargetOf[s]
           a == [match |-> m, run |-> lastRun[m]]
<1>1. a \in RunAnswers
  <2>1. m \in Targets /\ lastRun[m] \in 1..RunBound
    BY DEF AnswerActive, Records, ActiveHasRun
  <2> QED
    BY <2>1 DEF RunAnswers
<1>2. /\ OnStep(s, "run") /\ Moves(s, "answered", {a})
      /\ UNCHANGED <<idemKeys, matchStatus, lastRun, replayed, started, disturbed>>
  BY DEF AnswerActive
<1>3. /\ request' \in [Senders -> [step: {"new", "run", "save", "answered", "failed"},
                                    answer: SUBSET RunAnswers]]
      /\ request'[s].step = "answered" /\ request'[s].answer = {a}
      /\ \A x \in Senders : x # s => request'[x] = request[x]
  BY <1>1, <1>2, MovesOne
<1>4. Records'
  BY <1>2, <1>3 DEF Records
<1>5. AnswersOwn'
  BY <1>3 DEF AnswersOwn, OnStep
<1>6. OrderInv'
  BY <1>2, <1>3, <1>4, EndKeepsOrder DEF InFlight, OnStep
<1> QED
  BY <1>2, <1>4, <1>5, <1>6 DEF RecordsOwn, ReplaysRecorded, ActiveHasRun

LEMMA RequestFailsKeeps ==
    ASSUME IdemInv, OrderInv, NEW s \in Senders, RequestFails(s)
    PROVE  IdemInv' /\ OrderInv'
<1> USE IdempotencyAssumption DEF IdemInv
<1>1. /\ InFlight(s) /\ Moves(s, "failed", NoAnswer) /\ NoAnswer \in SUBSET RunAnswers
      /\ UNCHANGED <<idemKeys, matchStatus, lastRun, replayed, started>>
      /\ disturbed' = IF OnStep(s, "save") THEN disturbed \union {KeyOf[s]} ELSE disturbed
  BY DEF RequestFails, InFlight, NoAnswer
<1>2. /\ request' \in [Senders -> [step: {"new", "run", "save", "answered", "failed"},
                                    answer: SUBSET RunAnswers]]
      /\ request'[s].step = "failed"
      /\ \A x \in Senders : x # s => request'[x] = request[x]
  BY <1>1, MovesOne
<1>3. Records'
  BY <1>1, <1>2 DEF Records
<1>4. AnswersOwn'
  BY <1>2 DEF AnswersOwn, OnStep
<1>5. OrderInv'
  BY <1>1, <1>2, <1>3, EndKeepsOrder
<1> QED
  BY <1>1, <1>3, <1>4, <1>5 DEF RecordsOwn, ReplaysRecorded, ActiveHasRun

LEMMA SaveKeeps ==
    ASSUME IdemInv, OrderInv, NEW s \in Senders, SaveIdempotencyRecord(s)
    PROVE  IdemInv' /\ OrderInv'
<1> DEFINE k == KeyOf[s]
<1> USE IdempotencyAssumption DEF IdemInv
<1>1. PICK a \in RunAnswers : request[s].answer = {a} /\ a.match = TargetOf[s]
  BY DEF SaveIdempotencyRecord, AnswersOwn
<1>2. /\ OnStep(s, "save") /\ Moves(s, "answered", {a})
      /\ UNCHANGED <<matchStatus, lastRun, replayed, started>>
  BY <1>1 DEF SaveIdempotencyRecord
<1>3. /\ \/ UNCHANGED idemKeys
         \/ idemKeys[k] = {} /\ idemKeys' = [idemKeys EXCEPT ![k] = {a}]
      /\ disturbed \subseteq disturbed' /\ disturbed' \subseteq Keys
      /\ idemKeys'[k] # {} \/ k \in disturbed'
  <2>1. \/ idemKeys' = [idemKeys EXCEPT ![k] = IF @ = {} THEN {a} ELSE @] /\ UNCHANGED disturbed
        \/ UNCHANGED idemKeys /\ disturbed' = disturbed \union {k}
    BY <1>1 DEF SaveIdempotencyRecord
  <2> QED
    BY <2>1 DEF Records
<1>4. /\ request' \in [Senders -> [step: {"new", "run", "save", "answered", "failed"},
                                    answer: SUBSET RunAnswers]]
      /\ request'[s].step = "answered"
      /\ \A x \in Senders : x # s => request'[x] = request[x]
  BY <1>2, MovesOne
<1>5. Records'
  BY <1>1, <1>2, <1>3, <1>4 DEF Records
<1>6. AnswersOwn'
  BY <1>4 DEF AnswersOwn, OnStep
<1>7. RecordsOwn'
  BY <1>1, <1>3 DEF RecordsOwn, Records
<1>8. ReplaysRecorded'
  BY <1>2, <1>3 DEF ReplaysRecorded, Records
<1>9. OrderInv'
  <2>1. \A j \in Keys : idemKeys[j] # {} => idemKeys'[j] # {}
    BY <1>3 DEF Records
  <2> QED
    BY <1>2, <1>3, <1>4, <1>5, <2>1, EndKeepsOrder DEF InFlight
<1> QED
  BY <1>2, <1>5, <1>6, <1>7, <1>8, <1>9 DEF ActiveHasRun

LEMMA MatchEndsKeeps ==
    ASSUME IdemInv, OrderInv, NEW m \in Targets, MatchEnds(m)
    PROVE  IdemInv' /\ OrderInv'
<1> USE DEF IdemInv
<1>1. Records' /\ ActiveHasRun'
  BY DEF MatchEnds, Records, ActiveHasRun
<1>2. OrderInv'
  BY <1>1 DEF MatchEnds, OrderInv, KeyOrderly, InFlight, OnStep
<1> QED
  BY <1>1, <1>2 DEF MatchEnds, AnswersOwn, RecordsOwn, ReplaysRecorded, OnStep

LEMMA IdemStep == IdemInv /\ OrderInv /\ [IdemNext]_idemVars => IdemInv' /\ OrderInv'
<1> SUFFICES ASSUME IdemInv, OrderInv, [IdemNext]_idemVars
             PROVE  IdemInv' /\ OrderInv'
  OBVIOUS
<1>1. CASE UNCHANGED idemVars
  BY <1>1 DEF idemVars, IdemInv, Records, AnswersOwn, RecordsOwn, ReplaysRecorded,
     ActiveHasRun, OnStep, OrderInv, KeyOrderly, InFlight
<1>2. ASSUME NEW m \in Targets, MatchEnds(m)
      PROVE  IdemInv' /\ OrderInv'
  BY <1>2, MatchEndsKeeps
<1>3. ASSUME NEW s \in Senders,
             \/ LookUpKey(s) \/ StartRun(s) \/ AnswerActive(s) \/ RequestFails(s)
             \/ SaveIdempotencyRecord(s)
      PROVE  IdemInv' /\ OrderInv'
  BY <1>3, LookUpKeyKeeps, StartRunKeeps, AnswerActiveKeeps, RequestFailsKeeps, SaveKeeps
<1> QED
  BY <1>1, <1>2, <1>3 DEF IdemNext

-----------------------------------------------------------------------------

\* What the look-up and the store around RunMatch (service/matches.go 141, 500)
\* promise, for any number of overlapping requests and of look-ups that fail: the
\* answers given from the record of a key are one answer, about a match that a
\* request with this key named.
THEOREM RepeatedKeysAgree == IdemSpec => []RepeatsAgree
<1>1. IdemInv => RepeatsAgree
  <2> SUFFICES ASSUME IdemInv, NEW x \in replayed, NEW y \in replayed
               PROVE  /\ KeyOf[x.sender] = KeyOf[y.sender] => x.answer = y.answer
                      /\ \E s \in Senders :
                           KeyOf[s] = KeyOf[x.sender] /\ x.answer.match = TargetOf[s]
    BY DEF RepeatsAgree
  <2>1. x.sender \in Senders /\ y.sender \in Senders
    BY DEF IdemInv, Records
  <2>2. KeyOf[x.sender] \in Keys /\ KeyOf[y.sender] \in Keys
    BY <2>1, IdempotencyAssumption
  <2> QED
    BY <2>2 DEF IdemInv, RecordsOwn, ReplaysRecorded
<1> QED
  BY <1>1, InitIdemInv, IdemStep, PTL DEF IdemSpec

\* A key starts one run, however often it is repeated, if its requests come one
\* after the other and none loses a statement of its own (service/matches.go 141
\* to 500): the record is there before the next look-up.
THEOREM OneRunForAKey == IdemSpec => []OneRunPerKey
<1>1. OrderInv => OneRunPerKey
  <2> SUFFICES ASSUME OrderInv, NEW x \in started, NEW y \in started,
                      KeyOf[x] = KeyOf[y], KeyOf[x] \notin disturbed
               PROVE  x = y
    BY DEF OneRunPerKey
  <2>1. KeyOf[x] \in Keys
    BY IdempotencyAssumption DEF OrderInv, Records
  <2> QED
    BY <2>1 DEF OrderInv, KeyOrderly
<1> QED
  BY <1>1, InitIdemInv, IdemStep, PTL DEF IdemSpec

-----------------------------------------------------------------------------
(* RateLimiter.                                                            *)

\* The requests of c let through at a time of D.
During(c, D) == {a \in admitted : a.client = c /\ a.time \in D}
AtMost(n, S) == Cardinality(S) <= n

\* A window that counts requests began Window before its reset and has counted
\* all of them since; the time of one window before it lies in the window
\* before, which is full at most.
CountsItsWindow(c) == limits[c].count > 0 =>
    /\ AtMost(limits[c].count, During(c, (limits[c].resetTime - Window)..clock))
    /\ AtMost(MaxRequests, During(c, (limits[c].resetTime - 2 * Window)..
                                         (limits[c].resetTime - Window - 1)))
    /\ limits[c].resetTime - Window <= clock
    /\ \A a \in admitted : a.client = c => a.time <= limits[c].resetTime

\* Of a client without a count nothing is remembered, and there is no need to:
\* a window can begin now.
MayBegin(c) == limits[c].count = 0 =>
    /\ AtMost(MaxRequests, During(c, (clock - Window)..clock))
    /\ \A a \in admitted : a.client = c => a.time < clock

LimInv ==
    /\ LimTypeOK
    /\ IsFiniteSet(admitted)
    /\ \A c \in Clients : CountsItsWindow(c) /\ MayBegin(c)
    /\ AtMostTwoWindows

LEMMA Fewer ==
    ASSUME NEW S, IsFiniteSet(S), NEW T, T \subseteq S, NEW n \in Nat, AtMost(n, S)
    PROVE  AtMost(n, T) /\ IsFiniteSet(T)
BY FS_Subset, FS_CardinalityType DEF AtMost

LEMMA OneMore ==
    ASSUME NEW S, IsFiniteSet(S), NEW a, NEW T, T \subseteq S \union {a},
           NEW n \in Nat, AtMost(n, S)
    PROVE  AtMost(n + 1, T)
<1>1. IsFiniteSet(S \union {a}) /\ Cardinality(S) \in Nat
      /\ (Cardinality(S \union {a}) = Cardinality(S) \/
          Cardinality(S \union {a}) = Cardinality(S) + 1)
  BY FS_AddElement, FS_CardinalityType
<1>2. AtMost(n + 1, S \union {a})
  BY <1>1 DEF AtMost
<1>3. n + 1 \in Nat
  OBVIOUS
<1> QED
  BY <1>1, <1>2, <1>3, Fewer

LEMMA Joined ==
    ASSUME NEW S, IsFiniteSet(S), NEW T, IsFiniteSet(T), NEW U, U \subseteq S \union T,
           NEW n \in Nat, NEW m \in Nat, AtMost(n, S), AtMost(m, T)
    PROVE  AtMost(n + m, U)
<1>1. IsFiniteSet(S \union T)
      /\ Cardinality(S \union T) = Cardinality(S) + Cardinality(T) - Cardinality(S \cap T)
  BY FS_Union
<1>2. Cardinality(S \cap T) \in Nat
  BY FS_Intersection, FS_CardinalityType
<1>3. AtMost(n + m, S \union T)
  BY <1>1, <1>2, FS_CardinalityType DEF AtMost
<1>4. n + m \in Nat
  OBVIOUS
<1> QED
  BY <1>1, <1>3, <1>4, Fewer

LEMMA InitLimInv == LimInit => LimInv
<1> SUFFICES ASSUME LimInit
             PROVE  LimInv
  OBVIOUS
<1> USE LimiterAssumption DEF LimInit, NoLimit
<1>1. LimTypeOK
  BY DEF LimTypeOK
<1>2. IsFiniteSet(admitted) /\ \A c, D : During(c, D) = {}
  BY FS_EmptySet DEF During
<1>3. \A c \in Clients : CountsItsWindow(c) /\ MayBegin(c)
  BY <1>2, FS_EmptySet DEF CountsItsWindow, MayBegin, AtMost
<1>4. AtMostTwoWindows
  BY <1>2, FS_EmptySet DEF AtMostTwoWindows, Within
<1> QED
  BY <1>1, <1>2, <1>3, <1>4 DEF LimInv

LEMMA AllowKeeps ==
    ASSUME LimInv, NEW c \in Clients, Allow(c)
    PROVE  LimInv'
<1> USE LimiterAssumption DEF LimInv
<1> DEFINE rank == 1 + Cardinality({a \in admitted : a.client = c /\ a.time = clock})
           new == [client |-> c, time |-> clock, rank |-> rank]
<1>1. /\ clock' = clock /\ clock \in Nat /\ clock <= LastTime
      /\ admitted' = admitted \union {new}
      /\ rank \in Nat
      /\ limits[c] \in [count: 0..MaxRequests, resetTime: 0..LastTime + Window]
      /\ \A a \in admitted : a.time \in Nat /\ a.time <= clock
  <2>1. {a \in admitted : a.client = c /\ a.time = clock} \subseteq admitted
    OBVIOUS
  <2>2. rank \in Nat
    BY <2>1, FS_Subset, FS_CardinalityType
  <2> QED
    BY <2>2 DEF Allow, Admits, LimTypeOK
<1>2. LimTypeOK'
  <2>1. limits'[c] \in [count: 0..MaxRequests, resetTime: 0..LastTime + Window]
    <3>1. CASE WindowOver(c)
      BY <1>1, <3>1 DEF Allow, LimTypeOK
    <3>2. CASE ~WindowOver(c)
      <4>1. limits[c].count + 1 \in 0..MaxRequests
        BY <1>1, <3>2 DEF Allow
      <4>2. limits'[c] = [limits[c] EXCEPT !.count = limits[c].count + 1]
        BY <3>2 DEF Allow, LimTypeOK
      <4> QED
        BY <1>1, <4>1, <4>2
    <3> QED
      BY <3>1, <3>2
  <2>2. limits' \in [Clients -> [count: 0..MaxRequests, resetTime: 0..LastTime + Window]]
    BY <2>1 DEF Allow, LimTypeOK
  <2> QED
    BY <1>1, <2>2 DEF LimTypeOK
<1>3. IsFiniteSet(admitted')
  BY <1>1, FS_AddElement
<1>4. \A d, D : IsFiniteSet(During(d, D)) /\ IsFiniteSet(During(d, D)')
  BY <1>1, <1>3, FS_Subset DEF During
<1>5. \A d, D : /\ During(d, D)' \subseteq During(d, D) \union {new}
                /\ d # c \/ clock \notin D => During(d, D)' = During(d, D)
  BY <1>1 DEF During
<1>6. \A d \in Clients, t \in 0..clock :
          AtMost(2 * MaxRequests, During(d, t..t + Window))
  BY DEF AtMostTwoWindows, Within, During, AtMost
<1>7. \A d \in Clients \ {c}, t \in 0..clock :
          AtMost(2 * MaxRequests, During(d, t..t + Window)')
  BY <1>5, <1>6
<1>8. \A d \in Clients \ {c} : CountsItsWindow(d)' /\ MayBegin(d)'
  <2> SUFFICES ASSUME NEW d \in Clients \ {c}
               PROVE  CountsItsWindow(d)' /\ MayBegin(d)'
    OBVIOUS
  <2>1. limits'[d] = limits[d] /\ \A D : During(d, D)' = During(d, D)
    BY <1>5 DEF Allow, LimTypeOK
  <2>2. \A a \in admitted' : a.client = d => a \in admitted
    BY <1>1
  <2> QED
    BY <1>1, <2>1, <2>2 DEF CountsItsWindow, MayBegin
<1>11. (\A d \in Clients, t \in 0..clock : AtMost(2 * MaxRequests, During(d, t..t + Window)'))
       => AtMostTwoWindows'
  BY <1>1 DEF AtMostTwoWindows, Within, During, AtMost
<1>12. ASSUME CountsItsWindow(c)' /\ MayBegin(c)',
              \A t \in 0..clock : AtMost(2 * MaxRequests, During(c, t..t + Window)')
       PROVE  LimInv'
  <2>1. \A d \in Clients : CountsItsWindow(d)' /\ MayBegin(d)'
    BY <1>8, <1>12
  <2>2. AtMostTwoWindows'
    BY <1>7, <1>11, <1>12
  <2> QED
    BY <1>2, <1>3, <2>1, <2>2
<1>9. CASE WindowOver(c)
  <2>1. /\ AtMost(MaxRequests, During(c, (clock - Window)..clock))
        /\ \A a \in admitted : a.client = c => a.time < clock
    <3>1. CASE limits[c].count = 0
      BY <3>1 DEF MayBegin
    <3>2. CASE limits[c].count # 0
      <4>1. clock > limits[c].resetTime /\ limits[c].count > 0
        BY <1>1, <1>9, <3>2 DEF WindowOver
      <4>2. During(c, (clock - Window)..clock) \subseteq
                During(c, (limits[c].resetTime - Window)..clock)
        BY <1>1, <4>1 DEF During
      <4>3. AtMost(MaxRequests, During(c, (limits[c].resetTime - Window)..clock))
        BY <1>1, <1>4, <4>1, FS_CardinalityType DEF CountsItsWindow, AtMost
      <4>4. AtMost(MaxRequests, During(c, (clock - Window)..clock))
        BY <1>4, <4>2, <4>3, Fewer
      <4>5. \A a \in admitted : a.client = c => a.time < clock
        BY <1>1, <4>1 DEF CountsItsWindow
      <4> QED
        BY <4>4, <4>5
    <3> QED
      BY <3>1, <3>2
  <2>2. /\ limits[c]'.count = 1 /\ limits[c]'.resetTime = clock + Window
    BY <1>9 DEF Allow, LimTypeOK
  <2>3. During(c, clock..clock)' \subseteq {new}
    BY <1>1, <2>1 DEF During
  <2>4. AtMost(1, During(c, clock..clock)')
    <3>1. IsFiniteSet({new}) /\ AtMost(1, {new})
      <4>1. IsFiniteSet({new}) /\ Cardinality({new}) = 1
        BY FS_Singleton
      <4> QED
        BY <4>1 DEF AtMost
    <3> QED
      BY <2>3, <3>1, Fewer
  <2>5. AtMost(MaxRequests, During(c, (clock - Window)..(clock - 1))')
    <3>1. During(c, (clock - Window)..(clock - 1))' = During(c, (clock - Window)..(clock - 1))
      BY <1>1, <1>5
    <3>2. During(c, (clock - Window)..(clock - 1)) \subseteq During(c, (clock - Window)..clock)
      BY <1>1 DEF During
    <3> QED
      BY <1>4, <2>1, <3>1, <3>2, Fewer
  <2>6. CountsItsWindow(c)' /\ MayBegin(c)'
    <3>1. /\ (limits[c].resetTime - Window)' = clock
          /\ (limits[c].resetTime - 2 * Window)' = clock - Window
          /\ (limits[c].resetTime - Window - 1)' = clock - 1
          /\ limits[c].count' = 1
      BY <1>1, <2>2
    <3>2. /\ AtMost(limits[c].count, During(c, (limits[c].resetTime - Window)..clock))'
          /\ AtMost(MaxRequests, During(c, (limits[c].resetTime - 2 * Window)..
                                               (limits[c].resetTime - Window - 1)))'
      BY <1>1, <2>4, <2>5, <3>1
    <3>3. \A a \in admitted' : a.client = c => a.time <= (limits[c].resetTime)'
      BY <1>1, <2>2
    <3> QED
      BY <1>1, <3>1, <3>2, <3>3 DEF CountsItsWindow, MayBegin
  <2>7. \A t \in 0..clock' : AtMost(2 * MaxRequests, During(c, t..t + Window)')
    <3> SUFFICES ASSUME NEW t \in 0..clock'
                 PROVE  AtMost(2 * MaxRequests, During(c, t..t + Window)')
      OBVIOUS
    <3>1. CASE t + Window < clock
      <4>1. clock \notin t..t + Window /\ t \in 0..clock
        BY <1>1, <3>1
      <4>2. During(c, t..t + Window)' = During(c, t..t + Window)
        BY <1>5, <4>1
      <4> QED
        BY <1>6, <4>1, <4>2
    <3>2. CASE t + Window >= clock
      <4>1. During(c, t..t + Window)' \subseteq
                During(c, (clock - Window)..clock) \union {new}
        BY <1>1, <3>2 DEF During
      <4>2. AtMost(MaxRequests + 1, During(c, t..t + Window)')
        BY <1>4, <2>1, <4>1, OneMore
      <4> QED
        BY <1>4, <4>2, FS_CardinalityType DEF AtMost
    <3> QED
      BY <1>1, <3>1, <3>2
  <2> QED
    BY <1>1, <1>12, <2>6, <2>7
<1>10. CASE ~WindowOver(c)
  <2> DEFINE start == limits[c].resetTime - Window
  <2>1. /\ limits[c].count > 0 /\ limits[c].count < MaxRequests
        /\ clock <= limits[c].resetTime
        /\ limits'[c].count = limits[c].count + 1
        /\ limits'[c].resetTime = limits[c].resetTime
        /\ start \in Int /\ start <= clock
    <3>1. limits[c].count > 0 /\ limits[c].count < MaxRequests /\ clock <= limits[c].resetTime
      BY <1>1, <1>10 DEF Allow, WindowOver
    <3>2. limits'[c] = [limits[c] EXCEPT !.count = limits[c].count + 1]
      BY <1>10 DEF Allow, LimTypeOK
    <3>3. limits[c].resetTime - Window <= clock
      BY <3>1 DEF CountsItsWindow
    <3> QED
      BY <1>1, <3>1, <3>2, <3>3
  <2>2. /\ AtMost(limits[c].count, During(c, start..clock))
        /\ AtMost(MaxRequests, During(c, (start - Window)..(start - 1)))
        /\ \A a \in admitted : a.client = c => a.time <= limits[c].resetTime
    <3>1. start - Window = limits[c].resetTime - 2 * Window
      BY <1>1
    <3> QED
      BY <2>1, <3>1 DEF CountsItsWindow
  <2>3. AtMost(limits[c].count + 1, During(c, start..clock)')
    <3>1. During(c, start..clock)' \subseteq During(c, start..clock) \union {new}
      <4>1. start' = start /\ clock' = clock
        BY <1>1, <2>1
      <4> HIDE DEF start, new
      <4> QED
        BY <1>5, <4>1
    <3>2. limits[c].count \in Nat
      BY <1>1
    <3> HIDE DEF start, new
    <3> QED
      BY <1>4, <2>2, <3>1, <3>2, OneMore
  <2>4. AtMost(MaxRequests, During(c, (start - Window)..(start - 1))')
    <3>1. start' = start
      BY <2>1
    <3>2. clock \notin (start - Window)..(start - 1)
      BY <1>1, <2>1
    <3> HIDE DEF start, new
    <3>3. During(c, (start - Window)..(start - 1))' = During(c, (start - Window)..(start - 1))
      BY <1>5, <3>1, <3>2
    <3> QED
      BY <2>2, <3>3
  <2>5. CountsItsWindow(c)' /\ MayBegin(c)'
    <3>1. start - Window = limits'[c].resetTime - 2 * Window
      BY <1>1, <2>1
    <3>2. limits'[c].resetTime - Window = start
      BY <2>1
    <3>3. \A a \in admitted' : a.client = c => a.time <= limits'[c].resetTime
      BY <1>1, <2>1, <2>2
    <3>4. CountsItsWindow(c)'
      <4>1. /\ start' = start /\ clock' = clock
            /\ (limits[c].resetTime - Window)' = start
            /\ (limits[c].resetTime - 2 * Window)' = start - Window
            /\ (limits[c].resetTime - Window - 1)' = start - 1
        BY <1>1, <2>1, <3>1, <3>2
      <4> HIDE DEF start, new
      <4> QED
        BY <2>1, <2>3, <2>4, <3>3, <4>1 DEF CountsItsWindow
    <3>5. limits'[c].count # 0
      BY <1>1, <2>1
    <3> QED
      BY <3>4, <3>5 DEF MayBegin
  <2>6. \A t \in 0..clock : AtMost(2 * MaxRequests, During(c, t..t + Window)')
    <3> SUFFICES ASSUME NEW t \in 0..clock
                 PROVE  AtMost(2 * MaxRequests, During(c, t..t + Window)')
      OBVIOUS
    <3>1. CASE t + Window < clock
      <4>1. clock \notin t..t + Window /\ t \in 0..clock
        BY <1>1, <3>1
      <4>2. During(c, t..t + Window)' = During(c, t..t + Window)
        BY <1>5, <4>1
      <4> QED
        BY <1>6, <4>1, <4>2
    <3>2. CASE t + Window >= clock
      <4>1. During(c, t..t + Window)' \subseteq
                During(c, start..clock)' \union During(c, (start - Window)..(start - 1))'
        <5>1. \A a \in admitted' : a.time \in t..t + Window =>
                  a.time \in start..clock \/ a.time \in (start - Window)..(start - 1)
          BY <1>1, <2>1, <3>2
        <5>2. start' = start /\ clock' = clock
          BY <1>1, <2>1
        <5> HIDE DEF start, new
        <5> QED
          BY <5>1, <5>2 DEF During
      <4>2. AtMost(MaxRequests, During(c, start..clock)')
        BY <1>1, <1>4, <2>1, <2>3, FS_CardinalityType DEF AtMost
      <4>3. AtMost(MaxRequests + MaxRequests, During(c, t..t + Window)')
        <5> DEFINE S == During(c, start..clock)'
                   T == During(c, (start - Window)..(start - 1))'
                   U == During(c, t..t + Window)'
        <5>1. IsFiniteSet(S) /\ IsFiniteSet(T) /\ U \subseteq S \union T
          BY <1>4, <4>1
        <5>2. AtMost(MaxRequests, S) /\ AtMost(MaxRequests, T)
          BY <2>4, <4>2
        <5> HIDE DEF S, T, U
        <5>3. AtMost(MaxRequests + MaxRequests, U)
          BY <5>1, <5>2, Joined
        <5> QED
          BY <5>3 DEF U
      <4> QED
        BY <4>3
    <3> QED
      BY <1>1, <3>1, <3>2
  <2> QED
    BY <1>12, <2>5, <2>6
<1> QED
  BY <1>9, <1>10

LEMMA CleanupKeeps ==
    ASSUME LimInv, Cleanup
    PROVE  LimInv'
<1> USE LimiterAssumption DEF LimInv
<1>1. clock' = clock /\ admitted' = admitted /\ \A c, D : During(c, D)' = During(c, D)
  BY DEF Cleanup, During
<1>2. LimTypeOK' /\ AtMostTwoWindows'
  BY <1>1 DEF Cleanup, LimTypeOK, NoLimit, AtMostTwoWindows, Within
<1>3. \A c, D : IsFiniteSet(During(c, D))
  BY FS_Subset DEF During
<1>4. ASSUME NEW c \in Clients
      PROVE  CountsItsWindow(c)' /\ MayBegin(c)'
  <2>1. CASE clock > limits[c].resetTime /\ limits[c].count > 0
    <3>1. limits'[c].count = 0
      BY <2>1 DEF Cleanup, NoLimit
    <3>2. During(c, (clock - Window)..clock) \subseteq
              During(c, (limits[c].resetTime - Window)..clock)
      BY <2>1 DEF LimTypeOK, During
    <3>3. AtMost(MaxRequests, During(c, (limits[c].resetTime - Window)..clock))
      BY <1>3, <2>1, FS_CardinalityType DEF CountsItsWindow, AtMost, LimTypeOK
    <3>4. \A a \in admitted : a.client = c => a.time < clock
      BY <2>1 DEF CountsItsWindow, LimTypeOK
    <3>5. AtMost(MaxRequests, During(c, (clock - Window)..clock))
      BY <1>3, <3>2, <3>3, Fewer
    <3> QED
      BY <1>1, <3>1, <3>4, <3>5 DEF CountsItsWindow, MayBegin
  <2>2. CASE ~(clock > limits[c].resetTime /\ limits[c].count > 0)
    <3>1. limits'[c].count = limits[c].count
          /\ (limits[c].count > 0 => limits'[c].resetTime = limits[c].resetTime)
      BY <2>2 DEF Cleanup, NoLimit, LimTypeOK
    <3> QED
      BY <1>1, <3>1 DEF CountsItsWindow, MayBegin, LimTypeOK
  <2> QED
    BY <2>1, <2>2
<1> QED
  BY <1>1, <1>2, <1>4

LEMMA LimTickKeeps ==
    ASSUME LimInv, LimTick
    PROVE  LimInv'
<1> USE LimiterAssumption DEF LimInv
<1>1. /\ clock' = clock + 1 /\ admitted' = admitted /\ limits' = limits
      /\ clock \in Nat /\ \A c, D : During(c, D)' = During(c, D)
      /\ \A a \in admitted : a.time \in 0..clock
  BY DEF LimTick, During, LimTypeOK
<1>2. LimTypeOK'
  BY <1>1 DEF LimTick, LimTypeOK
<1>3. \A c, D : IsFiniteSet(During(c, D))
  BY FS_Subset DEF During
<1>4. ASSUME NEW c \in Clients
      PROVE  CountsItsWindow(c)' /\ MayBegin(c)'
  <2>1. \A s \in Int : During(c, s..(clock + 1)) = During(c, s..clock)
    BY <1>1 DEF During
  <2>2. During(c, ((clock + 1) - Window)..clock) \subseteq During(c, (clock - Window)..clock)
    BY <1>1 DEF During
  <2>3. CountsItsWindow(c)'
    <3>1. limits[c].count \in Nat /\ limits[c].resetTime - Window \in Int
      BY DEF LimTypeOK
    <3> QED
      BY <1>1, <2>1, <3>1 DEF CountsItsWindow
  <2>4. MayBegin(c)'
    <3> SUFFICES ASSUME limits[c].count = 0
                 PROVE  /\ AtMost(MaxRequests, During(c, ((clock + 1) - Window)..(clock + 1)))
                        /\ \A a \in admitted : a.client = c => a.time < clock + 1
      BY <1>1 DEF MayBegin
    <3>1. AtMost(MaxRequests, During(c, (clock - Window)..clock))
      BY DEF MayBegin
    <3>2. AtMost(MaxRequests, During(c, ((clock + 1) - Window)..clock))
      BY <1>3, <2>2, <3>1, Fewer
    <3> QED
      BY <1>1, <2>1, <3>2
  <2> QED
    BY <2>3, <2>4
<1>5. AtMostTwoWindows'
  <2> SUFFICES ASSUME NEW c \in Clients, NEW t \in 0..(clock + 1)
               PROVE  AtMost(2 * MaxRequests, During(c, t..t + Window))
    BY <1>1 DEF AtMostTwoWindows, Within, During, AtMost
  <2>1. CASE t <= clock
    BY <1>1, <2>1 DEF AtMostTwoWindows, Within, During, AtMost
  <2>2. CASE t = clock + 1
    <3>1. During(c, t..t + Window) = {}
      BY <1>1, <2>2 DEF During
    <3> QED
      <4>1. Cardinality({}) = 0
        BY FS_EmptySet
      <4> QED
        BY <3>1, <4>1 DEF AtMost
  <2> QED
    BY <1>1, <2>1, <2>2
<1> QED
  BY <1>2, <1>1, <1>4, <1>5

\* However the windows of a client fall, and with the background loop forgetting
\* clients in between, no stretch of one window's length sees more than twice the
\* limit, for any number of clients, limit and window.
THEOREM LimiterAtMostTwoWindows == LimSpec => [](LimTypeOK /\ AtMostTwoWindows)
<1>1. LimInv /\ [LimNext]_limVars => LimInv'
  <2> SUFFICES ASSUME LimInv, [LimNext]_limVars
               PROVE  LimInv'
    OBVIOUS
  <2>1. CASE UNCHANGED limVars
    BY <2>1 DEF limVars, LimInv, LimTypeOK, CountsItsWindow, MayBegin, During, AtMost,
                AtMostTwoWindows, Within
  <2> QED
    BY <2>1, AllowKeeps, CleanupKeeps, LimTickKeeps DEF LimNext
<1> QED
  BY InitLimInv, <1>1, PTL DEF LimSpec, LimInv

-----------------------------------------------------------------------------
(* Permissions.                                                            *)

\* A check looks only at roles of its user, and loads one at a time.
ChecksOwnRoles == \A k \in Checks :
    /\ check[k].todo \subseteq userRoles
    /\ Is(k, "load") => \E r \in check[k].todo : check[k].role = {r}
    /\ ~Is(k, "load") => check[k].role = {}

\* What is granted now is known to be; what a load read was granted when it was
\* read, and what an entry holds, a load before it was stored.
GrantingNow == \A r \in Roles : GrantsRole(r) => since[r] = 0
LoadsRecent == \A k \in Checks, r \in Roles :
    Is(k, "load") /\ check[k].role = {r} /\ Grants(check[k].perms) => since[r] <= check[k].lag
EntriesRecent == \A r \in Roles :
    Fresh(r) /\ Grants(cache[r].perms) => since[r] <= cache[r].age + MaxLag

PermInv == PermTypeOK /\ ChecksOwnRoles /\ GrantingNow /\ LoadsRecent /\ EntriesRecent

\* What a check knows between its statements.
Resting(s, T) == [step |-> s, todo |-> T, role |-> {}, perms |-> {}, lag |-> 0]

RestSteps == {"idle", "roles", "database", "granted", "denied"}

LEMMA RestingState ==
    \A s \in RestSteps, T \in SUBSET Roles :
        /\ Resting(s, T) \in CheckState
        /\ Resting(s, T).step = s /\ Resting(s, T).todo = T /\ Resting(s, T).role = {}
        /\ s # "load"
<1> SUFFICES ASSUME NEW s \in RestSteps, NEW T \in SUBSET Roles
             PROVE  /\ Resting(s, T) \in CheckState
                    /\ Resting(s, T).step = s /\ Resting(s, T).todo = T
                    /\ Resting(s, T).role = {} /\ s # "load"
  OBVIOUS
<1>1. 0 \in 0..MaxLag /\ {} \in SUBSET Roles /\ {} \in SUBSET Perms
  BY PermissionsAssumption
<1> QED
  BY <1>1 DEF Resting, CheckState, RestSteps

LEMMA IdleGoesTo ==
    ASSUME NEW s, NEW T
    PROVE  /\ [Idle EXCEPT !.step = s, !.todo = T] = Resting(s, T)
           /\ [Idle EXCEPT !.step = s] = Resting(s, {})
<1>1. [Idle EXCEPT !.step = s, !.todo = T] = Resting(s, T)
  <2> DEFINE R == [step: {s}, todo: {T}, role: {{}}, perms: {{}}, lag: {0}]
  <2>1. [Idle EXCEPT !.step = s, !.todo = T] \in R
    BY DEF Idle
  <2>2. Resting(s, T) \in R
    BY DEF Resting
  <2>3. \A x, y \in R : x = y
    OBVIOUS
  <2> QED
    BY <2>1, <2>2, <2>3
<1>2. [Idle EXCEPT !.step = s] = Resting(s, {})
  <2> DEFINE R == [step: {s}, todo: {{}}, role: {{}}, perms: {{}}, lag: {0}]
  <2>1. [Idle EXCEPT !.step = s] \in R
    BY DEF Idle
  <2>2. Resting(s, {}) \in R
    BY DEF Resting
  <2>3. \A x, y \in R : x = y
    OBVIOUS
  <2> QED
    BY <2>1, <2>2, <2>3
<1> QED
  BY <1>1, <1>2

LEMMA CardinalityOfNoneOrOne ==
    Cardinality({}) = 0 /\ \A r : Cardinality({r}) = 1
BY FS_EmptySet, FS_Singleton

LEMMA InitPermInv == PermInit => PermInv
<1> SUFFICES ASSUME PermInit
             PROVE  PermInv
  OBVIOUS
<1> USE PermissionsAssumption DEF PermInit
<1>1. PermTypeOK
  <2>1. Idle \in CheckState /\ Idle.role = {} /\ Idle.step # "load"
    BY DEF Idle, CheckState
  <2>2. cache \in [Roles -> Entry]
    BY DEF NoEntry, Entry, MaxAge
  <2>3. since \in [Roles -> 0..Long]
    BY DEF Long
  <2> QED
    BY <2>1, <2>2, <2>3, CardinalityOfNoneOrOne DEF PermTypeOK
<1>2. ChecksOwnRoles /\ LoadsRecent
  BY DEF ChecksOwnRoles, LoadsRecent, Is, Idle
<1>3. GrantingNow /\ EntriesRecent
  BY DEF GrantingNow, EntriesRecent, Fresh, NoEntry
<1> QED
  BY <1>1, <1>2, <1>3 DEF PermInv

\* Check k goes on to d, on roles of its user.
LEMMA CheckMoves ==
    ASSUME PermInv, NEW k \in Checks, NEW d \in CheckState,
           check' = [check EXCEPT ![k] = d],
           d.todo \subseteq userRoles,
           d.step = "load" => \E r \in d.todo : d.role = {r} /\ (Grants(d.perms) => since[r] = 0),
           d.step # "load" => d.role = {},
           UNCHANGED <<Database, since>>,
           cache' \in [Roles -> Entry],
           EntriesRecent'
    PROVE  PermInv'
<1> USE DEF PermInv, Database
<1>2. /\ check'[k] = d /\ \A j \in Checks : j # k => check'[j] = check[j]
  BY DEF PermTypeOK
<1>3. \A r : {r} = d.role => r \in d.todo
  BY DEF CheckState
<1>4. PermTypeOK'
  BY <1>2, CardinalityOfNoneOrOne DEF PermTypeOK
<1>5. ChecksOwnRoles'
  BY <1>2 DEF ChecksOwnRoles, Is
<1>6. GrantingNow'
  BY DEF GrantingNow, GrantsRole
<1>7. LoadsRecent'
  <2> SUFFICES ASSUME NEW j \in Checks, NEW r \in Roles, Is(j, "load")', check'[j].role = {r},
                      Grants(check'[j].perms)
               PROVE  since[r] <= check'[j].lag
    BY DEF LoadsRecent
  <2>1. CASE j = k
    <3>1. since[r] = 0 /\ d.lag \in Nat
      BY <1>2, <2>1, PermissionsAssumption DEF Is, CheckState
    <3> QED
      BY <1>2, <2>1, <3>1
  <2>2. CASE j # k
    BY <1>2, <2>2 DEF LoadsRecent, Is
  <2> QED
    BY <2>1, <2>2
<1> QED
  BY <1>4, <1>5, <1>6, <1>7

LEMMA DecisionRests ==
    ASSUME PermInv, NEW k \in Checks, NEW r, NEW p, Decide1(k, r, p)
    PROVE  \E s \in {"granted", "roles"}, T \in SUBSET userRoles :
               check' = [check EXCEPT ![k] = Resting(s, T)]
<1> DEFINE s == IF Grants(p) THEN "granted" ELSE "roles"
           T == IF Grants(p) THEN {} ELSE check[k].todo \ {r}
           d == [Idle EXCEPT !.step = s, !.todo = T]
<1>1. T \in SUBSET userRoles /\ s \in {"granted", "roles"}
  BY DEF PermInv, ChecksOwnRoles
<1>2. check' = [check EXCEPT ![k] = d]
  BY DEF Decide1
<1>3. d = Resting(s, T)
  BY IdleGoesTo
<1> HIDE DEF s, T, d
<1> QED
  BY <1>1, <1>2, <1>3

LEMMA CheckStepKeeps ==
    ASSUME PermInv, NEW k \in Checks,
           \/ StartCheck(k) \/ LoadFails(k) \/ AskDatabase(k)
           \/ \E r \in Roles : UseEntry(k, r) \/ LoadRole(k, r) \/ StoreRole(k, r)
    PROVE  PermInv'
<1> USE PermissionsAssumption
<1>1. /\ check[k] \in CheckState /\ check[k].todo \subseteq userRoles
      /\ userRoles \subseteq Roles /\ cache \in [Roles -> Entry]
      /\ rolePerms \in [Roles -> SUBSET Perms]
  BY DEF PermInv, PermTypeOK, ChecksOwnRoles
<1>2. {} \in SUBSET Roles /\ SUBSET userRoles \subseteq SUBSET Roles
  BY <1>1
<1>3. ASSUME NEW s \in RestSteps,
             NEW T \in SUBSET userRoles,
             check' = [check EXCEPT ![k] = Resting(s, T)],
             UNCHANGED <<Database, cache, since>>
      PROVE  PermInv'
  <2> DEFINE d == Resting(s, T)
  <2>1. d \in CheckState /\ d.todo \subseteq userRoles /\ d.step # "load" /\ d.role = {}
    BY <1>2, RestingState DEF RestSteps
  <2>2. EntriesRecent' /\ cache' \in [Roles -> Entry]
    BY <1>1, <1>3 DEF PermInv, EntriesRecent, Fresh
  <2> HIDE DEF d
  <2>3. check' = [check EXCEPT ![k] = d]
    BY <1>3 DEF d
  <2> QED
    BY <1>3, <2>1, <2>2, <2>3, CheckMoves
<1>4. CASE StartCheck(k)
  <2> DEFINE s == IF userActive THEN "roles" ELSE "denied"
             T == IF userActive THEN userRoles ELSE {}
             d == [Idle EXCEPT !.step = s, !.todo = T]
  <2>1. check' = [check EXCEPT ![k] = d]
        /\ UNCHANGED <<Database, cache, since>>
    BY <1>4 DEF StartCheck
  <2>2. s \in RestSteps /\ T \in SUBSET userRoles
    BY DEF RestSteps
  <2>3. d = Resting(s, T)
    BY IdleGoesTo
  <2> HIDE DEF s, T, d
  <2> QED
    BY <1>3, <2>1, <2>2, <2>3
<1>5. CASE LoadFails(k)
  <2> DEFINE d == [Idle EXCEPT !.step = "database"]
  <2>1. check' = [check EXCEPT ![k] = d] /\ UNCHANGED <<Database, cache, since>>
    BY <1>5 DEF LoadFails
  <2>2. d = Resting("database", {}) /\ "database" \in RestSteps /\ {} \in SUBSET userRoles
    BY IdleGoesTo DEF RestSteps
  <2> HIDE DEF d
  <2> QED
    BY <1>3, <2>1, <2>2
<1>6. CASE AskDatabase(k)
  <2> DEFINE s == IF Held THEN "granted" ELSE "denied"
             d == [Idle EXCEPT !.step = s]
  <2>1. check' = [check EXCEPT ![k] = d]
        /\ UNCHANGED <<Database, cache, since>>
    BY <1>6 DEF AskDatabase
  <2>2. s \in RestSteps /\ {} \in SUBSET userRoles
    BY DEF RestSteps
  <2>3. d = Resting(s, {})
    BY IdleGoesTo
  <2> HIDE DEF s, d
  <2> QED
    BY <1>3, <2>1, <2>2, <2>3
<1>7. ASSUME NEW r \in Roles, UseEntry(k, r)
      PROVE  PermInv'
  BY <1>3, <1>7, DecisionRests DEF UseEntry, RestSteps
<1>8. ASSUME NEW r \in Roles, LoadRole(k, r)
      PROVE  PermInv'
  <2> DEFINE d == [check[k] EXCEPT !.step = "load", !.role = {r}, !.perms = rolePerms[r], !.lag = 0]
  <2>1. /\ d \in CheckState /\ d.todo \subseteq userRoles /\ r \in d.todo
        /\ d.role = {r} /\ d.step = "load" /\ d.perms = rolePerms[r]
    <3>1. rolePerms[r] \in SUBSET Perms /\ r \in check[k].todo
      BY <1>1, <1>8 DEF LoadRole
    <3>2. {r} \in SUBSET Roles /\ 0 \in 0..MaxLag
      OBVIOUS
    <3> QED
      BY <1>1, <3>1, <3>2 DEF CheckState
  <2>2. EntriesRecent' /\ cache' \in [Roles -> Entry]
    BY <1>1, <1>8 DEF PermInv, EntriesRecent, Fresh, LoadRole
  <2>3. check' = [check EXCEPT ![k] = d]
    BY <1>8 DEF LoadRole
  <2>4. Grants(d.perms) => since[r] = 0
    BY <2>1 DEF PermInv, GrantingNow, GrantsRole
  <2> HIDE DEF d
  <2> QED
    BY <1>8, <2>1, <2>2, <2>3, <2>4, CheckMoves DEF LoadRole
<1>9. ASSUME NEW r \in Roles, StoreRole(k, r)
      PROVE  PermInv'
  <2>1. PICK s \in {"granted", "roles"}, T \in SUBSET userRoles :
            check' = [check EXCEPT ![k] = Resting(s, T)]
    BY <1>9, DecisionRests DEF StoreRole
  <2> DEFINE d == Resting(s, T)
  <2>2. d \in CheckState /\ d.todo \subseteq userRoles /\ d.step # "load" /\ d.role = {}
    BY <1>2, RestingState DEF RestSteps
  <2>3. /\ cache'[r] = [loaded |-> TRUE, perms |-> check[k].perms, age |-> 0]
        /\ \A q \in Roles : q # r => cache'[q] = cache[q]
        /\ cache' \in [Roles -> Entry]
    BY <1>1, <1>9 DEF StoreRole, Entry, CheckState, MaxAge
  <2>4. EntriesRecent'
    <3> SUFFICES ASSUME NEW q \in Roles, Fresh(q)', Grants(cache'[q].perms)
                 PROVE  since'[q] <= cache'[q].age + MaxLag
      BY DEF EntriesRecent
    <3>1. since' = since /\ since[q] \in Nat
      BY <1>9 DEF StoreRole, PermInv, PermTypeOK, Long
    <3>2. CASE q = r
      <4>1. since[r] <= check[k].lag /\ check[k].lag \in 0..MaxLag
        BY <1>1, <1>9, <2>3, <3>2 DEF StoreRole, PermInv, LoadsRecent, CheckState
      <4> QED
        BY <2>3, <3>1, <3>2, <4>1
    <3>3. CASE q # r
      BY <2>3, <3>1, <3>3 DEF PermInv, EntriesRecent, Fresh
    <3> QED
      BY <3>2, <3>3
  <2> HIDE DEF d
  <2>5. check' = [check EXCEPT ![k] = d]
    BY <2>1 DEF d
  <2> QED
    BY <1>9, <2>2, <2>3, <2>4, <2>5, CheckMoves DEF StoreRole
<1> QED
  BY <1>4, <1>5, <1>6, <1>7, <1>8, <1>9

LEMMA ChangesKeep ==
    ASSUME PermInv,
           (\E r \in Roles : RolePermissionsChange(r) \/ UpdateUser(r)) \/ InvalidatePermissionCache
    PROVE  PermInv'
<1> USE PermissionsAssumption
<1>1. ASSUME NEW r \in Roles, RolePermissionsChange(r)
      PROVE  PermInv'
  <2>1. /\ UNCHANGED <<userRoles, userActive, cache, check>>
        /\ rolePerms' \in [Roles -> SUBSET Perms] /\ changes' \in 0..MaxChanges
        /\ \A q \in Roles : q # r => rolePerms'[q] = rolePerms[q]
        /\ since \in [Roles -> 0..Long] /\ Long \in Nat
    BY <1>1 DEF RolePermissionsChange, Change, PermInv, PermTypeOK, Long
  <2>2. \A q \in Roles : since'[q] = 0 \/ (since'[q] = since[q] /\ ~(q = r /\ Grants(rolePerms'[r])))
    BY <1>1, <2>1 DEF RolePermissionsChange
  <2>3. since' \in [Roles -> 0..Long] /\ \A q \in Roles : since'[q] <= since[q]
    BY <1>1, <2>1, <2>2 DEF RolePermissionsChange
  <2>4. PermTypeOK'
    BY <2>1, <2>3 DEF PermInv, PermTypeOK
  <2>5. GrantingNow'
    BY <2>1, <2>2 DEF PermInv, GrantingNow, GrantsRole
  <2>6. ChecksOwnRoles'
    BY <2>1 DEF PermInv, ChecksOwnRoles, Is
  <2>7. LoadsRecent'
    <3> SUFFICES ASSUME NEW k \in Checks, NEW q \in Roles, Is(k, "load"), check[k].role = {q},
                        Grants(check[k].perms)
                 PROVE  since'[q] <= check[k].lag
      BY <2>1 DEF LoadsRecent, Is
    <3>1. since[q] <= check[k].lag /\ check[k].lag \in Int
      BY DEF PermInv, LoadsRecent, PermTypeOK, CheckState
    <3> QED
      BY <2>1, <2>3, <3>1
  <2>8. EntriesRecent'
    <3> SUFFICES ASSUME NEW q \in Roles, Fresh(q), Grants(cache[q].perms)
                 PROVE  since'[q] <= cache[q].age + MaxLag
      BY <2>1 DEF EntriesRecent, Fresh
    <3>1. since[q] <= cache[q].age + MaxLag /\ cache[q].age \in Int
      BY DEF PermInv, EntriesRecent, PermTypeOK, Entry
    <3> QED
      BY <2>1, <2>3, <3>1
  <2> QED
    BY <2>4, <2>5, <2>6, <2>7, <2>8 DEF PermInv
<1>2. ASSUME NEW r \in Roles, UpdateUser(r)
      PROVE  PermInv'
  <2>1. UNCHANGED <<rolePerms, cache, check, since>> /\ userRoles \subseteq userRoles'
    BY <1>2 DEF UpdateUser
  <2>2. PermTypeOK'
    BY <1>2, <2>1 DEF UpdateUser, Change, PermInv, PermTypeOK
  <2> QED
    BY <2>1, <2>2 DEF PermInv, ChecksOwnRoles, GrantingNow, GrantsRole, LoadsRecent,
       EntriesRecent, Is, Fresh
<1>3. CASE InvalidatePermissionCache
  <2>1. UNCHANGED <<Database, check, since>> /\ cache' \in [Roles -> Entry]
        /\ \A r \in Roles : ~cache'[r].loaded
    BY <1>3 DEF InvalidatePermissionCache, NoEntry, Entry, MaxAge
  <2> QED
    BY <2>1 DEF Database, PermInv, PermTypeOK, ChecksOwnRoles, GrantingNow, GrantsRole,
       LoadsRecent, EntriesRecent, Is, Fresh
<1> QED
  BY <1>1, <1>2, <1>3

LEMMA PermTickKeeps ==
    ASSUME PermInv, PermTick
    PROVE  PermInv'
<1> USE PermissionsAssumption
<1>1. /\ UNCHANGED Database /\ Long = TTL + MaxLag + 1 /\ MaxAge = TTL + 1
      /\ since \in [Roles -> 0..Long] /\ cache \in [Roles -> Entry]
      /\ check \in [Checks -> CheckState]
  BY DEF PermTick, PermInv, PermTypeOK, Long, MaxAge
<1>2. ASSUME NEW r \in Roles
      PROVE  /\ since'[r] \in 0..Long
             /\ since'[r] <= since[r] + 1
             /\ GrantsRole(r) => since'[r] = 0
             /\ cache'[r] \in Entry /\ cache'[r].perms = cache[r].perms
             /\ cache'[r].loaded = cache[r].loaded
             /\ cache'[r].age <= TTL => cache'[r].age = cache[r].age + 1 /\ cache[r].age <= TTL
             /\ cache[r].age \in Nat
  <2>1. since[r] \in 0..Long /\ cache[r] \in Entry /\ cache[r].age \in 0..MaxAge
    BY <1>1 DEF Entry
  <2>2. cache'[r] = [cache[r] EXCEPT !.age = Older(cache[r].age, MaxAge)]
        /\ since'[r] = IF GrantsRole(r) THEN 0 ELSE Older(since[r], Long)
    BY DEF PermTick
  <2>3. Older(cache[r].age, MaxAge) \in 0..MaxAge
        /\ (Older(cache[r].age, MaxAge) <= TTL =>
               Older(cache[r].age, MaxAge) = cache[r].age + 1 /\ cache[r].age <= TTL)
    BY <1>1, <2>1 DEF Older
  <2>4. cache'[r] \in Entry /\ cache'[r].perms = cache[r].perms
        /\ cache'[r].loaded = cache[r].loaded /\ cache'[r].age = Older(cache[r].age, MaxAge)
    BY <2>1, <2>2, <2>3 DEF Entry
  <2>5. Older(since[r], Long) \in 0..Long /\ Older(since[r], Long) <= since[r] + 1
    BY <1>1, <2>1 DEF Older
  <2> QED
    BY <1>1, <2>1, <2>2, <2>3, <2>4, <2>5
<1>3. ASSUME NEW k \in Checks
      PROVE  /\ check'[k] \in CheckState
             /\ check'[k].step = check[k].step /\ check'[k].todo = check[k].todo
             /\ check'[k].role = check[k].role /\ check'[k].perms = check[k].perms
             /\ Is(k, "load") => check'[k].lag = check[k].lag + 1
             /\ check[k].lag \in Nat
  <2>1. CASE Is(k, "load")
    <3>1. check'[k] = [check[k] EXCEPT !.lag = check[k].lag + 1] /\ check[k].lag < MaxLag
      BY <2>1 DEF PermTick
    <3>2. check[k].lag + 1 \in 0..MaxLag /\ check[k] \in CheckState /\ check[k].lag \in Nat
      BY <1>1, <3>1 DEF CheckState
    <3> QED
      BY <3>1, <3>2 DEF CheckState
  <2>2. CASE ~Is(k, "load")
    BY <1>1, <2>2 DEF PermTick, CheckState
  <2> QED
    BY <2>1, <2>2
<1>4. PermTypeOK'
  <2>1. cache' \in [Roles -> Entry] /\ since' \in [Roles -> 0..Long]
        /\ check' \in [Checks -> CheckState]
    BY <1>2, <1>3 DEF PermTick
  <2> QED
    BY <1>1, <1>3, <2>1 DEF PermInv, PermTypeOK, Database
<1>5. ChecksOwnRoles'
  BY <1>1, <1>3 DEF PermInv, ChecksOwnRoles, Is, Database
<1>6. GrantingNow'
  BY <1>1, <1>2 DEF PermInv, GrantingNow, GrantsRole, Database
<1>7. LoadsRecent'
  <2> SUFFICES ASSUME NEW k \in Checks, NEW r \in Roles, Is(k, "load"), check[k].role = {r},
                      Grants(check[k].perms)
               PROVE  since'[r] <= check'[k].lag
    BY <1>3 DEF LoadsRecent, Is
  <2>1. since[r] <= check[k].lag /\ since[r] \in Nat
    BY <1>1 DEF PermInv, LoadsRecent
  <2> QED
    BY <1>1, <1>2, <1>3, <2>1
<1>8. EntriesRecent'
  <2> SUFFICES ASSUME NEW r \in Roles, Fresh(r)', Grants(cache'[r].perms)
               PROVE  since'[r] <= cache'[r].age + MaxLag
    BY DEF EntriesRecent
  <2>1. cache'[r].age = cache[r].age + 1 /\ since[r] <= cache[r].age + MaxLag
    BY <1>2 DEF PermInv, EntriesRecent, Fresh
  <2> QED
    BY <1>1, <1>2, <2>1
<1> QED
  BY <1>4, <1>5, <1>6, <1>7, <1>8 DEF PermInv

LEMMA PermInvariant == PermSpec => []PermInv
<1>1. PermInv /\ [PermNext]_permVars => PermInv'
  <2> SUFFICES ASSUME PermInv, [PermNext]_permVars
               PROVE  PermInv'
    OBVIOUS
  <2>1. CASE UNCHANGED permVars
    BY <2>1 DEF permVars, PermInv, PermTypeOK, ChecksOwnRoles, GrantingNow, GrantsRole,
       LoadsRecent, EntriesRecent, Is, Fresh
  <2> QED
    BY <2>1, CheckStepKeeps, ChangesKeep, PermTickKeeps DEF PermNext
<1> QED
  BY InitPermInv, <1>1, PTL DEF PermSpec

\* A permission check, its users, roles and their cache are well typed
\* (service/users.go HasPermission).
THEOREM PermissionsTyped == PermSpec => []PermTypeOK
<1>1. PermInv => PermTypeOK
  BY DEF PermInv
<1> QED
  BY PermInvariant, <1>1, PTL

\* HasPermission grants nothing that no role of the user granted within the time an
\* entry is used plus the time a load takes: whatever the cache, concurrent loads
\* that overwrite each other and its invalidation do.
THEOREM GrantsRecent == PermSpec => GrantsAreRecent
<1>1. PermInv /\ [PermNext]_permVars =>
          [\A k \in Checks : Concludes(k, "granted") =>
               \E r \in userRoles : since[r] <= TTL + MaxLag]_permVars
  <2> SUFFICES ASSUME PermInv, PermNext, NEW k \in Checks, Concludes(k, "granted")
               PROVE  \E r \in userRoles : since[r] <= TTL + MaxLag
    OBVIOUS
  <2> USE PermissionsAssumption
  <2>1. /\ check \in [Checks -> CheckState] /\ since \in [Roles -> 0..Long]
        /\ check[k].todo \subseteq userRoles /\ userRoles \subseteq Roles
        /\ cache \in [Roles -> Entry]
    BY DEF PermInv, PermTypeOK, ChecksOwnRoles
  <2>2. ~ \E r \in Roles : RolePermissionsChange(r) \/ UpdateUser(r)
    BY DEF RolePermissionsChange, UpdateUser, Concludes, Is
  <2>3. ~InvalidatePermissionCache /\ ~PermTick
    BY <2>1 DEF InvalidatePermissionCache, PermTick, Concludes, Is, CheckState
  <2>4. ASSUME NEW j \in Checks
        PROVE  /\ ~StartCheck(j) /\ ~LoadFails(j)
               /\ \A r \in Roles : ~LoadRole(j, r)
    <3>1. ~StartCheck(j)
      BY <2>1 DEF StartCheck, Idle, Concludes, Is, CheckState
    <3>2. ~LoadFails(j)
      BY <2>1 DEF LoadFails, Idle, Concludes, Is, CheckState
    <3>3. ASSUME NEW r \in Roles
          PROVE  ~LoadRole(j, r)
      BY <2>1 DEF LoadRole, Idle, Concludes, Is, CheckState
    <3> QED
      BY <3>1, <3>2, <3>3
  <2>5. ASSUME NEW j \in Checks, AskDatabase(j)
        PROVE  \E r \in userRoles : since[r] <= TTL + MaxLag
    <3>1. j = k /\ Held
      BY <2>1, <2>5 DEF AskDatabase, Idle, Concludes, Is
    <3>2. PICK r \in userRoles : GrantsRole(r)
      BY <3>1 DEF Held, GrantsRole, Grants
    <3>3. since[r] = 0
      BY <2>1, <3>2 DEF PermInv, GrantingNow
    <3> QED
      BY <3>3
  <2>6. ASSUME NEW j \in Checks, NEW r \in Roles, UseEntry(j, r)
        PROVE  \E q \in userRoles : since[q] <= TTL + MaxLag
    <3>1. j = k /\ Grants(cache[r].perms) /\ Fresh(r) /\ r \in userRoles
      BY <2>1, <2>6 DEF UseEntry, Decide1, Idle, Concludes, Is
    <3>2. since[r] <= cache[r].age + MaxLag /\ cache[r].age <= TTL /\ cache[r].age \in Nat
      BY <2>1, <3>1 DEF PermInv, EntriesRecent, Fresh, Entry
    <3>3. since[r] <= TTL + MaxLag
      BY <2>1, <3>1, <3>2 DEF Long
    <3> QED
      BY <3>1, <3>3
  <2>7. ASSUME NEW j \in Checks, NEW r \in Roles, StoreRole(j, r)
        PROVE  \E q \in userRoles : since[q] <= TTL + MaxLag
    <3>1. j = k /\ Grants(check[k].perms) /\ check[k].role = {r} /\ Is(k, "load")
      BY <2>1, <2>7 DEF StoreRole, Decide1, Idle, Concludes, Is
    <3>2. r \in userRoles
      BY <2>1, <3>1 DEF PermInv, ChecksOwnRoles
    <3>3. since[r] <= check[k].lag /\ check[k].lag \in 0..MaxLag
      BY <2>1, <3>1 DEF PermInv, LoadsRecent, CheckState
    <3>4. since[r] <= TTL + MaxLag
      BY <2>1, <3>3 DEF Long
    <3> QED
      BY <3>2, <3>4
  <2> QED
    BY <2>2, <2>3, <2>4, <2>5, <2>6, <2>7 DEF PermNext
<1> QED
  BY PermInvariant, <1>1, PTL DEF PermSpec, GrantsAreRecent
==================================================================================
