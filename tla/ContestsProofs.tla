----------------------------- MODULE ContestsProofs -----------------------------
(***************************************************************************)
(* Proofs about a contest: Registration, for any agents, uploads and       *)
(* enrolments, and Rankings, for any agents, matches, recalculations and   *)
(* publications.                                                           *)
(***************************************************************************)
EXTENDS Registration, Rankings, FiniteSetTheorems, WellFoundedInduction, TLAPS

-----------------------------------------------------------------------------
(* Registration.                                                           *)

UnderWay == {"bot", "manifest", "bundle", "insert"}
UploadStates == {NoUpload} \union
    [pc: UnderWay \union {"done", "failed"}, agent: Agents, version: Versions]
EnrolStates == {NoEnrolment} \union
    [pc: {"checked", "inserted", "done", "failed"}, agent: Agents, upload: Uploads]

\* up and enrol are functions, which RegTypeOK does not say.
RegTyped ==
    /\ RegTypeOK
    /\ up \in [Uploads -> UploadStates]
    /\ enrol \in [Enrolments -> EnrolStates]

\* A row is of the upload that made it, which is over.
RowsOnce == \A s \in subs :
    /\ up[s.upload].pc = "done"
    /\ up[s.upload].agent = s.agent /\ up[s.upload].version = s.version

\* The upload u of agent a is between its count and its insert.
Uploading(u, a) == up[u].agent = a /\ up[u].pc \in UnderWay

\* What makes the versions of an agent distinct: the upload under way, of which
\* there is one, has counted all rows, and no row has a later version.
CleanUploads == clean => \A a \in Agents :
    /\ \A u, v \in Uploads : Uploading(u, a) /\ Uploading(v, a) => u = v
    /\ \A u \in Uploads : Uploading(u, a) => up[u].version = Cardinality(RowsOf(a)) + 1
    /\ \A s \in RowsOf(a) : s.version <= Cardinality(RowsOf(a))

\* The states in which the file of a kind has been saved.
After(kind) ==
    CASE kind = "bot" -> {"manifest", "bundle", "insert"}
      [] kind = "manifest" -> {"bundle", "insert"}
      [] OTHER -> {"insert"}

\* The files that were saved for an upload under way are still its own.
CleanFiles == clean => \A u \in Uploads, kind \in Kinds :
    up[u].pc \in After(kind) => files[<<up[u].agent, up[u].version, kind>>] = u

UploadInv == RegTyped /\ RowsOnce /\ CleanUploads /\ CleanFiles /\ CleanVersionsImmutable

\* An enrolment names a submission of its agent, and what it has inserted is
\* there.
EnrolmentsSound == \A e \in Enrolments :
    /\ enrol[e].pc \in {"checked", "inserted", "done"} =>
           \E s \in subs : s.upload = enrol[e].upload /\ s.agent = enrol[e].agent
    /\ enrol[e].pc \in {"inserted", "done"} => EntryRow(e) \in entries
    /\ enrol[e].pc = "done" => enrol[e].agent \in ranked

EnrolInv == EnrolmentsSound /\ EntriesSound

RegInv == UploadInv /\ EnrolInv

-----------------------------------------------------------------------------

LEMMA UploadsCounted == Cardinality(Uploads) \in Nat /\ 1 \in Versions
BY UploadsAssumption, FS_CardinalityType DEF Versions

\* An agent has no more rows than there are uploads, so that the version counted
\* is one of Versions.
LEMMA RowsCounted ==
    ASSUME RegTyped, RowsOnce, NEW a \in Agents
    PROVE  /\ IsFiniteSet(RowsOf(a))
           /\ Cardinality(RowsOf(a)) \in Nat
           /\ Cardinality(RowsOf(a)) + 1 \in Versions
<1> DEFINE R == RowsOf(a)
           g == [s \in R |-> s.upload]
<1>1. \A s \in R : /\ s = [upload |-> s.upload, agent |-> s.agent, version |-> s.version]
                   /\ s.upload \in Uploads
  BY DEF RegTyped, RegTypeOK, Rows, RowsOf
<1>2. \A s, t \in R : s.upload = t.upload => s.agent = t.agent /\ s.version = t.version
  BY DEF RowsOnce, RowsOf
<1>3. \A s, t \in R : g[s] = g[t] => s = t
  BY <1>1, <1>2
<1>4. g \in Injection(R, Uploads)
  BY <1>1, <1>3 DEF Injection, IsInjective
<1> HIDE DEF g, R
<1>5. IsFiniteSet(R) /\ Cardinality(R) <= Cardinality(Uploads)
  BY <1>4, UploadsAssumption, FS_Injection
<1>6. Cardinality(R) \in Nat
  BY <1>5, FS_CardinalityType
<1> QED
  BY <1>5, <1>6, UploadsCounted DEF R, Versions

-----------------------------------------------------------------------------
(* Uploads.                                                                *)

LEMMA CountKeeps ==
    ASSUME UploadInv, NEW u \in Uploads, NEW a \in Agents, NEW fails \in BOOLEAN,
           CountVersions(u, a, fails)
    PROVE  UploadInv'
<1> DEFINE v == IF fails THEN 1 ELSE Cardinality(RowsOf(a)) + 1
           d == [pc |-> "bot", agent |-> a, version |-> v]
<1> USE DEF UploadInv
<1>1. v \in Versions
  BY RowsCounted, UploadsCounted
<1>2. d \in UploadStates /\ d.pc = "bot" /\ d.agent = a /\ d.version = v
  BY <1>1 DEF UploadStates, UnderWay
<1>3. /\ up' = [up EXCEPT ![u] = d]
      /\ clean' = (clean /\ ~fails /\ Pending(a) = {})
      /\ UNCHANGED <<contest, agentActive, subs, files, enrolVars>>
      /\ up[u].pc = "idle"
  BY DEF CountVersions
<1>4. clean' => clean /\ v = Cardinality(RowsOf(a)) + 1
                /\ \A w \in Uploads : ~Uploading(w, a)
  BY <1>3 DEF Pending, Uploading, UnderWay
<1> HIDE DEF d, v
<1>5. up'[u] = d /\ \A w \in Uploads : w # u => up'[w] = up[w]
  BY <1>3 DEF RegTyped
<1>6. RegTyped'
  <2>1. up' \in [Uploads -> UploadStates]
    BY <1>2, <1>3 DEF RegTyped
  <2> QED
    BY <1>3, <2>1 DEF RegTyped, RegTypeOK, UploadStates, UnderWay, enrolVars
<1>7. RowsOnce'
  BY <1>3, <1>5 DEF RowsOnce, RegTyped, RegTypeOK, Rows
<1>8. CleanUploads'
  <2> SUFFICES ASSUME clean', NEW b \in Agents
               PROVE  CleanUploads!2!(b)'
    BY DEF CleanUploads
  <2>1. RowsOf(b)' = RowsOf(b)
    BY <1>3 DEF RowsOf
  <2>2. \A w \in Uploads : Uploading(w, b)' <=> Uploading(w, b) \/ (w = u /\ b = a)
    BY <1>2, <1>3, <1>5 DEF Uploading, UnderWay
  <2>3. CASE b = a
    BY <1>2, <1>4, <1>5, <2>1, <2>2, <2>3 DEF CleanUploads
  <2>4. CASE b # a
    <3>1. \A w \in Uploads : Uploading(w, b)' => w # u
      BY <1>2, <1>5, <2>4 DEF Uploading
    <3> QED
      BY <1>4, <1>5, <2>1, <2>2, <2>4, <3>1 DEF CleanUploads
  <2> QED
    BY <2>3, <2>4
<1>9. CleanFiles'
  <2>1. \A kind \in Kinds : "bot" \notin After(kind)
    BY DEF After, Kinds
  <2> QED
    BY <1>2, <1>3, <1>4, <1>5, <2>1 DEF CleanFiles
<1>10. CleanVersionsImmutable'
  BY <1>3 DEF CleanVersionsImmutable, VersionsImmutable, OwnFiles
<1> QED
  BY <1>6, <1>7, <1>8, <1>9, <1>10

\* An upload fails.
LEMMA FailKeeps ==
    ASSUME UploadInv, NEW u \in Uploads, up[u].pc \in UnderWay,
           up' = [up EXCEPT ![u].pc = "failed"],
           UNCHANGED <<contest, agentActive, subs, files, clean, enrolVars>>
    PROVE  UploadInv'
<1> USE DEF UploadInv
<1>1. /\ up'[u].pc = "failed" /\ up' \in [Uploads -> UploadStates]
      /\ \A w \in Uploads : w # u => up'[w] = up[w]
  BY DEF RegTyped, UploadStates, NoUpload, UnderWay
<1>2. RegTyped'
  BY <1>1 DEF RegTyped, RegTypeOK, UploadStates, UnderWay, enrolVars
<1>3. RowsOnce'
  BY <1>1 DEF RowsOnce, UnderWay, RegTyped, RegTypeOK, Rows
<1>4. CleanUploads'
  BY <1>1 DEF CleanUploads, Uploading, RowsOf, UnderWay
<1>5. CleanFiles' /\ CleanVersionsImmutable'
  BY <1>1 DEF CleanFiles, After, Kinds, CleanVersionsImmutable, VersionsImmutable, OwnFiles
<1> QED
  BY <1>2, <1>3, <1>4, <1>5

LEMMA SaveKeeps ==
    ASSUME UploadInv, NEW u \in Uploads, Save(u)
    PROVE  UploadInv'
<1> USE DEF UploadInv
<1>1. PICK kind \in Kinds :
          /\ up[u].pc = kind
          /\ \/ /\ files' = [files EXCEPT ![<<up[u].agent, up[u].version, kind>>] = u]
                /\ up' = [up EXCEPT ![u].pc = AfterSave[kind]]
             \/ up' = [up EXCEPT ![u].pc = "failed"] /\ UNCHANGED files
          /\ UNCHANGED <<contest, agentActive, subs, clean, enrolVars>>
  BY DEF Save
<1>2. up[u].pc \in UnderWay
  BY <1>1 DEF Kinds, UnderWay
<1>3. CASE up' = [up EXCEPT ![u].pc = "failed"] /\ UNCHANGED files
  BY <1>1, <1>2, <1>3, FailKeeps
<1>4. CASE /\ files' = [files EXCEPT ![<<up[u].agent, up[u].version, kind>>] = u]
           /\ up' = [up EXCEPT ![u].pc = AfterSave[kind]]
  <2> DEFINE a == up[u].agent
             v == up[u].version
  <2>1. a \in Agents /\ v \in Versions /\ up[u].pc = kind
    BY <1>1, <1>2 DEF RegTyped, UploadStates, NoUpload, UnderWay
  <2>2. AfterSave[kind] \in {"manifest", "bundle", "insert"}
    BY DEF AfterSave, Kinds
  <2>3. /\ up'[u].pc = AfterSave[kind] /\ up'[u].agent = a /\ up'[u].version = v
        /\ \A w \in Uploads : w # u => up'[w] = up[w]
        /\ up' \in [Uploads -> UploadStates]
    BY <1>2, <1>4, <2>2 DEF RegTyped, UploadStates, NoUpload, UnderWay
  <2>4. <<a, v, kind>> \in Agents \X Versions \X Kinds
    BY <2>1
  <2>5. /\ files'[<<a, v, kind>>] = u
        /\ \A f \in Agents \X Versions \X Kinds : f # <<a, v, kind>> => files'[f] = files[f]
        /\ files' \in [Agents \X Versions \X Kinds -> Uploads \union {"none"}]
    BY <1>4, <2>4 DEF RegTyped, RegTypeOK
  <2>6. \A w \in Uploads, b \in Agents : Uploading(w, b)' <=> Uploading(w, b)
    BY <1>2, <2>2, <2>3 DEF Uploading, UnderWay
  <2>7. Uploading(u, a)
    BY <1>2 DEF Uploading
  <2> HIDE DEF a, v
  <2>8. RegTyped'
    BY <1>1, <2>3, <2>5 DEF RegTyped, RegTypeOK, UploadStates, UnderWay, enrolVars
  <2>9. RowsOnce'
    BY <1>1, <1>2, <2>3 DEF RowsOnce, RegTyped, RegTypeOK, Rows, UnderWay
  <2>10. CleanUploads'
    <3>1. \A b \in Agents : RowsOf(b)' = RowsOf(b)
      BY <1>1 DEF RowsOf
    <3>2. \A w \in Uploads : up'[w].version = up[w].version
      BY <2>3 DEF v
    <3> QED
      BY <1>1, <2>6, <3>1, <3>2 DEF CleanUploads
  <2>11. CleanFiles'
    <3> SUFFICES ASSUME clean, NEW w \in Uploads, NEW k \in Kinds, up'[w].pc \in After(k)
                 PROVE  files'[<<up'[w].agent, up'[w].version, k>>] = w
      BY <1>1 DEF CleanFiles
    <3>1. CASE w = u
      <4>1. k = kind \/ up[u].pc \in After(k)
        BY <2>1, <2>3, <3>1 DEF After, AfterSave, Kinds
      <4>2. CASE k = kind
        BY <2>3, <2>5, <3>1, <4>2
      <4>3. CASE k # kind
        <5>1. files[<<a, v, k>>] = u
          BY <4>1, <4>3 DEF CleanFiles, a, v
        <5>2. <<a, v, k>> \in Agents \X Versions \X Kinds /\ <<a, v, k>> # <<a, v, kind>>
          BY <2>1, <4>3
        <5> QED
          BY <2>3, <2>5, <3>1, <5>1, <5>2
      <4> QED
        BY <4>2, <4>3
    <3>2. CASE w # u
      <4> DEFINE b == up[w].agent
      <4>1. up'[w] = up[w] /\ up[w].pc \in UnderWay
        BY <2>3, <3>2 DEF After, UnderWay
      <4>2. b \in Agents /\ up[w].version \in Versions
        BY <4>1 DEF RegTyped, UploadStates, NoUpload, UnderWay
      <4>3. b # a
        BY <2>1, <2>7, <3>2, <4>1 DEF CleanUploads, Uploading
      <4>4. files[<<b, up[w].version, k>>] = w
        BY <4>1 DEF CleanFiles
      <4>5. /\ <<b, up[w].version, k>> \in Agents \X Versions \X Kinds
            /\ <<b, up[w].version, k>> # <<a, v, kind>>
        BY <4>2, <4>3
      <4> QED
        BY <2>5, <4>1, <4>4, <4>5
    <3> QED
      BY <3>1, <3>2
  <2>12. CleanVersionsImmutable'
    <3> SUFFICES ASSUME clean, NEW s \in subs, NEW k \in Kinds
                 PROVE  files'[<<s.agent, s.version, k>>] = s.upload
      BY <1>1 DEF CleanVersionsImmutable, VersionsImmutable, OwnFiles
    <3>1. files[<<s.agent, s.version, k>>] = s.upload
      BY DEF CleanVersionsImmutable, VersionsImmutable, OwnFiles
    <3>2. s.agent \in Agents /\ s.version \in Versions
      BY DEF RegTyped, RegTypeOK, Rows
    <3>3. s.agent = a => s.version # v
      <4> SUFFICES ASSUME s.agent = a
                   PROVE  s.version # v
        OBVIOUS
      <4>1. v = Cardinality(RowsOf(a)) + 1 /\ s.version <= Cardinality(RowsOf(a))
        BY <2>1, <2>7 DEF CleanUploads, RowsOf, v
      <4> QED
        BY <4>1, <2>1, RowsCounted
    <3>4. /\ <<s.agent, s.version, k>> \in Agents \X Versions \X Kinds
          /\ <<s.agent, s.version, k>> # <<a, v, kind>>
      BY <3>2, <3>3
    <3> QED
      BY <2>5, <3>1, <3>4
  <2> QED
    BY <2>8, <2>9, <2>10, <2>11, <2>12
<1> QED
  BY <1>1, <1>3, <1>4

LEMMA SubmitKeeps ==
    ASSUME UploadInv, NEW u \in Uploads, CreateSubmission(u)
    PROVE  UploadInv'
<1> USE DEF UploadInv
<1>1. up[u].pc = "insert" /\ up[u].pc \in UnderWay
  BY DEF CreateSubmission, UnderWay
<1>2. CASE up' = [up EXCEPT ![u].pc = "failed"] /\ UNCHANGED subs
  BY <1>1, <1>2, FailKeeps DEF CreateSubmission
<1>3. CASE /\ subs' = subs \union {[upload |-> u, agent |-> up[u].agent,
                                    version |-> up[u].version]}
           /\ up' = [up EXCEPT ![u].pc = "done"]
  <2> DEFINE a == up[u].agent
             v == up[u].version
             r == [upload |-> u, agent |-> a, version |-> v]
  <2>1. a \in Agents /\ v \in Versions
    BY <1>1 DEF RegTyped, UploadStates, NoUpload, UnderWay
  <2>2. /\ up'[u] = [pc |-> "done", agent |-> a, version |-> v]
        /\ \A w \in Uploads : w # u => up'[w] = up[w]
        /\ up' \in [Uploads -> UploadStates]
    <3>1. up[u] = [pc |-> "insert", agent |-> a, version |-> v]
      BY <1>1 DEF RegTyped, UploadStates, NoUpload, UnderWay
    <3>2. [pc |-> "done", agent |-> a, version |-> v] \in UploadStates
      BY <2>1 DEF UploadStates
    <3>3. [up[u] EXCEPT !.pc = "done"] = [pc |-> "done", agent |-> a, version |-> v]
      BY <3>1
    <3> QED
      BY <1>3, <3>2, <3>3 DEF RegTyped
  <2>3. /\ r \in Rows /\ r.upload = u /\ r.agent = a /\ r.version = v
        /\ subs' = subs \union {r}
    BY <1>3, <2>1 DEF Rows
  <2>4. \A s \in subs : s.upload # u
    BY <1>1 DEF RowsOnce
  <2>5. Uploading(u, a)
    BY <1>1 DEF Uploading
  <2>6. UNCHANGED <<contest, agentActive, files, clean, enrolVars>>
    BY DEF CreateSubmission
  <2> HIDE DEF r, a, v
  <2>7. RegTyped'
    BY <2>2, <2>3, <2>6 DEF RegTyped, RegTypeOK, UploadStates, UnderWay, enrolVars
  <2>8. RowsOnce'
    BY <2>2, <2>3, <2>4 DEF RowsOnce, RegTyped, RegTypeOK, Rows
  <2>9. CleanUploads'
    <3> SUFFICES ASSUME clean, NEW b \in Agents
                 PROVE  CleanUploads!2!(b)'
      BY <2>6 DEF CleanUploads
    <3>1. \A w \in Uploads : Uploading(w, b)' <=> Uploading(w, b) /\ w # u
      BY <2>2 DEF Uploading, UnderWay
    <3>2. CASE b # a
      <4>1. RowsOf(b)' = RowsOf(b)
        BY <2>3, <3>2 DEF RowsOf
      <4> QED
        BY <2>2, <3>1, <4>1 DEF CleanUploads
    <3>3. CASE b = a
      <4>1. RowsOf(b)' = RowsOf(b) \union {r} /\ r \notin RowsOf(b)
        BY <2>3, <2>4, <3>3 DEF RowsOf
      <4>2. IsFiniteSet(RowsOf(b)) /\ Cardinality(RowsOf(b)) \in Nat
        BY RowsCounted
      <4>3. Cardinality(RowsOf(b)') = Cardinality(RowsOf(b)) + 1
        BY <4>1, <4>2, FS_AddElement
      <4>4. \A w \in Uploads : ~Uploading(w, b)'
        BY <2>5, <3>1, <3>3 DEF CleanUploads
      <4>5. v = Cardinality(RowsOf(b)) + 1
        BY <2>5, <3>3 DEF CleanUploads, v
      <4>6. \A s \in RowsOf(b) : s.version <= Cardinality(RowsOf(b)) /\ s.version \in Nat
        BY UploadsCounted DEF CleanUploads, RegTyped, RegTypeOK, Rows, RowsOf, Versions
      <4>7. \A s \in RowsOf(b)' : s.version <= Cardinality(RowsOf(b)')
        BY <2>3, <4>1, <4>2, <4>3, <4>5, <4>6
      <4> QED
        BY <4>4, <4>7
    <3> QED
      BY <3>2, <3>3
  <2>10. CleanFiles'
    <3>1. \A kind \in Kinds : "done" \notin After(kind)
      BY DEF After, Kinds
    <3> QED
      BY <2>2, <2>6, <3>1 DEF CleanFiles
  <2>11. CleanVersionsImmutable'
    <3>1. clean => \A k \in Kinds : files[<<a, v, k>>] = u
      BY <1>1 DEF CleanFiles, After, Kinds, a, v
    <3> QED
      BY <2>3, <2>6, <3>1 DEF CleanVersionsImmutable, VersionsImmutable, OwnFiles
  <2> QED
    BY <2>7, <2>8, <2>9, <2>10, <2>11
<1> QED
  BY <1>2, <1>3 DEF CreateSubmission

\* Nothing else is said of what is not an upload.
LEMMA UploadsUntouched ==
    ASSUME UploadInv, UNCHANGED uploadVars, contest' \in [state: ContestStates, active: BOOLEAN],
           agentActive' \in [Agents -> BOOLEAN],
           entries' \subseteq [agent: Agents, upload: Uploads], ranked' \subseteq Agents,
           enrol' \in [Enrolments -> EnrolStates]
    PROVE  UploadInv'
<1> USE DEF UploadInv, uploadVars
<1>1. RegTyped'
  BY DEF RegTyped, RegTypeOK, EnrolStates
<1>2. RowsOnce' /\ CleanFiles' /\ CleanVersionsImmutable'
  BY DEF RowsOnce, CleanFiles, CleanVersionsImmutable, VersionsImmutable, OwnFiles
<1>3. CleanUploads'
  BY DEF CleanUploads, Uploading, RowsOf
<1> QED
  BY <1>1, <1>2, <1>3

-----------------------------------------------------------------------------
(* Enrolments.                                                             *)

LEMMA CheckKeeps ==
    ASSUME RegInv, NEW e \in Enrolments, NEW a \in Agents, CheckEnrolment(e, a)
    PROVE  RegInv'
<1> USE DEF RegInv, EnrolInv
<1>1. PICK s \in Chosen(a) :
          enrol' = [enrol EXCEPT ![e] = [pc |-> "checked", agent |-> a, upload |-> s.upload]]
  BY DEF CheckEnrolment
<1>2. s \in subs /\ s.agent = a /\ s.upload \in Uploads
  BY DEF Chosen, Newest, RowsOf, UploadInv, RegTyped, RegTypeOK, Rows
<1>3. [pc |-> "checked", agent |-> a, upload |-> s.upload] \in EnrolStates
  BY <1>2 DEF EnrolStates
<1>4. /\ enrol' \in [Enrolments -> EnrolStates]
      /\ enrol'[e] = [pc |-> "checked", agent |-> a, upload |-> s.upload]
      /\ \A k \in Enrolments : k # e => enrol'[k] = enrol[k]
  BY <1>1, <1>3 DEF UploadInv, RegTyped
<1>5. UNCHANGED <<contest, agentActive, uploadVars, entries, ranked>>
  BY DEF CheckEnrolment
<1>6. UploadInv'
  BY <1>4, <1>5, UploadsUntouched DEF UploadInv, RegTyped, RegTypeOK
<1>7. EnrolmentsSound'
  BY <1>2, <1>4, <1>5 DEF EnrolmentsSound, EntryRow, uploadVars
<1>8. EntriesSound'
  BY <1>5 DEF EntriesSound, EntryOf, uploadVars
<1> QED
  BY <1>6, <1>7, <1>8

LEMMA EntryKeeps ==
    ASSUME RegInv, NEW e \in Enrolments, CreateContestEntry(e)
    PROVE  RegInv'
<1> USE DEF RegInv, EnrolInv
<1> DEFINE x == EntryRow(e)
<1>1. /\ enrol[e].pc = "checked" /\ enrol[e] \in EnrolStates
      /\ UNCHANGED <<contest, agentActive, uploadVars, ranked>>
  BY DEF CreateContestEntry, UploadInv, RegTyped
<1>2. x \in [agent: Agents, upload: Uploads] /\ x.agent = enrol[e].agent
      /\ x.upload = enrol[e].upload
  BY <1>1 DEF EnrolStates, NoEnrolment, EntryRow
<1>3. /\ enrol'[e].pc \in {"inserted", "failed"} /\ EntryRow(e)' = x
      /\ enrol'[e].agent = enrol[e].agent /\ enrol'[e].upload = enrol[e].upload
      /\ enrol'[e].pc = "inserted" => entries' = entries \union {x} /\ EntryOf(x.agent) = {}
      /\ enrol'[e].pc = "failed" => entries' = entries
      /\ \A k \in Enrolments : k # e => enrol'[k] = enrol[k]
      /\ enrol' \in [Enrolments -> EnrolStates]
  BY <1>1, <1>2 DEF CreateContestEntry, UploadInv, RegTyped, EnrolStates, NoEnrolment, EntryRow
<1> HIDE DEF x
<1>4. UploadInv'
  BY <1>1, <1>2, <1>3, UploadsUntouched DEF UploadInv, RegTyped, RegTypeOK
<1>5. EnrolmentsSound'
  BY <1>1, <1>3 DEF EnrolmentsSound, EntryRow, uploadVars
<1>6. EntriesSound'
  <2>1. \E s \in subs : s.upload = x.upload /\ s.agent = x.agent
    BY <1>1, <1>2 DEF EnrolmentsSound
  <2> QED
    BY <1>1, <1>2, <1>3, <2>1 DEF EntriesSound, EntryOf, uploadVars
<1> QED
  BY <1>4, <1>5, <1>6

LEMMA RankKeeps ==
    ASSUME RegInv, NEW e \in Enrolments, InsertRanking(e)
    PROVE  RegInv'
<1> USE DEF RegInv, EnrolInv
<1>1. /\ enrol[e].pc = "inserted" /\ enrol[e] \in EnrolStates
      /\ UNCHANGED <<contest, agentActive, uploadVars, entries>>
  BY DEF InsertRanking, UploadInv, RegTyped
<1>2. enrol[e].agent \in Agents
  BY <1>1 DEF EnrolStates, NoEnrolment
<1>3. /\ enrol'[e].pc \in {"done", "failed"}
      /\ enrol'[e].agent = enrol[e].agent /\ enrol'[e].upload = enrol[e].upload
      /\ ranked \subseteq ranked' /\ ranked' \subseteq Agents
      /\ enrol'[e].pc = "done" => enrol[e].agent \in ranked'
      /\ \A k \in Enrolments : k # e => enrol'[k] = enrol[k]
      /\ enrol' \in [Enrolments -> EnrolStates]
  BY <1>1, <1>2 DEF InsertRanking, UploadInv, RegTyped, RegTypeOK, EnrolStates, NoEnrolment
<1>4. UploadInv'
  BY <1>1, <1>3, UploadsUntouched DEF UploadInv, RegTyped, RegTypeOK
<1>5. EnrolmentsSound'
  BY <1>1, <1>3 DEF EnrolmentsSound, EntryRow, uploadVars
<1>6. EntriesSound'
  BY <1>1 DEF EntriesSound, EntryOf, uploadVars
<1> QED
  BY <1>4, <1>5, <1>6

\* A recalculation gives an agent a row, entered or not.
LEMMA RowKeeps ==
    ASSUME RegInv, NEW a \in Agents, RecalculationAddsRow(a)
    PROVE  RegInv'
<1> USE DEF RegInv, EnrolInv
<1>1. /\ ranked \subseteq ranked' /\ ranked' \subseteq Agents
      /\ UNCHANGED <<contest, agentActive, uploadVars, entries, enrol>>
  BY DEF RecalculationAddsRow, UploadInv, RegTyped, RegTypeOK
<1>2. UploadInv'
  BY <1>1, UploadsUntouched DEF UploadInv, RegTyped, RegTypeOK
<1>3. EnrolmentsSound'
  BY <1>1 DEF EnrolmentsSound, EntryRow, uploadVars
<1>4. EntriesSound'
  BY <1>1 DEF EntriesSound, EntryOf, uploadVars
<1> QED
  BY <1>2, <1>3, <1>4

-----------------------------------------------------------------------------

LEMMA InitRegInv == RegInit => RegInv
<1> SUFFICES ASSUME RegInit
             PROVE  RegInv
  OBVIOUS
<1>1. RegTyped
  BY DEF RegInit, RegTyped, RegTypeOK, UploadStates, EnrolStates, ContestStates
<1>2. RowsOnce /\ CleanUploads /\ CleanFiles /\ CleanVersionsImmutable
  BY DEF RegInit, RowsOnce, CleanUploads, CleanFiles, CleanVersionsImmutable,
     VersionsImmutable, Uploading, UnderWay, NoUpload, RowsOf, After, Kinds
<1>3. EnrolInv
  BY DEF RegInit, EnrolInv, EnrolmentsSound, EntriesSound, NoEnrolment
<1> QED
  BY <1>1, <1>2, <1>3 DEF RegInv, UploadInv

\* The administrator's steps touch neither uploads nor enrolments.
LEMMA AdminKeeps ==
    ASSUME RegInv, UNCHANGED <<uploadVars, enrolVars>>,
           contest' \in [state: ContestStates, active: BOOLEAN],
           agentActive' \in [Agents -> BOOLEAN]
    PROVE  RegInv'
<1>1. UploadInv'
  BY UploadsUntouched DEF RegInv, UploadInv, RegTyped, RegTypeOK, enrolVars
<1>2. EnrolInv'
  BY DEF RegInv, EnrolInv, EnrolmentsSound, EntryRow, EntriesSound, EntryOf, enrolVars,
     uploadVars
<1> QED
  BY <1>1, <1>2 DEF RegInv

LEMMA AdminStepKeeps ==
    ASSUME RegInv, AdminStep
    PROVE  RegInv'
<1>1. /\ contest \in [state: ContestStates, active: BOOLEAN]
      /\ agentActive \in [Agents -> BOOLEAN]
  BY DEF RegInv, UploadInv, RegTyped, RegTypeOK
<1>2. UNCHANGED <<uploadVars, enrolVars>>
  BY DEF AdminStep, UpdateContestStateCAS, UpdateContest, ActivateContest, ActivateAgent
<1>3. \A s \in ContestStates : ContestNext[s] \subseteq ContestStates
  BY DEF ContestNext, ContestStates
<1>4. /\ contest' \in [state: ContestStates, active: BOOLEAN]
      /\ agentActive' \in [Agents -> BOOLEAN]
  BY <1>1, <1>3, BodyStatesAssumption
     DEF AdminStep, UpdateContestStateCAS, UpdateContest, ActivateContest, ActivateAgent
<1> QED
  BY <1>2, <1>4, AdminKeeps

LEMMA UploadStepKeeps ==
    ASSUME RegInv, NEW u \in Uploads, UploadStep(u)
    PROVE  RegInv'
<1>1. UploadInv'
  BY CountKeeps, SaveKeeps, SubmitKeeps DEF UploadStep, RegInv
<1>2. UNCHANGED enrolVars /\ subs \subseteq subs'
  BY DEF UploadStep, CountVersions, Save, CreateSubmission
<1>3. EnrolInv'
  <2>1. EnrolmentsSound'
    BY <1>2 DEF RegInv, EnrolInv, EnrolmentsSound, EntryRow, enrolVars
  <2>2. EntriesSound'
    BY <1>2 DEF RegInv, EnrolInv, EntriesSound, EntryOf, enrolVars
  <2> QED
    BY <2>1, <2>2 DEF EnrolInv
<1> QED
  BY <1>1, <1>3 DEF RegInv

LEMMA RegStepKeeps == RegInv /\ [RegNext]_regVars => RegInv'
<1> SUFFICES ASSUME RegInv, [RegNext]_regVars
             PROVE  RegInv'
  OBVIOUS
<1>1. CASE UNCHANGED regVars
  BY <1>1, AdminKeeps DEF regVars, uploadVars, enrolVars, RegInv, UploadInv, RegTyped, RegTypeOK
<1>2. ASSUME NEW e \in Enrolments, EnrolStep(e)
      PROVE  RegInv'
  BY <1>2, CheckKeeps, EntryKeeps, RankKeeps DEF EnrolStep
<1> QED
  BY <1>1, <1>2, UploadStepKeeps, RowKeeps, AdminStepKeeps DEF RegNext

LEMMA RegInvariant == RegSpec => []RegInv
BY InitRegInv, RegStepKeeps, PTL DEF RegSpec

\* Requests and their rows are well typed; in particular an agent has no more
\* versions than it was uploaded (submissions.go, SubmitBundle).
THEOREM RegistrationTyped == RegSpec => []RegTypeOK
<1>1. RegInv => RegTypeOK
  BY DEF RegInv, UploadInv, RegTyped
<1> QED
  BY <1>1, RegInvariant, PTL

\* However many uploads there are and wherever they fail, a submission keeps its
\* files as long as those of an agent do not overlap (submissions.go).
THEOREM VersionsKeepTheirFiles == RegSpec => []CleanVersionsImmutable
<1>1. RegInv => CleanVersionsImmutable
  BY DEF RegInv, UploadInv
<1> QED
  BY <1>1, RegInvariant, PTL

\* Overlapping enrolments of one agent make one entry, with code of that agent
\* (contests.go, EnrollAgent).
THEOREM EntriesAreSound == RegSpec => []EntriesSound
<1>1. RegInv => EntriesSound
  BY DEF RegInv, EnrolInv
<1> QED
  BY <1>1, RegInvariant, PTL

\* An enrolment that was confirmed has its entry and its row in the leaderboard
\* (contests.go, EnrollAgent).
THEOREM ConfirmedAreRanked == RegSpec => []ConfirmedIsRanked
<1>1. RegInv => ConfirmedIsRanked
  BY DEF RegInv, EnrolInv, EnrolmentsSound, ConfirmedIsRanked
<1> QED
  BY <1>1, RegInvariant, PTL

-----------------------------------------------------------------------------
(* Rankings.                                                               *)

LEMMA LeastNumber ==
    ASSUME NEW T, T \subseteq Nat, T # {}
    PROVE  \E n \in T : \A k \in T : n <= k
<1>1. PICK n \in T : \A k \in T : ~(<<k, n>> \in OpToRel(<, Nat))
  BY NatLessThanWellFounded, WFMin
<1>2. \A k \in T : ~(k < n)
  BY <1>1 DEF OpToRel
<1> QED
  BY <1>2

-----------------------------------------------------------------------------
(* Snapshots.                                                              *)

\* A publication inserts a version that was the next one when it read.
SnapshotsNumbered ==
    /\ snapshots \subseteq [version: Nat, by: Publishers] /\ IsFiniteSet(snapshots)
    /\ pub \in [Publishers -> [pc: {"idle", "read", "done", "failed"}, version: Nat]]
    /\ VersionsDense
    /\ \A p \in Publishers :
           pub[p].pc = "read" => pub[p].version \in 1..(Cardinality(snapshots) + 1)

LEMMA LatestIsNumber ==
    ASSUME SnapshotsNumbered
    PROVE  Latest = Cardinality(snapshots) /\ Cardinality(snapshots) \in Nat
<1> DEFINE n == Cardinality(snapshots)
           V == {s.version : s \in snapshots} \union {0}
<1>1. n \in Nat
  BY FS_CardinalityType DEF SnapshotsNumbered
<1>2. V = 0..n
  BY <1>1 DEF SnapshotsNumbered, VersionsDense
<1>3. Latest = CHOOSE v \in V : \A x \in V : x <= v
  BY DEF Latest
<1> HIDE DEF V, n
<1>4. n \in V /\ \A x \in V : x <= n
  BY <1>1, <1>2
<1>5. Latest \in V /\ \A x \in V : x <= Latest
  BY <1>3, <1>4
<1>6. Latest = n
  BY <1>1, <1>2, <1>4, <1>5
<1> QED
  BY <1>1, <1>6 DEF n

LEMMA PublishKeeps ==
    ASSUME SnapshotsNumbered, PublishStep
    PROVE  SnapshotsNumbered'
<1> USE DEF SnapshotsNumbered
<1>1. Latest = Cardinality(snapshots) /\ Cardinality(snapshots) \in Nat
  BY LatestIsNumber
<1>2. ASSUME NEW p \in Publishers, ReadForSnapshot(p)
      PROVE  SnapshotsNumbered'
  BY <1>1, <1>2 DEF ReadForSnapshot, VersionsDense
<1>3. ASSUME NEW p \in Publishers, CreateRankingSnapshot(p), UNCHANGED snapshots
      PROVE  SnapshotsNumbered'
  BY <1>3 DEF CreateRankingSnapshot, VersionsDense
<1>4. ASSUME NEW p \in Publishers, CreateRankingSnapshot(p), ~UNCHANGED snapshots
      PROVE  SnapshotsNumbered'
  <2> DEFINE n == Cardinality(snapshots)
             s == SnapshotOf(p)
  <2>1. /\ pub[p].pc = "read" /\ \A x \in snapshots : x.version # pub[p].version
        /\ pub' = [pub EXCEPT ![p].pc = "done"]
        /\ snapshots' = snapshots \union {s}
    BY <1>4 DEF CreateRankingSnapshot
  <2>2. pub[p].version \in 1..(n + 1) /\ pub[p].version \notin 1..n
    BY <2>1 DEF VersionsDense
  <2>3. s \in [version: Nat, by: Publishers] /\ s.version = n + 1 /\ s \notin snapshots
    BY <1>1, <2>1, <2>2 DEF SnapshotOf
  <2> HIDE DEF s
  <2>4. IsFiniteSet(snapshots') /\ Cardinality(snapshots') = n + 1
    BY <2>1, <2>3, FS_AddElement
  <2>5. {x.version : x \in snapshots'} = {x.version : x \in snapshots} \union {n + 1}
    BY <2>1, <2>3
  <2>6. VersionsDense'
    <3>1. (1..n) \union {n + 1} = 1..(n + 1)
      BY <1>1
    <3>2. {x.version : x \in snapshots'} = 1..(n + 1)
      BY <2>5, <3>1 DEF VersionsDense
    <3> QED
      BY <2>4, <3>2 DEF VersionsDense
  <2>7. /\ pub' \in [Publishers -> [pc: {"idle", "read", "done", "failed"}, version: Nat]]
        /\ \A q \in Publishers : pub'[q].pc = "read" => pub[q].pc = "read" /\ pub'[q] = pub[q]
    BY <2>1
  <2>8. \A q \in Publishers : pub'[q].pc = "read" => pub'[q].version \in 1..(n + 2)
    BY <1>1, <2>7
  <2> QED
    BY <1>1, <2>1, <2>3, <2>4, <2>6, <2>7, <2>8
<1> QED
  BY <1>2, <1>3, <1>4 DEF PublishStep

LEMMA SnapshotsSafe == RankSpec => []SnapshotsNumbered
<1>1. RankInit => SnapshotsNumbered
  <2> SUFFICES ASSUME RankInit
               PROVE  SnapshotsNumbered
    OBVIOUS
  <2>1. snapshots = {} /\ IsFiniteSet({}) /\ Cardinality({}) = 0
    BY FS_EmptySet DEF RankInit
  <2> QED
    BY <2>1 DEF RankInit, SnapshotsNumbered, VersionsDense
<1>2. SnapshotsNumbered /\ [RankNext]_rankVars => SnapshotsNumbered'
  <2> SUFFICES ASSUME SnapshotsNumbered, [RankNext]_rankVars
               PROVE  SnapshotsNumbered'
    OBVIOUS
  <2>1. CASE PublishStep
    BY <2>1, PublishKeeps
  <2>2. CASE UNCHANGED <<snapshots, pub>>
    BY <2>2 DEF SnapshotsNumbered, VersionsDense
  <2> QED
    BY <2>1, <2>2 DEF RankNext, TableStep, Commit, RecalcStep, BeginRecalculation,
                      ListMatches, CountMatches, UpsertRanking, EnterStep, CheckEntry,
                      InsertEntry, InsertFirstRow, rankVars
<1> QED
  BY <1>1, <1>2, PTL DEF RankSpec

-----------------------------------------------------------------------------
(* Recalculations.                                                         *)

Calculations == [pc: {"idle", "listed", "read", "sorted", "done", "failed"},
                 agents: SUBSET Contestants, matches: SUBSET Matches,
                 order: Seq(Contestants), next: Nat]

\* calc is a function, which RankTypeOK does not say, and a row is written once.
CalcTyped ==
    /\ RankTypeOK
    /\ calc \in [Recalcs -> Calculations]
    /\ \A r \in Recalcs : calc[r].next <= Len(calc[r].order) + 1
    /\ IsFiniteSet(Committed)

\* A table has each agent once, in an order its matches justify.
OrdersSorted == \A r \in Recalcs :
    calc[r].pc \in {"sorted", "done"} => calc[r].order \in Tables(Listed(r), calc[r].matches)
\* Nothing is written before the table is sorted.
NotWritten == \A r \in Recalcs :
    /\ calc[r].pc \notin {"sorted", "done"} => calc[r].order = <<>> /\ calc[r].next = 1
    /\ calc[r].pc = "done" => calc[r].next = Len(calc[r].order) + 1

\* Only agents that are entered, or in a committed match, have a row.
RowsKnown == \A a \in Contestants :
    board[a] # NoRow => a \in Entered \union Playing(Committed)

\* The agents a calculation has found, or will find when it lists the matches.
Found(r) ==
    calc[r].agents \union
    Playing(IF calc[r].pc = "listed" THEN Committed ELSE calc[r].matches)

\* The recalculation that is alone still is; its rows stand, and all others are
\* rows it is going to write, but for those of agents enrolled meanwhile.
SoleAlone == \A r \in Recalcs : sole = r =>
    /\ \A q \in Recalcs : Running(q) => q = r
    /\ \A i \in DOMAIN calc[r].order :
           i < calc[r].next /\ calc[r].order[i] \notin restarted
           => board[calc[r].order[i]] = [counted |-> calc[r].matches, rank |-> i]
    /\ \A a \in Contestants \ restarted :
           (Running(r) \/ calc[r].pc = "done") /\ board[a] # NoRow => a \in Found(r)

TableInv == CalcTyped /\ OrdersSorted /\ NotWritten /\ RowsKnown /\ SoleAlone

LEMMA ContestantsCounted ==
    ASSUME NEW S \in SUBSET Contestants
    PROVE  /\ IsFiniteSet(S) /\ Cardinality(S) \in Nat /\ Cardinality(Contestants) \in Nat
           /\ Cardinality(S) <= Cardinality(Contestants)
BY RankAgentsAssumption, FS_Subset, FS_CardinalityType

LEMMA TableShape ==
    ASSUME NEW S \in SUBSET Contestants, NEW M, NEW t \in Tables(S, M)
    PROVE  /\ t \in Seq(Contestants) /\ t \in [1..Cardinality(S) -> S]
           /\ Len(t) = Cardinality(S) /\ Len(t) \in Nat /\ DOMAIN t = 1..Len(t)
           /\ \A i, j \in DOMAIN t : t[i] = t[j] => i = j
<1>1. Cardinality(S) \in Nat
  BY ContestantsCounted
<1>2. /\ t \in [1..Cardinality(S) -> S] /\ DOMAIN t = 1..Cardinality(S)
      /\ \A i, j \in DOMAIN t : t[i] = t[j] => i = j
  BY DEF Tables
<1>3. t \in Seq(S) /\ Len(t) = Cardinality(S)
  BY <1>1, <1>2
<1>4. t \in Seq(Contestants)
  BY <1>1, <1>2, <1>3
<1> QED
  BY <1>1, <1>2, <1>3, <1>4

\* The agents a table may be about.
LEMMA ListedTyped ==
    ASSUME CalcTyped, NEW r \in Recalcs
    PROVE  Listed(r) \in SUBSET Contestants
<1>1. calc[r].matches \subseteq Matches /\ calc[r].agents \subseteq Contestants
  BY DEF CalcTyped, Calculations
<1> QED
  BY <1>1, PairingAssumption DEF Listed, Playing

\* The result of a committed match does not change.
LEMMA StableTables ==
    ASSUME CalcTyped, NEW m \in Matches, NEW w \in Pairing[m] \union {0}, Commit(m, w),
           NEW S, NEW M, M \subseteq Committed
    PROVE  Tables(S, M)' = Tables(S, M)
<1>1. \A n \in M : winners'[n] = winners[n]
  BY DEF Commit, Committed, CalcTyped, RankTypeOK
<1>2. \A a, N : N \subseteq M =>
        /\ Won(a, N)' = Won(a, N) /\ Drawn(a, N)' = Drawn(a, N) /\ Lost(a, N)' = Lost(a, N)
  BY <1>1 DEF Won, Drawn, Lost
<1>3. \A a, N : N \subseteq M => Points(a, N)' = Points(a, N)
  BY <1>2 DEF Points
<1>4. \A a, b : HeadToHead(a, b, M)' = HeadToHead(a, b, M)
  BY <1>3 DEF HeadToHead
<1>5. \A a : ScoreDiff(a, M)' = ScoreDiff(a, M)
  BY <1>2 DEF ScoreDiff
<1>6. \A a, b : Precedes(a, b, M)' <=> Precedes(a, b, M)
  BY <1>2, <1>3, <1>4, <1>5 DEF Precedes, Ahead
<1> QED
  BY <1>6 DEF Tables

LEMMA CommitKeeps ==
    ASSUME TableInv, NEW m \in Matches, NEW w \in Pairing[m] \union {0}, Commit(m, w)
    PROVE  TableInv'
<1> USE DEF TableInv
<1>1. /\ winners' = [winners EXCEPT ![m] = w] /\ winners[m] = -1
      /\ UNCHANGED <<enrolment, calc, board, sole, restarted, snapshots, pub>>
  BY DEF Commit
<1>2. w \in Contestants \union {0} /\ w # -1
  BY RankAgentsAssumption, PairingAssumption
<1>3. Committed' = Committed \union {m} /\ Entered' = Entered
  BY <1>1, <1>2 DEF Committed, Entered, CalcTyped, RankTypeOK
<1>4. IsFiniteSet(Committed')
  BY <1>3, FS_AddElement DEF CalcTyped
<1>5. CalcTyped'
  BY <1>1, <1>2, <1>3, <1>4 DEF CalcTyped, RankTypeOK
<1>6. OrdersSorted'
  <2> SUFFICES ASSUME NEW r \in Recalcs, calc[r].pc \in {"sorted", "done"}
               PROVE  (calc[r].order \in Tables(Listed(r), calc[r].matches))'
    BY <1>1 DEF OrdersSorted
  <2>1. PICK M : M = calc[r].matches
    OBVIOUS
  <2>2. PICK S : S = Listed(r)
    OBVIOUS
  <2>3. M \subseteq Committed
    BY <2>1 DEF CalcTyped, RankTypeOK
  <2>4. Tables(S, M)' = Tables(S, M)
    BY <2>3, StableTables
  <2>5. Listed(r)' = S /\ calc'[r] = calc[r]
    BY <1>1, <2>2 DEF Listed
  <2>6. calc[r].order \in Tables(S, M)
    BY <2>1, <2>2 DEF OrdersSorted
  <2> QED
    BY <2>1, <2>4, <2>5, <2>6
<1>7. NotWritten'
  BY <1>1 DEF NotWritten
<1>8. RowsKnown'
  BY <1>1, <1>3 DEF RowsKnown, Playing
<1>9. SoleAlone'
  <2>1. \A r \in Recalcs : Found(r) \subseteq Found(r)' /\ Running(r)' = Running(r)
    BY <1>1, <1>3 DEF Found, Playing, Running
  <2> QED
    BY <1>1, <2>1 DEF SoleAlone
<1> QED
  BY <1>5, <1>6, <1>7, <1>8, <1>9

\* An enrolment writes a row of an agent that is entered.
LEMMA EnterKeeps ==
    ASSUME TableInv, NEW a \in Contestants, EnterStep(a)
    PROVE  TableInv'
<1> USE DEF TableInv
<1>1. /\ enrolment \in [Contestants -> {"none", "checked", "inserted", "ended"}]
      /\ board \in [Contestants -> Row] /\ restarted \subseteq Contestants
  BY DEF CalcTyped, RankTypeOK
<1>2. /\ UNCHANGED <<winners, calc, sole, snapshots, pub>>
      /\ enrolment' \in [Contestants -> {"none", "checked", "inserted", "ended"}]
      /\ Entered \subseteq Entered'
      /\ restarted' \subseteq Contestants
      /\ \/ UNCHANGED <<board, restarted>>
         \/ /\ board' = [board EXCEPT ![a] = FirstRow] /\ restarted' = restarted \union {a}
            /\ a \in Entered'
  <2>1. CASE CheckEntry(a)
    BY <1>1, <2>1 DEF CheckEntry, Entered
  <2>2. CASE InsertEntry(a)
    BY <1>1, <2>2 DEF InsertEntry, Entered
  <2>3. CASE InsertFirstRow(a)
    <3>1. /\ enrolment[a] = "inserted" /\ enrolment' = [enrolment EXCEPT ![a] = "ended"]
          /\ UNCHANGED <<winners, calc, sole, snapshots, pub>>
      BY <2>3 DEF InsertFirstRow
    <3>2. Entered' = Entered /\ a \in Entered
      BY <1>1, <3>1 DEF Entered
    <3> QED
      BY <1>1, <2>3, <3>1, <3>2 DEF InsertFirstRow
  <2> QED
    BY <2>1, <2>2, <2>3 DEF EnterStep
<1>3. FirstRow \in Row
  BY DEF FirstRow, Row
<1>4. /\ board' \in [Contestants -> Row] /\ restarted \subseteq restarted'
      /\ \A b \in Contestants \ restarted' : board'[b] = board[b]
      /\ \A b \in Contestants : board'[b] # board[b] => b \in Entered'
  BY <1>1, <1>2, <1>3
<1>5. /\ Committed' = Committed /\ \A S, M : Tables(S, M)' = Tables(S, M)
      /\ \A r \in Recalcs : Listed(r)' = Listed(r) /\ Found(r)' = Found(r)
                            /\ Running(r)' = Running(r)
  <2>1. Committed' = Committed
    BY <1>2 DEF Committed
  <2> QED
    BY <1>2, <2>1 DEF Tables, Precedes, Points, Won, Drawn, Lost, ScoreDiff, HeadToHead,
                      Listed, Found, Playing, Running
<1>6. CalcTyped'
  <2>1. \A r \in Recalcs : calc[r].agents \subseteq Entered'
    BY <1>2 DEF CalcTyped, RankTypeOK
  <2> QED
    BY <1>2, <1>4, <1>5, <2>1 DEF CalcTyped, RankTypeOK
<1>7. OrdersSorted'
  <2> SUFFICES ASSUME NEW r \in Recalcs, calc[r].pc \in {"sorted", "done"}
               PROVE  (calc[r].order \in Tables(Listed(r), calc[r].matches))'
    BY <1>2 DEF OrdersSorted
  <2>1. PICK S, M : S = Listed(r) /\ M = calc[r].matches
    OBVIOUS
  <2> QED
    BY <1>2, <1>5, <2>1 DEF OrdersSorted
<1>8. NotWritten'
  BY <1>2 DEF NotWritten
<1>9. RowsKnown'
  <2>1. Playing(Committed)' = Playing(Committed)
    BY <1>5 DEF Playing
  <2> QED
    BY <1>2, <1>4, <2>1 DEF RowsKnown
<1>10. SoleAlone'
  <2> SUFFICES ASSUME NEW r \in Recalcs, sole = r
               PROVE  /\ \A q \in Recalcs : Running(q)' => q = r
                      /\ \A i \in DOMAIN calc[r].order :
                             i < calc[r].next /\ calc[r].order[i] \notin restarted'
                             => board'[calc[r].order[i]]
                                = [counted |-> calc[r].matches, rank |-> i]
                      /\ \A b \in Contestants \ restarted' :
                             (Running(r)' \/ calc[r].pc = "done") /\ board'[b] # NoRow
                             => b \in Found(r)'
    BY <1>2 DEF SoleAlone
  <2>1. \A i \in DOMAIN calc[r].order : calc[r].order[i] \in Contestants
    BY DEF CalcTyped, RankTypeOK
  <2> QED
    BY <1>4, <1>5, <2>1 DEF SoleAlone
<1> QED
  BY <1>6, <1>7, <1>8, <1>9, <1>10

\* Only the calculation r moves, and its agents and matches were found before.
LEMMA CalcMoves ==
    ASSUME TableInv, NEW r \in Recalcs, NEW c \in Calculations,
           calc' = [calc EXCEPT ![r] = c], UNCHANGED <<winners, enrolment, snapshots, pub>>,
           board' \in [Contestants -> Row], sole' \in Recalcs \union {"none"},
           restarted' \subseteq Contestants,
           c.agents \subseteq Entered, c.matches \subseteq Committed,
           c.next \in 1..(Cardinality(Contestants) + 1), c.next <= Len(c.order) + 1,
           c.pc \in {"sorted", "done"} =>
               c.order \in Tables(c.agents \union Playing(c.matches), c.matches),
           c.pc \notin {"sorted", "done"} => c.order = <<>> /\ c.next = 1,
           c.pc = "done" => c.next = Len(c.order) + 1
    PROVE  /\ CalcTyped' /\ calc'[r] = c
           /\ \A q \in Recalcs : q # r => calc'[q] = calc[q]
           /\ Committed' = Committed /\ Entered' = Entered
           /\ OrdersSorted' /\ NotWritten'
<1> USE DEF TableInv
<1>1. calc'[r] = c /\ \A q \in Recalcs : q # r => calc'[q] = calc[q]
  BY DEF CalcTyped
<1>2. calc' \in [Recalcs -> Calculations]
  BY DEF CalcTyped
<1>3. Committed' = Committed /\ Entered' = Entered
  BY DEF Committed, Entered
<1>4. RankTypeOK'
  <2>1. /\ c.pc \in {"idle", "listed", "read", "sorted", "done", "failed"}
        /\ c.order \in Seq(Contestants)
    BY DEF Calculations
  <2>2. \A q \in Recalcs :
            /\ calc'[q].pc \in {"idle", "listed", "read", "sorted", "done", "failed"}
            /\ calc'[q].agents \subseteq Entered'
            /\ calc'[q].matches \subseteq Committed'
            /\ calc'[q].order \in Seq(Contestants)
            /\ calc'[q].next \in 1..(Cardinality(Contestants) + 1)
    BY <1>1, <1>3, <2>1 DEF CalcTyped, RankTypeOK
  <2> QED
    BY <2>2 DEF CalcTyped, RankTypeOK
<1>5. CalcTyped'
  BY <1>1, <1>2, <1>3, <1>4 DEF CalcTyped
<1>6. \A S, M : Tables(S, M)' = Tables(S, M)
  BY DEF Tables, Precedes, Points, Won, Drawn, Lost, ScoreDiff, HeadToHead
<1>7. OrdersSorted'
  <2> SUFFICES ASSUME NEW q \in Recalcs, calc'[q].pc \in {"sorted", "done"}
               PROVE  (calc[q].order \in Tables(Listed(q), calc[q].matches))'
    BY DEF OrdersSorted
  <2>1. CASE q = r
    <3>1. PICK S, M : S = c.agents \union Playing(c.matches) /\ M = c.matches
      OBVIOUS
    <3>2. Listed(q)' = S
      BY <1>1, <2>1, <3>1 DEF Listed, Playing
    <3>3. c.order \in Tables(S, M)
      BY <1>1, <2>1, <3>1
    <3> QED
      BY <1>1, <1>6, <2>1, <3>1, <3>2, <3>3
  <2>2. CASE q # r
    <3>1. PICK S, M : S = Listed(q) /\ M = calc[q].matches
      OBVIOUS
    <3>2. Listed(q)' = S
      BY <1>1, <2>2, <3>1 DEF Listed
    <3>3. calc[q].order \in Tables(S, M)
      BY <1>1, <2>2, <3>1 DEF OrdersSorted
    <3> QED
      BY <1>1, <1>6, <2>2, <3>1, <3>2, <3>3
  <2> QED
    BY <2>1, <2>2
<1>8. NotWritten'
  <2> SUFFICES ASSUME NEW q \in Recalcs
               PROVE  /\ calc'[q].pc \notin {"sorted", "done"}
                         => calc'[q].order = <<>> /\ calc'[q].next = 1
                      /\ calc'[q].pc = "done" => calc'[q].next = Len(calc'[q].order) + 1
    BY DEF NotWritten
  <2> QED
    BY <1>1 DEF NotWritten
<1> QED
  BY <1>1, <1>3, <1>5, <1>7, <1>8

\* An error ends the calculation and writes no row.
LEMMA ErrorKeeps ==
    ASSUME TableInv, NEW r \in Recalcs, calc' = [calc EXCEPT ![r] = Failed],
           UNCHANGED <<winners, enrolment, board, sole, restarted, snapshots, pub>>
    PROVE  TableInv'
<1> USE DEF TableInv
<1>1. /\ Failed \in Calculations /\ Failed.pc = "failed" /\ Failed.agents = {}
      /\ Failed.matches = {} /\ Failed.order = <<>> /\ Failed.next = 1
  <2>1. /\ NoCalc \in Calculations /\ NoCalc.agents = {} /\ NoCalc.matches = {}
        /\ NoCalc.order = <<>> /\ NoCalc.next = 1
    BY DEF NoCalc, Calculations
  <2> QED
    BY <2>1 DEF Failed, Calculations
<1>2. /\ board' \in [Contestants -> Row] /\ sole' \in Recalcs \union {"none"}
      /\ restarted' \subseteq Contestants
  BY DEF CalcTyped, RankTypeOK
<1>3. 1 \in 1..(Cardinality(Contestants) + 1) /\ 1 <= Len(<<>>) + 1
  BY ContestantsCounted
<1>4. /\ CalcTyped' /\ calc'[r] = Failed
      /\ \A q \in Recalcs : q # r => calc'[q] = calc[q]
      /\ Committed' = Committed /\ Entered' = Entered
      /\ OrdersSorted' /\ NotWritten'
  BY <1>1, <1>2, <1>3, CalcMoves
<1>5. RowsKnown'
  BY <1>4 DEF RowsKnown, Playing
<1>6. SoleAlone'
  <2> SUFFICES ASSUME NEW q \in Recalcs, sole = q
               PROVE  /\ \A o \in Recalcs : Running(o)' => o = q
                      /\ \A i \in DOMAIN calc'[q].order :
                             i < calc'[q].next /\ calc'[q].order[i] \notin restarted
                             => board[calc'[q].order[i]]
                                = [counted |-> calc'[q].matches, rank |-> i]
                      /\ \A b \in Contestants \ restarted :
                             (Running(q)' \/ calc'[q].pc = "done") /\ board[b] # NoRow
                             => b \in Found(q)'
    BY DEF SoleAlone
  <2>1. \A o \in Recalcs : Running(o)' => o # r /\ Running(o)
    BY <1>1, <1>4 DEF Running
  <2>2. CASE q = r
    BY <1>1, <1>4, <2>1, <2>2 DEF SoleAlone, Running
  <2>3. CASE q # r
    <3>1. Found(q)' = Found(q) /\ calc'[q] = calc[q]
      BY <1>4, <2>3 DEF Found, Playing
    <3> QED
      BY <2>1, <3>1 DEF SoleAlone
  <2> QED
    BY <2>2, <2>3
<1> QED
  BY <1>4, <1>5, <1>6

LEMMA BeginKeeps ==
    ASSUME TableInv, NEW r \in Recalcs, BeginRecalculation(r)
    PROVE  TableInv'
<1> USE DEF TableInv
<1>1. /\ calc[r].pc = "idle" /\ calc[r].order = <<>> /\ calc[r].next = 1
      /\ calc[r] \in Calculations /\ calc[r].matches \subseteq Committed
      /\ calc[r].agents \subseteq Entered /\ Entered \subseteq Contestants
  BY DEF BeginRecalculation, NotWritten, CalcTyped, RankTypeOK, Entered
<1>2. PICK A \in {Entered, calc[r].agents} :
          /\ calc' = [calc EXCEPT ![r].pc = "listed", ![r].agents = A]
          /\ sole' # "none" => /\ A = Entered /\ sole' = r
                               /\ \A q \in Recalcs : ~Running(q)
          /\ sole' \in {r, "none"}
  <2>1. CASE /\ calc' = [calc EXCEPT ![r].pc = "listed", ![r].agents = Entered]
             /\ sole' = IF \E q \in Recalcs : Running(q) THEN "none" ELSE r
    BY <2>1
  <2>2. CASE /\ calc' = [calc EXCEPT ![r].pc = "listed"] /\ sole' = "none"
    <3>1. calc' = [calc EXCEPT ![r].pc = "listed", ![r].agents = calc[r].agents]
      BY <2>2 DEF CalcTyped, Calculations
    <3> QED
      BY <2>2, <3>1
  <2> QED
    BY <2>1, <2>2 DEF BeginRecalculation
<1>3. UNCHANGED <<winners, enrolment, board, snapshots, pub>> /\ restarted' = {}
  BY DEF BeginRecalculation
<1> DEFINE c == [calc[r] EXCEPT !.pc = "listed", !.agents = A]
<1>4. /\ c \in Calculations /\ c.pc = "listed" /\ c.agents = A
      /\ c.matches = calc[r].matches /\ c.order = <<>> /\ c.next = 1
  BY <1>1, <1>2 DEF Calculations
<1>5. calc' = [calc EXCEPT ![r] = c]
  BY <1>2 DEF CalcTyped
<1> HIDE DEF c
<1>6. /\ CalcTyped' /\ calc'[r] = c
      /\ \A q \in Recalcs : q # r => calc'[q] = calc[q]
      /\ Committed' = Committed /\ Entered' = Entered
      /\ OrdersSorted' /\ NotWritten'
  <2>1. /\ board' \in [Contestants -> Row] /\ sole' \in Recalcs \union {"none"}
        /\ restarted' \subseteq Contestants
    BY <1>2, <1>3 DEF CalcTyped, RankTypeOK
  <2>2. c.next \in 1..(Cardinality(Contestants) + 1) /\ c.next <= Len(c.order) + 1
    BY <1>4, ContestantsCounted
  <2> QED
    BY <1>1, <1>2, <1>3, <1>4, <1>5, <2>1, <2>2, CalcMoves
<1>7. RowsKnown'
  BY <1>3, <1>6 DEF RowsKnown, Playing
<1>8. SoleAlone'
  <2> SUFFICES ASSUME NEW q \in Recalcs, sole' = q
               PROVE  /\ \A o \in Recalcs : Running(o)' => o = q
                      /\ calc'[q].order = <<>>
                      /\ \A b \in Contestants : board'[b] # NoRow => b \in Found(q)'
    BY DEF SoleAlone
  <2>1. q = r /\ A = Entered /\ \A o \in Recalcs : ~Running(o)
    BY <1>2, NamesAssumption DEF Recalcs
  <2>2. Found(r)' = Entered \union Playing(Committed)
    BY <1>4, <1>6, <2>1 DEF Found, Playing
  <2>3. \A b \in Contestants : board'[b] # NoRow => b \in Found(q)'
    BY <1>3, <2>1, <2>2 DEF RowsKnown
  <2>4. \A o \in Recalcs : Running(o)' => o = q
    BY <1>6, <2>1 DEF Running
  <2> QED
    BY <1>4, <1>6, <2>1, <2>3, <2>4
<1> QED
  BY <1>6, <1>7, <1>8

\* A calculation that has listed, or counted, what it found has written no row yet.
LEMMA ReadKeeps ==
    ASSUME TableInv, NEW r \in Recalcs, Running(r), NEW c \in Calculations,
           calc' = [calc EXCEPT ![r] = c],
           UNCHANGED <<winners, enrolment, board, sole, restarted, snapshots, pub>>,
           c.pc \in {"read", "sorted"}, c.agents = calc[r].agents, c.next = 1,
           c.matches = IF calc[r].pc = "listed" THEN Committed ELSE calc[r].matches,
           c.pc = "sorted" => c.order \in Tables(c.agents \union Playing(c.matches), c.matches),
           c.pc = "read" => c.order = <<>>
    PROVE  TableInv'
<1> USE DEF TableInv
<1>1. /\ board' \in [Contestants -> Row] /\ sole' \in Recalcs \union {"none"}
      /\ restarted' \subseteq Contestants
  BY DEF CalcTyped, RankTypeOK
<1>2. c.agents \subseteq Entered /\ c.matches \subseteq Committed
  BY DEF CalcTyped, RankTypeOK
<1>3. /\ c.next \in 1..(Cardinality(Contestants) + 1) /\ c.next <= Len(c.order) + 1
      /\ c.order \in Seq(Contestants)
  BY ContestantsCounted DEF Calculations
<1>4. /\ CalcTyped' /\ calc'[r] = c
      /\ \A q \in Recalcs : q # r => calc'[q] = calc[q]
      /\ Committed' = Committed /\ Entered' = Entered
      /\ OrdersSorted' /\ NotWritten'
  BY <1>1, <1>2, <1>3, CalcMoves
<1>5. RowsKnown'
  BY <1>4 DEF RowsKnown, Playing
<1>6. SoleAlone'
  <2> SUFFICES ASSUME NEW q \in Recalcs, sole = q
               PROVE  /\ \A o \in Recalcs : Running(o)' => o = q
                      /\ \A i \in DOMAIN calc'[q].order : ~(i < calc'[q].next)
                      /\ \A b \in Contestants \ restarted : board[b] # NoRow => b \in Found(q)'
    BY DEF SoleAlone
  <2>1. q = r /\ \A b \in Contestants \ restarted : board[b] # NoRow => b \in Found(r)
    BY DEF SoleAlone
  <2>2. \A o \in Recalcs : Running(o)' => o = q
    BY <1>4, <2>1 DEF SoleAlone, Running
  <2>3. Found(r)' = Found(r)
    BY <1>4 DEF Found, Playing
  <2>4. \A i \in DOMAIN c.order : i \in Nat \ {0}
    BY <1>3
  <2> QED
    BY <1>4, <2>1, <2>2, <2>3, <2>4
<1> QED
  BY <1>4, <1>5, <1>6

LEMMA ListMatchesKeeps ==
    ASSUME TableInv, NEW r \in Recalcs, ListMatches(r)
    PROVE  TableInv'
<1> USE DEF TableInv
<1>1. /\ calc[r].pc = "listed" /\ calc[r].order = <<>> /\ calc[r].next = 1
      /\ calc[r] \in Calculations /\ Running(r)
      /\ UNCHANGED <<winners, enrolment, board, sole, restarted, snapshots, pub>>
  BY DEF ListMatches, NotWritten, CalcTyped, Running
<1>2. CASE calc' = [calc EXCEPT ![r].pc = "read", ![r].matches = Committed]
  <2> DEFINE c == [calc[r] EXCEPT !.pc = "read", !.matches = Committed]
  <2>1. /\ c \in Calculations /\ c.pc = "read" /\ c.agents = calc[r].agents
        /\ c.matches = Committed /\ c.order = <<>> /\ c.next = 1
    BY <1>1 DEF Calculations, Committed
  <2>2. calc' = [calc EXCEPT ![r] = c]
    BY <1>2 DEF CalcTyped
  <2> HIDE DEF c
  <2> QED
    BY <1>1, <2>1, <2>2, ReadKeeps
<1>3. CASE calc' = [calc EXCEPT ![r] = Failed]
  BY <1>1, <1>3, ErrorKeeps
<1> QED
  BY <1>2, <1>3 DEF ListMatches

LEMMA CountMatchesKeeps ==
    ASSUME TableInv, NEW r \in Recalcs, CountMatches(r)
    PROVE  TableInv'
<1> USE DEF TableInv
<1> DEFINE M == calc[r].matches
<1>1. /\ calc[r].pc = "read" /\ calc[r].next = 1 /\ calc[r] \in Calculations /\ Running(r)
      /\ UNCHANGED <<winners, enrolment, board, sole, restarted, snapshots, pub>>
  BY DEF CountMatches, NotWritten, CalcTyped, Running
<1>2. CASE \E t \in Tables(Listed(r), M) :
               calc' = [calc EXCEPT ![r].pc = "sorted", ![r].order = t]
  <2>1. PICK t \in Tables(Listed(r), M) :
            calc' = [calc EXCEPT ![r].pc = "sorted", ![r].order = t]
    BY <1>2
  <2>2. t \in Seq(Contestants)
    BY <2>1, ListedTyped, TableShape
  <2> DEFINE c == [calc[r] EXCEPT !.pc = "sorted", !.order = t]
  <2>3. /\ c \in Calculations /\ c.pc = "sorted" /\ c.agents = calc[r].agents
        /\ c.matches = M /\ c.order = t /\ c.next = 1
    BY <1>1, <2>2 DEF Calculations
  <2>4. calc' = [calc EXCEPT ![r] = c]
    BY <2>1 DEF CalcTyped
  <2>5. t \in Tables(calc[r].agents \union Playing(M), M)
    BY DEF Listed
  <2> HIDE DEF c
  <2> QED
    BY <1>1, <2>3, <2>4, <2>5, ReadKeeps
<1>3. CASE calc' = [calc EXCEPT ![r] = Failed]
  BY <1>1, <1>3, ErrorKeeps
<1> QED
  BY <1>2, <1>3 DEF CountMatches

LEMMA UpsertKeeps ==
    ASSUME TableInv, NEW r \in Recalcs, UpsertRanking(r)
    PROVE  TableInv'
<1> USE DEF TableInv
<1> DEFINE M == calc[r].matches
           o == calc[r].order
           n == calc[r].next
<1>1. /\ calc[r].pc = "sorted" /\ Running(r)
      /\ calc[r] \in Calculations /\ M \subseteq Committed /\ M \subseteq Matches
      /\ calc[r].agents \subseteq Entered
      /\ o \in Seq(Contestants) /\ n \in Nat \ {0} /\ n \in 1..(Cardinality(Contestants) + 1)
      /\ n <= Len(o) + 1 /\ Len(o) \in Nat
      /\ UNCHANGED <<winners, enrolment, sole, restarted, snapshots, pub>>
      /\ sole' \in Recalcs \union {"none"} /\ restarted' \subseteq Contestants
      /\ board \in [Contestants -> Row]
  BY DEF UpsertRanking, CalcTyped, RankTypeOK, Calculations, Running
<1>2. /\ DOMAIN o = 1..Len(o) /\ Len(o) <= Cardinality(Contestants)
      /\ \A i, j \in DOMAIN o : o[i] = o[j] => i = j
      /\ \A i \in DOMAIN o : o[i] \in Listed(r)
      /\ o \in Tables(calc[r].agents \union Playing(M), M)
  <2>1. o \in Tables(Listed(r), M) /\ Listed(r) = calc[r].agents \union Playing(M)
    BY <1>1 DEF OrdersSorted, Listed
  <2>2. Listed(r) \in SUBSET Contestants
    BY ListedTyped
  <2>3. /\ DOMAIN o = 1..Len(o) /\ Len(o) = Cardinality(Listed(r))
        /\ o \in [1..Cardinality(Listed(r)) -> Listed(r)]
        /\ \A i, j \in DOMAIN o : o[i] = o[j] => i = j
    BY <2>1, <2>2, TableShape
  <2> QED
    BY <2>1, <2>2, <2>3, ContestantsCounted
\* What remains is the same whether a row is written or the last one was.
<1>3. ASSUME NEW c \in Calculations, calc' = [calc EXCEPT ![r] = c],
             c.agents = calc[r].agents, c.matches = M, c.order = o,
             \/ c.next = n /\ n = Len(o) + 1 /\ c.pc = "done"
             \/ c.next = n + 1 /\ n <= Len(o) /\ c.pc = "sorted",
             board' \in [Contestants -> Row]
      PROVE  /\ calc'[r] = c /\ CalcTyped' /\ OrdersSorted' /\ NotWritten'
             /\ Committed' = Committed /\ Entered' = Entered
             /\ \A q \in Recalcs : q # r => calc'[q] = calc[q]
             /\ \A q \in Recalcs : Running(q)' => Running(q)
             /\ Found(r)' = Found(r) /\ Found(r) = Listed(r)
  <2>1. /\ c.next \in 1..(Cardinality(Contestants) + 1) /\ c.next <= Len(c.order) + 1
        /\ c.pc \in {"sorted", "done"}
        /\ c.order \in Tables(c.agents \union Playing(c.matches), c.matches)
        /\ c.pc = "done" => c.next = Len(c.order) + 1
    BY <1>1, <1>2, <1>3, ContestantsCounted
  <2>2. /\ CalcTyped' /\ calc'[r] = c
        /\ \A q \in Recalcs : q # r => calc'[q] = calc[q]
        /\ Committed' = Committed /\ Entered' = Entered
        /\ OrdersSorted' /\ NotWritten'
    BY <1>1, <1>3, <2>1, CalcMoves
  <2>3. \A q \in Recalcs : Running(q)' => Running(q)
    BY <1>1, <2>2 DEF Running
  <2>4. Found(r)' = Found(r) /\ Found(r) = Listed(r)
    BY <1>1, <1>3, <2>2 DEF Found, Listed, Playing
  <2> QED
    BY <2>2, <2>3, <2>4
<1>4. ASSUME n > Len(o), calc' = [calc EXCEPT ![r].pc = "done"], UNCHANGED board
      PROVE  TableInv'
  <2> DEFINE c == [calc[r] EXCEPT !.pc = "done"]
  <2>1. /\ c \in Calculations /\ c.pc = "done" /\ c.agents = calc[r].agents
        /\ c.matches = M /\ c.order = o /\ c.next = n /\ n = Len(o) + 1
    BY <1>1, <1>4 DEF Calculations
  <2>2. calc' = [calc EXCEPT ![r] = c] /\ board' \in [Contestants -> Row]
    BY <1>1, <1>4 DEF CalcTyped
  <2> HIDE DEF c
  <2>3. /\ calc'[r] = c /\ CalcTyped' /\ OrdersSorted' /\ NotWritten'
        /\ Committed' = Committed /\ Entered' = Entered
        /\ \A q \in Recalcs : q # r => calc'[q] = calc[q]
        /\ \A q \in Recalcs : Running(q)' => Running(q)
        /\ Found(r)' = Found(r) /\ Found(r) = Listed(r)
    BY <1>3, <2>1, <2>2
  <2>4. RowsKnown'
    BY <1>4, <2>3 DEF RowsKnown, Playing
  <2>5. SoleAlone'
    <3> SUFFICES ASSUME NEW q \in Recalcs, sole = q
                 PROVE  /\ \A p \in Recalcs : Running(p)' => p = q
                        /\ \A i \in DOMAIN calc'[q].order :
                               i < calc'[q].next /\ calc'[q].order[i] \notin restarted
                               => board[calc'[q].order[i]]
                                  = [counted |-> calc'[q].matches, rank |-> i]
                        /\ \A b \in Contestants \ restarted : board[b] # NoRow => b \in Found(q)'
      BY <1>1, <1>4 DEF SoleAlone
    <3>1. q = r
      BY <1>1 DEF SoleAlone
    <3> QED
      BY <1>1, <2>1, <2>3, <3>1 DEF SoleAlone
  <2> QED
    BY <2>3, <2>4, <2>5
<1>5. ASSUME n <= Len(o), calc' = [calc EXCEPT ![r].next = @ + 1],
             board' = [board EXCEPT ![o[n]] = [counted |-> M, rank |-> n]]
      PROVE  TableInv'
  <2> DEFINE c == [calc[r] EXCEPT !.next = n + 1]
             row == [counted |-> M, rank |-> n]
  <2>1. /\ c \in Calculations /\ c.pc = "sorted" /\ c.agents = calc[r].agents
        /\ c.matches = M /\ c.order = o /\ c.next = n + 1
    BY <1>1 DEF Calculations
  <2>2. calc' = [calc EXCEPT ![r] = c]
    BY <1>5 DEF CalcTyped
  <2>3. row \in Row
    BY <1>1 DEF Row
  <2>4. board' = [board EXCEPT ![o[n]] = row]
    BY <1>5
  <2> HIDE DEF c, row
  <2>5. n \in DOMAIN o /\ o[n] \in Listed(r) /\ o[n] \in Contestants
    BY <1>1, <1>2, <1>5, ListedTyped
  <2>6. /\ board' \in [Contestants -> Row] /\ board'[o[n]] = row
        /\ \A b \in Contestants : b # o[n] => board'[b] = board[b]
    BY <1>1, <2>3, <2>4, <2>5
  <2>7. /\ calc'[r] = c /\ CalcTyped' /\ OrdersSorted' /\ NotWritten'
        /\ Committed' = Committed /\ Entered' = Entered
        /\ \A q \in Recalcs : q # r => calc'[q] = calc[q]
        /\ \A q \in Recalcs : Running(q)' => Running(q)
        /\ Found(r)' = Found(r) /\ Found(r) = Listed(r)
    BY <1>3, <1>5, <2>1, <2>2, <2>6
  <2>8. RowsKnown'
    <3>1. Listed(r) \subseteq Entered \union Playing(Committed)
      BY <1>1 DEF Listed, Playing
    <3>2. Playing(Committed)' = Playing(Committed)
      BY <2>7 DEF Playing
    <3> QED
      BY <2>5, <2>6, <2>7, <3>1, <3>2 DEF RowsKnown
  <2>9. SoleAlone'
    <3> SUFFICES ASSUME NEW q \in Recalcs, sole = q
                 PROVE  /\ \A p \in Recalcs : Running(p)' => p = q
                        /\ \A i \in DOMAIN calc'[q].order :
                               i < calc'[q].next /\ calc'[q].order[i] \notin restarted
                               => board'[calc'[q].order[i]]
                                  = [counted |-> calc'[q].matches, rank |-> i]
                        /\ \A b \in Contestants \ restarted :
                               board'[b] # NoRow => b \in Found(q)'
      BY <1>1 DEF SoleAlone
    <3>1. q = r
      BY <1>1 DEF SoleAlone
    <3>2. \A i \in DOMAIN o : i < n /\ o[i] \notin restarted
                              => board[o[i]] = [counted |-> M, rank |-> i]
      BY <3>1 DEF SoleAlone
    <3>3. ASSUME NEW i \in DOMAIN o, i < n + 1, o[i] \notin restarted
          PROVE  board'[o[i]] = [counted |-> M, rank |-> i]
      <4>1. CASE i = n
        BY <2>6, <4>1 DEF row
      <4>2. CASE i # n
        <5>1. i < n /\ o[i] # o[n] /\ o[i] \in Contestants
          BY <1>1, <1>2, <2>5, <3>3, <4>2
        <5> QED
          BY <2>6, <3>2, <3>3, <5>1
      <4> QED
        BY <4>1, <4>2
    <3>4. \A p \in Recalcs : Running(p)' => p = q
      BY <2>7, <3>1 DEF SoleAlone
    <3>5. \A b \in Contestants \ restarted : board'[b] # NoRow => b \in Found(r)'
      BY <1>1, <2>5, <2>6, <2>7, <3>1 DEF SoleAlone
    <3> QED
      BY <2>1, <2>7, <3>1, <3>3, <3>4, <3>5
  <2> QED
    BY <2>7, <2>8, <2>9
<1>6. ASSUME calc' = [calc EXCEPT ![r] = Failed], UNCHANGED board
      PROVE  TableInv'
  BY <1>1, <1>6, ErrorKeeps
<1> QED
  BY <1>4, <1>5, <1>6 DEF UpsertRanking

\* A publication leaves the table alone.
LEMMA PublishedAside ==
    ASSUME TableInv, SnapshotsNumbered',
           UNCHANGED <<winners, enrolment, calc, board, sole, restarted>>
    PROVE  TableInv'
<1>1. /\ Committed' = Committed /\ Entered' = Entered
      /\ \A S, M : Tables(S, M)' = Tables(S, M)
      /\ \A r \in Recalcs : Listed(r)' = Listed(r) /\ Found(r)' = Found(r)
  <2>1. Committed' = Committed /\ Entered' = Entered
    BY DEF Committed, Entered
  <2> QED
    BY <2>1 DEF Tables, Precedes, Points, Won, Drawn, Lost, ScoreDiff, HeadToHead,
                Listed, Found, Playing
<1>2. CalcTyped'
  <2>1. /\ \A s \in snapshots' : s.version \in Nat /\ s.by \in Publishers
        /\ pub' \in [Publishers -> [pc: {"idle", "read", "done", "failed"}, version: Nat]]
    BY DEF SnapshotsNumbered
  <2> QED
    BY <1>1, <2>1 DEF TableInv, CalcTyped, RankTypeOK
<1>3. OrdersSorted'
  <2> SUFFICES ASSUME NEW r \in Recalcs, calc[r].pc \in {"sorted", "done"}
               PROVE  (calc[r].order \in Tables(Listed(r), calc[r].matches))'
    BY DEF OrdersSorted
  <2>1. PICK S, M : S = Listed(r) /\ M = calc[r].matches
    OBVIOUS
  <2> QED
    BY <1>1, <2>1 DEF TableInv, OrdersSorted
<1>4. NotWritten' /\ RowsKnown'
  BY <1>1 DEF TableInv, NotWritten, RowsKnown, Playing
<1>5. SoleAlone'
  BY <1>1 DEF TableInv, SoleAlone, Running
<1> QED
  BY <1>2, <1>3, <1>4, <1>5 DEF TableInv

LEMMA TableSafe == RankSpec => []TableInv
<1>1. RankInit => TableInv
  <2> SUFFICES ASSUME RankInit
               PROVE  TableInv
    OBVIOUS
  <2>1. /\ Committed = {} /\ IsFiniteSet({}) /\ sole = "none"
        /\ \A r \in Recalcs : calc[r] = NoCalc
    BY FS_EmptySet DEF RankInit, Committed
  <2>2. NoCalc \in Calculations
    BY DEF NoCalc, Calculations
  <2>3. calc \in [Recalcs -> Calculations]
    BY <2>2 DEF RankInit
  <2>4. \A r \in Recalcs :
            /\ calc[r].pc = "idle" /\ calc[r].agents = {} /\ calc[r].matches = {}
            /\ calc[r].order = <<>> /\ calc[r].next = 1
    BY <2>1 DEF NoCalc
  <2>5. Cardinality(Contestants) \in Nat
    BY ContestantsCounted
  <2>6. RankTypeOK
    <3>1. \A r \in Recalcs :
            /\ calc[r].pc \in {"idle", "listed", "read", "sorted", "done", "failed"}
            /\ calc[r].agents \subseteq Entered
            /\ calc[r].matches \subseteq Committed
            /\ calc[r].order \in Seq(Contestants)
            /\ calc[r].next \in 1..(Cardinality(Contestants) + 1)
      <4>1. <<>> \in Seq(Contestants) /\ 1 \in 1..(Cardinality(Contestants) + 1)
        BY <2>5
      <4> QED
        BY <2>4, <4>1
    <3>2. board \in [Contestants -> Row]
      <4>1. NoRow \in Row /\ FirstRow \in Row
        BY DEF NoRow, FirstRow, Row
      <4> QED
        BY <4>1 DEF RankInit
    <3> QED
      BY <3>1, <3>2 DEF RankInit, RankTypeOK
  <2>7. CalcTyped
    BY <2>1, <2>3, <2>4, <2>6 DEF CalcTyped
  <2>8. OrdersSorted /\ NotWritten
    BY <2>4 DEF OrdersSorted, NotWritten
  <2>9. RowsKnown
    BY DEF RankInit, RowsKnown, Entered
  <2>10. SoleAlone
    BY <2>1, NamesAssumption DEF SoleAlone, Recalcs
  <2> QED
    BY <2>7, <2>8, <2>9, <2>10 DEF TableInv
<1>2. TableInv /\ SnapshotsNumbered' /\ [RankNext]_rankVars => TableInv'
  <2> SUFFICES ASSUME TableInv, SnapshotsNumbered', [RankNext]_rankVars
               PROVE  TableInv'
    OBVIOUS
  <2>1. CASE TableStep
    BY <2>1, CommitKeeps, EnterKeeps, BeginKeeps, ListMatchesKeeps, CountMatchesKeeps,
       UpsertKeeps DEF TableStep, RecalcStep
  <2>2. CASE UNCHANGED <<winners, enrolment, calc, board, sole, restarted>>
    BY <2>2, PublishedAside
  <2> QED
    BY <2>1, <2>2 DEF RankNext, PublishStep, ReadForSnapshot, CreateRankingSnapshot, rankVars
<1> QED
  BY <1>1, <1>2, SnapshotsSafe, PTL DEF RankSpec

-----------------------------------------------------------------------------
(* The order is unique.                                                    *)

\* gaps are compared in their order.
LEMMA FirstGap ==
    ASSUME NEW p \in Int, NEW d \in Int, NEW h \in Int, NEW n \in Int, NEW i \in Int
    PROVE  Ahead(<<p, d, h, n, i>>) <=>
               \/ p > 0
               \/ p = 0 /\ d > 0
               \/ p = 0 /\ d = 0 /\ h > 0
               \/ p = 0 /\ d = 0 /\ h = 0 /\ n > 0
               \/ p = 0 /\ d = 0 /\ h = 0 /\ n = 0 /\ i > 0
<1> DEFINE g == <<p, d, h, n, i>>
<1>1. DOMAIN g = 1..5 /\ g[1] = p /\ g[2] = d /\ g[3] = h /\ g[4] = n /\ g[5] = i
  OBVIOUS
<1> HIDE DEF g
<1>2. Ahead(g) <=> \E k \in 1..5 : g[k] > 0 /\ \A j \in 1..(k - 1) : g[j] = 0
  BY <1>1 DEF Ahead
<1>3. ASSUME NEW k \in 1..5, g[k] > 0, \A j \in 1..(k - 1) : g[j] = 0
      PROVE  \/ p > 0
             \/ p = 0 /\ d > 0
             \/ p = 0 /\ d = 0 /\ h > 0
             \/ p = 0 /\ d = 0 /\ h = 0 /\ n > 0
             \/ p = 0 /\ d = 0 /\ h = 0 /\ n = 0 /\ i > 0
  <2>1. k = 1 \/ k = 2 \/ k = 3 \/ k = 4 \/ k = 5
    OBVIOUS
  <2>2. (k > 1 => g[1] = 0) /\ (k > 2 => g[2] = 0) /\ (k > 3 => g[3] = 0) /\ (k > 4 => g[4] = 0)
    BY <1>3
  <2> QED
    BY <1>1, <1>3, <2>1, <2>2
<1>4. /\ p > 0 => Ahead(g)
      /\ p = 0 /\ d > 0 => Ahead(g)
      /\ p = 0 /\ d = 0 /\ h > 0 => Ahead(g)
      /\ p = 0 /\ d = 0 /\ h = 0 /\ n > 0 => Ahead(g)
      /\ p = 0 /\ d = 0 /\ h = 0 /\ n = 0 /\ i > 0 => Ahead(g)
  <2>1. p > 0 => Ahead(g)
    BY <1>1, <1>2
  <2>2. p = 0 /\ d > 0 => Ahead(g)
    BY <1>1, <1>2
  <2>3. p = 0 /\ d = 0 /\ h > 0 => Ahead(g)
    BY <1>1, <1>2
  <2>4. p = 0 /\ d = 0 /\ h = 0 /\ n > 0 => Ahead(g)
    BY <1>1, <1>2
  <2>5. p = 0 /\ d = 0 /\ h = 0 /\ n = 0 /\ i > 0 => Ahead(g)
    BY <1>1, <1>2
  <2> QED
    BY <2>1, <2>2, <2>3, <2>4, <2>5
<1>5. Ahead(g) <=>
          \/ p > 0
          \/ p = 0 /\ d > 0
          \/ p = 0 /\ d = 0 /\ h > 0
          \/ p = 0 /\ d = 0 /\ h = 0 /\ n > 0
          \/ p = 0 /\ d = 0 /\ h = 0 /\ n = 0 /\ i > 0
  BY <1>2, <1>3, <1>4
<1> QED
  BY <1>5 DEF g

LEMMA ScoresAreNumbers ==
    ASSUME NEW M, IsFiniteSet(M), NEW a, NEW b
    PROVE  /\ Points(a, M) \in Nat /\ ScoreDiff(a, M) \in Int /\ HeadToHead(a, b, M) \in Nat
           /\ Cardinality(Won(a, M)) \in Nat
<1>1. ASSUME NEW N \in SUBSET M
      PROVE  /\ Cardinality(Won(a, N)) \in Nat /\ Cardinality(Drawn(a, N)) \in Nat
             /\ Cardinality(Lost(a, N)) \in Nat
  <2>1. Won(a, N) \in SUBSET M /\ Drawn(a, N) \in SUBSET M /\ Lost(a, N) \in SUBSET M
    BY DEF Won, Drawn, Lost
  <2> QED
    BY <2>1, FS_Subset, FS_CardinalityType
<1>2. \A N \in SUBSET M : Points(a, N) \in Nat
  BY <1>1 DEF Points
<1>3. HeadToHead(a, b, M) \in Nat
  BY <1>2 DEF HeadToHead
<1> QED
  BY <1>1, <1>2, <1>3 DEF ScoreDiff

\* Of two agents one comes first.
LEMMA OneIsAhead ==
    ASSUME NEW M, IsFiniteSet(M), NEW a \in Contestants, NEW b \in Contestants
    PROVE  /\ a # b => Precedes(a, b, M) \/ Precedes(b, a, M)
           /\ ~(Precedes(a, b, M) /\ Precedes(b, a, M))
<1> DEFINE p == Points(a, M) - Points(b, M)
           d == ScoreDiff(a, M) - ScoreDiff(b, M)
           h == HeadToHead(a, b, M) - HeadToHead(b, a, M)
           n == Cardinality(Won(a, M)) - Cardinality(Won(b, M))
           i == b - a
           p2 == Points(b, M) - Points(a, M)
           d2 == ScoreDiff(b, M) - ScoreDiff(a, M)
           h2 == HeadToHead(b, a, M) - HeadToHead(a, b, M)
           n2 == Cardinality(Won(b, M)) - Cardinality(Won(a, M))
           i2 == a - b
<1>1. /\ Points(a, M) \in Nat /\ ScoreDiff(a, M) \in Int /\ HeadToHead(a, b, M) \in Nat
      /\ Cardinality(Won(a, M)) \in Nat
      /\ Points(b, M) \in Nat /\ ScoreDiff(b, M) \in Int /\ HeadToHead(b, a, M) \in Nat
      /\ Cardinality(Won(b, M)) \in Nat /\ a \in Nat /\ b \in Nat
  BY ScoresAreNumbers, RankAgentsAssumption
<1>2. /\ p \in Int /\ d \in Int /\ h \in Int /\ n \in Int /\ i \in Int
      /\ p2 \in Int /\ d2 \in Int /\ h2 \in Int /\ n2 \in Int /\ i2 \in Int
      /\ p2 = -p /\ d2 = -d /\ h2 = -h /\ n2 = -n /\ i2 = -i /\ (i = 0 => a = b)
  BY <1>1
<1>3. Precedes(a, b, M) = Ahead(<<p, d, h, n, i>>)
  BY DEF Precedes
<1>4. Precedes(b, a, M) = Ahead(<<p2, d2, h2, n2, i2>>)
  BY DEF Precedes
<1> HIDE DEF p, d, h, n, i, p2, d2, h2, n2, i2
<1>5. Ahead(<<p, d, h, n, i>>) <=>
               \/ p > 0
               \/ p = 0 /\ d > 0
               \/ p = 0 /\ d = 0 /\ h > 0
               \/ p = 0 /\ d = 0 /\ h = 0 /\ n > 0
               \/ p = 0 /\ d = 0 /\ h = 0 /\ n = 0 /\ i > 0
  BY <1>2, FirstGap
<1>6. Ahead(<<p2, d2, h2, n2, i2>>) <=>
               \/ p2 > 0
               \/ p2 = 0 /\ d2 > 0
               \/ p2 = 0 /\ d2 = 0 /\ h2 > 0
               \/ p2 = 0 /\ d2 = 0 /\ h2 = 0 /\ n2 > 0
               \/ p2 = 0 /\ d2 = 0 /\ h2 = 0 /\ n2 = 0 /\ i2 > 0
  BY <1>2, FirstGap
<1>7. ~(Ahead(<<p, d, h, n, i>>) /\ Ahead(<<p2, d2, h2, n2, i2>>))
  BY <1>2, <1>5, <1>6
<1>8. i # 0 => Ahead(<<p, d, h, n, i>>) \/ Ahead(<<p2, d2, h2, n2, i2>>)
  BY <1>2, <1>5, <1>6
<1> QED
  BY <1>2, <1>3, <1>4, <1>7, <1>8

\* Where nobody has beaten each other in a circle, a table is in order throughout
\* and not only from neighbour to neighbour.
LEMMA InOrder ==
    ASSUME NEW S \in SUBSET Contestants, NEW M, IsFiniteSet(M), Transitive(Contestants, M),
           NEW t \in Tables(S, M), NEW i \in DOMAIN t, NEW j \in DOMAIN t, i < j
    PROVE  Precedes(t[i], t[j], M)
<1>1. /\ DOMAIN t = 1..Cardinality(S) /\ Cardinality(S) \in Nat
      /\ \A k \in DOMAIN t : t[k] \in Contestants
      /\ \A k, l \in DOMAIN t : t[k] = t[l] => k = l
      /\ \A k \in 1..(Cardinality(S) - 1) : ~Precedes(t[k + 1], t[k], M)
  BY ContestantsCounted DEF Tables
<1>2. ASSUME NEW k \in 1..(Cardinality(S) - 1)
      PROVE  Precedes(t[k], t[k + 1], M)
  <2>1. k \in DOMAIN t /\ k + 1 \in DOMAIN t /\ k # k + 1
    BY <1>1
  <2>2. t[k] # t[k + 1] /\ t[k] \in Contestants /\ t[k + 1] \in Contestants
    BY <1>1, <2>1
  <2> QED
    BY <1>1, <2>2, OneIsAhead
<1> DEFINE Bad == {l \in DOMAIN t : i < l /\ ~Precedes(t[i], t[l], M)}
<1>3. SUFFICES Bad = {}
  OBVIOUS
<1>4. SUFFICES ASSUME Bad # {}
               PROVE  FALSE
  OBVIOUS
<1>5. PICK l \in Bad : \A k \in Bad : l <= k
  <2>1. Bad \subseteq Nat
    BY <1>1
  <2> HIDE DEF Bad
  <2> QED
    BY <1>4, <2>1, LeastNumber
<1>6. l \in DOMAIN t /\ i < l /\ ~Precedes(t[i], t[l], M) /\ i \in Nat /\ l \in Nat /\ i >= 1
  BY <1>1, <1>5
<1>7. CASE l = i + 1
  <2>1. i \in 1..(Cardinality(S) - 1)
    BY <1>1, <1>6, <1>7
  <2> QED
    BY <1>2, <1>6, <1>7, <2>1
<1>8. CASE l # i + 1
  <2>1. /\ l - 1 \in DOMAIN t /\ i < l - 1 /\ l - 1 \in 1..(Cardinality(S) - 1)
        /\ (l - 1) + 1 = l /\ ~(l <= l - 1)
    BY <1>1, <1>6, <1>8
  <2>2. Precedes(t[i], t[l - 1], M)
    BY <1>5, <2>1
  <2>3. Precedes(t[l - 1], t[l], M)
    BY <1>2, <2>1
  <2>4. t[i] \in Contestants /\ t[l - 1] \in Contestants /\ t[l] \in Contestants
    BY <1>1, <1>6, <2>1
  <2> QED
    BY <1>6, <2>2, <2>3, <2>4 DEF Transitive
<1> QED
  BY <1>7, <1>8

LEMMA EveryoneListed ==
    ASSUME NEW S \in SUBSET Contestants, NEW M, NEW t \in Tables(S, M), NEW a \in S
    PROVE  \E i \in DOMAIN t : t[i] = a
<1> DEFINE n == Cardinality(S)
<1>1. IsFiniteSet(S) /\ n \in Nat /\ t \in [1..n -> S]
      /\ \A i, j \in 1..n : t[i] = t[j] => i = j
  BY ContestantsCounted DEF Tables
<1>2. t \in Injection(1..n, S)
  BY <1>1 DEF Injection, IsInjective
<1>3. Cardinality(1..n) = n
  BY <1>1, FS_Interval
<1>4. t \in Surjection(1..n, S)
  BY <1>1, <1>2, <1>3, FS_Injection
<1> QED
  BY <1>4 DEF Surjection

\* So there is one table.
LEMMA OneTable ==
    ASSUME NEW S \in SUBSET Contestants, NEW M, IsFiniteSet(M), Transitive(Contestants, M),
           NEW t \in Tables(S, M), NEW u \in Tables(S, M)
    PROVE  t = u
<1>1. /\ DOMAIN t = 1..Cardinality(S) /\ DOMAIN u = 1..Cardinality(S)
      /\ Cardinality(S) \in Nat
      /\ t \in [1..Cardinality(S) -> S] /\ u \in [1..Cardinality(S) -> S]
      /\ \A k, l \in DOMAIN t : t[k] = t[l] => k = l
      /\ \A k, l \in DOMAIN u : u[k] = u[l] => k = l
  BY ContestantsCounted DEF Tables
<1> DEFINE Bad == {k \in DOMAIN t : t[k] # u[k]}
<1>2. SUFFICES ASSUME Bad # {}
               PROVE  FALSE
  BY <1>1
<1>3. PICK k \in Bad : \A l \in Bad : k <= l
  <2>1. Bad \subseteq Nat
    BY <1>1
  <2> HIDE DEF Bad
  <2> QED
    BY <1>2, <2>1, LeastNumber
<1>4. k \in DOMAIN t /\ t[k] # u[k] /\ t[k] \in S /\ u[k] \in S
  BY <1>1, <1>3
<1>5. ASSUME NEW v \in Tables(S, M), NEW w \in Tables(S, M), v[k] # w[k],
             \A l \in 1..Cardinality(S) : l < k => v[l] = w[l]
      PROVE  Precedes(v[k], w[k], M)
  <2>1. /\ DOMAIN v = 1..Cardinality(S) /\ DOMAIN w = 1..Cardinality(S) /\ w[k] \in S
        /\ \A i, j \in DOMAIN w : w[i] = w[j] => i = j
    BY <1>1, <1>4 DEF Tables
  <2>2. PICK j \in DOMAIN v : v[j] = w[k]
    BY <2>1, EveryoneListed
  <2>3. ~(j < k)
    <3>1. j < k => w[j] = w[k] /\ j \in DOMAIN w
      BY <1>5, <2>1, <2>2
    <3> QED
      BY <1>1, <1>4, <2>1, <3>1
  <2>4. j # k /\ k \in DOMAIN v
    BY <1>1, <1>4, <1>5, <2>1, <2>2
  <2>5. k < j
    BY <1>1, <2>1, <2>3, <2>4
  <2> QED
    BY <2>2, <2>4, <2>5, InOrder
<1>6. \A l \in 1..Cardinality(S) : l < k => t[l] = u[l]
  <2> SUFFICES ASSUME NEW l \in 1..Cardinality(S), l < k, t[l] # u[l]
               PROVE  FALSE
    OBVIOUS
  <2>1. k <= l
    BY <1>1, <1>3
  <2> QED
    BY <1>1, <1>4, <2>1
<1>7. Precedes(t[k], u[k], M)
  BY <1>4, <1>5, <1>6
<1>8. Precedes(u[k], t[k], M)
  BY <1>4, <1>5, <1>6
<1> QED
  BY <1>4, <1>7, <1>8, OneIsAhead

\* Recalculations from the same matches, for the same agents, store the same
\* table, in whatever order the map of the standings was iterated, unless agents
\* have beaten each other in a circle (rankings.go).
THEOREM TablesAreUnique == RankSpec => []TablesAgree
<1>1. TableInv => TablesAgree
  <2> SUFFICES ASSUME TableInv, NEW r \in Recalcs, NEW q \in Recalcs,
                      calc[r].matches = calc[q].matches,
                      {calc[r].order[i] : i \in DOMAIN calc[r].order}
                          = {calc[q].order[i] : i \in DOMAIN calc[q].order},
                      Transitive(Contestants, calc[r].matches)
               PROVE  calc[r].order = calc[q].order
    BY DEF TablesAgree
  <2> DEFINE M == calc[r].matches
             t == calc[r].order
             u == calc[q].order
  <2>1. M \subseteq Committed /\ IsFiniteSet(M) /\ t \in Seq(Contestants) /\ u \in Seq(Contestants)
    <3>1. M \in SUBSET Committed /\ IsFiniteSet(Committed)
      BY DEF TableInv, CalcTyped, RankTypeOK
    <3> QED
      BY <3>1, FS_Subset DEF TableInv, CalcTyped, RankTypeOK
  <2>2. CASE t = <<>> \/ u = <<>>
    <3>1. DOMAIN t = 1..Len(t) /\ DOMAIN u = 1..Len(u) /\ Len(t) \in Nat /\ Len(u) \in Nat
      BY <2>1
    <3>2. DOMAIN t = {} <=> DOMAIN u = {}
      <4>1. \A i \in DOMAIN t : t[i] \in {u[j] : j \in DOMAIN u}
        OBVIOUS
      <4>2. \A j \in DOMAIN u : u[j] \in {t[i] : i \in DOMAIN t}
        OBVIOUS
      <4> HIDE DEF t, u
      <4> QED
        BY <4>1, <4>2
    <3>3. (t = <<>> <=> DOMAIN t = {}) /\ (u = <<>> <=> DOMAIN u = {})
      BY <2>1, <3>1
    <3> QED
      BY <2>2, <3>2, <3>3
  <2>3. CASE t # <<>> /\ u # <<>>
    <3>1. t \in Tables(Listed(r), M) /\ u \in Tables(Listed(q), M)
      BY <2>3 DEF TableInv, OrdersSorted, NotWritten
    <3>2. Listed(r) \in SUBSET Contestants /\ Listed(q) \in SUBSET Contestants
      BY ListedTyped DEF TableInv
    <3>3. Listed(r) = {t[i] : i \in DOMAIN t}
      <4>1. \A i \in DOMAIN t : t[i] \in Listed(r)
        <5>1. t \in [1..Cardinality(Listed(r)) -> Listed(r)]
          BY <3>1 DEF Tables
        <5> HIDE DEF t
        <5> QED
          BY <5>1
      <4>2. \A a \in Listed(r) : \E i \in DOMAIN t : t[i] = a
        BY <3>1, <3>2, EveryoneListed
      <4> QED
        BY <4>1, <4>2
    <3>4. Listed(q) = {u[i] : i \in DOMAIN u}
      <4>1. \A i \in DOMAIN u : u[i] \in Listed(q)
        <5>1. u \in [1..Cardinality(Listed(q)) -> Listed(q)]
          BY <3>1 DEF Tables
        <5> HIDE DEF u
        <5> QED
          BY <5>1
      <4>2. \A a \in Listed(q) : \E i \in DOMAIN u : u[i] = a
        BY <3>1, <3>2, EveryoneListed
      <4> QED
        BY <4>1, <4>2
    <3>5. Listed(r) = Listed(q)
      BY <3>3, <3>4
    <3> QED
      BY <2>1, <3>1, <3>2, <3>5, OneTable
  <2> QED
    BY <2>2, <2>3
<1> QED
  BY <1>1, TableSafe, PTL

\* A recalculation that listed the entries and that no other one overlaps leaves a
\* whole table behind, whatever half of one was there before; of the enrolments
\* that wrote a first row meanwhile, only the agents' own rows say something else
\* (RecalculateContestRankings, EnrollAgent).
THEOREM SoleRecalculationRepairs == RankSpec => []RecalculationRepairs
<1>1. TableInv => RecalculationRepairs
  <2> SUFFICES ASSUME TableInv, NEW r \in Recalcs, sole = r, calc[r].pc = "done",
                      NEW a \in Contestants \ restarted, board[a] # NoRow
               PROVE  \E i \in DOMAIN calc[r].order :
                          /\ calc[r].order[i] = a
                          /\ board[a] = [counted |-> calc[r].matches, rank |-> i]
    BY DEF RecalculationRepairs
  <2>1. /\ calc[r].order \in Seq(Contestants) /\ calc[r].next = Len(calc[r].order) + 1
        /\ calc[r].order \in Tables(Listed(r), calc[r].matches)
    BY DEF TableInv, CalcTyped, RankTypeOK, NotWritten, OrdersSorted
  <2>2. a \in Listed(r)
    <3>1. Found(r) = Listed(r)
      BY DEF Found, Listed
    <3> QED
      BY <3>1 DEF TableInv, SoleAlone
  <2>3. PICK i \in DOMAIN calc[r].order : calc[r].order[i] = a
    BY <2>1, <2>2, ListedTyped, EveryoneListed DEF TableInv
  <2>4. i < calc[r].next
    BY <2>1
  <2> QED
    BY <2>3, <2>4 DEF TableInv, SoleAlone
<1> QED
  BY <1>1, TableSafe, PTL

\* Versions are 1, 2, ... without a gap and each has one snapshot, however many
\* publications read the table at a time (PublishRankingSnapshot).
THEOREM SnapshotsDense == RankSpec => []VersionsDense
<1>1. SnapshotsNumbered => VersionsDense
  BY DEF SnapshotsNumbered
<1> QED
  BY <1>1, SnapshotsSafe, PTL

\* The rows and the recalculations keep to their types.
THEOREM RankTyped == RankSpec => []RankTypeOK
<1>1. TableInv => RankTypeOK
  BY DEF TableInv, CalcTyped
<1> QED
  BY <1>1, TableSafe, PTL
==================================================================================
