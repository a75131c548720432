----------------------------- MODULE CountProofs -----------------------------
(***************************************************************************)
(* Proofs about a subject's records and the cached count of them: no       *)
(* credential is recorded twice, the active records respect the cap, the   *)
(* count never exceeds the unrevoked records, it is exact for a subject    *)
(* whose credentials the registry never saw, the protocol's statistics     *)
(* are exact, and nothing undoes a revocation.                             *)
(***************************************************************************)
EXTENDS CredentialProofs

USE DEF regVars, regConfig, regEntries, idVars, idConfig, idIssuers, idCredentials, idSubjects, vars

-----------------------------------------------------------------------------
(* What a step does to the records and to the registry's answers.          *)

\* The steps that write records or counts.
LEMMA RecordSteps ==
  ASSUME [Next]_vars
  PROVE  \/ \E i \in Issuer, s \in Subject, h \in Hash, t \in CredType :
              AnchorVcTyped(i, s, h, t) /\ UNCHANGED elsewhere
         \/ \E i \in Issuer, s \in Subject, h \in Hash : MarkRevoked(i, s, h)
         \/ \E s \in Subject : DeactivateCore(s)
         \/ \E s \in Subject : GetActiveVcCount(s)
         \/ UNCHANGED idCredentials
<1>1. CASE IdentityAdminNext
  BY <1>1 DEF IdentityAdminNext, IdInitialize, IdProposeNewAdmin, IdAcceptAdmin, IdSetPaused,
              SetRevocationRegistry, RegisterIssuer, DeregisterIssuer, SetIssuerTier
<1>2. CASE SubjectNext /\ UNCHANGED elsewhere
  <2> PICK s \in Subject :
        \/ \E c \in Cid : AnchorDid(s, c)
        \/ \E i \in Issuer, h \in Hash :
             \/ \E t \in CredType : AnchorVcTyped(i, s, h, t)
             \/ MarkVcRevoked(i, s, h)
             \/ Revoke(i, s, h)
        \/ GetActiveVcCount(s)
        \/ DeactivateDid(s)
        \/ DeactivateIdentity(s)
        \/ ReactivateIdentity(s)
    BY <1>2 DEF SubjectNext
  <2>1. CASE (\E c \in Cid : AnchorDid(s, c)) \/ ReactivateIdentity(s)
    BY <2>1 DEF AnchorDid, ReactivateIdentity
  <2>2. CASE \E i \in Issuer, h \in Hash : MarkVcRevoked(i, s, h) \/ Revoke(i, s, h)
    BY <2>2 DEF MarkVcRevoked, Revoke, MarkedBy
  <2>3. CASE DeactivateDid(s) \/ DeactivateIdentity(s)
    BY <2>3 DEF DeactivateDid, DeactivateIdentity
  <2>4. CASE \E i \in Issuer, h \in Hash, t \in CredType : AnchorVcTyped(i, s, h, t)
    BY <1>2, <2>4
  <2>5. CASE GetActiveVcCount(s)
    BY <2>5
  <2> QED BY <2>1, <2>2, <2>3, <2>4, <2>5
<1>3. ASSUME NEW r \in OtherRegistry, NEW i \in Issuer, NEW s \in Subject, NEW h \in Hash,
             RevokeElsewhere(r, i, s, h)
      PROVE  MarkRevoked(i, s, h) \/ UNCHANGED idVars
  BY <1>3 DEF RevokeElsewhere, MarkedBy
<1> QED BY <1>1, <1>2, <1>3 DEF Next, Tick

\* The linked registry's answer to is_revoked after a step.
RevokedAfter(h) ==
  \/ revocationRegistryId' = ThisRegistry /\ status'[h]
  \/ revocationRegistryId' \in OtherRegistry /\ h \in elsewhere'[revocationRegistryId']

\* No registry clears a status; an oracle that stays with its registry
\* never hears the contrary of an answer "revoked".
LEMMA AnswersGrow ==
  ASSUME TypeOK, [Next]_vars
  PROVE  /\ \A h \in Hash : status[h] => status'[h]
         /\ \A r \in OtherRegistry : elsewhere[r] \subseteq elsewhere'[r]
         /\ revocationRegistryId' = revocationRegistryId =>
              \A h \in Hash : RegistryRevoked(h) => RevokedAfter(h)
<1>1. \A h \in Hash : status[h] => status'[h]
  BY RegistrySteps DEF RecordRevocations, TypeOK, RegTypeOK
<1>2. ASSUME NEW r \in OtherRegistry, NEW i \in Issuer, NEW s \in Subject, NEW h \in Hash,
             RevokeElsewhere(r, i, s, h)
      PROVE  \A q \in OtherRegistry : elsewhere[q] \subseteq elsewhere'[q]
  BY <1>2 DEF RevokeElsewhere, TypeOK, ElsewhereTypeOK
<1>3. \A r \in OtherRegistry : elsewhere[r] \subseteq elsewhere'[r]
  BY <1>2 DEF Next
<1> QED BY <1>1, <1>3 DEF RegistryRevoked, RevokedAfter, IsRevoked

\* The slots of a sequence that got one more record.
LEMMA AppendedSlots ==
  ASSUME NEW a \in Seq(Record), NEW r \in Record
  PROVE  LET b == Append(a, r) IN
         /\ b \in Seq(Record)
         /\ DOMAIN b = DOMAIN a \cup {Len(a) + 1}
         /\ Len(a) + 1 \notin DOMAIN a
         /\ \A k \in DOMAIN a : b[k] = a[k]
         /\ b[Len(a) + 1] = r
         /\ Len(b) = Len(a) + 1
<1> DEFINE b == Append(a, r)
<1>1. /\ b \in Seq(Record) /\ Len(b) = Len(a) + 1
      /\ \A k \in 1..Len(a) : b[k] = a[k]
      /\ b[Len(a) + 1] = r
  BY AppendProperties
<1>2. /\ DOMAIN a = 1..Len(a) /\ Len(a) \in Nat
      /\ DOMAIN b = 1..Len(b)
  BY <1>1, LenProperties
<1> HIDE DEF b
<1>3. QED
  BY <1>1, <1>2 DEF b

\* An unrevoked record appended is one more unrevoked record.
LEMMA AppendUnrevoked ==
  ASSUME NEW a \in Seq(Record), NEW r \in Record, ~r.revoked
  PROVE  Cardinality(UnrevokedSlots(Append(a, r))) = Cardinality(UnrevokedSlots(a)) + 1
<1>1. UnrevokedSlots(Append(a, r)) = UnrevokedSlots(a) \cup {Len(a) + 1}
  BY AppendedSlots DEF UnrevokedSlots
<1>2. Len(a) + 1 \notin UnrevokedSlots(a)
  BY AppendedSlots DEF UnrevokedSlots
<1> QED BY <1>1, <1>2, SlotCounts, FS_AddElement

\* Marking changes one record at most, which is then revoked.
LEMMA MarkedOne ==
  ASSUME NEW a \in Seq(Record), NEW i, NEW h,
         \A j, k \in DOMAIN a : SameCredential(a[j], a[k]) => j = k,
         Marked(a, i, h) # a
  PROVE  \E k \in DOMAIN a :
           /\ ~a[k].revoked /\ Marked(a, i, h)[k].revoked
           /\ \A j \in DOMAIN a : j # k => Marked(a, i, h)[j] = a[j]
<1> DEFINE m == Marked(a, i, h)
<1>1. /\ DOMAIN m = DOMAIN a /\ Len(m) = Len(a)
      /\ m \in Seq(Record)
  BY MarkedType
<1>2. DOMAIN a = 1..Len(a)
  BY LenProperties
<1>3. PICK k \in DOMAIN a : m[k] # a[k]
  BY <1>1, <1>2, SeqEqual
<1>4. ASSUME NEW j \in DOMAIN a
      PROVE  /\ a[j] \in Record
             /\ m[j] = IF a[j].hash = h /\ a[j].issuer = i
                       THEN [a[j] EXCEPT !.revoked = TRUE] ELSE a[j]
  BY <1>2, LenProperties DEF Marked
<1>5. a[k].hash = h /\ a[k].issuer = i
  BY <1>3, <1>4
<1>6. m[k].revoked
  BY <1>3, <1>4, <1>5, FlagSet
<1>7. ~a[k].revoked
  <2> SUFFICES ASSUME a[k].revoked PROVE FALSE
    OBVIOUS
  <2>1. a[k].revoked = TRUE
    BY <1>4 DEF Record
  <2>2. [a[k] EXCEPT !.revoked = TRUE] = a[k]
    BY <1>4, <2>1 DEF Record
  <2> QED BY <1>3, <1>4, <2>2
<1>8. ASSUME NEW j \in DOMAIN a, j # k
      PROVE  m[j] = a[j]
  BY <1>4, <1>5, <1>8 DEF SameCredential
<1> QED BY <1>6, <1>7, <1>8

\* Marking the one unrevoked record of a credential leaves one unrevoked
\* record less.
LEMMA MarkedUnrevoked ==
  ASSUME NEW a \in Seq(Record), NEW i, NEW h,
         \A j, k \in DOMAIN a : SameCredential(a[j], a[k]) => j = k,
         Marked(a, i, h) # a
  PROVE  /\ Cardinality(UnrevokedSlots(Marked(a, i, h))) = Cardinality(UnrevokedSlots(a)) - 1
         /\ Cardinality(UnrevokedSlots(a)) # 0
<1> DEFINE m == Marked(a, i, h)
<1>1. DOMAIN m = DOMAIN a
  BY MarkedType
<1>2. PICK k \in DOMAIN a :
        ~a[k].revoked /\ m[k].revoked /\ \A j \in DOMAIN a : j # k => m[j] = a[j]
  BY MarkedOne
<1>3. UnrevokedSlots(m) = UnrevokedSlots(a) \ {k} /\ k \in UnrevokedSlots(a)
  BY <1>1, <1>2 DEF UnrevokedSlots
<1>4. IsFiniteSet(UnrevokedSlots(a)) /\ Cardinality(UnrevokedSlots(a)) \in Nat
  BY SlotCounts
<1>5. Cardinality(UnrevokedSlots(a) \ {k}) = Cardinality(UnrevokedSlots(a)) - 1
  BY <1>3, <1>4, FS_RemoveElement
<1>6. Cardinality(UnrevokedSlots(a)) # 0
  BY <1>3, <1>4, FS_EmptySet
<1> QED BY <1>3, <1>5, <1>6

\* No record of a deactivated subject is left unrevoked.
LEMMA AllRevokedUnrevoked ==
  ASSUME NEW a \in Seq(Record)
  PROVE  Cardinality(UnrevokedSlots(AllRevoked(a))) = 0
<1>1. UnrevokedSlots(AllRevoked(a)) = {}
  BY AllRevokedType DEF UnrevokedSlots
<1> QED BY <1>1, FS_EmptySet

-----------------------------------------------------------------------------
(* The effect of a step on one subject.                                    *)

\* Nothing; the count seeded; a record appended; one flag set; all flags set.
Kept(s) == vcAnchors'[s] = vcAnchors[s] /\ activeVCCount'[s] = activeVCCount[s]

Seeded(s) ==
  /\ vcAnchors'[s] = vcAnchors[s]
  /\ activeVCCount[s] = NoCount
  /\ activeVCCount'[s] = ComputeActiveVcCount(vcAnchors[s])

Extended(s, r) ==
  /\ ~r.revoked
  /\ \A k \in DOMAIN vcAnchors[s] : ~SameCredential(vcAnchors[s][k], r)
  /\ BelowCap(s)
  /\ vcAnchors'[s] = Append(vcAnchors[s], r)
  /\ activeVCCount'[s] = CountAfterAnchor(s, r, vcAnchors'[s])
  /\ UNCHANGED <<revocationRegistryId, status, elsewhere>>

Flagged(s, i, h) ==
  /\ vcAnchors'[s] = Marked(vcAnchors[s], i, h)
  /\ vcAnchors'[s] # vcAnchors[s]
  /\ activeVCCount[s] # 0
  /\ activeVCCount'[s] = CountAfterMark(s, vcAnchors'[s])

Emptied(s) == vcAnchors'[s] = AllRevoked(vcAnchors[s]) /\ activeVCCount'[s] = 0

\* What a step may do to one subject's records and count: nothing, seed the
\* count, append a record, flag one, or empty the count with every record.
LEMMA SubjectEffect ==
  ASSUME TypeOK, [Next]_vars, NEW q \in Subject
  PROVE  \/ Kept(q)
         \/ Seeded(q)
         \/ \E r \in Record : Extended(q, r)
         \/ \E i \in Issuer, h \in Hash : Flagged(q, i, h)
         \/ Emptied(q)
<1> USE DEF TypeOK, IdTypeOK
<1>1. ASSUME NEW i \in Issuer, NEW s \in Subject, NEW h \in Hash, NEW t \in CredType,
             AnchorVcTyped(i, s, h, t) /\ UNCHANGED elsewhere
      PROVE  Kept(q) \/ \E r \in Record : Extended(q, r)
  <2>1. CASE q # s
    BY <1>1, <2>1 DEF AnchorVcTyped, Kept
  <2>2. CASE q = s
    <3> DEFINE r == [hash |-> h, issuer |-> i, revoked |-> FALSE]
    <3>1. r \in Record /\ ~r.revoked
      BY DEF Record
    <3>2. \A k \in DOMAIN vcAnchors[s] : ~SameCredential(vcAnchors[s][k], r)
      BY <1>1 DEF AnchorVcTyped, AlreadyAnchored, SameCredential
    <3>3. BelowCap(s) /\ UNCHANGED <<revocationRegistryId, status, elsewhere>>
      BY <1>1 DEF AnchorVcTyped
    <3>4. vcAnchors'[s] = Append(vcAnchors[s], r)
      BY <1>1 DEF AnchorVcTyped
    <3>5. activeVCCount'[s] = CountAfterAnchor(s, r, Append(vcAnchors[s], r))
      BY <1>1 DEF AnchorVcTyped
    <3> HIDE DEF r
    <3>6. Extended(s, r)
      BY <3>1, <3>2, <3>3, <3>4, <3>5 DEF Extended
    <3> QED BY <2>2, <3>1, <3>6
  <2> QED BY <2>1, <2>2
<1>2. ASSUME NEW i \in Issuer, NEW s \in Subject, NEW h \in Hash, MarkRevoked(i, s, h)
      PROVE  Kept(q) \/ Seeded(q) \/ Flagged(q, i, h)
  <2> DEFINE m == Marked(vcAnchors[s], i, h)
  <2>0. vcAnchors' = [vcAnchors EXCEPT ![s] = m]
    BY <1>2 DEF MarkRevoked
  <2>1. \/ /\ m # vcAnchors[s]
           /\ activeVCCount[s] # 0
           /\ activeVCCount' = [activeVCCount EXCEPT ![s] = CountAfterMark(s, m)]
        \/ /\ m = vcAnchors[s]
           /\ activeVCCount' = [activeVCCount EXCEPT ![s] =
                                  IF @ = NoCount THEN ComputeActiveVcCount(m) ELSE @]
    BY <1>2 DEF MarkRevoked
  <2> HIDE DEF m
  <2>2. CASE q # s
    BY <2>0, <2>1, <2>2 DEF Kept
  <2>3. CASE q = s
    <3>1. vcAnchors'[s] = m
      BY <2>0
    <3>2. CASE m # vcAnchors[s]
      <4>1. activeVCCount[s] # 0 /\ activeVCCount'[s] = CountAfterMark(s, m)
        BY <2>1, <3>2
      <4> QED BY <2>3, <3>1, <3>2, <4>1 DEF Flagged, m
    <3>3. CASE m = vcAnchors[s]
      <4>1. activeVCCount'[s] = IF activeVCCount[s] = NoCount
                                THEN ComputeActiveVcCount(m) ELSE activeVCCount[s]
        BY <2>1, <3>3
      <4> QED BY <2>3, <3>1, <3>3, <4>1 DEF Kept, Seeded
    <3> QED BY <3>2, <3>3
  <2> QED BY <2>2, <2>3
<1>3. ASSUME NEW s \in Subject, DeactivateCore(s)
      PROVE  Kept(q) \/ Emptied(q)
  BY <1>3 DEF DeactivateCore, Kept, Emptied
<1>4. ASSUME NEW s \in Subject, GetActiveVcCount(s)
      PROVE  Kept(q) \/ Seeded(q)
  BY <1>4 DEF GetActiveVcCount, Kept, Seeded
<1>5. CASE UNCHANGED idCredentials
  BY <1>5 DEF Kept
<1> QED BY <1>1, <1>2, <1>3, <1>4, <1>5, RecordSteps

\* Type facts about one subject, now and after the step.
LEMMA SubjectTypes ==
  ASSUME TypeOK, [Next]_vars, NEW q \in Subject
  PROVE  /\ vcAnchors[q] \in Seq(Record) /\ vcAnchors'[q] \in Seq(Record)
         /\ activeVCCount[q] \in Nat \cup {NoCount}
         /\ activeVCCount'[q] \in Nat \cup {NoCount}
<1>1. TypeOK'
  BY TypeNext
<1> QED BY <1>1 DEF TypeOK, IdTypeOK

-----------------------------------------------------------------------------
(* The invariants.                                                         *)

NoDuplicates(anchors) ==
  \A j, k \in DOMAIN anchors : SameCredential(anchors[j], anchors[k]) => j = k

\* Only an append adds a record, and anchoring refuses a credential that is there.
LEMMA NoDuplicateStep == TypeOK /\ NoDuplicateAnchor /\ [Next]_vars => NoDuplicateAnchor'
<1> SUFFICES ASSUME TypeOK, NoDuplicateAnchor, [Next]_vars, NEW q \in Subject
             PROVE  NoDuplicates(vcAnchors'[q])
  BY DEF NoDuplicateAnchor, NoDuplicates
<1>0. /\ NoDuplicates(vcAnchors[q])
      /\ vcAnchors[q] \in Seq(Record) /\ vcAnchors'[q] \in Seq(Record)
  BY SubjectTypes DEF NoDuplicateAnchor, NoDuplicates
<1>1. CASE Kept(q) \/ Seeded(q)
  BY <1>0, <1>1 DEF Kept, Seeded
<1>2. ASSUME NEW r \in Record, Extended(q, r)
      PROVE  NoDuplicates(vcAnchors'[q])
  <2> DEFINE a == vcAnchors[q]
             b == vcAnchors'[q]
             n == Len(a) + 1
  <2>1. /\ DOMAIN b = DOMAIN a \cup {n}
        /\ \A k \in DOMAIN a : b[k] = a[k]
        /\ b[n] = r
    BY <1>0, <1>2, AppendedSlots DEF Extended
  <2>2. \A k \in DOMAIN a : ~SameCredential(a[k], r)
    BY <1>2 DEF Extended
  <2> HIDE DEF a, b, n
  <2>3. NoDuplicates(a)
    BY <1>0 DEF a
  <2>4. NoDuplicates(b)
    BY <2>1, <2>2, <2>3 DEF NoDuplicates, SameCredential
  <2> QED BY <2>4 DEF b
<1>3. ASSUME NEW b, b = vcAnchors'[q], DOMAIN b = DOMAIN vcAnchors[q],
             \A k \in DOMAIN vcAnchors[q] : SameCredential(b[k], vcAnchors[q][k])
      PROVE  NoDuplicates(vcAnchors'[q])
  BY <1>0, <1>3 DEF NoDuplicates, SameCredential
<1>4. ASSUME NEW i \in Issuer, NEW h \in Hash, Flagged(q, i, h)
      PROVE  NoDuplicates(vcAnchors'[q])
  BY <1>0, <1>3, <1>4, MarkedType DEF Flagged
<1>5. CASE Emptied(q)
  BY <1>0, <1>3, <1>5, AllRevokedType DEF Emptied
<1> QED BY <1>1, <1>2, <1>4, <1>5, SubjectEffect

\* No subject ever has two records of one credential of one issuer.
THEOREM AnchorsUnique == Spec => []NoDuplicateAnchor
<1>1. Init => NoDuplicateAnchor
  BY IdentityAssumption DEF Init, IdInit, NoDuplicateAnchor
<1> QED BY <1>1, NoDuplicateStep, TypeCorrect, PTL DEF Spec

\* A count changes with the records: one up for an append, one down for the
\* only record that a mark flags, to zero when all are flagged.
LEMMA CountWithinStep ==
  TypeOK /\ NoDuplicateAnchor /\ CountWithinUnrevoked /\ [Next]_vars => CountWithinUnrevoked'
<1> SUFFICES ASSUME TypeOK, NoDuplicateAnchor, CountWithinUnrevoked, [Next]_vars,
                    NEW q \in Subject
             PROVE  activeVCCount'[q] <= Cardinality(UnrevokedSlots(vcAnchors'[q]))
  BY DEF CountWithinUnrevoked, UnrevokedSlots
<1> DEFINE a == vcAnchors[q]
           b == vcAnchors'[q]
<1>0. /\ a \in Seq(Record) /\ b \in Seq(Record)
      /\ activeVCCount[q] \in Nat \cup {NoCount}
      /\ activeVCCount[q] <= Cardinality(UnrevokedSlots(a))
      /\ NoDuplicates(a)
  BY SubjectTypes DEF CountWithinUnrevoked, NoDuplicateAnchor, NoDuplicates
<1>1. /\ Cardinality(UnrevokedSlots(a)) \in Nat
      /\ ComputeActiveVcCount(a) <= Cardinality(UnrevokedSlots(a))
      /\ Cardinality(UnrevokedSlots(b)) \in Nat
      /\ ComputeActiveVcCount(b) <= Cardinality(UnrevokedSlots(b))
      /\ ComputeActiveVcCount(b) \in Nat
  BY <1>0, SlotCounts
<1>2. CASE Kept(q)
  BY <1>0, <1>2 DEF Kept
<1>3. CASE Seeded(q)
  BY <1>1, <1>3 DEF Seeded
<1>4. ASSUME NEW r \in Record, Extended(q, r)
      PROVE  activeVCCount'[q] <= Cardinality(UnrevokedSlots(b))
  <2>1. Cardinality(UnrevokedSlots(b)) = Cardinality(UnrevokedSlots(a)) + 1
    BY <1>0, <1>4, AppendUnrevoked DEF Extended
  <2>2. activeVCCount'[q] = CountAfterAnchor(q, r, b)
    BY <1>4 DEF Extended
  <2> HIDE DEF a, b
  <2> QED BY <1>0, <1>1, <2>1, <2>2 DEF CountAfterAnchor, NoCount
<1>5. ASSUME NEW i \in Issuer, NEW h \in Hash, Flagged(q, i, h)
      PROVE  activeVCCount'[q] <= Cardinality(UnrevokedSlots(b))
  <2>1. Cardinality(UnrevokedSlots(b)) = Cardinality(UnrevokedSlots(a)) - 1
    BY <1>0, <1>5, MarkedUnrevoked DEF Flagged, NoDuplicates
  <2>2. activeVCCount'[q] = CountAfterMark(q, b)
    BY <1>5 DEF Flagged
  <2> HIDE DEF a, b
  <2> QED BY <1>0, <1>1, <2>1, <2>2 DEF CountAfterMark, NoCount
<1>6. CASE Emptied(q)
  BY <1>0, <1>6, AllRevokedUnrevoked DEF Emptied
<1> QED BY <1>2, <1>3, <1>4, <1>5, <1>6, SubjectEffect

\* The cached count never exceeds the number of unrevoked records.
THEOREM CountWithin == Spec => []CountWithinUnrevoked
<1>1. Init => CountWithinUnrevoked
  <2> SUFFICES ASSUME Init, NEW s \in Subject
               PROVE  activeVCCount[s] <= Cardinality(UnrevokedSlots(vcAnchors[s]))
    BY DEF CountWithinUnrevoked
  <2>1. activeVCCount[s] = NoCount /\ vcAnchors[s] \in Seq(Record)
    BY IdentityAssumption DEF Init, IdInit
  <2> QED BY <2>1, SlotCounts DEF NoCount
<1> QED BY <1>1, CountWithinStep, AnchorsUnique, TypeCorrect, PTL DEF Spec

\* A hash no registry has revoked, now and after the step.
Clear(h) == ~status[h] /\ \A r \in OtherRegistry : h \notin elsewhere[r]
ClearAfter(h) == ~status'[h] /\ \A r \in OtherRegistry : h \notin elsewhere'[r]

\* None of these records' hashes is revoked in a registry.
Unseen(anchors) == \A k \in DOMAIN anchors : Clear(anchors[k].hash)

\* Then the active records are the unrevoked ones.
LEMMA UnseenActive ==
  ASSUME NEW a, Unseen(a)
  PROVE  ComputeActiveVcCount(a) = Cardinality(UnrevokedSlots(a))
<1>1. ActiveSlots(a) = UnrevokedSlots(a)
  BY DEF Unseen, Clear, ActiveSlots, UnrevokedSlots, RecordRevoked, RegistryRevoked, IsRevoked
<1> QED BY <1>1 DEF ComputeActiveVcCount

\* Records are only appended and their credentials never rewritten.
LEMMA RecordsKept ==
  ASSUME TypeOK, [Next]_vars, NEW q \in Subject
  PROVE  /\ Len(vcAnchors[q]) <= Len(vcAnchors'[q])
         /\ DOMAIN vcAnchors[q] \subseteq DOMAIN vcAnchors'[q]
         /\ \A k \in DOMAIN vcAnchors[q] :
              /\ SameCredential(vcAnchors'[q][k], vcAnchors[q][k])
              /\ vcAnchors[q][k].revoked => vcAnchors'[q][k].revoked
<1>0. vcAnchors[q] \in Seq(Record) /\ Len(vcAnchors[q]) \in Nat
  BY SubjectTypes, LenProperties
<1>1. CASE Kept(q) \/ Seeded(q)
  BY <1>0, <1>1 DEF Kept, Seeded, SameCredential
<1>2. CASE \E r \in Record : Extended(q, r)
  BY <1>0, <1>2, AppendedSlots DEF Extended, SameCredential
<1>3. CASE \E i \in Issuer, h \in Hash : Flagged(q, i, h)
  BY <1>0, <1>3, MarkedType DEF Flagged
<1>4. CASE Emptied(q)
  BY <1>0, <1>4, AllRevokedType DEF Emptied
<1> QED BY <1>1, <1>2, <1>3, <1>4, SubjectEffect

\* Without registry entries the unrevoked records are the active ones, which
\* is what a seeded count holds, whichever registry is asked.
LEMMA CountExactStep ==
  TypeOK /\ NoDuplicateAnchor /\ CountExactWithoutRegistry /\ [Next]_vars
    => CountExactWithoutRegistry'
<1> SUFFICES ASSUME TypeOK, NoDuplicateAnchor, CountExactWithoutRegistry, [Next]_vars,
                    NEW q \in Subject,
                    activeVCCount'[q] # NoCount,
                    \A k \in DOMAIN vcAnchors'[q] : ClearAfter(vcAnchors'[q][k].hash)
             PROVE  activeVCCount'[q] = Cardinality(UnrevokedSlots(vcAnchors'[q]))
  BY DEF CountExactWithoutRegistry, UnrevokedSlots, NoCount, ClearAfter
<1> DEFINE a == vcAnchors[q]
           b == vcAnchors'[q]
<1>0. /\ a \in Seq(Record) /\ b \in Seq(Record)
      /\ activeVCCount[q] \in Nat \cup {NoCount}
      /\ NoDuplicates(a)
  BY SubjectTypes DEF NoDuplicateAnchor, NoDuplicates
<1>1. ASSUME NEW k \in DOMAIN b
      PROVE  b[k].hash \in Hash /\ Clear(b[k].hash)
  <2>1. b[k] \in Record
    BY <1>0, LenProperties
  <2>2. b[k].hash \in Hash
    BY <2>1 DEF Record
  <2> QED BY <2>2, AnswersGrow DEF Clear, ClearAfter
<1>2. Unseen(b)
  BY <1>1 DEF Unseen
<1>3. Unseen(a)
  <2>1. DOMAIN a \subseteq DOMAIN b /\ \A k \in DOMAIN a : b[k].hash = a[k].hash
    BY RecordsKept DEF SameCredential
  <2> QED BY <1>2, <2>1 DEF Unseen
<1>4. activeVCCount[q] # NoCount => activeVCCount[q] = Cardinality(UnrevokedSlots(a))
  BY <1>3 DEF CountExactWithoutRegistry, Unseen, Clear
<1>5. CASE Kept(q)
  BY <1>4, <1>5 DEF Kept
<1>6. CASE Seeded(q)
  BY <1>3, <1>6, UnseenActive DEF Seeded
<1>7. ASSUME NEW r \in Record, Extended(q, r)
      PROVE  activeVCCount'[q] = Cardinality(UnrevokedSlots(b))
  <2>1. Cardinality(UnrevokedSlots(b)) = Cardinality(UnrevokedSlots(a)) + 1
    BY <1>0, <1>7, AppendUnrevoked DEF Extended
  <2>2. activeVCCount'[q] = CountAfterAnchor(q, r, b)
    BY <1>7 DEF Extended
  <2>3. ComputeActiveVcCount(b) = Cardinality(UnrevokedSlots(b))
    BY <1>2, UnseenActive
  <2>4. ~RecordRevoked(r)
    <3>1. b[Len(a) + 1] = r /\ Len(a) + 1 \in DOMAIN b
      BY <1>0, <1>7, AppendedSlots DEF Extended
    <3> QED BY <1>2, <1>7, <3>1 DEF Unseen, Clear, RecordRevoked, RegistryRevoked, IsRevoked, Extended
  <2> HIDE DEF a, b
  <2> QED BY <1>4, <2>1, <2>2, <2>3, <2>4 DEF CountAfterAnchor
<1>8. ASSUME NEW i \in Issuer, NEW h \in Hash, Flagged(q, i, h)
      PROVE  activeVCCount'[q] = Cardinality(UnrevokedSlots(b))
  <2>1. Cardinality(UnrevokedSlots(b)) = Cardinality(UnrevokedSlots(a)) - 1
    BY <1>0, <1>8, MarkedUnrevoked DEF Flagged, NoDuplicates
  <2>2. activeVCCount'[q] = CountAfterMark(q, b)
    BY <1>8 DEF Flagged
  <2>3. ComputeActiveVcCount(b) = Cardinality(UnrevokedSlots(b))
    BY <1>2, UnseenActive
  <2> HIDE DEF a, b
  <2> QED BY <1>4, <2>1, <2>2, <2>3 DEF CountAfterMark
<1>9. CASE Emptied(q)
  BY <1>0, <1>9, AllRevokedUnrevoked DEF Emptied
<1> QED BY <1>5, <1>6, <1>7, <1>8, <1>9, SubjectEffect

\* The cached count is exact for every subject none of whose credentials a
\* registry has revoked: only the registries' own revocations can put it wrong.
THEOREM CountExact == Spec => []CountExactWithoutRegistry
<1>1. Init => CountExactWithoutRegistry
  BY DEF Init, IdInit, CountExactWithoutRegistry
<1> QED BY <1>1, CountExactStep, AnchorsUnique, TypeCorrect, PTL DEF Spec

\* Every write of a subject's records leaves a count behind.
LEMMA AbsentStep == TypeOK /\ CountAbsentOnlyLegacy /\ [Next]_vars => CountAbsentOnlyLegacy'
<1> SUFFICES ASSUME TypeOK, CountAbsentOnlyLegacy, [Next]_vars, NEW q \in Subject,
                    activeVCCount'[q] = NoCount
             PROVE  vcAnchors'[q] = LegacyAnchors[q]
  BY DEF CountAbsentOnlyLegacy, NoCount
<1>0. /\ vcAnchors[q] \in Seq(Record) /\ vcAnchors'[q] \in Seq(Record)
      /\ activeVCCount[q] \in Nat \cup {NoCount}
  BY SubjectTypes
<1>1. ComputeActiveVcCount(vcAnchors[q]) \in Nat /\ ComputeActiveVcCount(vcAnchors'[q]) \in Nat
  BY <1>0, SlotCounts
<1>2. CASE Kept(q)
  BY <1>2 DEF Kept, CountAbsentOnlyLegacy
<1>3. ~Seeded(q)
  BY <1>1 DEF Seeded, NoCount
<1>4. ASSUME NEW r \in Record, Extended(q, r)
      PROVE  FALSE
  BY <1>0, <1>1, <1>4 DEF Extended, CountAfterAnchor, NoCount
<1>5. ASSUME NEW i \in Issuer, NEW h \in Hash, Flagged(q, i, h)
      PROVE  FALSE
  BY <1>0, <1>1, <1>5 DEF Flagged, CountAfterMark, NoCount
<1>6. ~Emptied(q)
  BY DEF Emptied, NoCount
<1> QED BY <1>2, <1>3, <1>4, <1>5, <1>6, SubjectEffect

\* A count is missing only while the subject's records are untouched since the
\* upgrade.
THEOREM AbsentOnlyLegacy == Spec => []CountAbsentOnlyLegacy
<1>1. Init => CountAbsentOnlyLegacy
  BY DEF Init, IdInit, CountAbsentOnlyLegacy
<1> QED BY <1>1, AbsentStep, TypeCorrect, PTL DEF Spec

-----------------------------------------------------------------------------
(* The cap.                                                                *)

\* While the oracle stays with its registry only an append adds an active
\* record, and anchoring has checked the cap.
LEMMA CapStep ==
  ASSUME TypeOK, [Next]_vars, NEW q \in Subject, revocationRegistryId' = revocationRegistryId
  PROVE  \/ Cardinality(ActiveSlots(vcAnchors[q]))' <= Cardinality(ActiveSlots(vcAnchors[q]))
         \/ Cardinality(ActiveSlots(vcAnchors[q]))' <= MAX_VCS_PER_SUBJECT
<1> DEFINE Active2(x) == {k \in DOMAIN x : ~(x[k].revoked \/ RevokedAfter(x[k].hash))}
           a == vcAnchors[q]
           b == vcAnchors'[q]
<1> SUFFICES \/ Cardinality(Active2(b)) <= Cardinality(ActiveSlots(a))
             \/ Cardinality(Active2(b)) <= MAX_VCS_PER_SUBJECT
  BY DEF ActiveSlots, RecordRevoked, RegistryRevoked, RevokedAfter, IsRevoked
<1> USE IdentityAssumption
<1>0. a \in Seq(Record) /\ b \in Seq(Record)
  BY SubjectTypes
<1>1. /\ IsFiniteSet(ActiveSlots(a))
      /\ Cardinality(ActiveSlots(a)) \in Nat
  BY <1>0, SlotCounts DEF ComputeActiveVcCount
<1>2. ASSUME NEW k \in DOMAIN a, k \in Active2(b)
      PROVE  k \in ActiveSlots(a)
  <2>1. SameCredential(b[k], a[k]) /\ (a[k].revoked => b[k].revoked)
    BY RecordsKept
  <2>2. a[k] \in Record
    BY <1>0, LenProperties
  <2>3. a[k].hash \in Hash
    BY <2>2 DEF Record
  <2>4. ~b[k].revoked /\ ~RevokedAfter(a[k].hash)
    BY <1>2, <2>1 DEF SameCredential
  <2>5. ~RegistryRevoked(a[k].hash)
    BY <2>3, <2>4, AnswersGrow
  <2> QED BY <2>1, <2>4, <2>5 DEF ActiveSlots, RecordRevoked
<1>3. CASE DOMAIN b = DOMAIN a
  <2>1. Active2(b) \subseteq ActiveSlots(a)
    BY <1>2, <1>3
  <2> QED BY <1>1, <2>1, FS_Subset
<1>4. ASSUME NEW r \in Record, Extended(q, r)
      PROVE  Cardinality(Active2(b)) <= MAX_VCS_PER_SUBJECT
  <2> DEFINE n == Len(a) + 1
  <2>1. DOMAIN b = DOMAIN a \cup {n} /\ n \notin DOMAIN a
    BY <1>0, <1>4, AppendedSlots DEF Extended
  <2>2. Active2(b) \subseteq ActiveSlots(a) \cup {n}
    BY <1>2, <2>1
  <2>3. n \notin ActiveSlots(a)
    BY <2>1 DEF ActiveSlots
  <2>4. /\ IsFiniteSet(ActiveSlots(a) \cup {n})
        /\ Cardinality(ActiveSlots(a) \cup {n}) = Cardinality(ActiveSlots(a)) + 1
    BY <1>1, <2>3, FS_AddElement
  <2>5. /\ Cardinality(Active2(b)) <= Cardinality(ActiveSlots(a) \cup {n})
        /\ IsFiniteSet(Active2(b))
    BY <2>2, <2>4, FS_Subset
  <2>6. Cardinality(Active2(b)) \in Nat
    BY <2>5, FS_CardinalityType
  <2>7. Cardinality(ActiveSlots(a)) < MAX_VCS_PER_SUBJECT
    BY <1>4 DEF Extended, BelowCap, ComputeActiveVcCount
  <2> HIDE DEF Active2, a, b, n
  <2>8. QED BY <1>1, <2>4, <2>5, <2>6, <2>7
<1>5. CASE Kept(q) \/ Seeded(q)
  BY <1>3, <1>5 DEF Kept, Seeded
<1>6. CASE \E i \in Issuer, h \in Hash : Flagged(q, i, h)
  BY <1>0, <1>3, <1>6, MarkedType DEF Flagged
<1>7. CASE Emptied(q)
  BY <1>0, <1>3, <1>7, AllRevokedType DEF Emptied
<1> QED BY <1>4, <1>5, <1>6, <1>7, SubjectEffect

\* No step but set_revocation_registry makes a subject's active records more
\* numerous than the cap, whichever registry the oracle is linked to and
\* whatever that one and the others revoke.
THEOREM CapRespected == Spec => ActiveCapRespected
<1> DEFINE Active2(x) == {k \in DOMAIN x : ~(x[k].revoked \/ RevokedAfter(x[k].hash))}
           Capped(s) == LET before == Cardinality(ActiveSlots(vcAnchors[s]))
                            after == Cardinality(ActiveSlots(vcAnchors[s]))'
                        IN after > before => after <= MAX_VCS_PER_SUBJECT
<1>1. ASSUME TypeOK, [Next]_vars, revocationRegistryId' = revocationRegistryId,
             NEW s \in Subject
      PROVE  Capped(s)
  <2>1. /\ Cardinality(ActiveSlots(vcAnchors[s])) \in Nat
        /\ Cardinality(ActiveSlots(vcAnchors[s]))' \in Nat
    <3>1. TypeOK'
      BY <1>1, TypeNext
    <3>2. vcAnchors[s] \in Seq(Record) /\ vcAnchors'[s] \in Seq(Record)
      BY <1>1, <3>1 DEF TypeOK, IdTypeOK
    <3>3. Cardinality(ActiveSlots(vcAnchors[s])) \in Nat
      BY <3>2, SlotCounts DEF ComputeActiveVcCount
    <3>4. IsFiniteSet(Active2(vcAnchors'[s]))
      <4>1. IsFiniteSet(DOMAIN vcAnchors'[s])
        BY <3>2, SlotCounts
      <4> QED BY <4>1, FS_Subset
    <3>5. Cardinality(Active2(vcAnchors'[s])) \in Nat
      BY <3>4, FS_CardinalityType
    <3> QED BY <3>3, <3>5 DEF ActiveSlots, RecordRevoked, RegistryRevoked, RevokedAfter, IsRevoked
  <2>2. \/ Cardinality(ActiveSlots(vcAnchors[s]))' <= Cardinality(ActiveSlots(vcAnchors[s]))
        \/ Cardinality(ActiveSlots(vcAnchors[s]))' <= MAX_VCS_PER_SUBJECT
    BY <1>1, CapStep
  <2> QED BY <2>1, <2>2
<1>2. TypeOK /\ [Next]_vars =>
        [revocationRegistryId' = revocationRegistryId => \A s \in Subject : Capped(s)]_vars
  BY <1>1
<1> QED BY <1>2, TypeCorrect, PTL DEF Spec, ActiveCapRespected

-----------------------------------------------------------------------------
(* The protocol's statistics.                                              *)

AnchorTables == [Subject -> Seq(Record)]

\* Finitely many records in all.
LEMMA SlotsFinite ==
  ASSUME NEW a \in AnchorTables
  PROVE  /\ IsFiniteSet(AllSlots(a)) /\ Cardinality(AllSlots(a)) \in Nat
         /\ IsFiniteSet(RevokedSlots(a)) /\ Cardinality(RevokedSlots(a)) \in Nat
<1> DEFINE f == [s \in Subject |-> {s} \X DOMAIN a[s]]
           S == {{s} \X DOMAIN a[s] : s \in Subject}
<1>1. IsFiniteSet(S)
  <2>1. f \in Surjection(Subject, S)
    BY DEF Surjection
  <2> QED BY <2>1, FS_Surjection, IdentityAssumption
<1>2. ASSUME NEW s \in Subject PROVE IsFiniteSet({s} \X DOMAIN a[s])
  <2>1. IsFiniteSet({s}) /\ IsFiniteSet(DOMAIN a[s])
    BY SlotCounts, FS_Singleton DEF AnchorTables
  <2> QED BY <2>1, FS_Product
<1>3. IsFiniteSet(AllSlots(a))
  BY <1>1, <1>2, FS_UNION DEF AllSlots
<1>4. IsFiniteSet(RevokedSlots(a))
  BY <1>3, FS_Subset DEF RevokedSlots
<1> QED BY <1>3, <1>4, FS_CardinalityType

\* A set of positions holds pairs of a subject and an index.
Positions(X) == \A p \in X : \E s \in Subject : \E k : p = <<s, k>>

\* Two sets of positions are equal when they agree on every pair.
LEMMA SamePositions ==
  ASSUME NEW X, NEW Y, Positions(X), Positions(Y),
         \A s \in Subject : \A k : <<s, k>> \in X <=> <<s, k>> \in Y
  PROVE  X = Y
<1>1. ASSUME NEW p \in X PROVE p \in Y
  BY <1>1 DEF Positions
<1>2. ASSUME NEW p \in Y PROVE p \in X
  BY <1>2 DEF Positions
<1> QED BY <1>1, <1>2

\* A position, by subject and index.
LEMMA SlotOf ==
  ASSUME NEW a
  PROVE  /\ Positions(AllSlots(a)) /\ Positions(RevokedSlots(a))
         /\ \A s \in Subject : \A k :
              /\ <<s, k>> \in AllSlots(a) <=> k \in DOMAIN a[s]
              /\ <<s, k>> \in RevokedSlots(a) <=> k \in DOMAIN a[s] /\ a[s][k].revoked
<1>1. \A p : p \in AllSlots(a) <=> \E s \in Subject : p \in {s} \X DOMAIN a[s]
  BY DEF AllSlots
<1>2. Positions(AllSlots(a))
  BY <1>1 DEF Positions
<1>3. RevokedSlots(a) \subseteq AllSlots(a)
  BY DEF RevokedSlots
<1>4. ASSUME NEW s \in Subject, NEW k PROVE <<s, k>> \in AllSlots(a) <=> k \in DOMAIN a[s]
  BY <1>1
<1>5. ASSUME NEW s \in Subject, NEW k
      PROVE  <<s, k>> \in RevokedSlots(a) <=> k \in DOMAIN a[s] /\ a[s][k].revoked
  BY <1>4 DEF RevokedSlots
<1>6. Positions(RevokedSlots(a))
  BY <1>2, <1>3 DEF Positions
<1> QED BY <1>2, <1>4, <1>5, <1>6

\* anchor_vc_typed: one more record, not revoked.
LEMMA AppendStats ==
  ASSUME NEW a \in AnchorTables, NEW b \in AnchorTables, NEW s \in Subject, NEW r \in Record,
         ~r.revoked, b = [a EXCEPT ![s] = Append(a[s], r)]
  PROVE  /\ Cardinality(AllSlots(b)) = Cardinality(AllSlots(a)) + 1
         /\ Cardinality(RevokedSlots(b)) = Cardinality(RevokedSlots(a))
<1> DEFINE n == Len(a[s]) + 1
<1>1. /\ DOMAIN b[s] = DOMAIN a[s] \cup {n} /\ n \notin DOMAIN a[s]
      /\ \A k \in DOMAIN a[s] : b[s][k] = a[s][k]
      /\ b[s][n] = r
  <2>1. a[s] \in Seq(Record) /\ b[s] = Append(a[s], r)
    BY DEF AnchorTables
  <2> QED BY <2>1, AppendedSlots
<1>2. \A q \in Subject : q # s => b[q] = a[q]
  BY DEF AnchorTables
<1> HIDE DEF n
<1>3. AllSlots(b) = AllSlots(a) \cup {<<s, n>>}
  <2>1. Positions(AllSlots(b)) /\ Positions(AllSlots(a) \cup {<<s, n>>})
    BY <1>1, <1>2, SlotOf DEF Positions
  <2>2. ASSUME NEW q \in Subject, NEW j
        PROVE  <<q, j>> \in AllSlots(b) <=> <<q, j>> \in AllSlots(a) \cup {<<s, n>>}
    BY <1>1, <1>2, SlotOf
  <2> QED BY <2>1, <2>2, SamePositions
<1>4. <<s, n>> \notin AllSlots(a)
  BY <1>1, SlotOf
<1>5. RevokedSlots(b) = RevokedSlots(a)
  <2>1. Positions(RevokedSlots(b)) /\ Positions(RevokedSlots(a))
    BY <1>1, <1>2, SlotOf DEF Positions
  <2>2. ASSUME NEW q \in Subject, NEW j
        PROVE  <<q, j>> \in RevokedSlots(b) <=> <<q, j>> \in RevokedSlots(a)
    <3>1. (j \in DOMAIN b[q] /\ b[q][j].revoked) <=> (j \in DOMAIN a[q] /\ a[q][j].revoked)
      <4>1. CASE q = s
        BY <1>1, <4>1
      <4>2. CASE q # s
        BY <1>2, <4>2
      <4> QED BY <4>1, <4>2
    <3> QED BY <3>1, SlotOf
  <2> QED BY <2>1, <2>2, SamePositions
<1> QED BY <1>3, <1>4, <1>5, SlotsFinite, FS_AddElement

\* mark_vc_revoked: the records stay and one more is revoked.
LEMMA MarkStats ==
  ASSUME NEW a \in AnchorTables, NEW b \in AnchorTables, NEW s \in Subject, NEW i, NEW h,
         NoDuplicates(a[s]), b[s] = Marked(a[s], i, h), b[s] # a[s],
         \A q \in Subject : q # s => b[q] = a[q]
  PROVE  /\ Cardinality(AllSlots(b)) = Cardinality(AllSlots(a))
         /\ Cardinality(RevokedSlots(b)) = Cardinality(RevokedSlots(a)) + 1
<1>0. a[s] \in Seq(Record) /\ b[s] = Marked(a[s], i, h) /\ Marked(a[s], i, h) # a[s]
  BY DEF AnchorTables
<1>1. PICK k \in DOMAIN a[s] :
        /\ ~a[s][k].revoked /\ b[s][k].revoked
        /\ \A j \in DOMAIN a[s] : j # k => b[s][j] = a[s][j]
  BY <1>0, MarkedOne DEF NoDuplicates
<1>2. DOMAIN b[s] = DOMAIN a[s]
  BY <1>0, MarkedType
<1>3. \A q \in Subject : q # s => b[q] = a[q]
  OBVIOUS
<1>4. AllSlots(b) = AllSlots(a)
  <2>1. Positions(AllSlots(b)) /\ Positions(AllSlots(a))
    BY <1>2, <1>3, SlotOf DEF Positions
  <2>2. ASSUME NEW q \in Subject, NEW j
        PROVE  <<q, j>> \in AllSlots(b) <=> <<q, j>> \in AllSlots(a)
    BY <1>2, <1>3, SlotOf
  <2> QED BY <2>1, <2>2, SamePositions
<1>5. RevokedSlots(b) = RevokedSlots(a) \cup {<<s, k>>}
  <2>1. Positions(RevokedSlots(b)) /\ Positions(RevokedSlots(a) \cup {<<s, k>>})
    BY <1>1, <1>2, <1>3, SlotOf DEF Positions
  <2>2. ASSUME NEW q \in Subject, NEW j
        PROVE  <<q, j>> \in RevokedSlots(b) <=> <<q, j>> \in RevokedSlots(a) \cup {<<s, k>>}
    <3>1. (j \in DOMAIN b[q] /\ b[q][j].revoked)
            <=> (j \in DOMAIN a[q] /\ a[q][j].revoked) \/ (q = s /\ j = k)
      <4>1. CASE q = s
        BY <1>1, <1>2, <4>1
      <4>2. CASE q # s
        BY <1>3, <4>2
      <4> QED BY <4>1, <4>2
    <3>2. <<q, j>> \in {<<s, k>>} <=> q = s /\ j = k
      OBVIOUS
    <3> QED BY <3>1, <3>2, SlotOf
  <2> QED BY <2>1, <2>2, SamePositions
<1>6. <<s, k>> \notin RevokedSlots(a)
  BY <1>1, SlotOf
<1> QED BY <1>4, <1>5, <1>6, SlotsFinite, FS_AddElement

\* Deactivation: the records stay and those left unrevoked are revoked.
LEMMA EmptyStats ==
  ASSUME NEW a \in AnchorTables, NEW b \in AnchorTables, NEW s \in Subject,
         b = [a EXCEPT ![s] = AllRevoked(a[s])]
  PROVE  /\ Cardinality(AllSlots(b)) = Cardinality(AllSlots(a))
         /\ Cardinality(RevokedSlots(b)) =
              Cardinality(RevokedSlots(a)) + Cardinality(UnrevokedSlots(a[s]))
<1> DEFINE U == UnrevokedSlots(a[s])
           P == {s} \X U
<1>0. a[s] \in Seq(Record) /\ b[s] = AllRevoked(a[s])
  BY DEF AnchorTables
<1>1. DOMAIN b[s] = DOMAIN a[s] /\ \A k \in DOMAIN a[s] : b[s][k].revoked
  BY <1>0, AllRevokedType
<1>2. \A q \in Subject : q # s => b[q] = a[q]
  BY DEF AnchorTables
<1>3. AllSlots(b) = AllSlots(a)
  <2>1. Positions(AllSlots(b)) /\ Positions(AllSlots(a))
    BY <1>1, <1>2, SlotOf DEF Positions
  <2>2. ASSUME NEW q \in Subject, NEW j
        PROVE  <<q, j>> \in AllSlots(b) <=> <<q, j>> \in AllSlots(a)
    BY <1>1, <1>2, SlotOf
  <2> QED BY <2>1, <2>2, SamePositions
<1>4. \A p : p \in P <=> \E k \in DOMAIN a[s] : p = <<s, k>> /\ ~a[s][k].revoked
  BY DEF UnrevokedSlots
<1>5. IsFiniteSet(P) /\ Cardinality(P) = Cardinality(U) /\ Cardinality(U) \in Nat
  <2>1. IsFiniteSet(U) /\ Cardinality(U) \in Nat /\ IsFiniteSet({s}) /\ Cardinality({s}) = 1
    BY <1>0, SlotCounts, FS_Singleton
  <2> HIDE DEF U
  <2>2. IsFiniteSet(P) /\ Cardinality(P) = Cardinality({s}) * Cardinality(U)
    BY <2>1, FS_Product
  <2> QED BY <2>1, <2>2
<1> HIDE DEF P
<1>6. RevokedSlots(b) = RevokedSlots(a) \cup P
  <2>1. Positions(RevokedSlots(b)) /\ Positions(RevokedSlots(a) \cup P)
    BY <1>1, <1>2, <1>4, SlotOf DEF Positions
  <2>2. ASSUME NEW q \in Subject, NEW j
        PROVE  <<q, j>> \in RevokedSlots(b) <=> <<q, j>> \in RevokedSlots(a) \cup P
    <3>1. <<q, j>> \in P <=> q = s /\ j \in DOMAIN a[s] /\ ~a[s][j].revoked
      BY <1>4
    <3>2. (j \in DOMAIN b[q] /\ b[q][j].revoked)
            <=> (j \in DOMAIN a[q] /\ a[q][j].revoked) \/ <<q, j>> \in P
      <4>1. CASE q = s
        BY <1>1, <3>1, <4>1
      <4>2. CASE q # s
        BY <1>2, <3>1, <4>2
      <4> QED BY <4>1, <4>2
    <3> QED BY <3>2, SlotOf
  <2> QED BY <2>1, <2>2, SamePositions
<1>7. RevokedSlots(a) \cap P = {}
  <2>1. ASSUME NEW p \in P PROVE p \notin RevokedSlots(a)
    BY <1>4, SlotOf
  <2> QED BY <2>1
<1>8. Cardinality(RevokedSlots(b)) = Cardinality(RevokedSlots(a)) + Cardinality(P)
  <2>1. IsFiniteSet(RevokedSlots(a)) /\ Cardinality(RevokedSlots(a)) \in Nat
    BY SlotsFinite
  <2>2. Cardinality(RevokedSlots(a) \cup P) =
          Cardinality(RevokedSlots(a)) + Cardinality(P) - Cardinality(RevokedSlots(a) \cap P)
    BY <1>5, <2>1, FS_Union
  <2>3. Cardinality(RevokedSlots(a) \cap P) = 0
    BY <1>7, FS_EmptySet
  <2>4. Cardinality(P) \in Nat
    BY <1>5
  <2>5. Cardinality(RevokedSlots(a) \cup P) = Cardinality(RevokedSlots(a)) + Cardinality(P)
    BY <2>1, <2>2, <2>3, <2>4
  <2> QED BY <1>6, <2>5
<1> QED BY <1>3, <1>5, <1>8

\* The steps that write the records or the two counters.
LEMMA StatsSteps ==
  ASSUME TypeOK, [Next]_vars
  PROVE  \/ \E i \in Issuer, s \in Subject, h \in Hash, t \in CredType : AnchorVcTyped(i, s, h, t)
         \/ \E i \in Issuer, s \in Subject, h \in Hash : MarkRevoked(i, s, h)
         \/ \E s \in Subject : DeactivateCore(s)
         \/ /\ UNCHANGED vcAnchors
            /\ protocolStats'.anchored = protocolStats.anchored
            /\ protocolStats'.revoked = protocolStats.revoked
<1>1. CASE IdentityAdminNext
  BY <1>1 DEF IdentityAdminNext, IdInitialize, IdProposeNewAdmin, IdAcceptAdmin, IdSetPaused,
              SetRevocationRegistry, RegisterIssuer, DeregisterIssuer, SetIssuerTier
<1>2. CASE SubjectNext
  <2> PICK s \in Subject :
        \/ \E c \in Cid : AnchorDid(s, c)
        \/ \E i \in Issuer, h \in Hash :
             \/ \E t \in CredType : AnchorVcTyped(i, s, h, t)
             \/ MarkVcRevoked(i, s, h)
             \/ Revoke(i, s, h)
        \/ GetActiveVcCount(s)
        \/ DeactivateDid(s)
        \/ DeactivateIdentity(s)
        \/ ReactivateIdentity(s)
    BY <1>2 DEF SubjectNext
  <2>1. CASE ReactivateIdentity(s) \/ GetActiveVcCount(s)
    BY <2>1 DEF GetActiveVcCount, ReactivateIdentity
  <2>2. CASE \E i \in Issuer, h \in Hash : MarkVcRevoked(i, s, h) \/ Revoke(i, s, h)
    BY <2>2 DEF MarkVcRevoked, Revoke, MarkedBy
  <2>3. CASE DeactivateDid(s) \/ DeactivateIdentity(s)
    BY <2>3 DEF DeactivateDid, DeactivateIdentity
  <2>4. CASE \E i \in Issuer, h \in Hash, t \in CredType : AnchorVcTyped(i, s, h, t)
    BY <2>4
  <2>5. CASE \E c \in Cid : AnchorDid(s, c)
    BY <2>5 DEF AnchorDid, TypeOK, IdTypeOK, ProtocolStats
  <2> QED BY <2>1, <2>2, <2>3, <2>4, <2>5
<1>3. ASSUME NEW r \in OtherRegistry, NEW i \in Issuer, NEW s \in Subject, NEW h \in Hash,
             RevokeElsewhere(r, i, s, h)
      PROVE  MarkRevoked(i, s, h) \/ UNCHANGED idVars
  BY <1>3 DEF RevokeElsewhere, MarkedBy
<1> QED BY <1>1, <1>2, <1>3 DEF Next, Tick

\* The two counters and the two sets of positions grow together.
LEMMA StatsStep ==
  ASSUME TypeOK, NoDuplicateAnchor, [Next]_vars
  PROVE  /\ protocolStats'.anchored - Cardinality(AllSlots(vcAnchors'))
              = protocolStats.anchored - Cardinality(AllSlots(vcAnchors))
         /\ protocolStats'.revoked - Cardinality(RevokedSlots(vcAnchors'))
              = protocolStats.revoked - Cardinality(RevokedSlots(vcAnchors))
<1> DEFINE a == vcAnchors
           b == vcAnchors'
<1>1. /\ a \in AnchorTables /\ b \in AnchorTables
      /\ protocolStats \in ProtocolStats
  BY TypeNext DEF TypeOK, IdTypeOK, AnchorTables
<1>2. /\ protocolStats.anchored \in Nat /\ protocolStats.revoked \in Nat
      /\ Cardinality(AllSlots(a)) \in Nat /\ Cardinality(RevokedSlots(a)) \in Nat
  BY <1>1, SlotsFinite DEF ProtocolStats
<1>3. ASSUME NEW i \in Issuer, NEW s \in Subject, NEW h \in Hash, NEW t \in CredType,
             AnchorVcTyped(i, s, h, t)
      PROVE  /\ protocolStats'.anchored = protocolStats.anchored + 1
             /\ protocolStats'.revoked = protocolStats.revoked
             /\ Cardinality(AllSlots(b)) = Cardinality(AllSlots(a)) + 1
             /\ Cardinality(RevokedSlots(b)) = Cardinality(RevokedSlots(a))
  <2> DEFINE r == [hash |-> h, issuer |-> i, revoked |-> FALSE]
  <2>1. r \in Record /\ ~r.revoked
    BY DEF Record
  <2>2. b = [a EXCEPT ![s] = Append(a[s], r)]
    BY <1>3 DEF AnchorVcTyped
  <2>3. protocolStats' = [protocolStats EXCEPT !.anchored = @ + 1]
    BY <1>3 DEF AnchorVcTyped
  <2>4. /\ protocolStats'.anchored = protocolStats.anchored + 1
        /\ protocolStats'.revoked = protocolStats.revoked
    BY <1>1, <2>3 DEF ProtocolStats
  <2> HIDE DEF r, a, b
  <2>5. /\ Cardinality(AllSlots(b)) = Cardinality(AllSlots(a)) + 1
        /\ Cardinality(RevokedSlots(b)) = Cardinality(RevokedSlots(a))
    BY <1>1, <2>1, <2>2, AppendStats
  <2> QED BY <2>4, <2>5
<1>4. ASSUME NEW i \in Issuer, NEW s \in Subject, NEW h \in Hash, MarkRevoked(i, s, h)
      PROVE  \/ /\ protocolStats'.anchored = protocolStats.anchored
                /\ protocolStats'.revoked = protocolStats.revoked + 1
                /\ Cardinality(AllSlots(b)) = Cardinality(AllSlots(a))
                /\ Cardinality(RevokedSlots(b)) = Cardinality(RevokedSlots(a)) + 1
             \/ b = a /\ protocolStats' = protocolStats
  <2>1. b = [a EXCEPT ![s] = Marked(a[s], i, h)]
    BY <1>4 DEF MarkRevoked
  <2>2. CASE Marked(a[s], i, h) = a[s]
    <3>1. protocolStats' = protocolStats
      BY <1>4, <2>2 DEF MarkRevoked
    <3>2. b = a
      BY <1>1, <2>1, <2>2 DEF AnchorTables
    <3> QED BY <3>1, <3>2
  <2>3. CASE Marked(a[s], i, h) # a[s]
    <3>1. protocolStats' = [protocolStats EXCEPT !.revoked = @ + 1]
      BY <1>4, <2>3 DEF MarkRevoked
    <3>2. /\ protocolStats'.anchored = protocolStats.anchored
          /\ protocolStats'.revoked = protocolStats.revoked + 1
      BY <1>1, <3>1 DEF ProtocolStats
    <3>3. NoDuplicates(a[s])
      BY DEF NoDuplicateAnchor, NoDuplicates
    <3>4. b[s] = Marked(a[s], i, h) /\ \A q \in Subject : q # s => b[q] = a[q]
      BY <1>1, <2>1 DEF AnchorTables
    <3> HIDE DEF a, b
    <3>5. /\ Cardinality(AllSlots(b)) = Cardinality(AllSlots(a))
          /\ Cardinality(RevokedSlots(b)) = Cardinality(RevokedSlots(a)) + 1
      BY <1>1, <2>3, <3>3, <3>4, MarkStats
    <3> QED BY <3>2, <3>5
  <2> QED BY <2>2, <2>3
<1>5. ASSUME NEW s \in Subject, DeactivateCore(s)
      PROVE  /\ protocolStats'.anchored = protocolStats.anchored
             /\ protocolStats'.revoked = protocolStats.revoked + Cardinality(UnrevokedSlots(a[s]))
             /\ Cardinality(AllSlots(b)) = Cardinality(AllSlots(a))
             /\ Cardinality(RevokedSlots(b)) =
                  Cardinality(RevokedSlots(a)) + Cardinality(UnrevokedSlots(a[s]))
             /\ Cardinality(UnrevokedSlots(a[s])) \in Nat
  <2>1. b = [a EXCEPT ![s] = AllRevoked(a[s])]
    BY <1>5 DEF DeactivateCore
  <2>2. protocolStats' = [protocolStats EXCEPT !.revoked = @ + Cardinality(UnrevokedSlots(a[s]))]
    BY <1>5 DEF DeactivateCore, NewlyRevoked
  <2> HIDE DEF a, b
  <2>3. Cardinality(UnrevokedSlots(a[s])) \in Nat
    BY <1>1, SlotCounts DEF AnchorTables
  <2>4. /\ protocolStats'.anchored = protocolStats.anchored
        /\ protocolStats'.revoked = protocolStats.revoked + Cardinality(UnrevokedSlots(a[s]))
    BY <1>1, <2>2 DEF ProtocolStats
  <2>5. /\ Cardinality(AllSlots(b)) = Cardinality(AllSlots(a))
        /\ Cardinality(RevokedSlots(b)) =
             Cardinality(RevokedSlots(a)) + Cardinality(UnrevokedSlots(a[s]))
    BY <1>1, <2>1, EmptyStats
  <2> QED BY <2>3, <2>4, <2>5
<1>6. CASE /\ UNCHANGED vcAnchors
           /\ protocolStats'.anchored = protocolStats.anchored
           /\ protocolStats'.revoked = protocolStats.revoked
  BY <1>6
<1> HIDE DEF a, b
<1>7. /\ protocolStats'.anchored - Cardinality(AllSlots(b))
           = protocolStats.anchored - Cardinality(AllSlots(a))
      /\ protocolStats'.revoked - Cardinality(RevokedSlots(b))
           = protocolStats.revoked - Cardinality(RevokedSlots(a))
  <2>1. CASE \E i \in Issuer, s \in Subject, h \in Hash, t \in CredType : AnchorVcTyped(i, s, h, t)
    BY <1>2, <1>3, <2>1
  <2>2. CASE \E i \in Issuer, s \in Subject, h \in Hash : MarkRevoked(i, s, h)
    BY <1>2, <1>4, <2>2
  <2>3. CASE \E s \in Subject : DeactivateCore(s)
    BY <1>2, <1>5, <2>3
  <2> QED BY <1>6, <2>1, <2>2, <2>3, StatsSteps DEF a, b
<1> QED BY <1>7 DEF a, b

\* get_protocol_stats: total_vcs_anchored and total_vcs_revoked are exactly
\* the records added and the flags set since deployment.
THEOREM StatsAreAccurate == Spec => []StatsAccurate
<1>1. ASSUME NEW a \in AnchorTables
      PROVE  Cardinality(AllSlots(a)) \in Int /\ Cardinality(RevokedSlots(a)) \in Int
  BY SlotsFinite
<1>2. Init => StatsAccurate
  <2> SUFFICES ASSUME Init PROVE StatsAccurate
    OBVIOUS
  <2>1. /\ vcAnchors = LegacyAnchors /\ LegacyAnchors \in AnchorTables
        /\ protocolStats.anchored = 0 /\ protocolStats.revoked = 0
    BY IdentityAssumption DEF Init, IdInit, AnchorTables
  <2> QED BY <1>1, <2>1 DEF StatsAccurate
<1>3. TypeOK /\ NoDuplicateAnchor /\ StatsAccurate /\ [Next]_vars => StatsAccurate'
  <2> SUFFICES ASSUME TypeOK, NoDuplicateAnchor, StatsAccurate, [Next]_vars
               PROVE  /\ protocolStats'.anchored =
                           Cardinality(AllSlots(vcAnchors')) - Cardinality(AllSlots(LegacyAnchors))
                      /\ protocolStats'.revoked =
                           Cardinality(RevokedSlots(vcAnchors')) - Cardinality(RevokedSlots(LegacyAnchors))
    BY DEF StatsAccurate, AllSlots, RevokedSlots
  <2>1. /\ vcAnchors \in AnchorTables /\ vcAnchors' \in AnchorTables
        /\ LegacyAnchors \in AnchorTables
    BY TypeNext, IdentityAssumption DEF TypeOK, IdTypeOK, AnchorTables
  <2>2. /\ Cardinality(AllSlots(vcAnchors)) \in Int /\ Cardinality(RevokedSlots(vcAnchors)) \in Int
        /\ Cardinality(AllSlots(vcAnchors')) \in Int /\ Cardinality(RevokedSlots(vcAnchors')) \in Int
        /\ Cardinality(AllSlots(LegacyAnchors)) \in Int
        /\ Cardinality(RevokedSlots(LegacyAnchors)) \in Int
    BY <1>1, <2>1
  <2>3. /\ protocolStats'.anchored \in Int /\ protocolStats'.revoked \in Int
        /\ protocolStats.anchored \in Int /\ protocolStats.revoked \in Int
    <3>1. protocolStats \in ProtocolStats /\ protocolStats' \in ProtocolStats
      BY TypeNext DEF TypeOK, IdTypeOK
    <3>2. \A st \in ProtocolStats : st.anchored \in Int /\ st.revoked \in Int
      BY DEF ProtocolStats
    <3> QED BY <3>1, <3>2
  <2>4. /\ protocolStats'.anchored - Cardinality(AllSlots(vcAnchors'))
              = protocolStats.anchored - Cardinality(AllSlots(vcAnchors))
        /\ protocolStats'.revoked - Cardinality(RevokedSlots(vcAnchors'))
              = protocolStats.revoked - Cardinality(RevokedSlots(vcAnchors))
    BY StatsStep
  <2>5. /\ protocolStats.anchored =
             Cardinality(AllSlots(vcAnchors)) - Cardinality(AllSlots(LegacyAnchors))
        /\ protocolStats.revoked =
             Cardinality(RevokedSlots(vcAnchors)) - Cardinality(RevokedSlots(LegacyAnchors))
    BY DEF StatsAccurate
  <2>6. PICK x \in Int, y \in Int, c \in Int, d \in Int, e \in Int :
          /\ x = protocolStats.anchored /\ y = protocolStats'.anchored
          /\ c = Cardinality(AllSlots(vcAnchors)) /\ d = Cardinality(AllSlots(vcAnchors'))
          /\ e = Cardinality(AllSlots(LegacyAnchors))
    BY <2>2, <2>3
  <2>7. y = d - e
    <3>1. y - d = x - c /\ x = c - e
      BY <2>4, <2>5, <2>6
    <3> QED BY <3>1
  <2>8. PICK u \in Int, v \in Int, f \in Int, g \in Int, k \in Int :
          /\ u = protocolStats.revoked /\ v = protocolStats'.revoked
          /\ f = Cardinality(RevokedSlots(vcAnchors)) /\ g = Cardinality(RevokedSlots(vcAnchors'))
          /\ k = Cardinality(RevokedSlots(LegacyAnchors))
    BY <2>2, <2>3
  <2>9. v = g - k
    <3>1. v - g = u - f /\ u = f - k
      BY <2>4, <2>5, <2>8
    <3> QED BY <3>1
  <2> QED BY <2>6, <2>7, <2>8, <2>9
<1> QED BY <1>2, <1>3, AnchorsUnique, TypeCorrect, PTL DEF Spec

-----------------------------------------------------------------------------
(* Permanence.                                                             *)

\* No step of any contract clears a status, changes the owner of a revoked
\* hash, clears a record's flag, or drops or rewrites a record.
THEOREM RevocationsArePermanent == Spec => RevocationPermanent
<1>1. TypeOK /\ RegistryConsistent /\ [Next]_vars =>
        [/\ \A h \in Hash : status[h] => status'[h] /\ issuerOfVC'[h] = issuerOfVC[h]
         /\ \A s \in Subject :
              /\ Len(vcAnchors[s]) <= Len(vcAnchors'[s])
              /\ \A k \in DOMAIN vcAnchors[s] :
                   /\ SameCredential(vcAnchors'[s][k], vcAnchors[s][k])
                   /\ vcAnchors[s][k].revoked => vcAnchors'[s][k].revoked]_vars
  <2> SUFFICES ASSUME TypeOK, RegistryConsistent, [Next]_vars
               PROVE  /\ \A h \in Hash : status[h] => status'[h] /\ issuerOfVC'[h] = issuerOfVC[h]
                      /\ \A s \in Subject :
                           /\ Len(vcAnchors[s]) <= Len(vcAnchors'[s])
                           /\ \A k \in DOMAIN vcAnchors[s] :
                                /\ SameCredential(vcAnchors'[s][k], vcAnchors[s][k])
                                /\ vcAnchors[s][k].revoked => vcAnchors'[s][k].revoked
    OBVIOUS
  <2>1. ASSUME NEW h \in Hash, status[h]
        PROVE  status'[h] /\ issuerOfVC'[h] = issuerOfVC[h]
    <3>1. status'[h]
      BY <2>1, AnswersGrow
    <3>2. CASE UNCHANGED regEntries
      BY <3>1, <3>2
    <3>3. ASSUME NEW i \in Issuer, NEW hs \in SUBSET Hash, RecordRevocations(i, hs)
          PROVE  issuerOfVC'[h] = issuerOfVC[h]
      <4>1. registeredVCIssuer[h] = issuerOfVC[h] /\ issuerOfVC[h] # None
        BY <2>1 DEF RegistryConsistent
      <4>2. h \in hs => issuerOfVC[h] = i
        BY <3>3, <4>1 DEF RecordRevocations, MayRevoke
      <4> QED BY <3>3, <4>2 DEF RecordRevocations
    <3> QED BY <3>1, <3>2, <3>3, RegistrySteps
  <2> QED BY <2>1, RecordsKept
<1> QED BY <1>1, TypeCorrect, RegistryConsistency, PTL DEF Spec, RevocationPermanent

=============================================================================
