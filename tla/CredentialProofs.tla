-------------------------- MODULE CredentialProofs --------------------------
(***************************************************************************)
(* Proofs about CredentialProtocol, for all sets of admins, issuers,       *)
(* hashes and subjects, all caps and all legacy records.                   *)
(***************************************************************************)
EXTENDS CredentialProtocol, FiniteSetTheorems, SequenceTheorems, TLAPS

-----------------------------------------------------------------------------
(* Records and their slots.                                                *)

\* The slots of a sequence are finitely many, so counts of them are naturals
\* and the active ones are at most the unrevoked ones.
LEMMA SlotCounts ==
  ASSUME NEW a \in Seq(Record)
  PROVE  /\ IsFiniteSet(DOMAIN a)
         /\ IsFiniteSet(ActiveSlots(a)) /\ IsFiniteSet(UnrevokedSlots(a))
         /\ ComputeActiveVcCount(a) \in Nat
         /\ Cardinality(UnrevokedSlots(a)) \in Nat
         /\ ComputeActiveVcCount(a) <= Cardinality(UnrevokedSlots(a))
<1>1. DOMAIN a = 1..Len(a) /\ Len(a) \in Nat
  BY LenProperties
<1>2. IsFiniteSet(DOMAIN a)
  BY <1>1, FS_Interval
<1>3. /\ ActiveSlots(a) \subseteq UnrevokedSlots(a)
      /\ UnrevokedSlots(a) \subseteq DOMAIN a
  BY DEF ActiveSlots, UnrevokedSlots, RecordRevoked
<1>4. IsFiniteSet(UnrevokedSlots(a))
  BY <1>2, <1>3, FS_Subset
<1>5. /\ IsFiniteSet(ActiveSlots(a))
      /\ Cardinality(ActiveSlots(a)) <= Cardinality(UnrevokedSlots(a))
  BY <1>3, <1>4, FS_Subset
<1> QED BY <1>2, <1>4, <1>5, FS_CardinalityType DEF ComputeActiveVcCount

\* A function on 1..n is a sequence of length n.
LEMMA FunctionIsSeq ==
  ASSUME NEW S, NEW n \in Nat, NEW f \in [1..n -> S]
  PROVE  f \in Seq(S) /\ Len(f) = n /\ DOMAIN f = 1..n
<1>1. f \in Seq(S)
  BY SeqDef
<1> QED BY <1>1, LenProperties

\* A record with its flag set is the same credential.
LEMMA FlagSet ==
  ASSUME NEW r \in Record
  PROVE  LET q == [r EXCEPT !.revoked = TRUE]
         IN  q \in Record /\ SameCredential(q, r) /\ q.revoked
BY DEF Record, SameCredential

\* The statistics after one of their counters was raised.
LEMMA StatsRaised ==
  ASSUME NEW st \in ProtocolStats, NEW n \in Nat
  PROVE  /\ [st EXCEPT !.dids = @ + n] \in ProtocolStats
         /\ [st EXCEPT !.anchored = @ + n] \in ProtocolStats
         /\ [st EXCEPT !.revoked = @ + n] \in ProtocolStats
<1>1. st.dids \in Nat /\ st.anchored \in Nat /\ st.revoked \in Nat
  BY DEF ProtocolStats
<1>2. st.dids + n \in Nat /\ st.anchored + n \in Nat /\ st.revoked + n \in Nat
  BY <1>1
<1>3. ASSUME NEW m \in Nat
      PROVE  /\ [st EXCEPT !.dids = m] \in ProtocolStats
             /\ [st EXCEPT !.anchored = m] \in ProtocolStats
             /\ [st EXCEPT !.revoked = m] \in ProtocolStats
  BY DEF ProtocolStats
<1> QED BY <1>2, <1>3

\* mark_vc_revoked and deactivation rewrite flags only.
LEMMA MarkedType ==
  ASSUME NEW a \in Seq(Record), NEW i, NEW h
  PROVE  /\ Marked(a, i, h) \in Seq(Record)
         /\ DOMAIN Marked(a, i, h) = DOMAIN a
         /\ Len(Marked(a, i, h)) = Len(a)
         /\ \A k \in DOMAIN a :
              /\ SameCredential(Marked(a, i, h)[k], a[k])
              /\ a[k].revoked => Marked(a, i, h)[k].revoked
<1> DEFINE m == Marked(a, i, h)
<1>1. DOMAIN a = 1..Len(a) /\ Len(a) \in Nat /\ a \in [1..Len(a) -> Record]
  BY LenProperties
<1>2. ASSUME NEW k \in DOMAIN a
      PROVE  /\ m[k] \in Record
             /\ SameCredential(m[k], a[k])
             /\ a[k].revoked => m[k].revoked
  <2>1. a[k] \in Record
    BY <1>1
  <2>2. m[k] = IF a[k].hash = h /\ a[k].issuer = i
               THEN [a[k] EXCEPT !.revoked = TRUE] ELSE a[k]
    BY DEF Marked
  <2> QED BY <2>1, <2>2, FlagSet DEF SameCredential
<1>3. m \in [1..Len(a) -> Record] /\ DOMAIN m = DOMAIN a
  BY <1>1, <1>2 DEF Marked
<1>4. m \in Seq(Record) /\ Len(m) = Len(a)
  BY <1>1, <1>3, FunctionIsSeq
<1> HIDE DEF m
<1> QED BY <1>2, <1>3, <1>4 DEF m

\* Flagging every record keeps the records and their credentials.
LEMMA AllRevokedType ==
  ASSUME NEW a \in Seq(Record)
  PROVE  /\ AllRevoked(a) \in Seq(Record)
         /\ DOMAIN AllRevoked(a) = DOMAIN a
         /\ Len(AllRevoked(a)) = Len(a)
         /\ \A k \in DOMAIN a :
              /\ SameCredential(AllRevoked(a)[k], a[k])
              /\ AllRevoked(a)[k].revoked
<1> DEFINE m == AllRevoked(a)
<1>1. DOMAIN a = 1..Len(a) /\ Len(a) \in Nat /\ a \in [1..Len(a) -> Record]
  BY LenProperties
<1>2. ASSUME NEW k \in DOMAIN a
      PROVE  m[k] \in Record /\ SameCredential(m[k], a[k]) /\ m[k].revoked
  <2>1. a[k] \in Record /\ m[k] = [a[k] EXCEPT !.revoked = TRUE]
    BY <1>1 DEF AllRevoked
  <2> QED BY <2>1, FlagSet
<1>3. m \in [1..Len(a) -> Record] /\ DOMAIN m = DOMAIN a
  BY <1>1, <1>2 DEF AllRevoked
<1>4. m \in Seq(Record) /\ Len(m) = Len(a)
  BY <1>1, <1>3, FunctionIsSeq
<1> HIDE DEF m
<1> QED BY <1>2, <1>3, <1>4 DEF m

-----------------------------------------------------------------------------
(* Type correctness.                                                       *)

USE DEF regVars, regConfig, regEntries, idVars, idConfig, idIssuers, idCredentials, idSubjects, vars

\* RecordRevocations writes values of the registry's types.
LEMMA RecordType ==
  ASSUME RegTypeOK, NEW i \in Issuer, NEW hs \in SUBSET Hash, RecordRevocations(i, hs)
  PROVE  /\ registeredVCIssuer' \in [Hash -> Issuer \cup {None}]
         /\ status' \in [Hash -> BOOLEAN]
         /\ issuerOfVC' \in [Hash -> Issuer \cup {None}]
         /\ issuerRevokedList' \in [Issuer -> [Hash -> Nat]]
<1>1. PushNew(issuerRevokedList[i], hs) \in [Hash -> Nat]
  BY DEF PushNew, RegTypeOK
<1>2. issuerRevokedList' \in [Issuer -> [Hash -> Nat]]
  BY <1>1 DEF RecordRevocations, RegTypeOK
<1> QED BY <1>2 DEF RecordRevocations, RegTypeOK

\* A batch's hashes are hashes.
LEMMA BatchElements ==
  ASSUME NEW b \in Batches
  PROVE  Elements(b) \in SUBSET Hash
BY DEF Batches, Elements

\* The registry's own operations keep its types.
LEMMA RegistryType ==
  ASSUME RegTypeOK, RegistryNext
  PROVE  RegTypeOK'
<1> USE RegistryAssumption DEF RegTypeOK
<1>1. CASE \E a \in Admin : RegInitialize(a) \/ RegProposeNewAdmin(a) \/ RegAcceptAdmin(a)
  BY <1>1 DEF RegInitialize, RegProposeNewAdmin, RegAcceptAdmin
<1>2. CASE \E p \in BOOLEAN : RegSetPaused(p)
  BY <1>2 DEF RegSetPaused
<1>3. CASE \E l \in BatchLimits : SetBatchLimit(l)
  BY <1>3 DEF SetBatchLimit
<1>4. CASE \E o \in Oracle : SetIdentityOracle(o)
  BY <1>4 DEF SetIdentityOracle
<1>5. CASE \E i \in Issuer, b \in Batches : BatchRevoke(i, b)
  <2> PICK i \in Issuer, b \in Batches : BatchRevoke(i, b)
    BY <1>5
  <2>1. RecordRevocations(i, Elements(b)) /\ UNCHANGED regConfig
    BY DEF BatchRevoke
  <2> QED BY <2>1, BatchElements, RecordType
<1> QED BY <1>1, <1>2, <1>3, <1>4, <1>5 DEF RegistryNext

\* An entry for one revoked hash keeps the registry's types.
LEMMA RevokeType ==
  ASSUME RegTypeOK, NEW i \in Issuer, NEW h \in Hash, RevokeEntry(i, h)
  PROVE  RegTypeOK'
<1>1. RecordRevocations(i, {h}) /\ UNCHANGED regConfig
  BY DEF RevokeEntry
<1> QED BY <1>1, RecordType DEF RegTypeOK

\* mark_vc_revoked writes values of the oracle's types: its count is present
\* and positive, or absent and seeded.
LEMMA MarkType ==
  ASSUME IdTypeOK, NEW i \in Issuer, NEW s \in Subject, NEW h \in Hash,
         MarkRevoked(i, s, h)
  PROVE  IdTypeOK'
<1> DEFINE m == Marked(vcAnchors[s], i, h)
<1>1. vcAnchors[s] \in Seq(Record)
  BY DEF IdTypeOK
<1>2. m \in Seq(Record)
  BY <1>1, MarkedType
<1>3. ComputeActiveVcCount(m) \in Nat
  BY <1>2, SlotCounts
<1>4. vcAnchors' \in [Subject -> Seq(Record)]
  BY <1>2 DEF MarkRevoked, IdTypeOK
<1> HIDE DEF m
<1>5. activeVCCount' \in [Subject -> Nat \cup {NoCount}]
  <2>1. CASE activeVCCount' = [activeVCCount EXCEPT ![s] = CountAfterMark(s, m)] /\ activeVCCount[s] # 0
    BY <2>1, <1>3 DEF CountAfterMark, IdTypeOK, NoCount
  <2>2. CASE activeVCCount' = [activeVCCount EXCEPT ![s] =
                                 IF @ = NoCount THEN ComputeActiveVcCount(m) ELSE @]
    BY <2>2, <1>3 DEF IdTypeOK
  <2> QED BY <2>1, <2>2 DEF MarkRevoked, m
<1>6. lastStateChange' \in [Subject -> 0..MaxLedger]
  BY DEF MarkRevoked, StateChanged, IdTypeOK
<1>7. protocolStats' \in ProtocolStats
  <2>1. [protocolStats EXCEPT !.revoked = @ + 1] \in ProtocolStats
    BY StatsRaised DEF IdTypeOK
  <2> QED BY <2>1 DEF MarkRevoked, IdTypeOK
<1> QED BY <1>4, <1>5, <1>6, <1>7 DEF MarkRevoked, IdTypeOK

\* anchor_vc_typed keeps the identity oracle's types.
LEMMA AnchorType ==
  ASSUME IdTypeOK, NEW i \in Issuer, NEW s \in Subject, NEW h \in Hash, NEW t \in CredType,
         AnchorVcTyped(i, s, h, t)
  PROVE  IdTypeOK'
<1> DEFINE r == [hash |-> h, issuer |-> i, revoked |-> FALSE]
           a == Append(vcAnchors[s], r)
<1>1. r \in Record /\ vcAnchors[s] \in Seq(Record)
  BY DEF Record, IdTypeOK
<1>2. a \in Seq(Record)
  BY <1>1, AppendProperties
<1>3. ComputeActiveVcCount(a) \in Nat
  BY <1>2, SlotCounts
<1>4. vcAnchors' \in [Subject -> Seq(Record)]
  BY <1>2 DEF AnchorVcTyped, IdTypeOK
<1>5. activeVCCount' = [activeVCCount EXCEPT ![s] = CountAfterAnchor(s, r, a)]
  BY DEF AnchorVcTyped
<1> HIDE DEF r, a
<1>6. CountAfterAnchor(s, r, a) \in Nat
  BY <1>3 DEF CountAfterAnchor, IdTypeOK, NoCount
<1>7. activeVCCount' \in [Subject -> Nat \cup {NoCount}]
  BY <1>5, <1>6 DEF IdTypeOK
<1>8. lastStateChange' \in [Subject -> 0..MaxLedger]
  BY DEF AnchorVcTyped, StateChanged, IdTypeOK
<1>9. protocolStats' \in ProtocolStats
  BY StatsRaised DEF AnchorVcTyped, IdTypeOK
<1>10. vcCredentialType' \in [Subject -> [Hash -> CredType]]
  BY DEF AnchorVcTyped, IdTypeOK
<1> QED BY <1>4, <1>7, <1>8, <1>9, <1>10 DEF AnchorVcTyped, IdTypeOK

\* The shared part of both deactivations keeps the identity oracle's types.
LEMMA DeactivateType ==
  ASSUME IdTypeOK, NEW s \in Subject, DeactivateCore(s),
         didDocument' \in [Subject -> Cid \cup {None}]
  PROVE  IdTypeOK'
<1>1. vcAnchors[s] \in Seq(Record)
  BY DEF IdTypeOK
<1>2. NewlyRevoked(s) \in Nat
  BY <1>1, SlotCounts DEF NewlyRevoked
<1>3. AllRevoked(vcAnchors[s]) \in Seq(Record)
  BY <1>1, AllRevokedType
<1>4. vcAnchors' \in [Subject -> Seq(Record)]
  BY <1>3 DEF DeactivateCore, IdTypeOK
<1>5. protocolStats' \in ProtocolStats
  BY <1>2, StatsRaised DEF DeactivateCore, IdTypeOK
<1>6. lastStateChange' \in [Subject -> 0..MaxLedger]
  BY DEF DeactivateCore, StateChanged, IdTypeOK
<1> QED BY <1>4, <1>5, <1>6 DEF DeactivateCore, IdTypeOK

\* Administration and issuer management keep the identity oracle's types.
LEMMA IdentityAdminType ==
  ASSUME IdTypeOK, IdentityAdminNext
  PROVE  IdTypeOK'
<1> USE IdentityAssumption DEF IdTypeOK
<1>1. CASE \E a \in Admin : IdInitialize(a) \/ IdProposeNewAdmin(a) \/ IdAcceptAdmin(a)
  BY <1>1 DEF IdInitialize, IdProposeNewAdmin, IdAcceptAdmin
<1>2. CASE \E p \in BOOLEAN : IdSetPaused(p)
  BY <1>2 DEF IdSetPaused
<1>3. CASE \E r \in Registry : SetRevocationRegistry(r)
  BY <1>3 DEF SetRevocationRegistry
<1>4. ASSUME NEW i \in Issuer, RegisterIssuer(i)
      PROVE  IdTypeOK'
  BY <1>4 DEF RegisterIssuer, IndexWith
<1>5. ASSUME NEW i \in Issuer, DeregisterIssuer(i)
      PROVE  IdTypeOK'
  BY <1>5 DEF DeregisterIssuer, Compacted
<1>6. ASSUME NEW i \in Issuer, NEW bps \in TierInputs, SetIssuerTier(i, bps)
      PROVE  IdTypeOK'
  BY <1>6 DEF SetIssuerTier
<1> QED BY <1>1, <1>2, <1>3, <1>4, <1>5, <1>6 DEF IdentityAdminNext

\* The operations on a subject keep the types of both contracts.
LEMMA SubjectType ==
  ASSUME TypeOK, SubjectNext
  PROVE  RegTypeOK' /\ IdTypeOK'
<1> DEFINE Goal == RegTypeOK' /\ IdTypeOK'
<1> USE DEF TypeOK
<1> PICK s \in Subject :
      \/ \E c \in Cid : AnchorDid(s, c)
      \/ \E i \in Issuer, h \in Hash :
           \/ \E t \in CredType : AnchorVcTyped(i, s, h, t)
           \/ MarkVcRevoked(i, s, h)
           \/ Revoke(i, s, h)
      \/ GetActiveVcCount(s)
      \/ DeactivateDid(s)
      \/ DeactivateIdentity(s)
      \/ ReactivateIdentity(s)
  BY DEF SubjectNext
<1>0. UNCHANGED regVars => RegTypeOK'
  BY DEF RegTypeOK
<1>1. CASE \E c \in Cid : AnchorDid(s, c)
  <2>1. protocolStats' \in ProtocolStats
    <3>1. [protocolStats EXCEPT !.dids = @ + 1] \in ProtocolStats
      BY StatsRaised DEF IdTypeOK
    <3> QED BY <1>1, <3>1 DEF AnchorDid
  <2> QED BY <1>0, <1>1, <2>1 DEF AnchorDid, StateChanged, IdTypeOK
<1>2. ASSUME NEW i \in Issuer, NEW h \in Hash, NEW t \in CredType, AnchorVcTyped(i, s, h, t)
      PROVE  Goal
  <2>1. UNCHANGED regVars
    BY <1>2 DEF AnchorVcTyped
  <2> QED BY <1>0, <1>2, <2>1, AnchorType
<1>3. ASSUME NEW i \in Issuer, NEW h \in Hash, MarkVcRevoked(i, s, h)
      PROVE  Goal
  BY <1>0, <1>3, MarkType DEF MarkVcRevoked
<1>4. ASSUME NEW i \in Issuer, NEW h \in Hash, Revoke(i, s, h)
      PROVE  Goal
  <2>1. RegTypeOK'
    BY <1>4, RevokeType DEF Revoke
  <2>2. CASE UNCHANGED idVars
    BY <2>1, <2>2 DEF IdTypeOK
  <2>3. CASE MarkRevoked(i, s, h)
    BY <2>1, <2>3, MarkType
  <2> QED BY <1>4, <2>2, <2>3 DEF Revoke, MarkedBy
<1>5. CASE GetActiveVcCount(s)
  <2>1. ComputeActiveVcCount(vcAnchors[s]) \in Nat
    BY SlotCounts DEF IdTypeOK
  <2> QED BY <1>0, <1>5, <2>1 DEF GetActiveVcCount, IdTypeOK
<1>6. CASE DeactivateDid(s)
  <2>1. /\ DeactivateCore(s)
        /\ didDocument' \in [Subject -> Cid \cup {None}]
        /\ UNCHANGED regVars
    BY <1>6 DEF DeactivateDid, DeactivateCore, IdTypeOK
  <2> QED BY <1>0, <2>1, DeactivateType
<1>7. CASE DeactivateIdentity(s)
  <2>1. /\ DeactivateCore(s)
        /\ didDocument' \in [Subject -> Cid \cup {None}]
        /\ UNCHANGED regVars
    BY <1>7 DEF DeactivateIdentity, DeactivateCore, IdTypeOK
  <2> QED BY <1>0, <2>1, DeactivateType
<1>8. CASE ReactivateIdentity(s)
  BY <1>0, <1>8 DEF ReactivateIdentity, StateChanged, IdTypeOK
<1> QED BY <1>1, <1>2, <1>3, <1>4, <1>5, <1>6, <1>7, <1>8

\* Both contracts start with their types, the older version's records included.
LEMMA TypeInit == Init => TypeOK
<1> SUFFICES ASSUME Init
             PROVE  TypeOK
  OBVIOUS
<1>1. RegTypeOK
  <2>1. batchLimit \in 1..MAX_BATCH_SIZE
    BY RegistryAssumption DEF Init, RegInit
  <2>2. issuerRevokedList \in [Issuer -> [Hash -> Nat]]
    BY DEF Init, RegInit
  <2> QED BY <2>1, <2>2 DEF Init, RegInit, RegTypeOK
<1>2. protocolStats \in ProtocolStats
  BY DEF Init, IdInit, ProtocolStats
<1>3. IdTypeOK
  <2>1. /\ ledger \in 1..MaxLedger
        /\ lastStateChange \in [Subject -> 0..MaxLedger]
        /\ issuerTier \in [Issuer -> 1..MAX_ISSUER_TIER_BPS]
        /\ issuersIndex \in [Issuer -> Nat]
    BY IdentityAssumption DEF Init, IdInit, MAX_ISSUER_TIER_BPS, DEFAULT_ISSUER_TIER_BPS
  <2>2. /\ vcAnchors \in [Subject -> Seq(Record)]
        /\ vcCredentialType \in [Subject -> [Hash -> CredType]]
        /\ activeVCCount \in [Subject -> Nat \cup {NoCount}]
        /\ didDocument \in [Subject -> Cid \cup {None}]
    BY IdentityAssumption DEF Init, IdInit
  <2>3. /\ trustedIssuer \in [Issuer -> BOOLEAN]
        /\ deactivated \in [Subject -> BOOLEAN]
    BY DEF Init, IdInit
  <2> QED BY <1>2, <2>1, <2>2, <2>3 DEF Init, IdInit, IdTypeOK
<1>4. ElsewhereTypeOK
  BY DEF Init, IdInit, ElsewhereTypeOK
<1> QED BY <1>1, <1>3, <1>4 DEF TypeOK

\* Every step keeps the types of both contracts.
LEMMA TypeNext == TypeOK /\ [Next]_vars => TypeOK'
<1> SUFFICES ASSUME TypeOK, [Next]_vars
             PROVE  TypeOK'
  OBVIOUS
<1>0. RegTypeOK /\ IdTypeOK /\ ElsewhereTypeOK
  BY DEF TypeOK
<1>1. ElsewhereTypeOK'
  BY <1>0 DEF Next, RevokeElsewhere, ElsewhereTypeOK
<1>2. RegTypeOK' /\ IdTypeOK'
  <2>1. CASE RegistryNext /\ UNCHANGED idVars
    BY <1>0, <2>1, RegistryType DEF IdTypeOK
  <2>2. CASE IdentityAdminNext
    <3>1. IdTypeOK'
      BY <1>0, <2>2, IdentityAdminType
    <3>2. CASE \E r \in Registry : SetRevocationRegistry(r)
      BY <1>0, <3>1, <3>2, IdentityAssumption DEF SetRevocationRegistry, SetIdentityOracle, RegTypeOK
    <3>3. CASE ~ \E r \in Registry : SetRevocationRegistry(r)
      <4>1. UNCHANGED regVars
        BY <2>2, <3>3 DEF IdentityAdminNext, IdInitialize, IdProposeNewAdmin, IdAcceptAdmin,
                          IdSetPaused, RegisterIssuer, DeregisterIssuer, SetIssuerTier
      <4> QED BY <1>0, <3>1, <4>1 DEF RegTypeOK
    <3> QED BY <3>2, <3>3
  <2>3. CASE SubjectNext
    BY <2>3, SubjectType
  <2>4. CASE Tick
    BY <1>0, <2>4, IdentityAssumption DEF Tick, RegTypeOK, IdTypeOK
  <2>5. CASE UNCHANGED vars
    BY <1>0, <2>5 DEF RegTypeOK, IdTypeOK
  <2>6. ASSUME NEW r \in OtherRegistry, NEW i \in Issuer, NEW s \in Subject, NEW h \in Hash,
               RevokeElsewhere(r, i, s, h)
        PROVE  RegTypeOK' /\ IdTypeOK'
    <3>1. RegTypeOK'
      BY <1>0, <2>6 DEF RevokeElsewhere, RegTypeOK
    <3>2. CASE UNCHANGED idVars
      BY <1>0, <3>1, <3>2 DEF IdTypeOK
    <3>3. CASE MarkRevoked(i, s, h)
      BY <1>0, <3>1, <3>3, MarkType
    <3> QED BY <2>6, <3>2, <3>3 DEF RevokeElsewhere, MarkedBy
  <2> QED BY <2>1, <2>2, <2>3, <2>4, <2>5, <2>6 DEF Next
<1> QED BY <1>1, <1>2 DEF TypeOK

\* Every storage entry of both contracts keeps its type, in every execution
\* and for every instance.
THEOREM TypeCorrect == Spec => []TypeOK
<1> QED BY TypeInit, TypeNext, PTL DEF Spec

-----------------------------------------------------------------------------
(* The registry's entries, the link and the issuer index.                  *)

\* Revoking a set of hashes keeps the four entries of every hash in agreement.
LEMMA RecordConsistent ==
  ASSUME RegTypeOK, RegistryConsistent, NEW i \in Issuer, NEW hs \in SUBSET Hash,
         RecordRevocations(i, hs)
  PROVE  RegistryConsistent'
<1> SUFFICES ASSUME NEW h \in Hash
             PROVE  /\ registeredVCIssuer'[h] = issuerOfVC'[h]
                    /\ status'[h] <=> issuerOfVC'[h] # None
                    /\ \A j \in Issuer :
                         issuerRevokedList'[j][h] = IF issuerOfVC'[h] = j THEN 1 ELSE 0
  BY DEF RegistryConsistent
<1> USE RegistryAssumption
<1>1. /\ registeredVCIssuer[h] = issuerOfVC[h]
      /\ status[h] <=> issuerOfVC[h] # None
      /\ \A j \in Issuer : issuerRevokedList[j][h] = IF issuerOfVC[h] = j THEN 1 ELSE 0
  BY DEF RegistryConsistent
<1>2. /\ registeredVCIssuer'[h] = IF h \in hs THEN i ELSE registeredVCIssuer[h]
      /\ status'[h] = (h \in hs \/ status[h])
      /\ issuerOfVC'[h] = IF h \in hs THEN i ELSE issuerOfVC[h]
  BY DEF RecordRevocations
<1>3. ASSUME NEW j \in Issuer
      PROVE  issuerRevokedList'[j][h] =
               IF j = i /\ h \in hs /\ issuerRevokedList[i][h] = 0
               THEN 1 ELSE issuerRevokedList[j][h]
  BY DEF RecordRevocations, PushNew, RegTypeOK
<1>4. h \in hs => registeredVCIssuer[h] \in {None, i}
  BY DEF RecordRevocations, MayRevoke
<1>5. CASE h \in hs
  <2>1. registeredVCIssuer'[h] = i /\ issuerOfVC'[h] = i /\ status'[h] /\ i # None
    BY <1>2, <1>5
  <2>2. issuerOfVC[h] \in {None, i} /\ None \notin Issuer
    BY <1>1, <1>4, <1>5
  <2>3. issuerRevokedList'[i][h] = 1
    <3>1. issuerRevokedList[i][h] = 0 \/ issuerRevokedList[i][h] = 1
      BY <1>1
    <3>2. QED
      BY <1>3, <1>5, <3>1
  <2>4. ASSUME NEW j \in Issuer, j # i PROVE issuerRevokedList'[j][h] = 0
    BY <1>1, <1>3, <2>2, <2>4
  <2>5. QED
    BY <2>1, <2>3, <2>4
<1>6. CASE h \notin hs
  BY <1>1, <1>2, <1>3, <1>6
<1> QED BY <1>5, <1>6

\* A subject's or issuer's call leaves the oracle's configuration and issuers
\* alone, and the registry too unless it is revoke.
LEMMA SubjectFrame ==
  ASSUME SubjectNext
  PROVE  /\ UNCHANGED <<idConfig, idIssuers>>
         /\ \/ UNCHANGED regVars
            \/ \E i \in Issuer, h \in Hash : RevokeEntry(i, h)
<1> PICK s \in Subject :
      \/ \E c \in Cid : AnchorDid(s, c)
      \/ \E i \in Issuer, h \in Hash :
           \/ \E t \in CredType : AnchorVcTyped(i, s, h, t)
           \/ MarkVcRevoked(i, s, h)
           \/ Revoke(i, s, h)
      \/ GetActiveVcCount(s)
      \/ DeactivateDid(s)
      \/ DeactivateIdentity(s)
      \/ ReactivateIdentity(s)
  BY DEF SubjectNext
<1>1. CASE \E c \in Cid : AnchorDid(s, c)
  BY <1>1 DEF AnchorDid
<1>2. CASE \E i \in Issuer, h \in Hash, t \in CredType : AnchorVcTyped(i, s, h, t)
  BY <1>2 DEF AnchorVcTyped
<1>3. CASE \E i \in Issuer, h \in Hash : MarkVcRevoked(i, s, h)
  BY <1>3 DEF MarkVcRevoked, MarkRevoked
<1>4. ASSUME NEW i \in Issuer, NEW h \in Hash, Revoke(i, s, h)
      PROVE  RevokeEntry(i, h) /\ UNCHANGED <<idConfig, idIssuers>>
  BY <1>4 DEF Revoke, MarkedBy, MarkRevoked
<1>5. CASE GetActiveVcCount(s)
  BY <1>5 DEF GetActiveVcCount
<1>6. CASE DeactivateDid(s) \/ DeactivateIdentity(s)
  BY <1>6 DEF DeactivateDid, DeactivateIdentity, DeactivateCore
<1>7. CASE ReactivateIdentity(s)
  BY <1>7 DEF ReactivateIdentity
<1>8. CASE \E i \in Issuer, h \in Hash : Revoke(i, s, h)
  BY <1>4, <1>8
<1> QED BY <1>1, <1>2, <1>3, <1>5, <1>6, <1>7, <1>8

\* The steps that touch the registry's entries, or the oracle's issuers, or
\* the link.
LEMMA RegistrySteps ==
  ASSUME [Next]_vars
  PROVE  \/ \E i \in Issuer, hs \in SUBSET Hash : RecordRevocations(i, hs)
         \/ UNCHANGED regEntries
<1>1. ASSUME NEW i \in Issuer, NEW b \in Batches, BatchRevoke(i, b)
      PROVE  \E hs \in SUBSET Hash : RecordRevocations(i, hs)
  BY <1>1, BatchElements DEF BatchRevoke
<1>2. CASE RegistryNext
  BY <1>1, <1>2 DEF RegistryNext, RegInitialize, RegProposeNewAdmin, RegAcceptAdmin,
                    RegSetPaused, SetBatchLimit, SetIdentityOracle
<1>3. CASE IdentityAdminNext
  BY <1>3 DEF IdentityAdminNext, IdInitialize, IdProposeNewAdmin, IdAcceptAdmin, IdSetPaused,
              SetRevocationRegistry, SetIdentityOracle, RegisterIssuer, DeregisterIssuer,
              SetIssuerTier
<1>4. CASE SubjectNext
  <2>1. ASSUME NEW i \in Issuer, NEW h \in Hash, RevokeEntry(i, h)
        PROVE  RecordRevocations(i, {h}) /\ {h} \in SUBSET Hash
    BY <2>1 DEF RevokeEntry
  <2> QED BY <1>4, <2>1, SubjectFrame
<1>5. CASE \E r \in OtherRegistry, i \in Issuer, s \in Subject, h \in Hash :
             RevokeElsewhere(r, i, s, h)
  BY <1>5 DEF RevokeElsewhere
<1> QED BY <1>2, <1>3, <1>4, <1>5 DEF Next, Tick

\* The registry's entries agree for every hash after any number of single and
\* batch revocations by any issuers.
THEOREM RegistryConsistency == Spec => []RegistryConsistent
<1>1. Init => RegistryConsistent
  BY RegistryAssumption DEF Init, RegInit, RegistryConsistent
<1>2. TypeOK /\ RegistryConsistent /\ [Next]_vars => RegistryConsistent'
  <2> SUFFICES ASSUME TypeOK, RegistryConsistent, [Next]_vars
               PROVE  RegistryConsistent'
    OBVIOUS
  <2>1. CASE \E i \in Issuer, hs \in SUBSET Hash : RecordRevocations(i, hs)
    BY <2>1, RecordConsistent DEF TypeOK
  <2>2. CASE UNCHANGED regEntries
    BY <2>2 DEF RegistryConsistent
  <2> QED BY <2>1, <2>2, RegistrySteps
<1> QED BY <1>1, <1>2, TypeCorrect, PTL DEF Spec

\* The steps of a revocation in another registry leave the configuration and
\* the issuers alone.
LEMMA ElsewhereFrame ==
  ASSUME NEW r, NEW i, NEW s, NEW h, RevokeElsewhere(r, i, s, h)
  PROVE  UNCHANGED <<regVars, idConfig, idIssuers>>
  BY DEF RevokeElsewhere, MarkedBy, MarkRevoked

\* For any sequence of registrations, deregistrations and re-registrations,
\* and any index an older version left: an issuer that version did not know is
\* listed exactly once while it is trusted, every other trusted one at most
\* twice, and an untrusted one is in the index only as an old tombstone.
THEOREM IssuerIndexCorrect == Spec => []IssuerIndexExact
<1> DEFINE Exact(i) == \/ i \in LegacyIssuers /\ trustedIssuer[i] /\ issuersIndex[i] \in 1..2
                       \/ i \in LegacyIssuers /\ ~trustedIssuer[i] /\ issuersIndex[i] \in 0..1
                       \/ i \notin LegacyIssuers /\ trustedIssuer[i] /\ issuersIndex[i] = 1
                       \/ i \notin LegacyIssuers /\ ~trustedIssuer[i] /\ issuersIndex[i] = 0
<1>0. IssuerIndexExact <=> \A i \in Issuer : Exact(i)
  BY DEF IssuerIndexExact
<1>1. Init => IssuerIndexExact
  <2> SUFFICES ASSUME Init, NEW i \in Issuer PROVE Exact(i)
    BY <1>0
  <2> QED BY DEF Init, IdInit
<1>2. TypeOK /\ IssuerIndexExact /\ [Next]_vars => IssuerIndexExact'
  <2> SUFFICES ASSUME TypeOK, IssuerIndexExact, [Next]_vars, NEW i \in Issuer
               PROVE  Exact(i)'
    BY DEF IssuerIndexExact
  <2>0. Exact(i)
    BY <1>0
  <2>1. ASSUME NEW j \in Issuer, RegisterIssuer(j)
        PROVE  Exact(i)'
    <3>1. CASE i = j
      BY <2>0, <2>1, <3>1 DEF RegisterIssuer, IndexWith, TypeOK, IdTypeOK
    <3>2. CASE i # j
      BY <2>0, <2>1, <3>2 DEF RegisterIssuer, IndexWith, TypeOK, IdTypeOK
    <3> QED BY <3>1, <3>2
  <2>2. ASSUME NEW j \in Issuer, DeregisterIssuer(j)
        PROVE  Exact(i)'
    BY <2>0, <2>2 DEF DeregisterIssuer, Compacted, TypeOK, IdTypeOK
  <2>3. CASE UNCHANGED <<trustedIssuer, issuersIndex>>
    BY <2>0, <2>3
  <2>4. CASE IdentityAdminNext
    BY <2>1, <2>2, <2>3, <2>4 DEF IdentityAdminNext, IdInitialize, IdProposeNewAdmin,
                IdAcceptAdmin, IdSetPaused, SetRevocationRegistry, SetIssuerTier
  <2>5. CASE SubjectNext
    BY <2>3, <2>5, SubjectFrame
  <2>6. CASE \E r \in OtherRegistry, j \in Issuer, s \in Subject, h \in Hash :
               RevokeElsewhere(r, j, s, h)
    BY <2>3, <2>6, ElsewhereFrame
  <2> QED BY <2>3, <2>4, <2>5, <2>6 DEF Next, Tick
<1> QED BY <1>1, <1>2, TypeCorrect, PTL DEF Spec

=============================================================================
