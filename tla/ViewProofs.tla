----------------------------- MODULE ViewProofs -----------------------------
(***************************************************************************)
(* The identity oracle and the registry together implement IdentityView,   *)
(* the specification credit scoring is built on: the initial states map to *)
(* initial states, and every step to a step of the view or to none.        *)
(***************************************************************************)
EXTENDS CountProofs

USE DEF regVars, regConfig, regEntries, idVars, idConfig, idIssuers, idCredentials, idSubjects, vars

\* The two parts of the refinement mapping that are not variables.
Issued == [s \in Subject |-> Credentials(s, DOMAIN vcAnchors[s])]
Active == [s \in Subject |-> Credentials(s, ActiveSlots(vcAnchors[s]))]

\* Everything else the view shows.
shown == <<vcCredentialType, deactivated, lastStateChange, revocationRegistryId, ledger>>

-----------------------------------------------------------------------------
(* The mapping is well typed.                                              *)

\* An update of the one oracle's answers is one of the view's.
LEMMA HereUpdate ==
  ASSUME NEW f, NEW s, NEW v
  PROVE  /\ Here(f)[ThisOracle] = f
         /\ [Here(f) EXCEPT ![ThisOracle][s] = v] = Here([f EXCEPT ![s] = v])
  BY DEF Here

\* A record names a credential.
LEMMA RecordFields ==
  ASSUME TypeOK, NEW s \in Subject, NEW k \in DOMAIN vcAnchors[s]
  PROVE  /\ vcAnchors[s][k] \in Record
         /\ vcAnchors[s][k].hash \in Hash /\ vcAnchors[s][k].issuer \in Issuer
<1>1. vcAnchors[s] \in Seq(Record)
  BY DEF TypeOK, IdTypeOK
<1>2. vcAnchors[s][k] \in Record
  BY <1>1, ElementOfSeq, LenProperties
<1>3. QED
  BY <1>2 DEF Record

\* The mapped state is typed, and active credentials are issued ones.
LEMMA MappingTyped ==
  ASSUME TypeOK
  PROVE  /\ Issued \in [Subject -> SUBSET (Hash \X Issuer)]
         /\ Active \in [Subject -> SUBSET (Hash \X Issuer)]
         /\ \A s \in Subject : Active[s] \subseteq Issued[s]
<1>1. ASSUME NEW s \in Subject
      PROVE  /\ Credentials(s, DOMAIN vcAnchors[s]) \subseteq Hash \X Issuer
             /\ Credentials(s, ActiveSlots(vcAnchors[s])) \subseteq
                  Credentials(s, DOMAIN vcAnchors[s])
  <2>1. \A k \in DOMAIN vcAnchors[s] :
          vcAnchors[s][k].hash \in Hash /\ vcAnchors[s][k].issuer \in Issuer
    BY RecordFields
  <2>2. ActiveSlots(vcAnchors[s]) \subseteq DOMAIN vcAnchors[s]
    BY DEF ActiveSlots
  <2>3. QED
    BY <2>1, <2>2 DEF Credentials
<1>2. QED
  BY <1>1 DEF Issued, Active

-----------------------------------------------------------------------------
(* What changes of the records make of a subject's credentials.            *)

\* The records are the same but for flags that were set.
FlagsGrow(s) ==
  /\ DOMAIN vcAnchors'[s] = DOMAIN vcAnchors[s]
  /\ \A k \in DOMAIN vcAnchors[s] :
       /\ SameCredential(vcAnchors'[s][k], vcAnchors[s][k])
       /\ vcAnchors[s][k].revoked => vcAnchors'[s][k].revoked

\* Without new records and with the same registry a subject can only lose
\* active credentials.
LEMMA FlagsLose ==
  ASSUME TypeOK, [Next]_vars, NEW s \in Subject, FlagsGrow(s)
  PROVE  /\ Issued'[s] = Issued[s]
         /\ revocationRegistryId' = revocationRegistryId => Active'[s] \subseteq Active[s]
<1>1. \A k \in DOMAIN vcAnchors[s] :
        /\ vcAnchors'[s][k].hash = vcAnchors[s][k].hash
        /\ vcAnchors'[s][k].issuer = vcAnchors[s][k].issuer
  BY DEF FlagsGrow, SameCredential
<1>2. Issued'[s] = Issued[s]
  BY <1>1 DEF Issued, Credentials, FlagsGrow
<1>3. ASSUME revocationRegistryId' = revocationRegistryId
      PROVE  Active'[s] \subseteq Active[s]
  <2>1. \A k \in DOMAIN vcAnchors[s] :
          RegistryRevoked(vcAnchors[s][k].hash) => RevokedAfter(vcAnchors[s][k].hash)
    BY <1>3, RecordFields, AnswersGrow
  <2>2. ActiveSlots(vcAnchors[s])' =
          {k \in DOMAIN vcAnchors'[s] :
             ~(vcAnchors'[s][k].revoked \/ RevokedAfter(vcAnchors'[s][k].hash))}
    BY DEF ActiveSlots, RecordRevoked, RegistryRevoked, RevokedAfter, IsRevoked
  <2>3. ActiveSlots(vcAnchors[s])' \subseteq ActiveSlots(vcAnchors[s])
    BY <1>1, <2>1, <2>2 DEF ActiveSlots, RecordRevoked, FlagsGrow
  <2>4. \A k \in ActiveSlots(vcAnchors[s])' : k \in DOMAIN vcAnchors[s]
    BY <2>3 DEF ActiveSlots
  <2>5. QED
    BY <1>1, <2>3, <2>4 DEF Active, Credentials
<1>4. QED
  BY <1>2, <1>3

\* anchor_vc_typed appends a record without a flag; the registry's answers
\* stay the same.
LEMMA AppendIssues ==
  ASSUME TypeOK, NEW i \in Issuer, NEW s \in Subject, NEW h \in Hash, NEW t \in CredType,
         AnchorVcTyped(i, s, h, t), UNCHANGED elsewhere
  PROVE  /\ <<h, i>> \notin Issued[s]
         /\ Issued' = [Issued EXCEPT ![s] = @ \cup {<<h, i>>}]
         /\ Active' = [Active EXCEPT ![s] = @ \cup {<<h, i>>}] \/ Active' = Active
<1> DEFINE r == [hash |-> h, issuer |-> i, revoked |-> FALSE]
           a == vcAnchors[s]
           n == Len(a) + 1
<1>0. /\ ~AlreadyAnchored(s, i, h)
      /\ vcAnchors' = [vcAnchors EXCEPT ![s] = Append(a, r)]
      /\ UNCHANGED <<status, revocationRegistryId, elsewhere>>
  BY DEF AnchorVcTyped
<1>1. a \in Seq(Record) /\ r \in Record
  BY DEF TypeOK, IdTypeOK, Record
<1>2. vcAnchors'[s] = Append(a, r) /\ \A z \in Subject : z # s => vcAnchors'[z] = vcAnchors[z]
  BY <1>0 DEF TypeOK, IdTypeOK
<1>3. /\ DOMAIN Append(a, r) = DOMAIN a \cup {n}
      /\ n \notin DOMAIN a
      /\ \A k \in DOMAIN a : Append(a, r)[k] = a[k]
      /\ Append(a, r)[n] = r
  BY <1>1, AppendedSlots
<1>4. r.hash = h /\ r.issuer = i /\ ~r.revoked
  OBVIOUS
<1> HIDE DEF r, n
<1>5. <<h, i>> \notin Issued[s]
  BY <1>0 DEF Issued, Credentials, AlreadyAnchored
<1>6. Issued'[s] = Issued[s] \cup {<<h, i>>}
  <2>1. /\ DOMAIN vcAnchors'[s] = DOMAIN vcAnchors[s] \cup {n}
        /\ \A k \in DOMAIN vcAnchors[s] : vcAnchors'[s][k] = vcAnchors[s][k]
        /\ vcAnchors'[s][n].hash = h /\ vcAnchors'[s][n].issuer = i
    BY <1>2, <1>3, <1>4
  <2>2. QED
    BY <2>1 DEF Issued, Credentials
<1>7. \A z \in Subject : z # s => Issued'[z] = Issued[z] /\ Active'[z] = Active[z]
  BY <1>0, <1>2 DEF Issued, Active, Credentials, ActiveSlots, RecordRevoked, RegistryRevoked, IsRevoked
<1>8. Active'[s] = Active[s] \/ Active'[s] = Active[s] \cup {<<h, i>>}
  <2>1. ActiveSlots(vcAnchors[s])' = ActiveSlots(a) \/
        ActiveSlots(vcAnchors[s])' = ActiveSlots(a) \cup {n}
    BY <1>0, <1>2, <1>3, <1>4 DEF ActiveSlots, RecordRevoked, RegistryRevoked, IsRevoked
  <2>2. ActiveSlots(a) \subseteq DOMAIN a
    BY DEF ActiveSlots
  <2>3. /\ \A k \in ActiveSlots(a) : vcAnchors'[s][k] = vcAnchors[s][k]
        /\ vcAnchors'[s][n].hash = h /\ vcAnchors'[s][n].issuer = i
    BY <1>2, <1>3, <1>4, <2>2
  <2>4. CASE ActiveSlots(vcAnchors[s])' = ActiveSlots(a)
    <3>1. Active'[s] \subseteq Active[s]
      BY <2>3, <2>4 DEF Active, Credentials
    <3>2. Active[s] \subseteq Active'[s]
      BY <2>3, <2>4 DEF Active, Credentials
    <3>3. QED
      BY <3>1, <3>2
  <2>5. CASE ActiveSlots(vcAnchors[s])' = ActiveSlots(a) \cup {n}
    BY <2>3, <2>5 DEF Active, Credentials
  <2>6. QED
    BY <2>1, <2>4, <2>5
<1>9. QED
  BY <1>5, <1>6, <1>7, <1>8 DEF Issued, Active

\* Deactivation leaves no active credential and touches nobody else.
LEMMA DeactivateEmpties ==
  ASSUME TypeOK, NEW s \in Subject,
         vcAnchors' = [vcAnchors EXCEPT ![s] = AllRevoked(vcAnchors[s])],
         UNCHANGED <<status, revocationRegistryId, elsewhere>>
  PROVE  Issued' = Issued /\ Active' = [Active EXCEPT ![s] = {}]
<1>1. vcAnchors'[s] = AllRevoked(vcAnchors[s])
      /\ \A z \in Subject : z # s => vcAnchors'[z] = vcAnchors[z]
  BY DEF TypeOK, IdTypeOK
<1>2. /\ DOMAIN vcAnchors'[s] = DOMAIN vcAnchors[s]
      /\ \A k \in DOMAIN vcAnchors[s] :
           /\ vcAnchors'[s][k].hash = vcAnchors[s][k].hash
           /\ vcAnchors'[s][k].issuer = vcAnchors[s][k].issuer
           /\ vcAnchors'[s][k].revoked
  BY <1>1, RecordFields DEF AllRevoked, Record
<1>3. \A z \in Subject : z # s => Issued'[z] = Issued[z] /\ Active'[z] = Active[z]
  BY <1>1 DEF Issued, Active, Credentials, ActiveSlots, RecordRevoked, RegistryRevoked, IsRevoked
<1>4. Issued'[s] = Issued[s]
  BY <1>2 DEF Issued, Credentials
<1>5. Active'[s] = {}
  <2>1. ActiveSlots(vcAnchors[s])' = {}
    BY <1>2 DEF ActiveSlots, RecordRevoked
  <2>2. QED
    BY <2>1 DEF Active, Credentials
<1>6. QED
  BY <1>3, <1>4, <1>5 DEF Issued, Active

-----------------------------------------------------------------------------
(* The steps of the view, in terms of the mapping.                         *)

\* A step that appends no record and keeps the registry maps to losses.
LEMMA LostStep ==
  ASSUME TypeOK, [Next]_vars, \A s \in Subject : FlagsGrow(s), UNCHANGED revocationRegistryId
  PROVE  Issued' = Issued /\ Here(Active)' \in View!Losses
<1>1. \A s \in Subject : Issued'[s] = Issued[s] /\ Active'[s] \subseteq Active[s]
  BY FlagsLose
<1>2. Issued' = Issued
  BY <1>1 DEF Issued
<1>3. Active' \in [Subject -> SUBSET (Hash \X Issuer)]
  BY <1>1, MappingTyped DEF Active
<1>4. QED
  BY <1>1, <1>2, <1>3 DEF View!Losses, View!Holdings, View!Credential, Here, Active

\* A step that shows nothing but the loss of active credentials.
LEMMA QuietStep ==
  ASSUME TypeOK, [Next]_vars, UNCHANGED vcAnchors, UNCHANGED shown
  PROVE  View!Lapse \/ UNCHANGED <<View!viewVars, ledger>>
<1>1. \A s \in Subject : FlagsGrow(s)
  BY DEF FlagsGrow, SameCredential
<1>2. Issued' = Issued /\ Here(Active)' \in View!Losses
  BY <1>1, LostStep DEF shown
<1>3. CASE Here(Active)' = Here(Active)
  BY <1>2, <1>3 DEF View!viewVars, Issued, Active, shown, Here
<1>4. CASE Here(Active)' # Here(Active)
  BY <1>2, <1>4 DEF View!Lapse, Issued, Active, shown, Here
<1>5. QED
  BY <1>3, <1>4

\* A step that stamps one subject and sets flags of records.
LEMMA TouchStep ==
  ASSUME TypeOK, [Next]_vars, \A z \in Subject : FlagsGrow(z), NEW s \in Subject,
         lastStateChange' = StateChanged(s),
         UNCHANGED <<vcCredentialType, deactivated, revocationRegistryId, ledger>>
  PROVE  View!Touch(ThisOracle, s)
<1>1. Issued' = Issued /\ Here(Active)' \in View!Losses
  BY LostStep
<1>2. Here(lastStateChange)' = [Here(lastStateChange) EXCEPT ![ThisOracle][s] = ledger]
  BY HereUpdate DEF StateChanged, Here
<1>3. QED
  BY <1>1, <1>2 DEF View!Touch, View!Stamp, Issued, Active, Here

\* mark_vc_revoked appends no record.
LEMMA MarkedGrow ==
  ASSUME TypeOK, NEW i \in Issuer, NEW s \in Subject, NEW h \in Hash,
         vcAnchors' = [vcAnchors EXCEPT ![s] = Marked(vcAnchors[s], i, h)]
  PROVE  \A z \in Subject : FlagsGrow(z)
<1> SUFFICES ASSUME NEW z \in Subject PROVE FlagsGrow(z)
  OBVIOUS
<1>1. CASE z # s
  BY <1>1 DEF FlagsGrow, SameCredential, TypeOK, IdTypeOK
<1>2. CASE z = s
  <2>1. vcAnchors'[s] = Marked(vcAnchors[s], i, h)
    BY DEF TypeOK, IdTypeOK
  <2>2. QED
    BY <1>2, <2>1, RecordFields DEF FlagsGrow, SameCredential, Marked, Record
<1>3. QED
  BY <1>1, <1>2

\* mark_vc_revoked, by the issuer or within a registry's revoke.
LEMMA MarkStep ==
  ASSUME TypeOK, [Next]_vars, NEW i \in Issuer, NEW s \in Subject, NEW h \in Hash,
         MarkRevoked(i, s, h)
  PROVE  View!Touch(ThisOracle, s) \/ View!Lapse \/ UNCHANGED <<View!viewVars, ledger>>
<1> DEFINE m == Marked(vcAnchors[s], i, h)
<1>1. /\ vcAnchors' = [vcAnchors EXCEPT ![s] = m]
      /\ UNCHANGED <<vcCredentialType, deactivated, revocationRegistryId, ledger>>
  BY DEF MarkRevoked
<1>2. \/ lastStateChange' = StateChanged(s)
      \/ m = vcAnchors[s] /\ UNCHANGED lastStateChange
  BY DEF MarkRevoked
<1>3. CASE lastStateChange' = StateChanged(s)
  BY <1>1, <1>3, MarkedGrow, TouchStep
<1>4. CASE m = vcAnchors[s] /\ UNCHANGED lastStateChange
  <2>1. UNCHANGED vcAnchors
    BY <1>1, <1>4 DEF TypeOK, IdTypeOK
  <2>2. QED
    BY <1>1, <1>4, <2>1, QuietStep DEF shown
<1>5. QED
  BY <1>2, <1>3, <1>4

\* Anchoring maps to Issue.
LEMMA AnchorStep ==
  ASSUME TypeOK, NEW i \in Issuer, NEW s \in Subject, NEW h \in Hash, NEW t \in CredType,
         AnchorVcTyped(i, s, h, t), UNCHANGED elsewhere
  PROVE  View!Issue(ThisOracle, s, <<h, i>>, t)
<1>1. /\ vcCredentialType' = [vcCredentialType EXCEPT ![s][h] = t]
      /\ lastStateChange' = [lastStateChange EXCEPT ![s] = ledger]
      /\ UNCHANGED <<deactivated, revocationRegistryId, ledger>>
  BY DEF AnchorVcTyped, StateChanged
<1>2. /\ <<h, i>> \notin Issued[s]
      /\ Issued' = [Issued EXCEPT ![s] = @ \cup {<<h, i>>}]
      /\ Active' = [Active EXCEPT ![s] = @ \cup {<<h, i>>}] \/ Active' = Active
  BY AppendIssues
<1>3. /\ Here(vcCredentialType)' = [Here(vcCredentialType) EXCEPT ![ThisOracle][s][h] = t]
      /\ Here(lastStateChange)' = [Here(lastStateChange) EXCEPT ![ThisOracle][s] = ledger]
      /\ UNCHANGED <<Here(deactivated), Here(revocationRegistryId), ledger>>
  BY <1>1 DEF Here
<1>4. <<h, i>> \notin Here(Issued)[ThisOracle][s]
  BY <1>2, HereUpdate
<1>5. Here(Issued)' = [Here(Issued) EXCEPT ![ThisOracle][s] = @ \cup {<<h, i>>}]
  BY <1>2 DEF Here
<1>6. \/ Here(Active)' = [Here(Active) EXCEPT ![ThisOracle][s] = @ \cup {<<h, i>>}]
      \/ Here(Active)' = Here(Active)
  BY <1>2 DEF Here
<1>7. <<h, i>>[1] = h
  OBVIOUS
<1>8. QED
  BY <1>3, <1>4, <1>5, <1>6, <1>7 DEF View!Issue, View!Stamp, Issued, Active

\* Deactivation maps to Deactivate.
LEMMA DeactivateStep ==
  ASSUME TypeOK, NEW s \in Subject, DeactivateCore(s), UNCHANGED elsewhere
  PROVE  View!Deactivate(ThisOracle, s)
<1>1. /\ vcAnchors' = [vcAnchors EXCEPT ![s] = AllRevoked(vcAnchors[s])]
      /\ UNCHANGED <<status, revocationRegistryId, elsewhere>>
      /\ deactivated' = [deactivated EXCEPT ![s] = TRUE]
      /\ lastStateChange' = [lastStateChange EXCEPT ![s] = ledger]
      /\ UNCHANGED <<vcCredentialType, ledger>>
  BY DEF DeactivateCore, StateChanged
<1>2. Issued' = Issued /\ Active' = [Active EXCEPT ![s] = {}]
  BY <1>1, DeactivateEmpties
<1>3. /\ Here(deactivated)' = [Here(deactivated) EXCEPT ![ThisOracle][s] = TRUE]
      /\ Here(lastStateChange)' = [Here(lastStateChange) EXCEPT ![ThisOracle][s] = ledger]
      /\ Here(Active)' = [Here(Active) EXCEPT ![ThisOracle][s] = {}]
      /\ UNCHANGED <<Here(Issued), Here(vcCredentialType), Here(revocationRegistryId), ledger>>
  BY <1>1, <1>2 DEF Here
<1>4. QED
  BY <1>3 DEF View!Deactivate, View!Stamp, Issued, Active

\* A first link only takes active credentials away, a new one may give back
\* what the former registry had taken.
LEMMA RelinkStep ==
  ASSUME TypeOK, [Next]_vars, NEW r \in Registry, SetRevocationRegistry(r), UNCHANGED elsewhere
  PROVE  View!Relink(ThisOracle, r) \/ UNCHANGED <<View!viewVars, ledger>>
<1>1. /\ revocationRegistryId' = r
      /\ UNCHANGED <<vcAnchors, vcCredentialType, deactivated, lastStateChange, ledger>>
      /\ UNCHANGED <<status, elsewhere>>
  BY DEF SetRevocationRegistry, SetIdentityOracle
<1>2. Issued' = Issued
  BY <1>1 DEF Issued, Credentials
<1>3. CASE r = revocationRegistryId
  <2>1. Active' = Active
    BY <1>1, <1>3 DEF Active, Credentials, ActiveSlots, RecordRevoked, RegistryRevoked, IsRevoked
  <2>2. QED
    BY <1>1, <1>2, <1>3, <2>1 DEF View!viewVars, Issued, Active, Here
<1>4. CASE r # revocationRegistryId
  <2>1. /\ Active' \in [Subject -> SUBSET (Hash \X Issuer)]
        /\ \A s \in Subject : Active'[s] \subseteq Issued[s]
    <3>1. ASSUME NEW s \in Subject PROVE Active'[s] \subseteq Issued[s]
      BY <1>1 DEF Active, Issued, Credentials, ActiveSlots
    <3>2. QED
      BY <3>1, MappingTyped DEF Active
  <2>2. ASSUME revocationRegistryId = None, NEW s \in Subject
        PROVE  Active'[s] \subseteq Active[s]
    <3>1. \A h : ~RegistryRevoked(h)
      BY <2>2, IdentityAssumption DEF RegistryRevoked, OtherRegistry
    <3>2. ActiveSlots(vcAnchors[s])' \subseteq ActiveSlots(vcAnchors[s])
      BY <1>1, <3>1 DEF ActiveSlots, RecordRevoked
    <3>3. QED
      BY <1>1, <3>2 DEF Active, Credentials
  <2>3. /\ Here(revocationRegistryId)' = [Here(revocationRegistryId) EXCEPT ![ThisOracle] = r]
        /\ Here(Active)' = [Here(Active) EXCEPT ![ThisOracle] = Active']
        /\ UNCHANGED <<Here(Issued), Here(vcCredentialType), Here(deactivated),
                       Here(lastStateChange), ledger>>
    BY <1>1, <1>2 DEF Here
  <2>4. /\ Here(revocationRegistryId)[ThisOracle] = revocationRegistryId
        /\ Here(Active)[ThisOracle] = Active /\ Here(Issued)[ThisOracle] = Issued
    BY HereUpdate
  <2>5. \E f \in [Subject -> SUBSET (Hash \X Issuer)] :
          /\ \A s \in Subject : f[s] \subseteq IF revocationRegistryId = None
                                              THEN Active[s] ELSE Issued[s]
          /\ Here(Active)' = [Here(Active) EXCEPT ![ThisOracle] = f]
    BY <2>1, <2>2, <2>3
  <2>6. QED
    BY <1>4, <2>3, <2>4, <2>5 DEF View!Relink, View!Credential, Issued, Active
<1>5. QED
  BY <1>3, <1>4

-----------------------------------------------------------------------------
(* The theorems.                                                           *)

\* Every step of the two contracts is a step of the view, or not seen by it.
LEMMA ViewSimulated ==
  ASSUME TypeOK, [Next]_vars
  PROVE  [View!ViewStep \/ View!ViewTick]_<<View!viewVars, ledger>>
<1> DEFINE Goal == [View!ViewStep \/ View!ViewTick]_<<View!viewVars, ledger>>
<1>1. ASSUME UNCHANGED vcAnchors, UNCHANGED shown PROVE Goal
  BY <1>1, QuietStep DEF View!ViewStep
<1>2. CASE UNCHANGED vars
  BY <1>1, <1>2 DEF shown
<1>3. CASE RegistryNext /\ UNCHANGED idVars
  BY <1>1, <1>3 DEF shown
<1>4. CASE IdentityAdminNext /\ UNCHANGED elsewhere
  <2>1. CASE \E r \in Registry : SetRevocationRegistry(r)
    BY <1>4, <2>1, RelinkStep DEF View!ViewStep
  <2>2. CASE ~\E r \in Registry : SetRevocationRegistry(r)
    BY <1>1, <1>4, <2>2
      DEF IdentityAdminNext, IdInitialize, IdProposeNewAdmin, IdAcceptAdmin, IdSetPaused,
          RegisterIssuer, DeregisterIssuer, SetIssuerTier, shown
  <2>3. QED
    BY <2>1, <2>2
<1>5. CASE SubjectNext /\ UNCHANGED elsewhere
  <2> PICK s \in Subject :
        \/ \E c \in Cid : AnchorDid(s, c)
        \/ \E i \in Issuer, h \in Hash :
             \/ \E t \in CredType : AnchorVcTyped(i, s, h, t)
             \/ MarkVcRevoked(i, s, h)
             \/ Revoke(i, s, h)
        \/ GetActiveVcCount(s)
        \/ DeactivateDid(s)
        \/ DeactivateIdentity(s)
        \/ ReactivateIdentity(s)
    BY <1>5 DEF SubjectNext
  <2>1. ASSUME NEW c \in Cid, AnchorDid(s, c) PROVE View!Touch(ThisOracle, s)
    <3>1. /\ UNCHANGED <<vcAnchors, vcCredentialType, deactivated, revocationRegistryId, ledger>>
          /\ lastStateChange' = StateChanged(s)
      BY <2>1 DEF AnchorDid
    <3>2. \A z \in Subject : FlagsGrow(z)
      BY <3>1 DEF FlagsGrow, SameCredential
    <3>3. QED
      BY <3>1, <3>2, TouchStep
  <2>2. ASSUME NEW i \in Issuer, NEW h \in Hash, NEW t \in CredType, AnchorVcTyped(i, s, h, t)
        PROVE  \E c \in View!Credential, type \in CredType : View!Issue(ThisOracle, s, c, type)
    <3>1. <<h, i>> \in View!Credential
      BY DEF View!Credential
    <3>2. QED
      BY <1>5, <2>2, <3>1, AnchorStep
  <2>3. ASSUME NEW i \in Issuer, NEW h \in Hash, MarkVcRevoked(i, s, h) \/ Revoke(i, s, h)
        PROVE  Goal
    <3>1. CASE MarkRevoked(i, s, h)
      BY <3>1, MarkStep DEF View!ViewStep
    <3>2. CASE UNCHANGED idVars
      BY <1>1, <3>2 DEF shown
    <3>3. QED
      BY <2>3, <3>1, <3>2 DEF MarkVcRevoked, Revoke, MarkedBy
  <2>4. CASE GetActiveVcCount(s)
    BY <1>1, <2>4 DEF GetActiveVcCount, shown
  <2>5. CASE DeactivateDid(s) \/ DeactivateIdentity(s)
    BY <1>5, <2>5, DeactivateStep DEF DeactivateDid, DeactivateIdentity, View!ViewStep
  <2>6. CASE ReactivateIdentity(s)
    <3>1. Issued' = Issued /\ Active' = Active
      BY <1>5, <2>6 DEF ReactivateIdentity, Issued, Active, Credentials, ActiveSlots,
                        RecordRevoked, RegistryRevoked, IsRevoked
    <3>2. /\ Here(deactivated)' = [Here(deactivated) EXCEPT ![ThisOracle][s] = FALSE]
          /\ Here(lastStateChange)' = [Here(lastStateChange) EXCEPT ![ThisOracle][s] = ledger]
      BY <2>6, HereUpdate DEF ReactivateIdentity, StateChanged, Here
    <3>3. View!Reactivate(ThisOracle, s)
      BY <2>6, <3>1, <3>2 DEF ReactivateIdentity, View!Reactivate, View!Stamp, Issued, Active, Here
    <3>4. QED
      BY <3>3 DEF View!ViewStep
  <2>7. QED
    BY <2>1, <2>2, <2>3, <2>4, <2>5, <2>6 DEF View!ViewStep
<1>6. CASE Tick /\ UNCHANGED elsewhere
  <2>1. Issued' = Issued /\ Active' = Active
    BY <1>6 DEF Tick, Issued, Active, Credentials, ActiveSlots, RecordRevoked,
                RegistryRevoked, IsRevoked
  <2>2. View!ViewTick
    BY <1>6, <2>1 DEF Tick, View!ViewTick, View!viewVars, Issued, Active, Here
  <2>3. QED
    BY <2>2
<1>7. ASSUME NEW r \in OtherRegistry, NEW i \in Issuer, NEW s \in Subject, NEW h \in Hash,
             RevokeElsewhere(r, i, s, h)
      PROVE  Goal
  <2>1. CASE MarkRevoked(i, s, h)
    BY <2>1, MarkStep DEF View!ViewStep
  <2>2. CASE UNCHANGED idVars
    BY <1>1, <2>2 DEF shown
  <2>3. QED
    BY <1>7, <2>1, <2>2 DEF RevokeElsewhere, MarkedBy
<1>8. QED
  BY <1>2, <1>3, <1>4, <1>5, <1>6, <1>7 DEF Next

\* Initial states map to initial states of the view.
LEMMA ViewInitial == TypeOK /\ Init => View!ViewInit
<1> SUFFICES ASSUME TypeOK, Init PROVE View!ViewInit
  OBVIOUS
<1>1. /\ Issued \in [Subject -> SUBSET (Hash \X Issuer)]
      /\ Active \in [Subject -> SUBSET (Hash \X Issuer)]
      /\ \A s \in Subject : Active[s] \subseteq Issued[s]
  BY MappingTyped
<1>2. /\ Here(Issued) \in View!Holdings /\ Here(Active) \in View!Holdings
      /\ \A o \in {ThisOracle}, s \in Subject : Here(Active)[o][s] \subseteq Here(Issued)[o][s]
  BY <1>1 DEF View!Holdings, View!Credential, Here
<1>3. /\ vcCredentialType \in [Subject -> [Hash -> CredType]]
      /\ deactivated = [s \in Subject |-> FALSE]
      /\ lastStateChange = [s \in Subject |-> 0]
      /\ revocationRegistryId = None
      /\ ledger = 1
  BY DEF TypeOK, IdTypeOK, Init, IdInit
<1>4. Here(vcCredentialType) \in [{ThisOracle} -> [Subject -> [Hash -> CredType]]]
  BY <1>3 DEF Here
<1>5. /\ Here(deactivated) = [o \in {ThisOracle} |-> [s \in Subject |-> FALSE]]
      /\ Here(lastStateChange) = [o \in {ThisOracle} |-> [s \in Subject |-> 0]]
      /\ Here(revocationRegistryId) = [o \in {ThisOracle} |-> None]
  BY <1>3 DEF Here
<1>6. QED
  BY <1>2, <1>3, <1>4, <1>5 DEF View!ViewInit, Issued, Active

\* anchor_vc, mark_vc_revoked, revoke, batch_revoke, deactivation, links and
\* relinks: the identity oracle and its registries implement IdentityView, so
\* that what is proved of scoring on top of the view holds on top of the
\* contracts.
THEOREM ImplementsTheView == Spec => ImplementsView
<1>1. Init /\ TypeOK => View!ViewInit
  BY ViewInitial
<1>2. TypeOK /\ [Next]_vars => [View!ViewStep \/ View!ViewTick]_<<View!viewVars, ledger>>
  BY ViewSimulated
<1>3. QED
  BY <1>1, <1>2, TypeCorrect, PTL DEF Spec, ImplementsView, View!ViewSpec

\* record_last_state_change: whatever changes a subject's document, records
\* or deactivation leaves the current ledger as the subject's stamp, for any
\* number of subjects, issuers and records.
THEOREM ChangesAreStamped == Spec => ChangesStamped
<1> DEFINE Stamped(s) == \/ lastStateChange'[s] = ledger
                         \/ /\ didDocument'[s] = didDocument[s]
                            /\ vcAnchors'[s] = vcAnchors[s]
                            /\ deactivated'[s] = deactivated[s]
<1>1. ASSUME TypeOK, [Next]_vars, NEW q \in Subject PROVE Stamped(q)
  <2> USE <1>1 DEF TypeOK, IdTypeOK
  <2>1. ASSUME UNCHANGED <<didDocument, vcAnchors, deactivated>> PROVE Stamped(q)
    BY <2>1
  <2>2. ASSUME NEW s \in Subject, lastStateChange' = StateChanged(s),
               \A z \in Subject : z # s => /\ didDocument'[z] = didDocument[z]
                                           /\ vcAnchors'[z] = vcAnchors[z]
                                           /\ deactivated'[z] = deactivated[z]
        PROVE  Stamped(q)
    BY <2>2 DEF StateChanged
  <2>0. ASSUME NEW s \in Subject, NEW i \in Issuer, NEW h \in Hash, MarkRevoked(i, s, h)
        PROVE  Stamped(q)
    <3>1. CASE lastStateChange' = StateChanged(s)
      BY <2>0, <2>2, <3>1 DEF MarkRevoked
    <3>2. CASE UNCHANGED vcAnchors
      BY <2>0, <2>1, <3>2 DEF MarkRevoked
    <3>3. QED
      BY <2>0, <3>1, <3>2 DEF MarkRevoked
  <2>3. CASE UNCHANGED vars \/ (RegistryNext /\ UNCHANGED idVars) \/ Tick
    BY <2>1, <2>3 DEF Tick
  <2>4. CASE IdentityAdminNext
    BY <2>1, <2>4
      DEF IdentityAdminNext, IdInitialize, IdProposeNewAdmin, IdAcceptAdmin, IdSetPaused,
          SetRevocationRegistry, RegisterIssuer, DeregisterIssuer, SetIssuerTier
  <2>5. CASE SubjectNext
    <3> PICK s \in Subject :
          \/ \E c \in Cid : AnchorDid(s, c)
          \/ \E i \in Issuer, h \in Hash :
               \/ \E t \in CredType : AnchorVcTyped(i, s, h, t)
               \/ MarkVcRevoked(i, s, h)
               \/ Revoke(i, s, h)
          \/ GetActiveVcCount(s)
          \/ DeactivateDid(s)
          \/ DeactivateIdentity(s)
          \/ ReactivateIdentity(s)
      BY <2>5 DEF SubjectNext
    <3>1. CASE \E c \in Cid : AnchorDid(s, c)
      BY <2>2, <3>1 DEF AnchorDid
    <3>2. ASSUME NEW i \in Issuer, NEW h \in Hash, NEW t \in CredType, AnchorVcTyped(i, s, h, t)
          PROVE  Stamped(q)
      BY <2>2, <3>2 DEF AnchorVcTyped
    <3>4. ASSUME NEW i \in Issuer, NEW h \in Hash, MarkVcRevoked(i, s, h) \/ Revoke(i, s, h)
          PROVE  Stamped(q)
      BY <2>0, <2>1, <3>4 DEF MarkVcRevoked, Revoke, MarkedBy
    <3>5. CASE GetActiveVcCount(s)
      BY <2>1, <3>5 DEF GetActiveVcCount
    <3>6. CASE DeactivateDid(s) \/ DeactivateIdentity(s)
      BY <2>2, <3>6 DEF DeactivateDid, DeactivateIdentity, DeactivateCore
    <3>7. CASE ReactivateIdentity(s)
      BY <2>2, <3>7 DEF ReactivateIdentity
    <3>8. QED
      BY <3>1, <3>2, <3>4, <3>5, <3>6, <3>7
  <2>6. ASSUME NEW r \in OtherRegistry, NEW i \in Issuer, NEW s \in Subject, NEW h \in Hash,
               RevokeElsewhere(r, i, s, h)
        PROVE  Stamped(q)
    BY <2>0, <2>1, <2>6 DEF RevokeElsewhere, MarkedBy
  <2>7. QED
    BY <2>3, <2>4, <2>5, <2>6 DEF Next
<1>2. TypeOK /\ [Next]_vars => [\A s \in Subject : Stamped(s)]_vars
  BY <1>1
<1>3. QED
  BY <1>2, TypeCorrect, PTL DEF Spec, ChangesStamped

\* Only an admin can pause, and the role is never given up: without it, a
\* paused registry could be initialised.
PausedHasAdmin == regPaused => regAdmin # None

\* The steps that write the registry's settings.
LEMMA RegistryStep ==
  ASSUME [Next]_vars
  PROVE  \/ UNCHANGED regVars
         \/ RegistryNext
         \/ \E o \in Oracle : SetIdentityOracle(o)
         \/ \E i \in Issuer, h \in Hash : RevokeEntry(i, h)
<1>1. CASE IdentityAdminNext
  BY <1>1, IdentityAssumption
    DEF IdentityAdminNext, IdInitialize, IdProposeNewAdmin, IdAcceptAdmin, IdSetPaused,
        SetRevocationRegistry, RegisterIssuer, DeregisterIssuer, SetIssuerTier
<1>2. CASE SubjectNext
  <2> PICK s \in Subject :
        \/ \E c \in Cid : AnchorDid(s, c)
        \/ \E i \in Issuer, h \in Hash :
             \/ \E t \in CredType : AnchorVcTyped(i, s, h, t)
             \/ MarkVcRevoked(i, s, h)
             \/ Revoke(i, s, h)
        \/ GetActiveVcCount(s)
        \/ DeactivateDid(s)
        \/ DeactivateIdentity(s)
        \/ ReactivateIdentity(s)
    BY <1>2 DEF SubjectNext
  <2>1. CASE \E i \in Issuer, h \in Hash : Revoke(i, s, h)
    BY <2>1 DEF Revoke
  <2>2. CASE \E i \in Issuer, h \in Hash :
               MarkVcRevoked(i, s, h) \/ \E t \in CredType : AnchorVcTyped(i, s, h, t)
    BY <2>2 DEF MarkVcRevoked, AnchorVcTyped
  <2>3. CASE (\E c \in Cid : AnchorDid(s, c)) \/ GetActiveVcCount(s) \/ ReactivateIdentity(s)
    BY <2>3 DEF AnchorDid, GetActiveVcCount, ReactivateIdentity
  <2>4. CASE DeactivateDid(s) \/ DeactivateIdentity(s)
    BY <2>4 DEF DeactivateDid, DeactivateIdentity, DeactivateCore
  <2>5. QED
    BY <2>1, <2>2, <2>3, <2>4
<1>3. QED
  BY <1>1, <1>2, ElsewhereFrame DEF Next, Tick

\* The registry is paused by its admin, who never vanishes.
LEMMA PausedHasAdminStep == PausedHasAdmin /\ [Next]_vars => PausedHasAdmin'
<1> SUFFICES ASSUME PausedHasAdmin, [Next]_vars PROVE PausedHasAdmin'
  OBVIOUS
<1> USE RegistryAssumption DEF PausedHasAdmin
<1>1. CASE RegistryNext
  BY <1>1
    DEF RegistryNext, RegInitialize, RegProposeNewAdmin, RegAcceptAdmin, RegSetPaused,
        RegRequireAdmin, SetBatchLimit, SetIdentityOracle, BatchRevoke
<1>2. CASE (\E o \in Oracle : SetIdentityOracle(o)) \/ \E i \in Issuer, h \in Hash : RevokeEntry(i, h)
  BY <1>2 DEF SetIdentityOracle, RevokeEntry
<1>3. QED
  BY <1>1, <1>2, RegistryStep

\* pause of the registry: no call, through either contract, changes what a
\* paused registry has recorded, its link, its limit or its admin.
THEOREM PausedRegistryStaysFrozen == Spec => PausedRegistryFrozen
<1> DEFINE Frozen == UNCHANGED <<regEntries, identityOracleId, batchLimit, regAdmin>>
<1>1. ASSUME PausedHasAdmin, [Next]_vars, regPaused PROVE Frozen
  <2>1. CASE RegistryNext
    BY <1>1, <2>1
      DEF RegistryNext, RegInitialize, RegProposeNewAdmin, RegAcceptAdmin, RegSetPaused,
          SetBatchLimit, SetIdentityOracle, BatchRevoke, PausedHasAdmin
  <2>2. QED
    BY <1>1, <2>1, RegistryStep DEF SetIdentityOracle, RevokeEntry
<1>2. PausedHasAdmin /\ [Next]_vars => [regPaused => Frozen]_vars
  BY <1>1
<1>3. Init => PausedHasAdmin
  BY DEF Init, RegInit, PausedHasAdmin
<1>4. QED
  BY <1>2, <1>3, PausedHasAdminStep, PTL DEF Spec, PausedRegistryFrozen

=============================================================================
