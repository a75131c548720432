--------------------------- MODULE IdentityOracle ---------------------------
(***************************************************************************)
(* contracts/identity-oracle: trusted issuers, DID documents, and the      *)
(* anchoring and revocation of verifiable credentials, with the cached     *)
(* count of a subject's active credentials that credit scoring reads.      *)
(*                                                                         *)
(* The oracle calls the revocation registry (is_revoked in every question  *)
(* about a record, set_identity_oracle when the two are linked), so this   *)
(* module extends RevocationRegistry and reads its state.  The oracle may  *)
(* be linked to another deployment of the registry, and relinked: of those *)
(* only the answers to is_revoked are modelled (elsewhere).  The handler   *)
(* registries call, mark_vc_revoked, is MarkRevoked here; it is used by    *)
(* the issuer's own call (MarkVcRevoked) and by CredentialProtocol.        *)
(*                                                                         *)
(* anchored_at is read by credit scoring only and is left out.             *)
(***************************************************************************)
EXTENDS RevocationRegistry

CONSTANTS
  ThisOracle,           \* this contract's address
  Registry,             \* contracts that answer the probe of is_revoked
  ThisRegistry,         \* the deployment RevocationRegistry models
  Subject,              \* addresses credentials are anchored for
  Cid,                  \* DID document CIDs that pass anchor_did's checks
  CredType,             \* credential type labels
  Generic,              \* the label "generic", the default
  TierInputs,           \* bound: the weights set_issuer_tier is called with
  MAX_VCS_PER_SUBJECT,  \* cap on a subject's active credentials
  LegacyAnchors,        \* VCAnchors left by a version without ActiveVCCount
  LegacyIssuers,        \* IssuersIndex left by a version that only appended
  MaxAnchors,           \* bound: records per subject
  MaxDids,              \* bound: anchor_did calls
  MaxLedger             \* bound: ledger sequence numbers

MAX_ISSUER_TIER_BPS == 300
DEFAULT_ISSUER_TIER_BPS == 100

\* The count of a subject whose ActiveVCCount entry is absent.
NoCount == -1

Record == [hash : Hash, issuer : Issuer, revoked : BOOLEAN]
ProtocolStats == [dids : Nat, anchored : Nat, revoked : Nat]

\* Two records of one issuer for one hash.
SameCredential(r, q) == r.hash = q.hash /\ r.issuer = q.issuer

ASSUME IdentityAssumption ==
  /\ ThisOracle \in Oracle
  /\ ThisRegistry \in Registry /\ None \notin Registry
  /\ LegacyIssuers \subseteq Issuer
  /\ None \notin Cid
  /\ Generic \in CredType
  /\ TierInputs \subseteq Nat
  /\ MAX_VCS_PER_SUBJECT \in Nat
  /\ MaxAnchors \in Nat /\ MaxDids \in Nat /\ MaxLedger \in Nat \ {0}
  /\ IsFiniteSet(Subject)
  /\ LegacyAnchors \in [Subject -> Seq(Record)]
  /\ \A s \in Subject : LET a == LegacyAnchors[s] IN
       /\ Cardinality({k \in DOMAIN a : ~a[k].revoked}) <= MAX_VCS_PER_SUBJECT
       /\ \A j, k \in DOMAIN a : SameCredential(a[j], a[k]) => j = k

VARIABLES
  idAdmin,               \* Admin
  idPendingAdmin,        \* PendingAdmin
  idPaused,              \* Paused
  revocationRegistryId,  \* RevocationRegistryId
  trustedIssuer,         \* TrustedIssuer(issuer)
  issuersIndex,          \* IssuersIndex, as a bag: how often it holds an issuer
  issuerTier,            \* IssuerTier(issuer)
  didDocument,           \* DIDDocument(subject)
  vcAnchors,             \* VCAnchors(subject)
  activeVCCount,         \* ActiveVCCount(subject)
  vcCredentialType,      \* VCCredentialType(subject, hash)
  deactivated,           \* Deactivated(subject)
  lastStateChange,       \* LastStateChange(subject), 0 when absent
  protocolStats,         \* ProtocolStats
  ledger,                \* env.ledger().sequence()
  elsewhere              \* the hashes the other registries answer true for

idConfig == <<idAdmin, idPendingAdmin, idPaused, revocationRegistryId>>
idIssuers == <<trustedIssuer, issuersIndex, issuerTier>>
idCredentials == <<vcAnchors, activeVCCount, vcCredentialType>>
idSubjects == <<didDocument, idCredentials, deactivated, lastStateChange>>
idVars == <<idConfig, idIssuers, idSubjects, protocolStats, ledger>>

OtherRegistry == Registry \ {ThisRegistry}

ElsewhereTypeOK == elsewhere \in [OtherRegistry -> SUBSET Hash]

IdTypeOK ==
  /\ idAdmin \in Admin \cup {None}
  /\ idPendingAdmin \in Admin \cup {None}
  /\ idPaused \in BOOLEAN
  /\ revocationRegistryId \in Registry \cup {None}
  /\ trustedIssuer \in [Issuer -> BOOLEAN]
  /\ issuersIndex \in [Issuer -> Nat]
  /\ issuerTier \in [Issuer -> 1..MAX_ISSUER_TIER_BPS]
  /\ didDocument \in [Subject -> Cid \cup {None}]
  /\ vcAnchors \in [Subject -> Seq(Record)]
  /\ activeVCCount \in [Subject -> Nat \cup {NoCount}]
  /\ vcCredentialType \in [Subject -> [Hash -> CredType]]
  /\ deactivated \in [Subject -> BOOLEAN]
  /\ lastStateChange \in [Subject -> 0..MaxLedger]
  /\ protocolStats \in ProtocolStats
  /\ ledger \in 1..MaxLedger

\* A fresh deployment, or one just upgraded in place to this version: then
\* the admin is set, some subjects have anchors and no count, and the index
\* holds every issuer ever registered once, the deregistered ones too.
IdInit ==
  /\ idAdmin \in Admin \cup {None}
  /\ idAdmin = None <=> LegacyIssuers = {} /\ \A s \in Subject : LegacyAnchors[s] = <<>>
  /\ idPendingAdmin = None
  /\ idPaused = FALSE
  /\ revocationRegistryId = None
  /\ trustedIssuer \in [Issuer -> BOOLEAN]
  /\ \A i \in Issuer : trustedIssuer[i] => i \in LegacyIssuers
  /\ issuersIndex = [i \in Issuer |-> IF i \in LegacyIssuers THEN 1 ELSE 0]
  /\ issuerTier = [i \in Issuer |-> DEFAULT_ISSUER_TIER_BPS]
  /\ didDocument = [s \in Subject |-> None]
  /\ vcAnchors = LegacyAnchors
  /\ activeVCCount = [s \in Subject |-> NoCount]
  /\ vcCredentialType = [s \in Subject |-> [h \in Hash |-> Generic]]
  /\ deactivated = [s \in Subject |-> FALSE]
  /\ lastStateChange = [s \in Subject |-> 0]
  /\ protocolStats = [dids |-> 0, anchored |-> 0, revoked |-> 0]
  /\ ledger = 1
  /\ elsewhere = [r \in OtherRegistry |-> {}]

-----------------------------------------------------------------------------
(* Administration.                                                         *)

IdRequireAdmin == idAdmin # None

IdInitialize(admin) ==
  /\ idAdmin = None
  /\ idAdmin' = admin
  /\ UNCHANGED <<idPendingAdmin, idPaused, revocationRegistryId>>
  /\ UNCHANGED <<idIssuers, idSubjects, protocolStats, ledger, regVars>>

IdSetPaused(p) ==
  /\ IdRequireAdmin
  /\ idPaused' = p
  /\ UNCHANGED <<idAdmin, idPendingAdmin, revocationRegistryId>>
  /\ UNCHANGED <<idIssuers, idSubjects, protocolStats, ledger, regVars>>

\* Probes is_revoked, then has the registry link back to this contract; the
\* link is written only if that call succeeds.  It replaces any earlier one,
\* and the registry it pointed to keeps its own.
SetRevocationRegistry(registry) ==
  /\ ~idPaused
  /\ IdRequireAdmin
  /\ \/ registry = ThisRegistry /\ SetIdentityOracle(ThisOracle)
     \/ registry # ThisRegistry /\ UNCHANGED regVars
  /\ revocationRegistryId' = registry
  /\ UNCHANGED <<idAdmin, idPendingAdmin, idPaused>>
  /\ UNCHANGED <<idIssuers, idSubjects, protocolStats, ledger>>

IdProposeNewAdmin(newAdmin) ==
  /\ ~idPaused
  /\ IdRequireAdmin
  /\ idPendingAdmin' = newAdmin
  /\ UNCHANGED <<idAdmin, idPaused, revocationRegistryId>>
  /\ UNCHANGED <<idIssuers, idSubjects, protocolStats, ledger, regVars>>

IdAcceptAdmin(newAdmin) ==
  /\ ~idPaused
  /\ idPendingAdmin = newAdmin
  /\ idAdmin' = newAdmin
  /\ idPendingAdmin' = None
  /\ UNCHANGED <<idPaused, revocationRegistryId>>
  /\ UNCHANGED <<idIssuers, idSubjects, protocolStats, ledger, regVars>>

-----------------------------------------------------------------------------
(* Issuers.  Registration and deregistration ignore the pause.             *)

\* Mutant: pushed without a look at the flag.
IndexWith_Always(issuer) == [issuersIndex EXCEPT ![issuer] = @ + 1]

\* push_back of an issuer that is not trusted yet, whether or not an older
\* version left it in the index.
IndexWith(issuer) ==
  [issuersIndex EXCEPT ![issuer] = IF trustedIssuer[issuer] THEN @ ELSE @ + 1]

RegisterIssuer(issuer) ==
  /\ IdRequireAdmin
  /\ issuersIndex' = IndexWith(issuer)
  /\ trustedIssuer' = [trustedIssuer EXCEPT ![issuer] = TRUE]
  /\ UNCHANGED <<issuerTier, idConfig, idSubjects, protocolStats, ledger, regVars>>

\* The index rebuilt from the flags that are still set.
Compacted(trusted) == [i \in Issuer |-> IF trusted[i] THEN issuersIndex[i] ELSE 0]

DeregisterIssuer(issuer) ==
  /\ IdRequireAdmin
  /\ trustedIssuer' = [trustedIssuer EXCEPT ![issuer] = FALSE]
  /\ issuersIndex' = Compacted(trustedIssuer')
  /\ UNCHANGED <<issuerTier, idConfig, idSubjects, protocolStats, ledger, regVars>>

SetIssuerTier(issuer, bps) ==
  /\ ~idPaused
  /\ IdRequireAdmin
  /\ bps > 0 /\ bps <= MAX_ISSUER_TIER_BPS
  /\ issuerTier' = [issuerTier EXCEPT ![issuer] = bps]
  /\ UNCHANGED <<trustedIssuer, issuersIndex, idConfig, idSubjects, protocolStats, ledger, regVars>>

-----------------------------------------------------------------------------
(* Questions about records.                                                *)

\* The linked registry's answer to is_revoked.
RegistryRevoked(h) ==
  \/ revocationRegistryId = ThisRegistry /\ IsRevoked(h)
  \/ revocationRegistryId \in OtherRegistry /\ h \in elsewhere[revocationRegistryId]

\* is_record_revoked: the local flag, or the registry's answer if linked.
RecordRevoked(r) == r.revoked \/ RegistryRevoked(r.hash)

\* The records compute_active_vc_count and the cap count.
ActiveSlots(anchors) == {k \in DOMAIN anchors : ~RecordRevoked(anchors[k])}

\* The records whose own flag is not set.
UnrevokedSlots(anchors) == {k \in DOMAIN anchors : ~anchors[k].revoked}

IsVerified(subject) == ~deactivated[subject] /\ ActiveSlots(vcAnchors[subject]) # {}

\* What seed_active_vc_count stores.
ComputeActiveVcCount(anchors) == Cardinality(ActiveSlots(anchors))

\* record_last_state_change
StateChanged(subject) == [lastStateChange EXCEPT ![subject] = ledger]

-----------------------------------------------------------------------------
(* DID documents.                                                          *)

AnchorDid(subject, cid) ==
  /\ protocolStats.dids < MaxDids
  /\ ~idPaused
  /\ didDocument' = [didDocument EXCEPT ![subject] = cid]
  /\ lastStateChange' = StateChanged(subject)
  /\ protocolStats' = [protocolStats EXCEPT !.dids = @ + 1]
  /\ UNCHANGED <<idCredentials, deactivated, idConfig, idIssuers, ledger, regVars>>

-----------------------------------------------------------------------------
(* Credentials.                                                            *)

\* Mutant: only records that are not revoked count as duplicates.
AlreadyAnchored_Active(subject, issuer, h) ==
  \E k \in DOMAIN vcAnchors[subject] :
    /\ vcAnchors[subject][k].hash = h /\ vcAnchors[subject][k].issuer = issuer
    /\ ~vcAnchors[subject][k].revoked

\* The duplicate check of anchor_vc_typed.
AlreadyAnchored(subject, issuer, h) ==
  \E k \in DOMAIN vcAnchors[subject] :
    vcAnchors[subject][k].hash = h /\ vcAnchors[subject][k].issuer = issuer

\* Mutant: off by one.
BelowCap_OffByOne(subject) == ComputeActiveVcCount(vcAnchors[subject]) <= MAX_VCS_PER_SUBJECT

\* The cap is on the records themselves, never on the cached count.
BelowCap(subject) == ComputeActiveVcCount(vcAnchors[subject]) < MAX_VCS_PER_SUBJECT

\* Mutant: a deactivated subject's new credential is not counted.
CountAfterAnchor_Deactivated(subject, r, anchors) ==
  IF activeVCCount[subject] = NoCount THEN ComputeActiveVcCount(anchors)
  ELSE IF RecordRevoked(r) \/ deactivated[subject] THEN activeVCCount[subject]
  ELSE activeVCCount[subject] + 1

\* Mutant: an absent count is not seeded.
CountAfterAnchor_NoSeed(subject, r, anchors) ==
  IF activeVCCount[subject] = NoCount \/ RecordRevoked(r) THEN activeVCCount[subject]
  ELSE activeVCCount[subject] + 1

\* The cached count after r was appended, giving anchors.
CountAfterAnchor(subject, r, anchors) ==
  IF activeVCCount[subject] = NoCount THEN ComputeActiveVcCount(anchors)
  ELSE IF RecordRevoked(r) THEN activeVCCount[subject]
  ELSE activeVCCount[subject] + 1

\* anchor_vc is the call with the type Generic.  A duplicate is accepted and
\* changes nothing, which is a stuttering step.
AnchorVcTyped(issuer, subject, h, type) ==
  LET r == [hash |-> h, issuer |-> issuer, revoked |-> FALSE]
      anchors == Append(vcAnchors[subject], r)
  IN
  /\ Len(vcAnchors[subject]) < MaxAnchors
  /\ ~idPaused
  /\ trustedIssuer[issuer]
  /\ ~AlreadyAnchored(subject, issuer, h)
  /\ BelowCap(subject)
  /\ vcCredentialType' = [vcCredentialType EXCEPT ![subject][h] = type]
  /\ vcAnchors' = [vcAnchors EXCEPT ![subject] = anchors]
  /\ lastStateChange' = StateChanged(subject)
  /\ activeVCCount' = [activeVCCount EXCEPT ![subject] = CountAfterAnchor(subject, r, anchors)]
  /\ protocolStats' = [protocolStats EXCEPT !.anchored = @ + 1]
  /\ UNCHANGED <<didDocument, deactivated, idConfig, idIssuers, ledger, regVars>>

\* The records after mark_vc_revoked's loop.
Marked(anchors, issuer, h) ==
  [k \in DOMAIN anchors |->
     IF anchors[k].hash = h /\ anchors[k].issuer = issuer
     THEN [anchors[k] EXCEPT !.revoked = TRUE] ELSE anchors[k]]

\* Mutant: the count is left as it was.
CountAfterMark_Kept(subject, anchors) ==
  IF activeVCCount[subject] = NoCount THEN ComputeActiveVcCount(anchors)
  ELSE activeVCCount[subject]

\* The cached count after a record went from active to revoked.
CountAfterMark(subject, anchors) ==
  IF activeVCCount[subject] = NoCount THEN ComputeActiveVcCount(anchors)
  ELSE activeVCCount[subject] - 1

\* mark_vc_revoked without the writes of its caller.  The subtraction is
\* checked: with a count of 0 the call panics and nothing is written.
MarkRevoked(issuer, subject, h) ==
  LET anchors == Marked(vcAnchors[subject], issuer, h)
      transitioned == anchors # vcAnchors[subject]
  IN
  /\ ~idPaused
  /\ AlreadyAnchored(subject, issuer, h)          \* else VCNotFound
  /\ vcAnchors' = [vcAnchors EXCEPT ![subject] = anchors]
  /\ \/ /\ transitioned
        /\ activeVCCount[subject] # 0             \* else "active VC count underflow"
        /\ lastStateChange' = StateChanged(subject)
        /\ protocolStats' = [protocolStats EXCEPT !.revoked = @ + 1]
        /\ activeVCCount' = [activeVCCount EXCEPT ![subject] = CountAfterMark(subject, anchors)]
     \/ /\ ~transitioned
        /\ activeVCCount' = [activeVCCount EXCEPT ![subject] =
                               IF @ = NoCount THEN ComputeActiveVcCount(anchors) ELSE @]
        /\ UNCHANGED <<lastStateChange, protocolStats>>
  /\ UNCHANGED <<didDocument, vcCredentialType, deactivated, idConfig, idIssuers, ledger>>

\* Called by the issuer itself.
MarkVcRevoked(issuer, subject, h) ==
  /\ MarkRevoked(issuer, subject, h)
  /\ UNCHANGED regVars

\* Seeding the count asks the linked registry about the records that carry no
\* local flag.
SeedAsks(registry, subject, anchors) ==
  /\ activeVCCount[subject] = NoCount
  /\ revocationRegistryId = registry
  /\ UnrevokedSlots(anchors) # {}

\* mark_vc_revoked called by a registry's revoke.  A failure fails the whole
\* call.  So does a question to that registry: the host refuses to re-enter a
\* contract that is already on the call stack.
MarkedBy(registry, issuer, subject, h) ==
  /\ ~SeedAsks(registry, subject, Marked(vcAnchors[subject], issuer, h))
  /\ MarkRevoked(issuer, subject, h)

\* get_active_vc_count, a query that writes the count when it is absent.
GetActiveVcCount(subject) ==
  /\ activeVCCount[subject] = NoCount
  /\ activeVCCount' = [activeVCCount EXCEPT ![subject] = ComputeActiveVcCount(vcAnchors[subject])]
  /\ UNCHANGED <<didDocument, vcAnchors, vcCredentialType, deactivated, lastStateChange>>
  /\ UNCHANGED <<idConfig, idIssuers, protocolStats, ledger, regVars>>

-----------------------------------------------------------------------------
(* Deactivation.  Neither these calls nor reactivation look at the pause.  *)

AllRevoked(anchors) == [k \in DOMAIN anchors |-> [anchors[k] EXCEPT !.revoked = TRUE]]

\* Mutant: every record is counted, the revoked ones again.
NewlyRevoked_All(subject) == Len(vcAnchors[subject])

\* revoked_count
NewlyRevoked(subject) == Cardinality(UnrevokedSlots(vcAnchors[subject]))

DeactivateCore(subject) ==
  /\ deactivated' = [deactivated EXCEPT ![subject] = TRUE]
  /\ vcAnchors' = [vcAnchors EXCEPT ![subject] = AllRevoked(@)]
  /\ protocolStats' = [protocolStats EXCEPT !.revoked = @ + NewlyRevoked(subject)]
  /\ activeVCCount' = [activeVCCount EXCEPT ![subject] = 0]
  /\ lastStateChange' = StateChanged(subject)
  /\ UNCHANGED <<vcCredentialType, idConfig, idIssuers, ledger, regVars>>

DeactivateDid(subject) ==
  /\ DeactivateCore(subject)
  /\ didDocument' = [didDocument EXCEPT ![subject] = None]

DeactivateIdentity(subject) ==
  /\ DeactivateCore(subject)
  /\ UNCHANGED didDocument

\* Mutant: the flag is cleared and the change not recorded.
ReactivateIdentity_Unstamped(subject) ==
  /\ deactivated' = [deactivated EXCEPT ![subject] = FALSE]
  /\ UNCHANGED <<didDocument, idCredentials, lastStateChange, idConfig, idIssuers,
                 protocolStats, ledger, regVars>>

ReactivateIdentity(subject) ==
  /\ deactivated' = [deactivated EXCEPT ![subject] = FALSE]
  /\ lastStateChange' = StateChanged(subject)
  /\ UNCHANGED <<didDocument, idCredentials, idConfig, idIssuers, protocolStats, ledger, regVars>>

\* The network closes a ledger.
Tick ==
  /\ ledger < MaxLedger
  /\ ledger' = ledger + 1
  /\ UNCHANGED <<idConfig, idIssuers, idSubjects, protocolStats, regVars>>

=============================================================================
