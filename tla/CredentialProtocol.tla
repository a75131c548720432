------------------------- MODULE CredentialProtocol -------------------------
(***************************************************************************)
(* The identity oracle and the revocation registry together: credentials   *)
(* are anchored in one contract and revoked in the other.  Each holds the  *)
(* other's address.  set_revocation_registry writes both; the registry's   *)
(* set_identity_oracle writes its own alone; and either may be called      *)
(* again for another contract, so that a link may be one-sided.            *)
(*                                                                         *)
(* Whoever must sign a call may call it at any time and in any order;      *)
(* nothing obliges anyone to, so there is no fairness.                     *)
(***************************************************************************)
EXTENDS IdentityOracle

vars == <<regVars, idVars, elsewhere>>

\* The batches batch_revoke is called with, one longer than the hard cap too.
Batches == UNION {[1..n -> Hash] : n \in 0..(MAX_BATCH_SIZE + 1)}

\* revoke: the registry's writes and, once it is linked, mark_vc_revoked in
\* the same transaction.  Another oracle's writes are not modelled.
Revoke(issuer, subject, h) ==
  /\ RevokeEntry(issuer, h)
  /\ \/ identityOracleId # ThisOracle /\ UNCHANGED idVars
     \/ identityOracleId = ThisOracle /\ MarkedBy(ThisRegistry, issuer, subject, h)

\* A revocation in another deployment of the registry: a batch, or a revoke of
\* one that is linked to another oracle or to this one.
RevokeElsewhere(registry, issuer, subject, h) ==
  /\ elsewhere' = [elsewhere EXCEPT ![registry] = @ \cup {h}]
  /\ UNCHANGED idVars \/ MarkedBy(registry, issuer, subject, h)
  /\ UNCHANGED regVars

Init == RegInit /\ IdInit

RegistryNext ==
  \/ \E a \in Admin : \/ RegInitialize(a)
                      \/ RegProposeNewAdmin(a)
                      \/ RegAcceptAdmin(a)
  \/ \E p \in BOOLEAN : RegSetPaused(p)
  \/ \E l \in BatchLimits : SetBatchLimit(l)
  \/ \E o \in Oracle : SetIdentityOracle(o)
  \/ \E i \in Issuer, b \in Batches : BatchRevoke(i, b)

IdentityAdminNext ==
  \/ \E a \in Admin : \/ IdInitialize(a)
                      \/ IdProposeNewAdmin(a)
                      \/ IdAcceptAdmin(a)
  \/ \E p \in BOOLEAN : IdSetPaused(p)
  \/ \E r \in Registry : SetRevocationRegistry(r)
  \/ \E i \in Issuer : \/ RegisterIssuer(i)
                       \/ DeregisterIssuer(i)
                       \/ \E bps \in TierInputs : SetIssuerTier(i, bps)

SubjectNext ==
  \E s \in Subject :
    \/ \E c \in Cid : AnchorDid(s, c)
    \/ \E i \in Issuer, h \in Hash :
         \/ \E t \in CredType : AnchorVcTyped(i, s, h, t)
         \/ MarkVcRevoked(i, s, h)
         \/ Revoke(i, s, h)
    \/ GetActiveVcCount(s)
    \/ DeactivateDid(s)
    \/ DeactivateIdentity(s)
    \/ ReactivateIdentity(s)

Next ==
  \/ /\ \/ RegistryNext /\ UNCHANGED idVars
        \/ IdentityAdminNext
        \/ SubjectNext
        \/ Tick
     /\ UNCHANGED elsewhere
  \/ \E r \in OtherRegistry, i \in Issuer, s \in Subject, h \in Hash :
       RevokeElsewhere(r, i, s, h)

Spec == Init /\ [][Next]_vars

-----------------------------------------------------------------------------
(* Properties.                                                             *)

\* Every storage entry of the two contracts holds a value of its type; in
\* particular no cached count is ever negative.
TypeOK == RegTypeOK /\ IdTypeOK /\ ElsewhereTypeOK

\* anchor_vc_typed's duplicate check: a subject's records never hold the same
\* credential of the same issuer twice, whatever was revoked, deactivated and
\* re-anchored in between.  mark_vc_revoked counts one transition on the
\* strength of it.
NoDuplicateAnchor ==
  \A s \in Subject : \A j, k \in DOMAIN vcAnchors[s] :
    SameCredential(vcAnchors[s][j], vcAnchors[s][k]) => j = k

\* register_issuer, deregister_issuer, through any sequence of them and from
\* any index an older version left behind: an issuer that version did not
\* know is in the index once while it is trusted and otherwise not at all; one
\* it knew may still be there as a tombstone, and if it is registered again
\* before any deregistration has compacted the index, twice.  (The comment at
\* IssuersIndex calls the index append-only and says that entries are never
\* removed on deregistration; the code compacts it.)
IssuerIndexExact ==
  \A i \in Issuer :
    issuersIndex[i] \in
      IF i \in LegacyIssuers
      THEN IF trustedIssuer[i] THEN 1..2 ELSE 0..1
      ELSE IF trustedIssuer[i] THEN {1} ELSE {0}

\* The cap of anchor_vc_typed: no step makes the active records of a subject
\* more numerous than MAX_VCS_PER_SUBJECT, also when revocations that reached
\* a registry alone had made room, and however far the cached count is from
\* the records; but set_revocation_registry may, because the records the
\* former registry had revoked are active again under another one.
ActiveCapRespected ==
  [][revocationRegistryId' = revocationRegistryId =>
       \A s \in Subject :
         LET before == Cardinality(ActiveSlots(vcAnchors[s]))
             after == Cardinality(ActiveSlots(vcAnchors[s]))'
         IN after > before => after <= MAX_VCS_PER_SUBJECT]_vars

\* The cached count never exceeds the records whose own flag is unset: a
\* revocation that reaches the oracle always lowers it, and deactivation
\* empties it.
CountWithinUnrevoked ==
  \A s \in Subject : activeVCCount[s] <= Cardinality(UnrevokedSlots(vcAnchors[s]))

\* A subject none of whose credentials was ever revoked in a registry has an
\* exact cached count: mark_vc_revoked, deactivation, reactivation, lazy
\* seeding and new anchors keep it so in any order.
CountExactWithoutRegistry ==
  \A s \in Subject :
    /\ activeVCCount[s] # NoCount
    /\ \A k \in DOMAIN vcAnchors[s] : LET h == vcAnchors[s][k].hash IN
         ~status[h] /\ \A r \in OtherRegistry : h \notin elsewhere[r]
    => activeVCCount[s] = Cardinality(UnrevokedSlots(vcAnchors[s]))

\* The count is absent only for subjects this version never wrote to, so the
\* seeding inside mark_vc_revoked concerns legacy records alone.
CountAbsentOnlyLegacy ==
  \A s \in Subject : activeVCCount[s] = NoCount => vcAnchors[s] = LegacyAnchors[s]

\* The positions of all subjects' records, and those whose flag is set.
AllSlots(anchors) == UNION {{s} \X DOMAIN anchors[s] : s \in Subject}
RevokedSlots(anchors) == {p \in AllSlots(anchors) : anchors[p[1]][p[2]].revoked}

\* get_protocol_stats: total_vcs_anchored and total_vcs_revoked count exactly
\* the records added and the flags set since deployment: a second revocation,
\* or the deactivation of a subject with revoked records, counts nothing
\* twice.
StatsAccurate ==
  /\ protocolStats.anchored =
       Cardinality(AllSlots(vcAnchors)) - Cardinality(AllSlots(LegacyAnchors))
  /\ protocolStats.revoked =
       Cardinality(RevokedSlots(vcAnchors)) - Cardinality(RevokedSlots(LegacyAnchors))

\* The registry's four entries for a hash agree: a revoked hash has one owner,
\* who is in RegisteredVCIssuer and IssuerOfVC and whose list holds the hash
\* exactly once; a hash that is not revoked is in no entry.
RegistryConsistent ==
  \A h \in Hash :
    /\ registeredVCIssuer[h] = issuerOfVC[h]
    /\ status[h] <=> issuerOfVC[h] # None
    /\ \A i \in Issuer : issuerRevokedList[i][h] = IF issuerOfVC[h] = i THEN 1 ELSE 0

\* pause of the registry: while it is set nobody is revoked, nothing is
\* linked, no limit and no admin changes hands, whichever contract the call
\* came through.  (The admin may still name a successor.)
PausedRegistryFrozen ==
  [][regPaused => UNCHANGED <<regEntries, identityOracleId, batchLimit, regAdmin>>]_vars

\* Nothing undoes a revocation: no registry status and no record's flag is
\* ever cleared, and records are only ever appended.
RevocationPermanent ==
  [][/\ \A h \in Hash : status[h] => status'[h] /\ issuerOfVC'[h] = issuerOfVC[h]
     /\ \A s \in Subject :
          /\ Len(vcAnchors[s]) <= Len(vcAnchors'[s])
          /\ \A k \in DOMAIN vcAnchors[s] :
               /\ SameCredential(vcAnchors'[s][k], vcAnchors[s][k])
               /\ vcAnchors[s][k].revoked => vcAnchors'[s][k].revoked]_vars

\* record_last_state_change: every step that changes a subject's document,
\* records or deactivation stamps the subject with the current ledger, which
\* is what the credit oracle compares a cached score with.
ChangesStamped ==
  [][\A s \in Subject :
       \/ lastStateChange'[s] = ledger
       \/ /\ didDocument'[s] = didDocument[s]
          /\ vcAnchors'[s] = vcAnchors[s]
          /\ deactivated'[s] = deactivated[s]]_vars

\* The credentials of some of a subject's records.
Credentials(s, slots) == {<<vcAnchors[s][k].hash, vcAnchors[s][k].issuer>> : k \in slots}

\* The view has several oracles; this one has a place of its own there.
Here(answers) == [o \in {ThisOracle} |-> answers]

View == INSTANCE IdentityView WITH
          Oracle <- {ThisOracle},
          issued <- Here([s \in Subject |-> Credentials(s, DOMAIN vcAnchors[s])]),
          active <- Here([s \in Subject |-> Credentials(s, ActiveSlots(vcAnchors[s]))]),
          vcCredentialType <- Here(vcCredentialType),
          deactivated <- Here(deactivated),
          lastStateChange <- Here(lastStateChange),
          registry <- Here(revocationRegistryId)

\* The oracle and its registries implement IdentityView: what the credit
\* oracle reads of a subject changes only with a stamp, but for credentials
\* that stop being active; none comes back unless the oracle is pointed at
\* another registry, and none is anchored twice.
ImplementsView == View!ViewSpec

\* expect("active VC count underflow"): mark_vc_revoked asserts that the count
\* of a subject with an unflagged record is not 0.
NoUnderflow ==
  \A s \in Subject : UnrevokedSlots(vcAnchors[s]) # {} => activeVCCount[s] # 0

=============================================================================
