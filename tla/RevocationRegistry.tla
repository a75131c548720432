------------------------- MODULE RevocationRegistry -------------------------
(***************************************************************************)
(* contracts/revocation-registry: the global list of revoked credential    *)
(* hashes.  One variable per storage key.  A Soroban invocation is atomic  *)
(* and a returned error or a panic rolls back everything it wrote, so each *)
(* entry point is one action and a rejected call is no step at all.        *)
(*                                                                         *)
(* Every entry point is an action here but revoke, which also writes the   *)
(* identity oracle: this module has the registry's half of it (RevokeEntry)*)
(* and CredentialProtocol the whole handler.  TTL bumps and events have no *)
(* effect on the state modelled.                                           *)
(*                                                                         *)
(* This is one deployment of the contract.  It may be pointed at any       *)
(* identity oracle, again and again.                                       *)
(***************************************************************************)
EXTENDS Integers, Sequences, FiniteSets

CONSTANTS
  Admin,           \* addresses that may hold an admin role
  Issuer,          \* addresses that call revoke and batch_revoke
  Hash,            \* SHA-256 hashes of credentials
  Oracle,          \* bound: the contracts set_identity_oracle is called with
  None,            \* an absent storage entry
  MAX_BATCH_SIZE,  \* hard cap on batch_revoke
  BatchLimits      \* bound: the limits set_batch_limit is called with

ASSUME RegistryAssumption ==
  /\ None \notin Admin
  /\ None \notin Issuer
  /\ None \notin Oracle
  /\ MAX_BATCH_SIZE \in Nat \ {0}
  /\ BatchLimits \subseteq Nat

VARIABLES
  regAdmin,            \* Admin
  regPendingAdmin,     \* PendingAdmin
  regPaused,           \* Paused
  batchLimit,          \* BatchLimit
  identityOracleId,    \* IdentityOracleId
  registeredVCIssuer,  \* RegisteredVCIssuer(hash)
  status,              \* Status(hash)
  issuerOfVC,          \* IssuerOfVC(hash)
  issuerRevokedList    \* IssuerRevokedList(issuer), as a bag: how often it
                       \* holds each hash.  Its order only numbers the pages
                       \* of list_revoked.

regConfig == <<regAdmin, regPendingAdmin, regPaused, batchLimit, identityOracleId>>
regEntries == <<registeredVCIssuer, status, issuerOfVC, issuerRevokedList>>
regVars == <<regConfig, regEntries>>

RegTypeOK ==
  /\ regAdmin \in Admin \cup {None}
  /\ regPendingAdmin \in Admin \cup {None}
  /\ regPaused \in BOOLEAN
  /\ batchLimit \in 1..MAX_BATCH_SIZE
  /\ identityOracleId \in Oracle \cup {None}
  /\ registeredVCIssuer \in [Hash -> Issuer \cup {None}]
  /\ status \in [Hash -> BOOLEAN]
  /\ issuerOfVC \in [Hash -> Issuer \cup {None}]
  /\ issuerRevokedList \in [Issuer -> [Hash -> Nat]]

RegInit ==
  /\ regAdmin = None
  /\ regPendingAdmin = None
  /\ regPaused = FALSE
  /\ batchLimit = MAX_BATCH_SIZE      \* get_batch_limit's default
  /\ identityOracleId = None
  /\ registeredVCIssuer = [h \in Hash |-> None]
  /\ status = [h \in Hash |-> FALSE]
  /\ issuerOfVC = [h \in Hash |-> None]
  /\ issuerRevokedList = [i \in Issuer |-> [h \in Hash |-> 0]]

-----------------------------------------------------------------------------
(* Administration.  require_admin: the stored admin exists and signs.      *)

RegRequireAdmin == regAdmin # None

RegInitialize(admin) ==
  /\ regAdmin = None
  /\ regAdmin' = admin
  /\ batchLimit' = MAX_BATCH_SIZE
  /\ UNCHANGED <<regPendingAdmin, regPaused, identityOracleId, regEntries>>

RegSetPaused(p) ==
  /\ RegRequireAdmin
  /\ regPaused' = p
  /\ UNCHANGED <<regAdmin, regPendingAdmin, batchLimit, identityOracleId, regEntries>>

\* Mutant: a limit of 0 and one above the hard cap are stored.
SetBatchLimit_Unchecked(limit) ==
  /\ ~regPaused
  /\ RegRequireAdmin
  /\ batchLimit' = limit
  /\ UNCHANGED <<regAdmin, regPendingAdmin, regPaused, identityOracleId, regEntries>>

SetBatchLimit(limit) ==
  /\ ~regPaused
  /\ RegRequireAdmin
  /\ limit > 0 /\ limit <= MAX_BATCH_SIZE
  /\ batchLimit' = limit
  /\ UNCHANGED <<regAdmin, regPendingAdmin, regPaused, identityOracleId, regEntries>>

\* Mutant: the pause is not checked.
SetIdentityOracle_Unpaused(oracle) ==
  /\ RegRequireAdmin
  /\ identityOracleId' = oracle
  /\ UNCHANGED <<regAdmin, regPendingAdmin, regPaused, batchLimit, regEntries>>

\* The address is stored as it is: nothing is asked of it.
SetIdentityOracle(oracle) ==
  /\ ~regPaused
  /\ RegRequireAdmin
  /\ identityOracleId' = oracle
  /\ UNCHANGED <<regAdmin, regPendingAdmin, regPaused, batchLimit, regEntries>>

RegProposeNewAdmin(newAdmin) ==
  /\ RegRequireAdmin                  \* not gated by the pause
  /\ regPendingAdmin' = newAdmin
  /\ UNCHANGED <<regAdmin, regPaused, batchLimit, identityOracleId, regEntries>>

RegAcceptAdmin(newAdmin) ==
  /\ ~regPaused
  /\ regPendingAdmin = newAdmin
  /\ regAdmin' = newAdmin
  /\ regPendingAdmin' = None
  /\ UNCHANGED <<regPaused, batchLimit, identityOracleId, regEntries>>

-----------------------------------------------------------------------------
(* Revocation.                                                             *)

Elements(seq) == {seq[k] : k \in DOMAIN seq}

\* The read entry point is_revoked.
IsRevoked(h) == status[h]

\* Mutant: the issuer check is dropped.
MayRevoke_Anyone(issuer, h) == TRUE

\* A hash belongs to the first issuer that revokes it.
MayRevoke(issuer, h) == registeredVCIssuer[h] \in {None, issuer}

\* Mutant: the hash is pushed without a look at the list.
PushNew_Always(list, hs) == [h \in Hash |-> IF h \in hs THEN list[h] + 1 ELSE list[h]]

\* list.contains(h) is checked before each push_back(h).
PushNew(list, hs) == [h \in Hash |-> IF h \in hs /\ list[h] = 0 THEN 1 ELSE list[h]]

\* The writes of revoke and of batch_revoke to the registry's own entries.
\* A mismatch on any hash rejects the whole call.
RecordRevocations(issuer, hs) ==
  /\ \A h \in hs : MayRevoke(issuer, h)
  /\ registeredVCIssuer' = [h \in Hash |-> IF h \in hs THEN issuer ELSE registeredVCIssuer[h]]
  /\ status' = [h \in Hash |-> h \in hs \/ status[h]]
  /\ issuerOfVC' = [h \in Hash |-> IF h \in hs THEN issuer ELSE issuerOfVC[h]]
  /\ issuerRevokedList' =
       [issuerRevokedList EXCEPT ![issuer] = PushNew(issuerRevokedList[issuer], hs)]

\* revoke without its call to the identity oracle.
RevokeEntry(issuer, h) ==
  /\ ~regPaused
  /\ RecordRevocations(issuer, {h})
  /\ UNCHANGED regConfig

\* batch_revoke: all of the batch or nothing, and no call to the oracle.
BatchRevoke(issuer, batch) ==
  /\ ~regPaused
  /\ Len(batch) <= batchLimit
  /\ RecordRevocations(issuer, Elements(batch))
  /\ UNCHANGED regConfig

=============================================================================
