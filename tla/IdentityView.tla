---------------------------- MODULE IdentityView ----------------------------
(***************************************************************************)
(* What credit scoring may rely on of the identity oracles: the answers to *)
(* the questions compute_score and get_score ask (is_deactivated,          *)
(* get_vc_details, get_vc_credential_type, get_last_state_change_ledger)   *)
(* and how they may change.  CredentialProtocol implements it for one      *)
(* oracle (its ImplementsView); CreditOracle is built on it and may be     *)
(* pointed from one oracle to another.                                     *)
(*                                                                         *)
(* The promise: a step that changes a subject's answers stamps the subject *)
(* with the current ledger.  The exceptions are Lapse, a credential stops  *)
(* being active without a stamp because a registry revoked it in a batch   *)
(* or for another subject; and Relink, an oracle consults another          *)
(* registry, which may also make credentials active that were not.         *)
(***************************************************************************)
EXTENDS Integers

CONSTANTS
  Oracle,    \* identity oracles
  Subject,   \* addresses credentials are anchored for
  Hash,      \* SHA-256 hashes of credentials
  Issuer,    \* issuers of credentials
  CredType,  \* credential type labels
  Registry,  \* registries an oracle may consult
  None       \* an oracle that consults no registry

VARIABLES          \* of each oracle
  issued,            \* the credentials ever anchored for a subject
  active,            \* those get_vc_details returns
  vcCredentialType,  \* get_vc_credential_type
  deactivated,       \* is_deactivated
  lastStateChange,   \* get_last_state_change_ledger, 0 when absent
  registry,          \* get_revocation_registry
  ledger             \* the ledger sequence number, which is everyone's

viewVars == <<issued, active, vcCredentialType, deactivated, lastStateChange, registry>>

Credential == Hash \X Issuer
Holdings == [Oracle -> [Subject -> SUBSET Credential]]

ViewTypeOK ==
  /\ issued \in Holdings
  /\ active \in Holdings
  /\ vcCredentialType \in [Oracle -> [Subject -> [Hash -> CredType]]]
  /\ deactivated \in [Oracle -> [Subject -> BOOLEAN]]
  /\ lastStateChange \in [Oracle -> [Subject -> Nat]]
  /\ registry \in [Oracle -> Registry \cup {None}]

ViewInit ==
  /\ issued \in Holdings
  /\ active \in Holdings
  /\ \A o \in Oracle, s \in Subject : active[o][s] \subseteq issued[o][s]
  /\ vcCredentialType \in [Oracle -> [Subject -> [Hash -> CredType]]]
  /\ deactivated = [o \in Oracle |-> [s \in Subject |-> FALSE]]
  /\ lastStateChange = [o \in Oracle |-> [s \in Subject |-> 0]]
  /\ registry = [o \in Oracle |-> None]
  /\ ledger = 1

Stamp(o, s) == [lastStateChange EXCEPT ![o][s] = ledger]

\* anchor_vc_typed of a credential that is new for the subject: active at
\* once, unless the registry already has its hash.  The type is kept per
\* hash, so that a second issuer's anchor retypes the first one's.
Issue(o, s, c, type) ==
  /\ c \notin issued[o][s]
  /\ issued' = [issued EXCEPT ![o][s] = @ \cup {c}]
  /\ \/ active' = [active EXCEPT ![o][s] = @ \cup {c}]
     \/ active' = active
  /\ vcCredentialType' = [vcCredentialType EXCEPT ![o][s][c[1]] = type]
  /\ lastStateChange' = Stamp(o, s)
  /\ UNCHANGED <<deactivated, registry, ledger>>

\* Some credentials of any subjects stop being active, in every oracle that
\* consults the registry in question.
Losses == {f \in Holdings : \A o \in Oracle, s \in Subject : f[o][s] \subseteq active[o][s]}

\* mark_vc_revoked of one subject's record, or anchor_did: the subject is
\* stamped.  A revocation in the registry also ends the same hash of others.
Touch(o, s) ==
  /\ active' \in Losses
  /\ lastStateChange' = Stamp(o, s)
  /\ UNCHANGED <<issued, vcCredentialType, deactivated, registry, ledger>>

\* batch_revoke, or revoke in a registry that does not report to an oracle
\* that consults it: nobody is stamped.
Lapse ==
  /\ active' \in Losses \ {active}
  /\ UNCHANGED <<issued, vcCredentialType, deactivated, lastStateChange, registry, ledger>>

\* set_revocation_registry: credentials the new registry has revoked lapse,
\* those only the former one had revoked are active again.
Relink(o, r) ==
  /\ r # registry[o]
  /\ registry' = [registry EXCEPT ![o] = r]
  /\ \E f \in [Subject -> SUBSET Credential] :
       /\ \A s \in Subject :
            f[s] \subseteq IF registry[o] = None THEN active[o][s] ELSE issued[o][s]
       /\ active' = [active EXCEPT ![o] = f]
  /\ UNCHANGED <<issued, vcCredentialType, deactivated, lastStateChange, ledger>>

\* deactivate_did, deactivate_identity
Deactivate(o, s) ==
  /\ deactivated' = [deactivated EXCEPT ![o][s] = TRUE]
  /\ active' = [active EXCEPT ![o][s] = {}]
  /\ lastStateChange' = Stamp(o, s)
  /\ UNCHANGED <<issued, vcCredentialType, registry, ledger>>

\* reactivate_identity
Reactivate(o, s) ==
  /\ deactivated' = [deactivated EXCEPT ![o][s] = FALSE]
  /\ lastStateChange' = Stamp(o, s)
  /\ UNCHANGED <<issued, active, vcCredentialType, registry, ledger>>

ViewStep ==
  \/ \E o \in Oracle, s \in Subject :
       \/ \E c \in Credential, type \in CredType : Issue(o, s, c, type)
       \/ Touch(o, s)
       \/ Deactivate(o, s)
       \/ Reactivate(o, s)
  \/ Lapse
  \/ \E o \in Oracle, r \in Registry : Relink(o, r)

\* The network closes a ledger.
ViewTick == ledger' = ledger + 1 /\ UNCHANGED viewVars

ViewSpec == ViewInit /\ [][ViewStep \/ ViewTick]_<<viewVars, ledger>>

=============================================================================
