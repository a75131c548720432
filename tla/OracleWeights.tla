---------------------------- MODULE OracleWeights ----------------------------
(***************************************************************************)
(* contracts/credit-oracle, the part that governs scoring: the weights and *)
(* their timelock, the pause, and the two-step transfer of the admin role. *)
(*                                                                         *)
(* An admin is an account, which signs, or the governance contract, which  *)
(* can only authorise the calls it makes itself (module Governance).       *)
(***************************************************************************)
EXTENDS Integers

CONSTANTS
  Account,           \* accounts that sign calls
  Gov,               \* the governance contract's address
  None,              \* an absent storage entry
  WeightInputs,      \* bound: the weights a caller passes, valid or not
  TIMELOCK_LEDGERS,  \* ledgers between proposing and applying weights
  MAX_U32,           \* bound: the largest u32, scaled down
  MaxLedger          \* bound: ledger sequence numbers

MIN_COMPONENT_WEIGHT == 10

\* A ScoringWeights value: <<vc_weight, tx_weight, repayment_weight>>.
ScoringWeights == Nat \X Nat \X Nat

DefaultWeights == <<40, 30, 30>>

\* Mutant: the sum is not checked.
IsValid_MinimumOnly(w) ==
  /\ w[1] >= MIN_COMPONENT_WEIGHT
  /\ w[2] >= MIN_COMPONENT_WEIGHT
  /\ w[3] >= MIN_COMPONENT_WEIGHT

IsValid(w) ==
  /\ w[1] >= MIN_COMPONENT_WEIGHT
  /\ w[2] >= MIN_COMPONENT_WEIGHT
  /\ w[3] >= MIN_COMPONENT_WEIGHT
  /\ w[1] + w[2] + w[3] = 100

ASSUME OracleAssumption ==
  /\ Gov \notin Account
  /\ None \notin Account \cup {Gov}
  /\ WeightInputs \subseteq ScoringWeights
  /\ None \notin ScoringWeights /\ None \notin Nat
  /\ TIMELOCK_LEDGERS \in Nat /\ MAX_U32 \in Nat
  /\ MaxLedger \in 1..MAX_U32

VARIABLES
  oracleAdmin,         \* Admin
  oraclePendingAdmin,  \* PendingAdmin
  governanceId,        \* GovernanceId
  oraclePaused,        \* Paused
  config,              \* Config
  pendingWeights,      \* PendingWeights
  pendingEffective,    \* PendingWeightsEffectiveLedger
  ledger               \* the ledger sequence number

oracleRole == <<oracleAdmin, oraclePendingAdmin, governanceId>>
oracleWeights == <<config, pendingWeights, pendingEffective>>
oracleVars == <<oracleRole, oraclePaused, oracleWeights>>

Address == Account \cup {Gov}

OracleTypeOK ==
  /\ oracleAdmin \in Address \cup {None}
  /\ oraclePendingAdmin \in Address \cup {None}
  /\ governanceId \in {Gov, None}
  /\ oraclePaused \in BOOLEAN
  /\ config \in ScoringWeights \cup {None}
  /\ pendingWeights \in ScoringWeights \cup {None}
  /\ pendingEffective \in Nat \cup {None}
  /\ ledger \in 1..MAX_U32

\* A contract that is deployed and not initialised.
OracleInit ==
  /\ oracleAdmin = None /\ oraclePendingAdmin = None /\ governanceId = None
  /\ oraclePaused = FALSE
  /\ config = None /\ pendingWeights = None /\ pendingEffective = None
  /\ ledger = 1

\* initialize
OracleInitialize(admin) ==
  /\ oracleAdmin = None
  /\ oracleAdmin' = admin
  /\ config' = DefaultWeights
  /\ UNCHANGED <<oraclePendingAdmin, governanceId, oraclePaused,
                 pendingWeights, pendingEffective, ledger>>

\* pause, unpause: the governance contract makes neither call.
OracleSetPaused(p) ==
  /\ oracleAdmin \in Account
  /\ oraclePaused' = p
  /\ UNCHANGED <<oracleRole, oracleWeights, ledger>>

\* Mutant: the admin's authorisation is not required.
ProposeWeights_Anyone(caller, w) ==
  /\ IsValid(w)
  /\ oracleAdmin # None
  /\ ledger + TIMELOCK_LEDGERS <= MAX_U32
  /\ pendingWeights' = w
  /\ pendingEffective' = ledger + TIMELOCK_LEDGERS
  /\ UNCHANGED <<oracleRole, oraclePaused, config, ledger>>

\* propose_weights, authorised by caller; the pause does not stop it.  The
\* ledger arithmetic is checked.
ProposeWeights(caller, w) ==
  /\ IsValid(w)
  /\ oracleAdmin = caller
  /\ ledger + TIMELOCK_LEDGERS <= MAX_U32
  /\ pendingWeights' = w
  /\ pendingEffective' = ledger + TIMELOCK_LEDGERS
  /\ UNCHANGED <<oracleRole, oraclePaused, config, ledger>>

\* Mutant: the applied weights are not removed.
OracleApplyWeights_KeepsPending ==
  /\ ~oraclePaused
  /\ pendingEffective # None
  /\ ledger >= pendingEffective
  /\ config' = pendingWeights
  /\ pendingEffective' = None
  /\ UNCHANGED <<oracleRole, oraclePaused, pendingWeights, ledger>>

\* Mutant: an admin must sign, which governance cannot.
OracleApplyWeights_Signed ==
  /\ oracleAdmin \in Account
  /\ ~oraclePaused
  /\ pendingEffective # None
  /\ ledger >= pendingEffective
  /\ config' = pendingWeights
  /\ pendingWeights' = None
  /\ pendingEffective' = None
  /\ UNCHANGED <<oracleRole, oraclePaused, ledger>>

\* apply_weights, which anyone may call.
OracleApplyWeights ==
  /\ ~oraclePaused
  /\ pendingEffective # None
  /\ ledger >= pendingEffective
  /\ pendingWeights # None
  /\ config' = pendingWeights
  /\ pendingWeights' = None
  /\ pendingEffective' = None
  /\ UNCHANGED <<oracleRole, oraclePaused, ledger>>

\* Mutant: governance is recorded when it is proposed.
OracleProposeNewAdmin_Records(newAdmin) ==
  /\ oracleAdmin \in Account
  /\ oraclePendingAdmin' = newAdmin
  /\ governanceId' = IF newAdmin = Gov THEN Gov ELSE governanceId
  /\ UNCHANGED <<oracleAdmin, oraclePaused, oracleWeights, ledger>>

\* propose_new_admin
OracleProposeNewAdmin(newAdmin) ==
  /\ oracleAdmin \in Account
  /\ oraclePendingAdmin' = newAdmin
  /\ UNCHANGED <<oracleAdmin, governanceId, oraclePaused, oracleWeights, ledger>>

\* accept_admin, authorised by newAdmin: GovernanceId follows the role.
OracleAcceptAdmin(newAdmin) ==
  /\ oraclePendingAdmin = newAdmin
  /\ oracleAdmin' = newAdmin
  /\ oraclePendingAdmin' = None
  /\ governanceId' = IF newAdmin = Gov THEN Gov ELSE None
  /\ UNCHANGED <<oraclePaused, oracleWeights, ledger>>

\* The network closes a ledger.
Tick ==
  /\ ledger < MaxLedger
  /\ ledger' = ledger + 1
  /\ UNCHANGED oracleVars

=============================================================================
