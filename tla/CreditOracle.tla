---------------------------- MODULE CreditOracle ----------------------------
(***************************************************************************)
(* contracts/credit-oracle, the scoring: trusted feeders and lenders, the  *)
(* inputs they write, the migration of old repayment records, disputes,    *)
(* and compute_score with the score record get_score reads back.           *)
(*                                                                         *)
(* Weights, pause and admin role are those of OracleWeights.  The identity *)
(* oracles, which the admin may point this one at in turn, are seen        *)
(* through IdentityView, which CredentialProtocol implements; anchored_at, *)
(* which the view leaves out, is kept here.                                *)
(* A score record's timestamp and previous_score and a dispute's reason    *)
(* and ledger decide nothing and are left out.                             *)
(***************************************************************************)
EXTENDS OracleWeights, ScoreMath, FiniteSets, Functions

CONSTANTS
  Subject, Hash, Issuer, CredType,  \* of the identity oracles
  IdOracle,          \* contracts that answer the probe of get_active_vc_count
  Registry,          \* the registries they may consult
  Generic,           \* the label "generic", the default type
  Feeder,            \* addresses that feed statistics
  Lender,            \* addresses that record repayments
  VcId,              \* ids of the oracle's own credential entries
  NoType,            \* an entry without a type
  TxInputs,          \* bound: the statistics feeders pass
  CountInputs,       \* bound: the counts feeders pass
  Amounts,           \* bound: the amounts lenders pass
  TypeWeights,       \* bound: the weights set_vc_type_weight is called with
  DecayInputs,       \* bound: the configurations set_recency_decay is called with
  Cooldowns,         \* bound: the cooldowns the admin passes
  DisputeInputs,     \* bound: the input keys subjects pass
  MAX_COMPUTE_COOLDOWN_LEDGERS,
  STALE_LEDGER_AGE,  \* ledgers after which a score is stale
  LEDGER_SECONDS,    \* seconds between ledgers
  MAX_COUNT,         \* the largest u32 of the repayment counters, scaled down
  LegacyRepayments,  \* records left by a version without total_repaid
  MaxRepayments      \* bound: record_repayment calls

InputKey == {"tx_stats", "repayment", "vc_count"}
TxStats == [volume : Int, counterparties : Nat]
RepaymentRecord == [layout : 1..2, onTime : 0..MAX_COUNT, total : 0..MAX_COUNT, repaid : Nat]
RecencyDecayConfig == [enabled : BOOLEAN, perDay : Nat, min : 0..BPS_DENOMINATOR]
ScoreRecord == [score : MIN_SCORE..MAX_SCORE, vcCount : Nat, rate : Nat,
                volume : Int, computedAt : 1..MAX_U32]

NoTxStats == [volume |-> 0, counterparties |-> 0]

ASSUME CreditAssumption ==
  /\ IsFiniteSet(Subject) /\ IsFiniteSet(Hash) /\ IsFiniteSet(Issuer) /\ IsFiniteSet(VcId)
  /\ Generic \in CredType /\ NoType \notin CredType
  /\ None \notin IdOracle /\ None \notin Registry
  /\ TxInputs \subseteq TxStats /\ CountInputs \subseteq Nat
  /\ Amounts \subseteq Int /\ TypeWeights \subseteq Nat /\ Cooldowns \subseteq Nat
  /\ DecayInputs \subseteq [enabled : BOOLEAN, perDay : Nat, min : Nat]
  /\ MAX_COMPUTE_COOLDOWN_LEDGERS \in Nat \ {0} /\ STALE_LEDGER_AGE \in Nat
  /\ LEDGER_SECONDS \in Nat /\ MAX_COUNT \in Nat \ {0} /\ MaxRepayments \in Nat
  /\ None \notin TxStats /\ None \notin RepaymentRecord /\ None \notin ScoreRecord
  /\ None \notin {"Pending", "Resolved", "Rejected"}
  /\ LegacyRepayments \in [Subject -> RepaymentRecord \cup {None}]
  /\ \A s \in Subject : LegacyRepayments[s] # None =>
       /\ LegacyRepayments[s].layout = 1 /\ LegacyRepayments[s].repaid = 0
       /\ LegacyRepayments[s].onTime <= LegacyRepayments[s].total

VARIABLES
  storageVersion,    \* StorageVersion, 1 when absent
  computeCooldown,   \* ComputeCooldownLedgers, 0 when absent
  identityOracleId,  \* IdentityOracleId
  vcWeight,          \* VcWeight(type), 100 when absent
  recency,           \* RecencyDecayEnabled, DecayBpsPerDay, MinRecencyBps
  trustedFeeder,     \* TrustedFeeder(feeder)
  feedersIndex,      \* FeedersIndex, as a bag: how often it holds a feeder
  trustedLender,     \* TrustedLender(lender)
  lendersIndex,      \* LendersIndex, likewise
  txStats,           \* TxStats(subject)
  repayment,         \* RepaymentRecord(subject), in one of two layouts
  vcCount,           \* VcCount(subject)
  vcList,            \* VcList(subject): pairs of an id and a type
  dispute,           \* Dispute(subject, key): its status
  disputeIndex,      \* DisputeIndex(subject), as a bag of keys
  score,             \* Score(subject)
  oracleStats,       \* ProtocolStats
  issued, active, vcCredentialType, deactivated, lastStateChange,
  registry,          \* IdentityView
  anchoredAt,        \* the ledger a credential was anchored in
  lastCompute        \* history: when compute_score last computed a subject's
                     \* score, and from which identity oracle, unless that
                     \* one has been pointed at another registry since

Identity == INSTANCE IdentityView WITH Oracle <- IdOracle

settings == <<storageVersion, computeCooldown, identityOracleId, vcWeight, recency>>
parties == <<trustedFeeder, feedersIndex, trustedLender, lendersIndex>>
feeds == <<txStats, vcCount, vcList>>
disputes == <<dispute, disputeIndex>>
scores == <<score, lastCompute>>
identity == <<issued, active, vcCredentialType, deactivated, lastStateChange, registry,
              anchoredAt>>
vars == <<oracleVars, ledger, settings, parties, feeds, repayment, disputes, scores,
          oracleStats, identity>>

TypeOK ==
  /\ OracleTypeOK
  /\ Identity!ViewTypeOK
  /\ storageVersion \in 1..2
  /\ computeCooldown \in 0..MAX_COMPUTE_COOLDOWN_LEDGERS
  /\ identityOracleId \in IdOracle \cup {None}
  /\ vcWeight \in [CredType -> Nat]
  /\ recency \in RecencyDecayConfig
  /\ trustedFeeder \in [Feeder -> BOOLEAN] /\ feedersIndex \in [Feeder -> Nat]
  /\ trustedLender \in [Lender -> BOOLEAN] /\ lendersIndex \in [Lender -> Nat]
  /\ txStats \in [Subject -> TxStats \cup {None}]
  /\ repayment \in [Subject -> RepaymentRecord \cup {None}]
  /\ vcCount \in [Subject -> Nat]
  /\ vcList \in [Subject -> SUBSET (VcId \X (CredType \cup {NoType}))]
  /\ dispute \in [Subject -> [InputKey -> {"Pending", "Resolved", "Rejected", None}]]
  /\ disputeIndex \in [Subject -> [InputKey -> Nat]]
  /\ score \in [Subject -> ScoreRecord \cup {None}]
  /\ oracleStats \in [scored : Nat, repayments : Nat]
  /\ anchoredAt \in [IdOracle -> [Subject -> [Identity!Credential -> 0..MAX_U32]]]
  /\ lastCompute \in [Subject -> [at : 0..MAX_U32, source : IdOracle \cup {None}]]

\* A fresh deployment, or one just upgraded in place from a version without
\* StorageVersion and ComputeCooldownLedgers.
CreditInit ==
  /\ oracleAdmin \in Account \cup {None}
  /\ oracleAdmin = None <=> \A s \in Subject : LegacyRepayments[s] = None
  /\ config = IF oracleAdmin = None THEN None ELSE DefaultWeights
  /\ oraclePendingAdmin = None /\ governanceId = None /\ oraclePaused = FALSE
  /\ pendingWeights = None /\ pendingEffective = None
  /\ storageVersion = 1 /\ computeCooldown = 0 /\ identityOracleId = None
  /\ vcWeight = [t \in CredType |-> 100]
  /\ recency = [enabled |-> FALSE, perDay |-> 5, min |-> 5000]
  /\ trustedFeeder = [f \in Feeder |-> FALSE] /\ feedersIndex = [f \in Feeder |-> 0]
  /\ trustedLender = [l \in Lender |-> FALSE] /\ lendersIndex = [l \in Lender |-> 0]
  /\ txStats = [s \in Subject |-> None]
  /\ repayment = LegacyRepayments
  /\ vcCount = [s \in Subject |-> 0]
  /\ vcList = [s \in Subject |-> {}]
  /\ dispute = [s \in Subject |-> [k \in InputKey |-> None]]
  /\ disputeIndex = [s \in Subject |-> [k \in InputKey |-> 0]]
  /\ score = [s \in Subject |-> None]
  /\ oracleStats = [scored |-> 0, repayments |-> 0]
  /\ lastCompute = [s \in Subject |-> [at |-> 0, source |-> None]]
  /\ Identity!ViewInit
  /\ issued = [o \in IdOracle |-> [s \in Subject |-> {}]]
  /\ vcCredentialType = [o \in IdOracle |-> [s \in Subject |-> [h \in Hash |-> Generic]]]
  /\ anchoredAt = [o \in IdOracle |-> [s \in Subject |-> [c \in Identity!Credential |-> 0]]]

-----------------------------------------------------------------------------
(* Settings.  None of these calls looks at the pause, and the governance   *)
(* contract makes none of them: the admin signs.                           *)

RequireAdmin == oracleAdmin \in Account

\* initialize, with the entries OracleWeights leaves out.
Initialize(admin) ==
  /\ OracleInitialize(admin)
  /\ computeCooldown' = 1
  /\ storageVersion' = 2
  /\ UNCHANGED <<identityOracleId, vcWeight, recency>>
  /\ UNCHANGED <<parties, feeds, repayment, disputes, scores, oracleStats, identity>>

SetComputeCooldownLedgers(n) ==
  /\ RequireAdmin
  /\ n # 0 /\ n <= MAX_COMPUTE_COOLDOWN_LEDGERS
  /\ computeCooldown' = n
  /\ UNCHANGED <<storageVersion, identityOracleId, vcWeight, recency>>

\* Stored if the contract answers the probe, in place of any other.  Scores
\* and what was computed from the former oracle stay as they are.
SetIdentityOracle(o) ==
  /\ RequireAdmin
  /\ o \in IdOracle
  /\ identityOracleId' = o
  /\ UNCHANGED <<storageVersion, computeCooldown, vcWeight, recency>>

SetVcTypeWeight(type, weight) ==
  /\ RequireAdmin
  /\ vcWeight' = [vcWeight EXCEPT ![type] = weight]
  /\ UNCHANGED <<storageVersion, computeCooldown, identityOracleId, recency>>

\* Mutant: the floor is not checked.
SetRecencyDecay_Unchecked(d) ==
  /\ RequireAdmin
  /\ recency' = d
  /\ UNCHANGED <<storageVersion, computeCooldown, identityOracleId, vcWeight>>

SetRecencyDecay(d) ==
  /\ RequireAdmin
  /\ d.min <= BPS_DENOMINATOR
  /\ recency' = d
  /\ UNCHANGED <<storageVersion, computeCooldown, identityOracleId, vcWeight>>

SettingsNext ==
  /\ \/ \E n \in Cooldowns : SetComputeCooldownLedgers(n)
     \/ \E o \in IdOracle : SetIdentityOracle(o)
     \/ \E t \in CredType, w \in TypeWeights : SetVcTypeWeight(t, w)
     \/ \E d \in DecayInputs : SetRecencyDecay(d)
  /\ UNCHANGED <<oracleVars, ledger, parties, feeds, repayment, disputes, scores,
                 oracleStats, identity>>

-----------------------------------------------------------------------------
(* Feeders and lenders.  Deregistration leaves a tombstone and the index   *)
(* as it is.                                                               *)

\* Mutant: every registration is pushed.
Indexed_Always(index, a) == [index EXCEPT ![a] = @ + 1]

\* push_back of an address the index does not hold.
Indexed(index, a) == IF index[a] > 0 THEN index ELSE [index EXCEPT ![a] = 1]

RegisterFeeder(f) ==
  /\ RequireAdmin
  /\ feedersIndex' = Indexed(feedersIndex, f)
  /\ trustedFeeder' = [trustedFeeder EXCEPT ![f] = TRUE]
  /\ UNCHANGED <<trustedLender, lendersIndex>>

DeregisterFeeder(f) ==
  /\ RequireAdmin
  /\ trustedFeeder' = [trustedFeeder EXCEPT ![f] = FALSE]
  /\ UNCHANGED <<feedersIndex, trustedLender, lendersIndex>>

RegisterLender(l) ==
  /\ RequireAdmin
  /\ lendersIndex' = Indexed(lendersIndex, l)
  /\ trustedLender' = [trustedLender EXCEPT ![l] = TRUE]
  /\ UNCHANGED <<trustedFeeder, feedersIndex>>

DeregisterLender(l) ==
  /\ RequireAdmin
  /\ trustedLender' = [trustedLender EXCEPT ![l] = FALSE]
  /\ UNCHANGED <<lendersIndex, trustedFeeder, feedersIndex>>

PartiesNext ==
  /\ \/ \E f \in Feeder : RegisterFeeder(f) \/ DeregisterFeeder(f)
     \/ \E l \in Lender : RegisterLender(l) \/ DeregisterLender(l)
  /\ UNCHANGED <<oracleVars, ledger, settings, feeds, repayment, disputes, scores,
                 oracleStats, identity>>

-----------------------------------------------------------------------------
(* What feeders write.                                                     *)

UpdateTxStats(f, s, stats) ==
  /\ ~oraclePaused
  /\ trustedFeeder[f]
  /\ txStats' = [txStats EXCEPT ![s] = stats]
  /\ UNCHANGED <<vcCount, vcList>>

SetVcCount(f, s, n) ==
  /\ ~oraclePaused
  /\ trustedFeeder[f]
  /\ vcCount' = [vcCount EXCEPT ![s] = n]
  /\ UNCHANGED <<txStats, vcList>>

\* anchor_vc: an id the list holds is silently ignored.
AnchorVc(f, s, id, type) ==
  /\ ~oraclePaused
  /\ trustedFeeder[f]
  /\ \A e \in vcList[s] : e[1] # id
  /\ vcList' = [vcList EXCEPT ![s] = @ \cup {<<id, type>>}]
  /\ UNCHANGED <<txStats, vcCount>>

FeedsNext ==
  /\ \E f \in Feeder, s \in Subject :
       \/ \E stats \in TxInputs : UpdateTxStats(f, s, stats)
       \/ \E n \in CountInputs : SetVcCount(f, s, n)
       \/ \E id \in VcId, t \in CredType \cup {NoType} : AnchorVc(f, s, id, t)
  /\ UNCHANGED <<oracleVars, ledger, settings, parties, repayment, disputes, scores,
                 oracleStats, identity>>

-----------------------------------------------------------------------------
(* Repayments and their migration.                                         *)

\* The layout record_repayment and compute_score read and write.
Layout == IF storageVersion < 2 THEN 1 ELSE 2

\* A record of the other layout does not decode and the call traps.
Readable(s) == repayment[s] # None => repayment[s].layout = Layout

RepaymentOf(s) ==
  IF repayment[s] = None THEN [layout |-> Layout, onTime |-> 0, total |-> 0, repaid |-> 0]
  ELSE repayment[s]

\* Mutant: only late repayments are added to the total.
WithRepayment_LateTotal(r, amount, onTime) ==
  [r EXCEPT !.onTime = AtMost(MAX_COUNT, IF onTime THEN @ + 1 ELSE @),
            !.total = AtMost(MAX_COUNT, IF onTime THEN @ ELSE @ + 1),
            !.repaid = IF r.layout = 1 THEN 0 ELSE @ + amount]

\* Mutant: the amount replaces what was repaid before.
WithRepayment_LastAmount(r, amount, onTime) ==
  [r EXCEPT !.onTime = AtMost(MAX_COUNT, IF onTime THEN @ + 1 ELSE @),
            !.total = AtMost(MAX_COUNT, @ + 1),
            !.repaid = IF r.layout = 1 THEN 0 ELSE amount]

\* The old layout does not keep the amount.
WithRepayment(r, amount, onTime) ==
  [r EXCEPT !.onTime = AtMost(MAX_COUNT, IF onTime THEN @ + 1 ELSE @),
            !.total = AtMost(MAX_COUNT, @ + 1),
            !.repaid = IF r.layout = 1 THEN 0 ELSE @ + amount]

RecordRepayment(l, s, amount, onTime) ==
  /\ oracleStats.repayments < MaxRepayments
  /\ amount > 0
  /\ ~oraclePaused
  /\ trustedLender[l]
  /\ Readable(s)
  /\ repayment' = [repayment EXCEPT ![s] = WithRepayment(RepaymentOf(s), amount, onTime)]
  /\ oracleStats' = [oracleStats EXCEPT !.repayments = @ + 1]
  /\ UNCHANGED <<oracleVars, ledger, settings, parties, feeds, disputes, scores, identity>>

\* Mutant: migrated records start again.
Migrated_Reset(r) == [layout |-> 2, onTime |-> 0, total |-> 0, repaid |-> 0]

\* Mutant: one of the fields is not copied.
Migrated_NoOnTime(r) == [r EXCEPT !.layout = 2, !.onTime = 0]

Migrated(r) == [r EXCEPT !.layout = 2]

\* migrate: a record of the new layout among those named traps the call.
Migrate(subjects) ==
  /\ RequireAdmin
  /\ \A s \in subjects : repayment[s] # None => repayment[s].layout = 1
  /\ repayment' = [s \in Subject |-> IF s \in subjects /\ repayment[s] # None
                                     THEN Migrated(repayment[s]) ELSE repayment[s]]
  /\ storageVersion' = 2
  /\ UNCHANGED <<computeCooldown, identityOracleId, vcWeight, recency>>
  /\ UNCHANGED <<oracleVars, ledger, parties, feeds, disputes, scores, oracleStats, identity>>

-----------------------------------------------------------------------------
(* Disputes, which the pause does not stop.                                *)

FlagScoreInput(s, key) ==
  /\ key \in InputKey
  /\ dispute[s][key] # "Pending"
  /\ dispute' = [dispute EXCEPT ![s][key] = "Pending"]
  /\ disputeIndex' = [disputeIndex EXCEPT ![s] = Indexed(@, key)]

ResolveDispute(s, key, accepted) ==
  /\ RequireAdmin
  /\ dispute[s][key] = "Pending"
  /\ dispute' = [dispute EXCEPT ![s][key] = IF accepted THEN "Resolved" ELSE "Rejected"]
  /\ UNCHANGED disputeIndex

DisputesNext ==
  /\ \E s \in Subject :
       \/ \E k \in DisputeInputs : FlagScoreInput(s, k)
       \/ \E k \in InputKey, b \in BOOLEAN : ResolveDispute(s, k, b)
  /\ UNCHANGED <<oracleVars, ledger, settings, parties, feeds, repayment, scores,
                 oracleStats, identity>>

-----------------------------------------------------------------------------
(* Scoring.                                                                *)

Time(l) == l * LEDGER_SECONDS

\* The credentials the identity oracle reports for a subject.
Held(s) == active[identityOracleId][s]

\* The points of one of them.
CredentialPoints(s, c) ==
  LET points == VcPoints(vcWeight[vcCredentialType[identityOracleId][s][c[1]]])
  IN IF recency.enabled
     THEN ApplyRecencyBps(points,
            RecencyMultiplierBps(Time(anchoredAt[identityOracleId][s][c]), Time(ledger),
                                 recency.perDay, recency.min))
     ELSE points

\* The points of an entry of the oracle's own list, which never decay.
EntryPoints(e) == VcPoints(IF e[2] = NoType THEN 100 ELSE vcWeight[e[2]])

\* vc_count and vc_points: from the identity oracle if there is one, else
\* from the list, else from the count the feeder cached.
VcInput(s) ==
  IF identityOracleId # None
  THEN [count |-> Cardinality(Held(s)),
        points |-> SumFunction([c \in Held(s) |-> CredentialPoints(s, c)])]
  ELSE IF vcList[s] # {}
  THEN [count |-> Cardinality(vcList[s]),
        points |-> SumFunction([e \in vcList[s] |-> EntryPoints(e)])]
  ELSE [count |-> vcCount[s], points |-> AtMost(100, 20 * vcCount[s])]

TxInput(s) == IF txStats[s] = None THEN NoTxStats ELSE txStats[s]

\* The record compute_score would write now.
NewScore(s) ==
  [score |-> ComputeScorePure(VcInput(s).points, TxInput(s), RepaymentOf(s), config),
   vcCount |-> VcInput(s).count,
   rate |-> RepaymentRate(RepaymentOf(s).onTime, RepaymentOf(s).total),
   volume |-> TxInput(s).volume,
   computedAt |-> ledger]

\* check_compute_cooldown
CooldownOver(s) == score[s] # None => ledger - score[s].computedAt >= computeCooldown

\* A deactivated subject's call returns MIN_SCORE and writes nothing.
CanCompute(s) ==
  /\ ~oraclePaused
  /\ CooldownOver(s)
  /\ Readable(s)
  /\ config # None
  /\ identityOracleId # None => ~deactivated[identityOracleId][s]

\* Everything compute_score compares agrees with the record.
Unchanged(s) ==
  /\ score[s] # None
  /\ NewScore(s) = [score[s] EXCEPT !.computedAt = ledger]

\* Mutant: every write counts the subject as new.
Scored_Always(s) == oracleStats.scored + 1

\* total_subjects_scored when the subject's record is written.
Scored(s) == IF score[s] = None THEN oracleStats.scored + 1 ELSE oracleStats.scored

\* compute_score: when nothing it compares has changed, nothing is written,
\* computed_at_ledger included.
ComputeScore(s) ==
  /\ CanCompute(s)
  /\ lastCompute' = [lastCompute EXCEPT ![s] = [at |-> ledger, source |-> identityOracleId]]
  /\ \/ /\ ~Unchanged(s)
        /\ score' = [score EXCEPT ![s] = NewScore(s)]
        /\ oracleStats' = [oracleStats EXCEPT !.scored = Scored(s)]
     \/ /\ Unchanged(s)
        /\ UNCHANGED <<score, oracleStats>>
  /\ UNCHANGED <<oracleVars, ledger, settings, parties, feeds, repayment, disputes, identity>>

\* Mutant: changes of the identity are not asked for.
Stale_AgeOnly(s) == ledger - score[s].computedAt > STALE_LEDGER_AGE

\* get_score's flag for a subject that has a score.
Stale(s) ==
  \/ ledger - score[s].computedAt > STALE_LEDGER_AGE
  \/ identityOracleId # None /\ score[s].computedAt < lastStateChange[identityOracleId][s]

-----------------------------------------------------------------------------
(* The specification.                                                      *)

\* The weights and the pause change as in OracleWeights.  Who the admin is
\* makes no difference here; transfers of the role are in Governance.
WeightsNext ==
  /\ \/ \E p \in BOOLEAN : OracleSetPaused(p)
     \/ \E a \in Account, w \in WeightInputs : ProposeWeights(a, w)
     \/ OracleApplyWeights
  /\ UNCHANGED <<settings, parties, feeds, repayment, disputes, scores, oracleStats, identity>>

\* A subject's score was computed from an oracle that is being relinked.
SourceRelinked(s) == lastCompute[s].source \in {o \in IdOracle : registry'[o] # registry[o]}

\* The identity oracles change under the credit oracle's feet.
IdentityNext ==
  /\ Identity!ViewStep
  /\ anchoredAt' =
       [o \in IdOracle |-> [s \in Subject |-> [c \in Identity!Credential |->
          IF c \in issued'[o][s] \ issued[o][s] THEN ledger ELSE anchoredAt[o][s][c]]]]
  /\ lastCompute' = [s \in Subject |-> IF SourceRelinked(s)
                                       THEN [lastCompute[s] EXCEPT !.source = None]
                                       ELSE lastCompute[s]]
  /\ UNCHANGED <<oracleVars, settings, parties, feeds, repayment, disputes, score, oracleStats>>

CloseLedger ==
  /\ Tick
  /\ UNCHANGED <<settings, parties, feeds, repayment, disputes, scores, oracleStats, identity>>

Next ==
  \/ \E a \in Account : Initialize(a)
  \/ WeightsNext
  \/ SettingsNext
  \/ PartiesNext
  \/ FeedsNext
  \/ \E l \in Lender, s \in Subject, amount \in Amounts, b \in BOOLEAN :
       RecordRepayment(l, s, amount, b)
  \/ \E subjects \in SUBSET Subject : Migrate(subjects)
  \/ DisputesNext
  \/ \E s \in Subject : ComputeScore(s)
  \/ IdentityNext
  \/ CloseLedger

Spec == CreditInit /\ [][Next]_vars

-----------------------------------------------------------------------------
(* Properties.                                                             *)

\* compute_score_pure's clamp is a safeguard that never binds: with the
\* weights the oracle accepts and the counters record_repayment and migrate
\* leave behind, saturated ones included, every subject's score lies between
\* MIN_SCORE and MAX_SCORE by itself, so no two subjects are made equal by it.
ClampNeverBinds ==
  config # None => \A s \in Subject :
    RawScore(VcInput(s).points, TxInput(s), RepaymentOf(s), config) \in MIN_SCORE..MAX_SCORE

\* The counters of a repayment record saturate one by one, are written in two
\* layouts and are copied by migrate; the repayment rate they give never
\* exceeds 100%.
RateWithinBounds ==
  \A s \in Subject :
    RepaymentRate(RepaymentOf(s).onTime, RepaymentOf(s).total) <= BPS_DENOMINATOR

LegacyTotal(s) == IF LegacyRepayments[s] = None THEN 0 ELSE LegacyRepayments[s].total

\* The repayments the subjects' counters have counted since the upgrade.
Recorded == SumFunction([s \in Subject |-> RepaymentOf(s).total - LegacyTotal(s)])

\* get_protocol_stats: total_repayments_recorded is the sum of all subjects'
\* total_count since the upgrade, whatever layout a repayment was written in
\* and whenever its record was migrated; it is ahead only of counters that
\* are saturated.
RepaymentsCounted ==
  \/ oracleStats.repayments = Recorded
  \/ /\ oracleStats.repayments > Recorded
     /\ \E s \in Subject : RepaymentOf(s).total = MAX_COUNT

\* total_subjects_scored counts each subject that has a score once, although
\* compute_score is called again and again, skips writes that change nothing
\* and writes nothing for a deactivated subject.
SubjectsScoredExact ==
  oracleStats.scored = Cardinality({s \in Subject : score[s] # None})

\* get_score: a score last computed from the identity oracle that is
\* configured, and reported as fresh, belongs to a subject that is not
\* deactivated there and counts every credential that is active there now,
\* through any interleaving of computations that write, computations that do
\* not, changes of the identity and turns from one oracle to another and back;
\* unless the identity changed in the very ledger of the computation, or the
\* identity oracle was pointed at another registry since.
FreshCoversActive ==
  \A s \in Subject : LET o == identityOracleId IN
    /\ score[s] # None /\ o # None /\ lastCompute[s].source = o
    /\ ~Stale(s)
    /\ lastStateChange[o][s] # score[s].computedAt
    => ~deactivated[o][s] /\ Cardinality(active[o][s]) <= score[s].vcCount

\* list_feeders, list_lenders and list_disputes read an index that is only
\* ever appended to: it holds everyone who is trusted and every key with a
\* dispute once, through any sequence of registrations, tombstones, filings
\* and resolutions.
IndexesExact ==
  /\ \A f \in Feeder : feedersIndex[f] <= 1 /\ (trustedFeeder[f] => feedersIndex[f] = 1)
  /\ \A l \in Lender : lendersIndex[l] <= 1 /\ (trustedLender[l] => lendersIndex[l] = 1)
  /\ \A s \in Subject, k \in InputKey :
       disputeIndex[s][k] = IF dispute[s][k] = None THEN 0 ELSE 1

\* The score compute_score would return for a subject.
Potential(s) == NewScore(s).score

\* record_repayment: a repayment on time never lowers the score a subject
\* would get, in either layout and also when a counter is saturated.
OnTimeNeverHurts ==
  [][config # None => \A s \in Subject :
       RepaymentOf(s)'.onTime > RepaymentOf(s).onTime => Potential(s)' >= Potential(s)]_vars

\* recency_multiplier_bps: "a younger credential always yields a multiplier
\* greater than or equal to an older one", so a score that is computed later,
\* with nothing else changed, is never higher; decay rates that would go below
\* zero included.
AgeNeverHelps ==
  [][config # None /\ ledger' > ledger =>
       \A s \in Subject : Potential(s)' <= Potential(s)]_vars

\* migrate and record_repayment never lose a repayment, and the change of the
\* storage version changes no score: a subject that can be scored before and
\* after it gets the same one.
RepaymentHistoryKept ==
  [][/\ \A s \in Subject : repayment[s] # None =>
          /\ repayment'[s] # None
          /\ repayment'[s].total >= repayment[s].total
          /\ repayment'[s].onTime >= repayment[s].onTime
     /\ config # None /\ storageVersion' # storageVersion =>
          \A s \in Subject : Readable(s) /\ Readable(s)' => Potential(s)' = Potential(s)]_vars

=============================================================================
