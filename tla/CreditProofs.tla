---------------------------- MODULE CreditProofs ----------------------------
(***************************************************************************)
(* Proofs about the credit oracle's scoring: the types of its storage, the *)
(* range of the score formula and the clamp that is never needed, the      *)
(* repayment counters and the statistics kept beside them, the indexes,    *)
(* what a score that get_score reports as fresh says about the identity,   *)
(* and how a score moves with age, repayments on time and migrations.      *)
(***************************************************************************)
EXTENDS CreditOracle, SumTheorems, TLAPS

-----------------------------------------------------------------------------
(* Arithmetic of the score.                                                *)

\* The quotient of a division by a positive number.
LEMMA Quotient ==
  ASSUME NEW a \in Int, NEW d \in Nat \ {0}
  PROVE  /\ a \div d \in Int
         /\ d * (a \div d) <= a /\ a < d * (a \div d) + d
         /\ a >= 0 => a \div d >= 0
  OBVIOUS

\* A share in basis points is a percentage after the division by 100.
LEMMA Hundredth ==
  ASSUME NEW n \in 0..BPS_DENOMINATOR
  PROVE  n \div 100 \in 0..100
  BY DEF BPS_DENOMINATOR

\* A share of a whole is at most 100%.
LEMMA ShareBounded ==
  ASSUME NEW total \in Nat, NEW onTime \in Nat, onTime <= total
  PROVE  RepaymentRate(onTime, total) \in 0..BPS_DENOMINATOR
<1>1. CASE total = 0
  BY <1>1 DEF RepaymentRate, BPS_DENOMINATOR
<1>2. CASE total # 0
  <2> DEFINE q == (onTime * 10000) \div total
  <2>1. /\ q \in Int /\ q >= 0
        /\ total * q <= onTime * 10000
    BY <1>2, Quotient, onTime * 10000 >= 0
  <2>2. onTime * 10000 <= total * 10000
    OBVIOUS
  <2>3. ASSUME q > 10000 PROVE FALSE
    <3>1. total * q >= total * 10001
      BY <2>1, <2>3, <1>2
    <3>2. QED
      BY <2>1, <2>2, <3>1, <1>2
  <2>4. QED
    BY <1>2, <2>1, <2>3 DEF RepaymentRate, BPS_DENOMINATOR
<1>3. QED
  BY <1>1, <1>2

\* A repayment record with no more repayments on time than repayments.
Sound(rep) == rep \in RepaymentRecord /\ rep.onTime <= rep.total

\* Sound counters give a rate of at most 100%.
LEMMA RateBounded ==
  ASSUME NEW rep, Sound(rep)
  PROVE  RepaymentRate(rep.onTime, rep.total) \in 0..BPS_DENOMINATOR
<1>1. PICK total \in Nat, onTime \in Nat :
        total = rep.total /\ onTime = rep.onTime /\ onTime <= total
  BY CreditAssumption DEF Sound, RepaymentRecord
<1>2. RepaymentRate(onTime, total) \in 0..BPS_DENOMINATOR
  BY <1>1, ShareBounded
<1>3. QED
  BY <1>1, <1>2

\* A volume, a negative one too, is worth at most the cap.
LEMMA VolumePointsBounded ==
  ASSUME NEW volume \in Int, NEW cap \in Nat
  PROVE  VolumePoints(volume, cap) \in 0..cap
<1>1. volume \div VOLUME_UNIT \in Int
  BY Quotient, UnitAssumption
<1>2. QED
  BY <1>1 DEF VolumePoints, AtMost, AtLeast

\* The transaction score is at most 100.
LEMMA TxScoreBounded ==
  ASSUME NEW tx \in TxStats
  PROVE  TxScore(tx) \in 0..100
<1>1. tx.volume \in Int /\ tx.counterparties \in Nat
  BY DEF TxStats
<1>2. VolumePoints(tx.volume, 80) \in 0..80
  BY <1>1, VolumePointsBounded
<1>3. \A n \in Nat : n \div 5 \in Nat
  OBVIOUS
<1>4. QED
  BY <1>1, <1>2, <1>3 DEF TxScore, AtMost

\* With sound counters the repayment score is at most 100.
LEMMA RepayScoreBounded ==
  ASSUME NEW rep, Sound(rep)
  PROVE  RepayScore(rep) \in 0..100
<1>1. rep.repaid \in Int
  BY DEF Sound, RepaymentRecord
<1>2. RepaymentRate(rep.onTime, rep.total) \in 0..BPS_DENOMINATOR
  BY RateBounded
<1>3. VolumePoints(rep.repaid, 100) \in 0..100
  BY <1>1, VolumePointsBounded
<1>4. PICK rate \in 0..BPS_DENOMINATOR : rate = RepaymentRate(rep.onTime, rep.total)
  BY <1>2
<1>5. PICK volume \in 0..100 : volume = VolumePoints(rep.repaid, 100)
  BY <1>3
<1>6. PICK n \in 0..100 : n = rate \div 100
  BY Hundredth
<1>7. (n + volume) \div 2 \in 0..100
  OBVIOUS
<1>8. RepayScore(rep) = (n + volume) \div 2
  BY <1>4, <1>5, <1>6 DEF RepayScore
<1>9. QED
  BY <1>7, <1>8

\* The weighted sum of three components out of 100.
LEMMA SumBounded ==
  ASSUME NEW p \in 0..100, NEW t \in 0..100, NEW r \in 0..100,
         NEW u \in Nat, NEW v \in Nat, NEW x \in Nat, u + v + x = 100
  PROVE  p * u + t * v + r * x \in 0..BPS_DENOMINATOR
<1>1. \A a \in 0..100, n \in Nat : a * n \in Nat /\ a * n <= 100 * n
  OBVIOUS
<1>2. PICK a \in Nat, b \in Nat, c \in Nat :
        /\ a = p * u /\ b = t * v /\ c = r * x
        /\ a <= 100 * u /\ b <= 100 * v /\ c <= 100 * x
  BY <1>1
<1>3. a <= 100 * u /\ b <= 100 * v /\ c <= 100 * x
  BY <1>2
<1>4. a + b + c \in 0..BPS_DENOMINATOR
  BY <1>3 DEF BPS_DENOMINATOR
<1>5. p * u + t * v + r * x = a + b + c
  BY <1>2
<1>6. QED
  BY <1>4, <1>5

\* The last line of compute_score_pure.
LEMMA Scaled ==
  ASSUME NEW sum \in 0..BPS_DENOMINATOR
  PROVE  300 + ((sum \div 100) * 550) \div 100 \in 300..850
<1>1. PICK composite \in 0..100 : composite = sum \div 100
  BY Hundredth
<1>2. 300 + (composite * 550) \div 100 \in 300..850
  OBVIOUS
<1>3. QED
  BY <1>1, <1>2

\* compute_score_pure: with weights the oracle accepts and counters of which
\* the one of repayments on time is the smaller, the weighted sum lies in the
\* range of a score before it is clamped, whatever the other inputs are.
THEOREM ScoreInRange ==
  ASSUME NEW points \in Nat, NEW tx \in TxStats,
         NEW rep, Sound(rep),
         NEW w \in ScoringWeights, IsValid(w)
  PROVE  RawScore(points, tx, rep, w) \in MIN_SCORE..MAX_SCORE
<1>1. PICK p \in 0..100 : p = AtMost(100, points)
  BY DEF AtMost
<1>2. PICK t \in 0..100 : t = TxScore(tx)
  BY TxScoreBounded
<1>3. PICK r \in 0..100 : r = RepayScore(rep)
  BY RepayScoreBounded
<1>4. PICK u \in Nat, v \in Nat, x \in Nat :
        u = w[1] /\ v = w[2] /\ x = w[3] /\ u + v + x = 100
  BY DEF ScoringWeights, IsValid
<1>5. PICK sum \in 0..BPS_DENOMINATOR : sum = p * u + t * v + r * x
  BY <1>4, SumBounded
<1>6. RawScore(points, tx, rep, w) = 300 + ((sum \div 100) * 550) \div 100
  BY <1>1, <1>2, <1>3, <1>4, <1>5 DEF RawScore, MIN_SCORE
<1>7. 300 + ((sum \div 100) * 550) \div 100 \in 300..850
  BY Scaled
<1>8. QED
  BY <1>6, <1>7 DEF MIN_SCORE, MAX_SCORE

-----------------------------------------------------------------------------
(* Which steps change what.                                                *)

\* A step of the credit oracle changes each part of the state only through
\* the operations of that part.
LEMMA Frames ==
  ASSUME [Next]_vars
  PROVE  /\ UNCHANGED parties \/ PartiesNext
         /\ UNCHANGED disputes \/ DisputesNext
         /\ \/ UNCHANGED repayment
            \/ \E l \in Lender, s \in Subject, amount \in Amounts, b \in BOOLEAN :
                 RecordRepayment(l, s, amount, b)
            \/ \E subjects \in SUBSET Subject : Migrate(subjects)
         /\ UNCHANGED txStats \/ FeedsNext
         /\ UNCHANGED oracleWeights \/ WeightsNext \/ \E a \in Account : OracleInitialize(a)
         /\ \/ UNCHANGED <<scores, identity, ledger>>
            \/ \E s \in Subject : ComputeScore(s)
            \/ IdentityNext
            \/ CloseLedger
<1> USE DEF parties, disputes, oracleWeights, scores, identity, feeds, settings
<1>1. CASE UNCHANGED vars
  BY <1>1 DEF vars, oracleVars
<1>2. ASSUME NEW a \in Account, Initialize(a) PROVE UNCHANGED ledger
  BY <1>2 DEF Initialize, OracleInitialize
<1>3. CASE \E a \in Account : Initialize(a)
  BY <1>2, <1>3 DEF Initialize
<1>4. ASSUME WeightsNext PROVE UNCHANGED ledger
  BY <1>4 DEF WeightsNext, OracleSetPaused, ProposeWeights, OracleApplyWeights
<1>5. CASE WeightsNext
  BY <1>4, <1>5 DEF WeightsNext
<1>6. CASE SettingsNext
  BY <1>6 DEF SettingsNext, oracleVars
<1>7. CASE PartiesNext
  BY <1>7 DEF PartiesNext, oracleVars
<1>8. CASE FeedsNext
  BY <1>8 DEF FeedsNext, oracleVars
<1>9. CASE \E l \in Lender, s \in Subject, amount \in Amounts, b \in BOOLEAN :
             RecordRepayment(l, s, amount, b)
  BY <1>9 DEF RecordRepayment, oracleVars
<1>10. CASE \E subjects \in SUBSET Subject : Migrate(subjects)
  BY <1>10 DEF Migrate, oracleVars
<1>11. CASE DisputesNext
  BY <1>11 DEF DisputesNext, oracleVars
<1>12. CASE \E s \in Subject : ComputeScore(s)
  BY <1>12 DEF ComputeScore, oracleVars
<1>13. CASE IdentityNext
  BY <1>13 DEF IdentityNext, oracleVars
<1>14. CASE CloseLedger
  BY <1>14 DEF CloseLedger, Tick, oracleVars
<1>15. QED
  BY <1>1, <1>3, <1>5, <1>6, <1>7, <1>8, <1>9, <1>10, <1>11, <1>12, <1>13, <1>14 DEF Next

-----------------------------------------------------------------------------
(* The indexes.                                                            *)

IndexTypes ==
  /\ trustedFeeder \in [Feeder -> BOOLEAN] /\ feedersIndex \in [Feeder -> Nat]
  /\ trustedLender \in [Lender -> BOOLEAN] /\ lendersIndex \in [Lender -> Nat]
  /\ dispute \in [Subject -> [InputKey -> {"Pending", "Resolved", "Rejected", None}]]
  /\ disputeIndex \in [Subject -> [InputKey -> Nat]]

IndexInv == IndexTypes /\ IndexesExact

\* push_back of what is not there: everything is listed at most once, the
\* new address exactly once, and the others as before.
LEMMA IndexedOnce ==
  ASSUME NEW S, NEW index \in [S -> Nat], NEW a \in S, index[a] <= 1
  PROVE  /\ Indexed(index, a) \in [S -> Nat]
         /\ Indexed(index, a)[a] = 1
         /\ \A b \in S : b # a => Indexed(index, a)[b] = index[b]
  BY DEF Indexed

\* (De)registering a feeder or lender keeps the indexes of both.
LEMMA PartiesKeepIndexes == IndexInv /\ PartiesNext => IndexInv'
<1> SUFFICES ASSUME IndexInv, PartiesNext PROVE IndexInv'
  OBVIOUS
<1> USE DEF IndexInv, IndexTypes, IndexesExact
<1>0. UNCHANGED disputes
  BY DEF PartiesNext
<1>1. ASSUME NEW f \in Feeder, RegisterFeeder(f) PROVE IndexInv'
  <2>1. /\ feedersIndex' \in [Feeder -> Nat]
        /\ feedersIndex'[f] = 1
        /\ \A g \in Feeder : g # f => feedersIndex'[g] = feedersIndex[g]
    BY <1>1, IndexedOnce DEF RegisterFeeder
  <2>2. /\ trustedFeeder' \in [Feeder -> BOOLEAN]
        /\ \A g \in Feeder : g # f => trustedFeeder'[g] = trustedFeeder[g]
    BY <1>1 DEF RegisterFeeder
  <2>3. \A g \in Feeder :
          /\ feedersIndex'[g] <= 1
          /\ trustedFeeder'[g] => feedersIndex'[g] = 1
    BY <2>1, <2>2
  <2>4. UNCHANGED <<trustedLender, lendersIndex>>
    BY <1>1 DEF RegisterFeeder
  <2>5. QED
    BY <1>0, <2>1, <2>2, <2>3, <2>4 DEF disputes
<1>2. ASSUME NEW f \in Feeder, DeregisterFeeder(f) PROVE IndexInv'
  BY <1>0, <1>2 DEF DeregisterFeeder, disputes
<1>3. ASSUME NEW l \in Lender, RegisterLender(l) PROVE IndexInv'
  <2>1. /\ lendersIndex' \in [Lender -> Nat]
        /\ lendersIndex'[l] = 1
        /\ \A m \in Lender : m # l => lendersIndex'[m] = lendersIndex[m]
    BY <1>3, IndexedOnce DEF RegisterLender
  <2>2. /\ trustedLender' \in [Lender -> BOOLEAN]
        /\ \A m \in Lender : m # l => trustedLender'[m] = trustedLender[m]
    BY <1>3 DEF RegisterLender
  <2>3. \A m \in Lender :
          /\ lendersIndex'[m] <= 1
          /\ trustedLender'[m] => lendersIndex'[m] = 1
    BY <2>1, <2>2
  <2>4. UNCHANGED <<trustedFeeder, feedersIndex>>
    BY <1>3 DEF RegisterLender
  <2>5. QED
    BY <1>0, <2>1, <2>2, <2>3, <2>4 DEF disputes
<1>4. ASSUME NEW l \in Lender, DeregisterLender(l) PROVE IndexInv'
  BY <1>0, <1>4 DEF DeregisterLender, disputes
<1>5. QED
  BY <1>1, <1>2, <1>3, <1>4 DEF PartiesNext

\* Filing and resolving a dispute keep the index of disputes.
LEMMA DisputesKeepIndexes == IndexInv /\ DisputesNext => IndexInv'
<1> SUFFICES ASSUME IndexInv, DisputesNext PROVE IndexInv'
  OBVIOUS
<1> USE DEF IndexInv, IndexTypes, IndexesExact
<1>0. UNCHANGED parties
  BY DEF DisputesNext
<1>1. ASSUME NEW s \in Subject, NEW key, FlagScoreInput(s, key) PROVE IndexInv'
  <2>1. key \in InputKey /\ disputeIndex[s] \in [InputKey -> Nat] /\ disputeIndex[s][key] <= 1
    BY <1>1 DEF FlagScoreInput
  <2>2. /\ Indexed(disputeIndex[s], key) \in [InputKey -> Nat]
        /\ Indexed(disputeIndex[s], key)[key] = 1
        /\ \A k \in InputKey : k # key => Indexed(disputeIndex[s], key)[k] = disputeIndex[s][k]
    BY <2>1, IndexedOnce
  <2>3. disputeIndex' = [disputeIndex EXCEPT ![s] = Indexed(disputeIndex[s], key)]
    BY <1>1 DEF FlagScoreInput
  <2>4. dispute' = [dispute EXCEPT ![s][key] = "Pending"]
    BY <1>1 DEF FlagScoreInput
  <2>5. IndexTypes'
    BY <1>0, <2>1, <2>2, <2>3, <2>4 DEF parties
  <2>6. \A z \in Subject, k \in InputKey :
          disputeIndex'[z][k] = IF dispute'[z][k] = None THEN 0 ELSE 1
    BY <2>1, <2>2, <2>3, <2>4, CreditAssumption
  <2>7. QED
    BY <1>0, <2>5, <2>6 DEF parties
<1>2. ASSUME NEW s \in Subject, NEW key \in InputKey, NEW b \in BOOLEAN,
             ResolveDispute(s, key, b)
      PROVE  IndexInv'
  BY <1>0, <1>2, CreditAssumption DEF ResolveDispute, parties
<1>3. QED
  BY <1>1, <1>2 DEF DisputesNext

\* list_feeders, list_lenders, list_disputes: the indexes list everyone who
\* is trusted and every key with a dispute once, for any number of addresses
\* and subjects.
THEOREM IndexesAreExact == Spec => []IndexesExact
<1>1. CreditInit => IndexInv
  BY CreditAssumption DEF CreditInit, IndexInv, IndexTypes, IndexesExact
<1>2. IndexInv /\ [Next]_vars => IndexInv'
  <2> SUFFICES ASSUME IndexInv, [Next]_vars PROVE IndexInv'
    OBVIOUS
  <2>1. CASE UNCHANGED parties /\ UNCHANGED disputes
    BY <2>1 DEF IndexInv, IndexTypes, IndexesExact, parties, disputes
  <2>2. QED
    BY <2>1, Frames, PartiesKeepIndexes, DisputesKeepIndexes
<1>3. IndexInv => IndexesExact
  BY DEF IndexInv
<1>4. QED
  BY <1>1, <1>2, <1>3, PTL DEF Spec

-----------------------------------------------------------------------------
(* Repayments and the range of scores.                                     *)

RepaymentsSound ==
  /\ repayment \in [Subject -> RepaymentRecord \cup {None}]
  /\ \A s \in Subject : repayment[s] # None => Sound(repayment[s])

\* Both counters saturate at the same bound and move together.
LEMMA WithRepaymentSound ==
  ASSUME NEW r, Sound(r), NEW amount \in Int, amount > 0, NEW b \in BOOLEAN
  PROVE  Sound(WithRepayment(r, amount, b))
<1>1. PICK m \in 0..MAX_COUNT, n \in 0..MAX_COUNT, v \in Nat :
        m = r.onTime /\ n = r.total /\ v = r.repaid /\ m <= n
  BY DEF Sound, RepaymentRecord
<1>2. PICK m2 \in 0..MAX_COUNT, n2 \in 0..MAX_COUNT :
        /\ m2 = AtMost(MAX_COUNT, IF b THEN m + 1 ELSE m)
        /\ n2 = AtMost(MAX_COUNT, n + 1)
        /\ m2 <= n2
  BY <1>1, CreditAssumption DEF AtMost
<1>3. PICK v2 \in Nat : v2 = IF r.layout = 1 THEN 0 ELSE v + amount
  OBVIOUS
<1>4. WithRepayment(r, amount, b) = [r EXCEPT !.onTime = m2, !.total = n2, !.repaid = v2]
  BY <1>1, <1>2, <1>3 DEF WithRepayment
<1>5. QED
  BY <1>2, <1>4 DEF Sound, RepaymentRecord

\* The migration of one record keeps its counters sound.
LEMMA MigratedSound ==
  ASSUME NEW r, Sound(r)
  PROVE  Sound(Migrated(r))
  BY DEF Sound, Migrated, RepaymentRecord

\* What get_repayment_history decodes is sound, the default included.
LEMMA ReadSound ==
  ASSUME RepaymentsSound, NEW s \in Subject
  PROVE  Sound(RepaymentOf(s))
  BY CreditAssumption DEF RepaymentsSound, RepaymentOf, Sound, RepaymentRecord, Layout

\* No step makes more repayments on time than repayments.
LEMMA StepRepaymentsSound == RepaymentsSound /\ [Next]_vars => RepaymentsSound'
<1> SUFFICES ASSUME RepaymentsSound, [Next]_vars PROVE RepaymentsSound'
  OBVIOUS
<1>1. CASE UNCHANGED repayment
  BY <1>1 DEF RepaymentsSound
<1>2. ASSUME NEW l \in Lender, NEW s \in Subject, NEW amount \in Amounts, NEW b \in BOOLEAN,
             RecordRepayment(l, s, amount, b)
      PROVE  RepaymentsSound'
  <2> DEFINE r == WithRepayment(RepaymentOf(s), amount, b)
  <2>1. amount \in Int /\ amount > 0
    BY <1>2, CreditAssumption DEF RecordRepayment
  <2>2. Sound(r)
    BY <2>1, ReadSound, WithRepaymentSound
  <2>3. r \in RepaymentRecord
    BY <2>2 DEF Sound
  <2>4. repayment' = [repayment EXCEPT ![s] = r]
    BY <1>2 DEF RecordRepayment
  <2> HIDE DEF r
  <2>5. QED
    BY <2>2, <2>3, <2>4 DEF RepaymentsSound
<1>3. ASSUME NEW subjects \in SUBSET Subject, Migrate(subjects) PROVE RepaymentsSound'
  <2>1. repayment' = [s \in Subject |-> IF s \in subjects /\ repayment[s] # None
                                        THEN Migrated(repayment[s]) ELSE repayment[s]]
    BY <1>3 DEF Migrate
  <2>2. \A s \in Subject : repayment[s] # None =>
          Sound(Migrated(repayment[s])) /\ Migrated(repayment[s]) \in RepaymentRecord
    BY MigratedSound DEF RepaymentsSound, Sound
  <2>3. QED
    BY <2>1, <2>2 DEF RepaymentsSound
<1>4. QED
  BY <1>1, <1>2, <1>3, Frames

\* The older version's records are sound.
LEMMA InitRepaymentsSound == CreditInit => RepaymentsSound
<1> SUFFICES ASSUME CreditInit PROVE RepaymentsSound
  OBVIOUS
<1>1. repayment = LegacyRepayments
  BY DEF CreditInit
<1>2. ASSUME NEW s \in Subject, LegacyRepayments[s] # None PROVE Sound(LegacyRepayments[s])
  BY <1>2, CreditAssumption DEF Sound
<1>3. QED
  BY <1>1, <1>2, CreditAssumption DEF RepaymentsSound

\* record_repayment and migrate: the rate that compute_score derives from the
\* two counters is at most 100%, with any number of subjects, old records and
\* repayments, at saturation too.
THEOREM RateStaysWithinBounds == Spec => []RateWithinBounds
<1>1. RepaymentsSound => RateWithinBounds
  <2> SUFFICES ASSUME RepaymentsSound, NEW s \in Subject
               PROVE  RepaymentRate(RepaymentOf(s).onTime, RepaymentOf(s).total)
                        <= BPS_DENOMINATOR
    BY DEF RateWithinBounds
  <2>1. RepaymentRate(RepaymentOf(s).onTime, RepaymentOf(s).total) \in 0..BPS_DENOMINATOR
    BY ReadSound, RateBounded
  <2>2. PICK rate \in 0..BPS_DENOMINATOR :
          rate = RepaymentRate(RepaymentOf(s).onTime, RepaymentOf(s).total)
    BY <2>1
  <2>3. rate <= BPS_DENOMINATOR
    BY DEF BPS_DENOMINATOR
  <2>4. QED
    BY <2>2, <2>3
<1>2. QED
  BY <1>1, InitRepaymentsSound, StepRepaymentsSound, PTL DEF Spec

InputsTyped ==
  /\ txStats \in [Subject -> TxStats \cup {None}]
  /\ config # None => config \in ScoringWeights /\ IsValid(config)
  /\ pendingWeights # None => pendingWeights \in ScoringWeights /\ IsValid(pendingWeights)

\* Statistics and weights keep their types; weights stay valid.
LEMMA StepInputsTyped == InputsTyped /\ [Next]_vars => InputsTyped'
<1> SUFFICES ASSUME InputsTyped, [Next]_vars PROVE InputsTyped'
  OBVIOUS
<1>1. txStats' \in [Subject -> TxStats \cup {None}]
  <2>1. CASE UNCHANGED txStats
    BY <2>1 DEF InputsTyped
  <2>2. CASE FeedsNext
    BY <2>2, CreditAssumption
      DEF FeedsNext, UpdateTxStats, SetVcCount, AnchorVc, InputsTyped
  <2>3. QED
    BY <2>1, <2>2, Frames
<1>2. /\ config' # None => config' \in ScoringWeights /\ IsValid(config')
      /\ pendingWeights' # None =>
           pendingWeights' \in ScoringWeights /\ IsValid(pendingWeights')
  <2>1. CASE UNCHANGED oracleWeights
    BY <2>1 DEF InputsTyped, oracleWeights
  <2>2. ASSUME NEW a \in Account, OracleInitialize(a)
        PROVE  config' = DefaultWeights /\ UNCHANGED pendingWeights
    BY <2>2 DEF OracleInitialize
  <2>3. DefaultWeights \in ScoringWeights /\ IsValid(DefaultWeights)
    BY DEF DefaultWeights, ScoringWeights, IsValid, MIN_COMPONENT_WEIGHT
  <2>4. ASSUME WeightsNext
        PROVE  \/ UNCHANGED oracleWeights
               \/ config' = pendingWeights /\ pendingWeights' = None
               \/ /\ pendingWeights' \in WeightInputs /\ IsValid(pendingWeights')
                  /\ UNCHANGED config
    BY <2>4 DEF WeightsNext, OracleSetPaused, ProposeWeights, OracleApplyWeights, oracleWeights
  <2>5. QED
    BY <2>1, <2>2, <2>3, <2>4, Frames, OracleAssumption DEF InputsTyped
<1>3. QED
  BY <1>1, <1>2 DEF InputsTyped

-----------------------------------------------------------------------------
(* Types.                                                                  *)

\* Which steps change the other parts of the state.
LEMMA MoreFrames ==
  ASSUME [Next]_vars
  PROVE  /\ \/ UNCHANGED settings \/ SettingsNext
            \/ \E a \in Account : Initialize(a)
            \/ \E subjects \in SUBSET Subject : Migrate(subjects)
         /\ UNCHANGED feeds \/ FeedsNext
         /\ \/ UNCHANGED oracleVars \/ WeightsNext
            \/ \E a \in Account : OracleInitialize(a)
         /\ UNCHANGED ledger \/ (CloseLedger /\ ledger' = ledger + 1 /\ ledger < MaxLedger)
         /\ UNCHANGED identity \/ IdentityNext
         /\ \/ UNCHANGED <<scores, oracleStats>>
            \/ \E s \in Subject : ComputeScore(s)
            \/ IdentityNext /\ UNCHANGED <<score, oracleStats>>
            \/ /\ UNCHANGED scores
               /\ \E l \in Lender, s \in Subject, amount \in Amounts, b \in BOOLEAN :
                    RecordRepayment(l, s, amount, b)
<1>1. CASE UNCHANGED vars
  BY <1>1 DEF vars
<1>2. CASE \E a \in Account : Initialize(a)
  BY <1>2 DEF Initialize, OracleInitialize
<1>3. ASSUME WeightsNext PROVE UNCHANGED ledger
  BY <1>3 DEF WeightsNext, OracleSetPaused, ProposeWeights, OracleApplyWeights
<1>4. CASE WeightsNext
  BY <1>3, <1>4 DEF WeightsNext
<1>5. CASE SettingsNext
  BY <1>5 DEF SettingsNext
<1>6. CASE PartiesNext
  BY <1>6 DEF PartiesNext
<1>7. CASE FeedsNext
  BY <1>7 DEF FeedsNext
<1>8. CASE \E l \in Lender, s \in Subject, amount \in Amounts, b \in BOOLEAN :
             RecordRepayment(l, s, amount, b)
  BY <1>8 DEF RecordRepayment
<1>9. CASE \E subjects \in SUBSET Subject : Migrate(subjects)
  BY <1>9 DEF Migrate
<1>10. CASE DisputesNext
  BY <1>10 DEF DisputesNext
<1>11. CASE \E s \in Subject : ComputeScore(s)
  BY <1>11 DEF ComputeScore
<1>12. CASE IdentityNext
  <2>1. UNCHANGED ledger
    BY <1>12 DEF IdentityNext, Identity!ViewStep, Identity!Issue, Identity!Touch,
                 Identity!Deactivate, Identity!Reactivate, Identity!Lapse, Identity!Relink
  <2>2. QED
    BY <1>12, <2>1 DEF IdentityNext
<1>13. CASE CloseLedger
  BY <1>13 DEF CloseLedger, Tick
<1>14. QED
  BY <1>1, <1>2, <1>4, <1>5, <1>6, <1>7, <1>8, <1>9, <1>10, <1>11, <1>12, <1>13 DEF Next

SettingsTypes ==
  /\ storageVersion \in 1..2
  /\ computeCooldown \in 0..MAX_COMPUTE_COOLDOWN_LEDGERS
  /\ identityOracleId \in IdOracle \cup {None}
  /\ vcWeight \in [CredType -> Nat]
  /\ recency \in RecencyDecayConfig

FeedTypes ==
  /\ vcCount \in [Subject -> Nat]
  /\ vcList \in [Subject -> SUBSET (VcId \X (CredType \cup {NoType}))]
  /\ \A s \in Subject : IsFiniteSet(vcList[s])

IdentityTypes ==
  /\ Identity!ViewTypeOK
  /\ anchoredAt \in [IdOracle -> [Subject -> [Identity!Credential -> 0..MAX_U32]]]

ScoreTypes ==
  /\ score \in [Subject -> ScoreRecord \cup {None}]
  /\ oracleStats \in [scored : Nat, repayments : Nat]
  /\ lastCompute \in [Subject -> [at : 0..MAX_U32, source : IdOracle \cup {None}]]

\* The weights have no room for invalid values, and the oracle's own lists no
\* room for infinitely many entries, which the types do not say.
TypeInv ==
  /\ OracleTypeOK /\ InputsTyped
  /\ SettingsTypes /\ IndexTypes /\ FeedTypes
  /\ RepaymentsSound
  /\ IdentityTypes
  /\ ScoreTypes

\* The inductive invariant contains the type invariant.
LEMMA TypeInvImplies == TypeInv => TypeOK
  BY DEF TypeInv, TypeOK, InputsTyped, SettingsTypes, IndexTypes, FeedTypes, RepaymentsSound,
         IdentityTypes, ScoreTypes

\* The inductive type invariant holds in every initial state.
LEMMA InitTypeInv == CreditInit => TypeInv
<1> SUFFICES ASSUME CreditInit PROVE TypeInv
  OBVIOUS
<1> USE DEF CreditInit
<1>0. 1 \in 1..MAX_U32 /\ 0 \in 0..MAX_U32 /\ MAX_U32 \in Nat
  BY OracleAssumption
<1>1. DefaultWeights \in ScoringWeights /\ IsValid(DefaultWeights)
  BY DEF DefaultWeights, ScoringWeights, IsValid, MIN_COMPONENT_WEIGHT
<1>2. OracleTypeOK
  BY <1>0, <1>1 DEF OracleTypeOK, Address, Identity!ViewInit
<1>3. InputsTyped
  BY <1>1, OracleAssumption DEF InputsTyped
<1>4. SettingsTypes
  <2>1. 0 \in 0..MAX_COMPUTE_COOLDOWN_LEDGERS
    BY CreditAssumption
  <2>2. [enabled |-> FALSE, perDay |-> 5, min |-> 5000] \in RecencyDecayConfig
    BY DEF RecencyDecayConfig, BPS_DENOMINATOR
  <2>3. /\ storageVersion = 1 /\ computeCooldown = 0 /\ identityOracleId = None
        /\ vcWeight = [t \in CredType |-> 100]
    OBVIOUS
  <2>4. recency \in RecencyDecayConfig
    BY <2>2
  <2> HIDE DEF CreditInit
  <2>5. storageVersion \in 1..2
    BY <2>3
  <2>6. computeCooldown \in 0..MAX_COMPUTE_COOLDOWN_LEDGERS
    BY <2>1, <2>3
  <2>7. identityOracleId \in IdOracle \cup {None}
    BY <2>3
  <2>8. vcWeight \in [CredType -> Nat]
    BY <2>3
  <2>9. QED
    BY <2>4, <2>5, <2>6, <2>7, <2>8 DEF SettingsTypes
<1>5. IndexTypes
  BY DEF IndexTypes
<1>6. FeedTypes
  BY FS_EmptySet DEF FeedTypes
<1>7. IdentityTypes
  BY <1>0 DEF IdentityTypes, Identity!ViewInit, Identity!ViewTypeOK, Identity!Holdings
<1>8. ScoreTypes
  BY <1>0 DEF ScoreTypes
<1>9. QED
  BY <1>2, <1>3, <1>4, <1>5, <1>6, <1>7, <1>8, InitRepaymentsSound DEF TypeInv

\* The weights' entries keep their types.
LEMMA StepOracleTyped == OracleTypeOK /\ [Next]_vars => OracleTypeOK'
<1> SUFFICES ASSUME OracleTypeOK, [Next]_vars PROVE OracleTypeOK'
  OBVIOUS
<1> USE DEF OracleTypeOK
<1>1. ledger' \in 1..MAX_U32
  BY MoreFrames, OracleAssumption
<1>2. DefaultWeights \in ScoringWeights
  BY DEF DefaultWeights, ScoringWeights
<1>3. CASE UNCHANGED oracleVars
  BY <1>1, <1>3 DEF oracleVars, oracleRole, oracleWeights
<1>4. ASSUME NEW a \in Account, OracleInitialize(a) PROVE OracleTypeOK'
  BY <1>1, <1>2, <1>4 DEF OracleInitialize, Address
<1>5. ASSUME NEW p \in BOOLEAN, OracleSetPaused(p) PROVE OracleTypeOK'
  BY <1>1, <1>5 DEF OracleSetPaused, oracleRole, oracleWeights
<1>6. ASSUME NEW a \in Account, NEW w \in WeightInputs, ProposeWeights(a, w) PROVE OracleTypeOK'
  <2>1. ledger + TIMELOCK_LEDGERS \in Nat /\ w \in ScoringWeights
    BY OracleAssumption
  <2>2. QED
    BY <1>1, <1>6, <2>1 DEF ProposeWeights, oracleRole
<1>7. ASSUME OracleApplyWeights PROVE OracleTypeOK'
  BY <1>1, <1>7 DEF OracleApplyWeights, oracleRole
<1>8. QED
  BY <1>3, <1>4, <1>5, <1>6, <1>7, MoreFrames DEF WeightsNext

\* The settings keep their types and bounds.
LEMMA StepSettingsTyped == SettingsTypes /\ [Next]_vars => SettingsTypes'
<1> SUFFICES ASSUME SettingsTypes, [Next]_vars PROVE SettingsTypes'
  OBVIOUS
<1> USE DEF SettingsTypes
<1>1. CASE UNCHANGED settings
  BY <1>1 DEF settings
<1>2. ASSUME NEW a \in Account, Initialize(a) PROVE SettingsTypes'
  <2>1. 1 \in 0..MAX_COMPUTE_COOLDOWN_LEDGERS
    BY CreditAssumption
  <2>2. QED
    BY <1>2, <2>1 DEF Initialize
<1>3. ASSUME NEW subjects, Migrate(subjects) PROVE SettingsTypes'
  BY <1>3 DEF Migrate
<1>4. ASSUME NEW n \in Cooldowns, SetComputeCooldownLedgers(n) PROVE SettingsTypes'
  BY <1>4, CreditAssumption DEF SetComputeCooldownLedgers
<1>5. ASSUME NEW o \in IdOracle, SetIdentityOracle(o) PROVE SettingsTypes'
  BY <1>5 DEF SetIdentityOracle
<1>6. ASSUME NEW t \in CredType, NEW w \in TypeWeights, SetVcTypeWeight(t, w) PROVE SettingsTypes'
  BY <1>6, CreditAssumption DEF SetVcTypeWeight
<1>7. ASSUME NEW d \in DecayInputs, SetRecencyDecay(d) PROVE SettingsTypes'
  <2>1. d \in [enabled : BOOLEAN, perDay : Nat, min : Nat]
    BY CreditAssumption
  <2>2. d.min \in Nat
    BY <2>1
  <2>3. d.min <= BPS_DENOMINATOR
    BY <1>7 DEF SetRecencyDecay
  <2>4. d.min \in 0..BPS_DENOMINATOR
    <3>1. \A m \in Nat : m <= BPS_DENOMINATOR => m \in 0..BPS_DENOMINATOR
      BY DEF BPS_DENOMINATOR
    <3>2. QED
      BY <2>2, <2>3, <3>1
  <2>5. d \in RecencyDecayConfig
    BY <2>1, <2>4 DEF RecencyDecayConfig
  <2>6. QED
    BY <1>7, <2>5 DEF SetRecencyDecay
<1>8. QED
  BY <1>1, <1>2, <1>3, <1>4, <1>5, <1>6, <1>7, MoreFrames DEF SettingsNext

\* The feeders' and lenders' inputs keep their types.
LEMMA StepFeedsTyped == FeedTypes /\ [Next]_vars => FeedTypes'
<1> SUFFICES ASSUME FeedTypes, [Next]_vars PROVE FeedTypes'
  OBVIOUS
<1> USE DEF FeedTypes
<1>1. CASE UNCHANGED feeds
  BY <1>1 DEF feeds
<1>2. ASSUME NEW f \in Feeder, NEW s \in Subject, NEW x, UpdateTxStats(f, s, x) PROVE FeedTypes'
  BY <1>2 DEF UpdateTxStats
<1>3. ASSUME NEW f \in Feeder, NEW s \in Subject, NEW n \in CountInputs, SetVcCount(f, s, n)
      PROVE  FeedTypes'
  BY <1>3, CreditAssumption DEF SetVcCount
<1>4. ASSUME NEW f \in Feeder, NEW s \in Subject, NEW id \in VcId, NEW t \in CredType \cup {NoType},
             AnchorVc(f, s, id, t)
      PROVE  FeedTypes'
  <2>1. vcList' = [vcList EXCEPT ![s] = vcList[s] \cup {<<id, t>>}] /\ UNCHANGED vcCount
    BY <1>4 DEF AnchorVc
  <2>2. IsFiniteSet(vcList[s] \cup {<<id, t>>})
    BY FS_AddElement
  <2>3. QED
    BY <2>1, <2>2
<1>5. QED
  BY <1>1, <1>2, <1>3, <1>4, MoreFrames DEF FeedsNext

\* Feeders, lenders, disputes and their indexes keep their types.
LEMMA StepIndexTyped == IndexTypes /\ [Next]_vars => IndexTypes'
<1> SUFFICES ASSUME IndexTypes, [Next]_vars PROVE IndexTypes'
  OBVIOUS
<1> USE DEF IndexTypes
<1>1. /\ trustedFeeder' \in [Feeder -> BOOLEAN] /\ feedersIndex' \in [Feeder -> Nat]
      /\ trustedLender' \in [Lender -> BOOLEAN] /\ lendersIndex' \in [Lender -> Nat]
  <2>1. CASE UNCHANGED parties
    BY <2>1 DEF parties
  <2> DEFINE Typed == /\ trustedFeeder \in [Feeder -> BOOLEAN] /\ feedersIndex \in [Feeder -> Nat]
                      /\ trustedLender \in [Lender -> BOOLEAN] /\ lendersIndex \in [Lender -> Nat]
  <2>2. ASSUME NEW S, NEW index \in [S -> Nat], NEW a \in S PROVE Indexed(index, a) \in [S -> Nat]
    BY DEF Indexed
  <2>3. ASSUME NEW f \in Feeder, RegisterFeeder(f) PROVE Typed'
    BY <2>2, <2>3 DEF RegisterFeeder
  <2>4. ASSUME NEW f \in Feeder, DeregisterFeeder(f) PROVE Typed'
    BY <2>4 DEF DeregisterFeeder
  <2>5. ASSUME NEW l \in Lender, RegisterLender(l) PROVE Typed'
    BY <2>2, <2>5 DEF RegisterLender
  <2>6. ASSUME NEW l \in Lender, DeregisterLender(l) PROVE Typed'
    BY <2>6 DEF DeregisterLender
  <2>7. QED
    BY <2>1, <2>3, <2>4, <2>5, <2>6, Frames DEF PartiesNext
<1>2. /\ dispute' \in [Subject -> [InputKey -> {"Pending", "Resolved", "Rejected", None}]]
      /\ disputeIndex' \in [Subject -> [InputKey -> Nat]]
  <2>1. CASE UNCHANGED disputes
    BY <2>1 DEF disputes
  <2>2. ASSUME NEW s \in Subject, NEW key, FlagScoreInput(s, key)
        PROVE  /\ dispute' \in [Subject -> [InputKey -> {"Pending", "Resolved", "Rejected", None}]]
               /\ disputeIndex' \in [Subject -> [InputKey -> Nat]]
    BY <2>2 DEF FlagScoreInput, Indexed
  <2>3. ASSUME NEW s \in Subject, NEW key \in InputKey, NEW b \in BOOLEAN, ResolveDispute(s, key, b)
        PROVE  /\ dispute' \in [Subject -> [InputKey -> {"Pending", "Resolved", "Rejected", None}]]
               /\ disputeIndex' \in [Subject -> [InputKey -> Nat]]
    BY <2>3 DEF ResolveDispute
  <2>4. QED
    BY <2>1, <2>2, <2>3, Frames DEF DisputesNext
<1>3. QED
  BY <1>1, <1>2

\* The identity the oracle reads keeps its types.
LEMMA StepIdentityTyped == OracleTypeOK /\ IdentityTypes /\ [Next]_vars => IdentityTypes'
<1> SUFFICES ASSUME OracleTypeOK, IdentityTypes, [Next]_vars PROVE IdentityTypes'
  OBVIOUS
<1> USE DEF IdentityTypes, Identity!ViewTypeOK
<1>0. ledger \in Nat /\ ledger \in 0..MAX_U32
  BY OracleAssumption DEF OracleTypeOK
<1>1. CASE UNCHANGED identity
  BY <1>1 DEF identity
<1>2. CASE IdentityNext
  <2>1. anchoredAt' \in [IdOracle -> [Subject -> [Identity!Credential -> 0..MAX_U32]]]
    BY <1>0, <1>2 DEF IdentityNext
  <2> USE DEF Identity!Holdings
  <2>2. ASSUME NEW o \in IdOracle, NEW s \in Subject, NEW c \in Identity!Credential,
               NEW type \in CredType, Identity!Issue(o, s, c, type)
        PROVE  Identity!ViewTypeOK'
    <3>1. c[1] \in Hash
      BY DEF Identity!Credential
    <3>2. /\ issued' \in [IdOracle -> [Subject -> SUBSET Identity!Credential]]
          /\ active' \in [IdOracle -> [Subject -> SUBSET Identity!Credential]]
      <4>1. issued' = [issued EXCEPT ![o][s] = issued[o][s] \cup {c}]
        BY <2>2 DEF Identity!Issue
      <4>2. \/ active' = [active EXCEPT ![o][s] = active[o][s] \cup {c}]
            \/ active' = active
        BY <2>2 DEF Identity!Issue
      <4> DEFINE S == Identity!Credential
      <4>3. issued \in [IdOracle -> [Subject -> SUBSET S]] /\ c \in S
        OBVIOUS
      <4>4. active \in [IdOracle -> [Subject -> SUBSET S]]
        OBVIOUS
      <4> HIDE DEF S
      <4>5. issued' \in [IdOracle -> [Subject -> SUBSET S]]
        BY <4>1, <4>3
      <4>6. active' \in [IdOracle -> [Subject -> SUBSET S]]
        <5>1. CASE active' = active
          BY <4>4, <5>1
        <5>2. CASE active' = [active EXCEPT ![o][s] = active[o][s] \cup {c}]
          BY <4>3, <4>4, <5>2
        <5>3. QED
          BY <4>2, <5>1, <5>2
      <4>7. QED
        BY <4>5, <4>6 DEF S
    <3>3. vcCredentialType' \in [IdOracle -> [Subject -> [Hash -> CredType]]]
      BY <2>2, <3>1 DEF Identity!Issue
    <3>4. /\ lastStateChange' \in [IdOracle -> [Subject -> Nat]]
          /\ UNCHANGED <<deactivated, registry>>
      BY <1>0, <2>2 DEF Identity!Issue, Identity!Stamp
    <3>5. QED
      BY <3>2, <3>3, <3>4
  <2>3. ASSUME NEW o \in IdOracle, NEW s \in Subject, Identity!Touch(o, s)
        PROVE  Identity!ViewTypeOK'
    BY <1>0, <2>3 DEF Identity!Touch, Identity!Stamp, Identity!Losses
  <2>4. ASSUME NEW o \in IdOracle, NEW s \in Subject, Identity!Deactivate(o, s)
        PROVE  Identity!ViewTypeOK'
    BY <1>0, <2>4 DEF Identity!Deactivate, Identity!Stamp
  <2>5. ASSUME NEW o \in IdOracle, NEW s \in Subject, Identity!Reactivate(o, s)
        PROVE  Identity!ViewTypeOK'
    BY <1>0, <2>5 DEF Identity!Reactivate, Identity!Stamp
  <2>6. ASSUME Identity!Lapse PROVE Identity!ViewTypeOK'
    BY <2>6 DEF Identity!Lapse, Identity!Losses
  <2>7. ASSUME NEW o \in IdOracle, NEW r \in Registry, Identity!Relink(o, r)
        PROVE  Identity!ViewTypeOK'
    BY <2>7 DEF Identity!Relink
  <2> HIDE DEF Identity!ViewTypeOK
  <2>8. QED
    BY <1>2, <2>1, <2>2, <2>3, <2>4, <2>5, <2>6, <2>7 DEF IdentityNext, Identity!ViewStep
<1>3. QED
  BY <1>1, <1>2, MoreFrames

-----------------------------------------------------------------------------
(* The points of a subject's credentials.                                  *)

\* Division by a positive number keeps the order.
LEMMA QuotientMonotone ==
  ASSUME NEW a \in Int, NEW b \in Int, NEW d \in Nat \ {0}, a <= b
  PROVE  a \div d <= b \div d
<1> DEFINE p == a \div d
           q == b \div d
<1>1. p \in Int /\ q \in Int /\ d * p <= a /\ b < d * q + d
  BY Quotient
<1> HIDE DEF p, q
<1>2. ASSUME p > q PROVE FALSE
  <2>1. PICK k \in Nat : p = q + 1 + k
    BY <1>1, <1>2, p - q - 1 \in Nat, p = q + 1 + (p - q - 1)
  <2>2. d * p = d * q + d + d * k
    BY <1>1, <2>1
  <2>3. d * k >= 0 /\ d * p \in Int /\ d * q \in Int
    BY <1>1
  <2>4. QED
    BY <1>1, <2>2, <2>3
<1>3. QED
  BY <1>1, <1>2 DEF p, q

\* Multiplication by a natural number keeps the order.
LEMMA ProductMonotone ==
  ASSUME NEW a \in Int, NEW b \in Int, NEW n \in Nat, a <= b
  PROVE  a * n <= b * n
<1>1. PICK k \in Nat : b = a + k
  BY b - a \in Nat, b = a + (b - a)
<1>2. b * n = a * n + k * n
  BY <1>1
<1>3. k * n >= 0 /\ a * n \in Int /\ k * n \in Int
  OBVIOUS
<1>4. QED
  BY <1>2, <1>3

\* recency_multiplier_bps is a share of the whole, and time never increases
\* it, decay below zero and floors above 100% included.
LEMMA RecencyDecreases ==
  ASSUME NEW anchored \in Int, NEW now \in Int, NEW later \in Int, now <= later,
         NEW perDay \in Nat, NEW min \in Nat
  PROVE  /\ RecencyMultiplierBps(anchored, now, perDay, min) \in 0..BPS_DENOMINATOR
         /\ RecencyMultiplierBps(anchored, later, perDay, min) \in 0..BPS_DENOMINATOR
         /\ RecencyMultiplierBps(anchored, later, perDay, min)
              <= RecencyMultiplierBps(anchored, now, perDay, min)
<1>0. BPS_DENOMINATOR \in Nat
  BY DEF BPS_DENOMINATOR
<1> DEFINE Age(t) == AtLeast(0, t - anchored) \div SECONDS_PER_DAY
<1>1. ASSUME NEW t \in Int PROVE Age(t) \in Nat
  <2>1. AtLeast(0, t - anchored) \in Int /\ AtLeast(0, t - anchored) >= 0
    BY DEF AtLeast
  <2>2. SECONDS_PER_DAY \in Nat \ {0}
    BY DEF SECONDS_PER_DAY
  <2>3. Age(t) \in Int /\ Age(t) >= 0
    BY <2>1, <2>2, Quotient
  <2>4. QED
    BY <2>3
<1>2. Age(now) <= Age(later)
  <2>1. /\ AtLeast(0, now - anchored) \in Int /\ AtLeast(0, later - anchored) \in Int
        /\ AtLeast(0, now - anchored) <= AtLeast(0, later - anchored)
    BY DEF AtLeast
  <2>2. SECONDS_PER_DAY \in Nat \ {0}
    BY DEF SECONDS_PER_DAY
  <2>3. QED
    BY <2>1, <2>2, QuotientMonotone
<1>3. Age(now) \in Nat /\ Age(later) \in Nat
  BY <1>1
<1> HIDE DEF Age
<1>4. Age(now) * perDay <= Age(later) * perDay
  BY <1>2, <1>3, ProductMonotone
<1>5. Age(now) * perDay \in Nat /\ Age(later) * perDay \in Nat
  BY <1>3
<1>6. PICK x \in Nat, y \in Nat : x = Age(now) * perDay /\ y = Age(later) * perDay /\ x <= y
  BY <1>4, <1>5
<1>7. PICK u \in 0..BPS_DENOMINATOR, v \in 0..BPS_DENOMINATOR :
        u = AtLeast(0, BPS_DENOMINATOR - x) /\ v = AtLeast(0, BPS_DENOMINATOR - y) /\ v <= u
  BY <1>0, <1>6 DEF AtLeast
<1>8. PICK floor \in 0..BPS_DENOMINATOR : floor = AtMost(BPS_DENOMINATOR, min)
  BY <1>0 DEF AtMost
<1>9. /\ RecencyMultiplierBps(anchored, now, perDay, min) = AtLeast(floor, u)
      /\ RecencyMultiplierBps(anchored, later, perDay, min) = AtLeast(floor, v)
  BY <1>6, <1>7, <1>8 DEF RecencyMultiplierBps, Age
<1>10. AtLeast(floor, u) \in 0..BPS_DENOMINATOR /\ AtLeast(floor, v) \in 0..BPS_DENOMINATOR
       /\ AtLeast(floor, v) <= AtLeast(floor, u)
  BY <1>0, <1>7 DEF AtLeast
<1>11. QED
  BY <1>9, <1>10

\* A credential of a type is worth a natural number of points.
LEMMA TypePoints ==
  ASSUME NEW weight \in Nat
  PROVE  VcPoints(weight) \in Nat
  BY DEF VcPoints

\* A smaller recency multiplier never gives more points.
LEMMA DecayedPoints ==
  ASSUME NEW points \in Nat, NEW r1 \in Nat, NEW r2 \in Nat, r1 <= r2
  PROVE  /\ ApplyRecencyBps(points, r1) \in Nat /\ ApplyRecencyBps(points, r2) \in Nat
         /\ ApplyRecencyBps(points, r1) <= ApplyRecencyBps(points, r2)
<1>0. BPS_DENOMINATOR \in Nat \ {0}
  BY DEF BPS_DENOMINATOR
<1>1. r1 * points <= r2 * points
  BY ProductMonotone
<1>2. PICK x \in Nat, y \in Nat : x = points * r1 /\ y = points * r2 /\ x <= y
  BY <1>1, points * r1 = r1 * points, points * r2 = r2 * points, points * r1 \in Nat,
     points * r2 \in Nat
<1>3. ASSUME NEW n \in Nat PROVE n \div BPS_DENOMINATOR \in Nat
  <2>1. n \div BPS_DENOMINATOR \in Int /\ (n >= 0 => n \div BPS_DENOMINATOR >= 0)
    BY <1>0, Quotient
  <2>2. QED
    BY <2>1
<1>4. x \div BPS_DENOMINATOR <= y \div BPS_DENOMINATOR
  BY <1>0, <1>2, QuotientMonotone
<1>5. QED
  BY <1>2, <1>3, <1>4 DEF ApplyRecencyBps

\* The points of a credential, at the time of any ledger.
PointsAt(s, c, l) ==
  LET points == VcPoints(vcWeight[vcCredentialType[identityOracleId][s][c[1]]])
  IN IF recency.enabled
     THEN ApplyRecencyBps(points,
            RecencyMultiplierBps(Time(anchoredAt[identityOracleId][s][c]), Time(l),
                                 recency.perDay, recency.min))
     ELSE points

\* What the identity oracle reports is a finite set of credentials.
LEMMA HeldTyped ==
  ASSUME SettingsTypes, IdentityTypes, identityOracleId # None, NEW s \in Subject
  PROVE  Held(s) \in SUBSET Identity!Credential /\ IsFiniteSet(Held(s))
<1>1. Held(s) \in SUBSET Identity!Credential
  BY DEF SettingsTypes, IdentityTypes, Identity!ViewTypeOK, Identity!Holdings, Held
<1>2. IsFiniteSet(Identity!Credential)
  BY CreditAssumption, FS_Product DEF Identity!Credential
<1>3. QED
  BY <1>1, <1>2, FS_Subset

\* A credential is worth a natural number of points, and never more later.
LEMMA PointsDecrease ==
  ASSUME SettingsTypes, IdentityTypes, identityOracleId # None,
         NEW s \in Subject, NEW c \in Identity!Credential,
         NEW l1 \in Nat, NEW l2 \in Nat, l1 <= l2
  PROVE  /\ PointsAt(s, c, l1) \in Nat /\ PointsAt(s, c, l2) \in Nat
         /\ PointsAt(s, c, l2) <= PointsAt(s, c, l1)
<1>1. c[1] \in Hash
  BY DEF Identity!Credential
<1>2. vcCredentialType[identityOracleId][s][c[1]] \in CredType
  BY <1>1 DEF SettingsTypes, IdentityTypes, Identity!ViewTypeOK
<1>3. PICK points \in Nat :
        points = VcPoints(vcWeight[vcCredentialType[identityOracleId][s][c[1]]])
  BY <1>2, TypePoints DEF SettingsTypes
<1>4. LEDGER_SECONDS \in Nat
  BY CreditAssumption
<1>5. anchoredAt[identityOracleId][s][c] \in Nat
  BY OracleAssumption DEF SettingsTypes, IdentityTypes
<1>6. PICK a \in Nat : a = Time(anchoredAt[identityOracleId][s][c])
  BY <1>4, <1>5 DEF Time
<1>7. PICK t1 \in Nat, t2 \in Nat : t1 = Time(l1) /\ t2 = Time(l2) /\ t1 <= t2
  BY <1>4, ProductMonotone DEF Time
<1>8. PICK perDay \in Nat, min \in Nat : perDay = recency.perDay /\ min = recency.min
  <2>1. recency.perDay \in Nat /\ recency.min \in 0..BPS_DENOMINATOR
    BY DEF SettingsTypes, RecencyDecayConfig
  <2>2. 0..BPS_DENOMINATOR \subseteq Nat
    BY DEF BPS_DENOMINATOR
  <2>3. QED
    BY <2>1, <2>2
<1>9. PICK r1 \in Nat, r2 \in Nat :
        /\ r1 = RecencyMultiplierBps(a, t1, perDay, min)
        /\ r2 = RecencyMultiplierBps(a, t2, perDay, min)
        /\ r2 <= r1
  <2>0. a \in Int /\ t1 \in Int /\ t2 \in Int
    OBVIOUS
  <2>1. /\ RecencyMultiplierBps(a, t1, perDay, min) \in 0..BPS_DENOMINATOR
        /\ RecencyMultiplierBps(a, t2, perDay, min) \in 0..BPS_DENOMINATOR
        /\ RecencyMultiplierBps(a, t2, perDay, min) <= RecencyMultiplierBps(a, t1, perDay, min)
    BY <1>7, <2>0, RecencyDecreases
  <2>2. 0..BPS_DENOMINATOR \subseteq Nat
    BY DEF BPS_DENOMINATOR
  <2>3. QED
    BY <2>1, <2>2
<1>10. CASE recency.enabled
  <2>1. /\ PointsAt(s, c, l1) = ApplyRecencyBps(points, r1)
        /\ PointsAt(s, c, l2) = ApplyRecencyBps(points, r2)
    BY <1>3, <1>6, <1>7, <1>8, <1>9, <1>10 DEF PointsAt
  <2>2. QED
    BY <1>9, <2>1, DecayedPoints
<1>11. CASE ~recency.enabled
  BY <1>3, <1>11 DEF PointsAt
<1>12. QED
  BY <1>10, <1>11

\* The two sums of points, as sums over a finite set.
LivePoints(s) == [c \in Held(s) |-> CredentialPoints(s, c)]
ListedPoints(s) == [e \in vcList[s] |-> EntryPoints(e)]

\* Whatever it is read from, the credential component is a natural number.
LEMMA PointsTyped ==
  ASSUME TypeInv, NEW s \in Subject
  PROVE  VcInput(s).points \in Nat /\ VcInput(s).count \in Nat
<1> USE DEF TypeInv
<1>0. ledger \in Nat
  BY OracleAssumption DEF OracleTypeOK
<1>1. CASE identityOracleId # None
  <2>1. Held(s) \in SUBSET Identity!Credential
    BY <1>1, HeldTyped
  <2>2. IsFiniteSet(Held(s))
    BY <1>1, HeldTyped
  <2>3. \A c \in Held(s) : LivePoints(s)[c] \in Nat
    <3>1. \A c \in Held(s) : CredentialPoints(s, c) = PointsAt(s, c, ledger)
      BY DEF CredentialPoints, PointsAt
    <3>2. \A c \in Held(s) : PointsAt(s, c, ledger) \in Nat
      BY <1>0, <1>1, <2>1, PointsDecrease
    <3>3. QED
      BY <3>1, <3>2 DEF LivePoints
  <2>4. SumFunctionOnSet(LivePoints(s), Held(s)) \in Nat
    BY <2>2, <2>3, SumNat
  <2>5. DOMAIN LivePoints(s) = Held(s)
    BY DEF LivePoints
  <2>6. Cardinality(Held(s)) \in Nat
    BY <2>2, FS_CardinalityType
  <2>7. VcInput(s) = [count |-> Cardinality(Held(s)), points |-> SumFunction(LivePoints(s))]
    BY <1>1 DEF VcInput, LivePoints
  <2>8. QED
    BY <2>4, <2>5, <2>6, <2>7 DEF SumFunction
<1>2. CASE identityOracleId = None /\ vcList[s] # {}
  <2>1. IsFiniteSet(vcList[s]) /\ vcList[s] \in SUBSET (VcId \X (CredType \cup {NoType}))
    BY DEF FeedTypes
  <2>2. \A e \in vcList[s] : ListedPoints(s)[e] \in Nat
    <3>1. ASSUME NEW e \in vcList[s] PROVE EntryPoints(e) \in Nat
      <4>1. e[2] \in CredType \cup {NoType}
        BY <2>1
      <4>2. (IF e[2] = NoType THEN 100 ELSE vcWeight[e[2]]) \in Nat
        BY <4>1 DEF SettingsTypes
      <4>3. QED
        BY <4>2, TypePoints DEF EntryPoints
    <3>2. QED
      BY <3>1 DEF ListedPoints
  <2>3. SumFunctionOnSet(ListedPoints(s), vcList[s]) \in Nat
    BY <2>1, <2>2, SumNat
  <2>4. DOMAIN ListedPoints(s) = vcList[s]
    BY DEF ListedPoints
  <2>5. Cardinality(vcList[s]) \in Nat
    BY <2>1, FS_CardinalityType
  <2>6. VcInput(s) = [count |-> Cardinality(vcList[s]), points |-> SumFunction(ListedPoints(s))]
    BY <1>2 DEF VcInput, ListedPoints
  <2>7. QED
    BY <2>3, <2>4, <2>5, <2>6 DEF SumFunction
<1>3. CASE identityOracleId = None /\ vcList[s] = {}
  <2>1. vcCount[s] \in Nat
    BY DEF FeedTypes
  <2>2. AtMost(100, 20 * vcCount[s]) \in Nat
    BY <2>1 DEF AtMost
  <2>3. VcInput(s) = [count |-> vcCount[s], points |-> AtMost(100, 20 * vcCount[s])]
    BY <1>3 DEF VcInput
  <2>4. QED
    BY <2>1, <2>2, <2>3
<1>4. QED
  BY <1>1, <1>2, <1>3

\* With the invariant, the formula of the score stays in range before the clamp.
LEMMA InRangeNow ==
  ASSUME TypeInv, config # None, NEW s \in Subject
  PROVE  /\ RawScore(VcInput(s).points, TxInput(s), RepaymentOf(s), config) \in MIN_SCORE..MAX_SCORE
         /\ TxInput(s) \in TxStats
<1>1. TxInput(s) \in TxStats
  BY DEF TypeInv, TxInput, NoTxStats, TxStats, InputsTyped
<1>2. VcInput(s).points \in Nat
  BY PointsTyped
<1>3. Sound(RepaymentOf(s)) /\ config \in ScoringWeights /\ IsValid(config)
  BY ReadSound DEF TypeInv, InputsTyped
<1> HIDE DEF TypeInv
<1>4. QED
  BY <1>1, <1>2, <1>3, ScoreInRange

\* compute_score returns the unclamped value.
LEMMA PotentialIsRaw ==
  ASSUME TypeInv, config # None, NEW s \in Subject
  PROVE  /\ NewScore(s).score = RawScore(VcInput(s).points, TxInput(s), RepaymentOf(s), config)
         /\ NewScore(s).score \in MIN_SCORE..MAX_SCORE
<1>1. PICK raw \in MIN_SCORE..MAX_SCORE :
        raw = RawScore(VcInput(s).points, TxInput(s), RepaymentOf(s), config)
  BY InRangeNow
<1>2. AtLeast(MIN_SCORE, AtMost(MAX_SCORE, raw)) = raw
  BY DEF AtLeast, AtMost, MIN_SCORE, MAX_SCORE
<1>3. NewScore(s).score = AtLeast(MIN_SCORE, AtMost(MAX_SCORE, raw))
  BY <1>1 DEF NewScore, ComputeScorePure
<1>4. QED
  BY <1>1, <1>2, <1>3

\* What compute_score would store is a score record in the score's range.
LEMMA NewScoreTyped ==
  ASSUME TypeInv, config # None, NEW s \in Subject
  PROVE  NewScore(s) \in ScoreRecord
<1>1. NewScore(s).score \in MIN_SCORE..MAX_SCORE
  BY PotentialIsRaw
<1>2. NewScore(s).vcCount \in Nat
  BY PointsTyped DEF NewScore
<1>3. NewScore(s).rate \in Nat
  <2>1. RepaymentRate(RepaymentOf(s).onTime, RepaymentOf(s).total) \in 0..BPS_DENOMINATOR
    BY ReadSound, RateBounded DEF TypeInv
  <2>2. BPS_DENOMINATOR \in Nat
    BY DEF BPS_DENOMINATOR
  <2>3. QED
    BY <2>1, <2>2 DEF NewScore
<1>4. NewScore(s).volume \in Int
  <2>1. TxInput(s) \in TxStats
    BY InRangeNow
  <2>2. QED
    BY <2>1 DEF NewScore, TxStats
<1>5. NewScore(s).computedAt \in 1..MAX_U32
  BY DEF NewScore, TypeInv, OracleTypeOK
<1>6. \E a, b, c, d, e : NewScore(s) = [score |-> a, vcCount |-> b, rate |-> c, volume |-> d,
                                        computedAt |-> e]
  BY DEF NewScore
<1> HIDE DEF NewScore
<1>7. QED
  BY <1>1, <1>2, <1>3, <1>4, <1>5, <1>6 DEF ScoreRecord

\* Scores, statistics and the history variable keep their types.
LEMMA StepScoresTyped == TypeInv /\ [Next]_vars => ScoreTypes'
<1> SUFFICES ASSUME TypeInv, [Next]_vars PROVE ScoreTypes'
  OBVIOUS
<1>0. ScoreTypes
  BY DEF TypeInv
<1>1. CASE UNCHANGED <<scores, oracleStats>>
  BY <1>0, <1>1 DEF ScoreTypes, scores
<1>2. ASSUME UNCHANGED scores, NEW l, NEW s \in Subject, NEW amount, NEW b,
             RecordRepayment(l, s, amount, b)
      PROVE  ScoreTypes'
  <2>1. oracleStats' = [oracleStats EXCEPT !.repayments = oracleStats.repayments + 1]
    BY <1>2 DEF RecordRepayment
  <2>2. oracleStats' \in [scored : Nat, repayments : Nat]
    BY <1>0, <2>1 DEF ScoreTypes
  <2>3. QED
    BY <1>0, <1>2, <2>2 DEF ScoreTypes, scores
<1>3. ASSUME NEW s \in Subject, ComputeScore(s) PROVE ScoreTypes'
  <2>1. config # None /\ ledger \in 0..MAX_U32 /\ identityOracleId \in IdOracle \cup {None}
    BY <1>3, OracleAssumption
      DEF ComputeScore, CanCompute, TypeInv, OracleTypeOK, SettingsTypes
  <2>2. NewScore(s) \in ScoreRecord
    BY <2>1, NewScoreTyped
  <2>3. lastCompute' \in [Subject -> [at : 0..MAX_U32, source : IdOracle \cup {None}]]
    <3>1. [at |-> ledger, source |-> identityOracleId]
            \in [at : 0..MAX_U32, source : IdOracle \cup {None}]
      BY <2>1
    <3>2. lastCompute' =
            [lastCompute EXCEPT ![s] = [at |-> ledger, source |-> identityOracleId]]
      BY <1>3 DEF ComputeScore
    <3>3. QED
      BY <1>0, <3>1, <3>2 DEF ScoreTypes
  <2>4. CASE UNCHANGED <<score, oracleStats>>
    BY <1>0, <2>3, <2>4 DEF ScoreTypes
  <2>5. CASE /\ score' = [score EXCEPT ![s] = NewScore(s)]
             /\ oracleStats' = [oracleStats EXCEPT !.scored = Scored(s)]
    <3>1. score' \in [Subject -> ScoreRecord \cup {None}]
      BY <1>0, <2>2, <2>5 DEF ScoreTypes
    <3>2. Scored(s) \in Nat
      BY <1>0 DEF Scored, ScoreTypes
    <3>3. oracleStats' \in [scored : Nat, repayments : Nat]
      BY <1>0, <2>5, <3>2 DEF ScoreTypes
    <3>4. QED
      BY <2>3, <3>1, <3>3 DEF ScoreTypes
  <2>6. QED
    BY <1>3, <2>4, <2>5 DEF ComputeScore
<1>4. ASSUME IdentityNext, UNCHANGED <<score, oracleStats>> PROVE ScoreTypes'
  <2>1. lastCompute' \in [Subject -> [at : 0..MAX_U32, source : IdOracle \cup {None}]]
    BY <1>0, <1>4 DEF ScoreTypes, IdentityNext
  <2>2. QED
    BY <1>0, <1>4, <2>1 DEF ScoreTypes
<1>5. QED
  BY <1>1, <1>2, <1>3, <1>4, MoreFrames

\* Every step keeps the inductive type invariant.
LEMMA StepTypeInv == TypeInv /\ [Next]_vars => TypeInv'
<1>1. TypeInv => /\ OracleTypeOK /\ InputsTyped /\ SettingsTypes /\ IndexTypes /\ FeedTypes
                 /\ RepaymentsSound /\ IdentityTypes
  BY DEF TypeInv
<1>2. QED
  BY <1>1, StepOracleTyped, StepInputsTyped, StepSettingsTyped, StepIndexTyped, StepFeedsTyped,
     StepRepaymentsSound, StepIdentityTyped, StepScoresTyped
    DEF TypeInv

\* The inductive type invariant holds in every execution.
LEMMA AlwaysTypeInv == Spec => []TypeInv
  BY InitTypeInv, StepTypeInv, PTL DEF Spec

\* Every storage entry of the credit oracle keeps its type in every execution
\* (DataKey of contracts/credit-oracle), the range of stored scores included.
THEOREM TypesCorrect == Spec => []TypeOK
  BY AlwaysTypeInv, TypeInvImplies, PTL

\* compute_score_pure: whatever feeders, lenders, migrations, the identity and
\* weight changes do, no score needs the clamp, for any number of subjects and
\* credentials, types of any weight, any decay and any volume.
THEOREM ClampNeverNeeded == Spec => []ClampNeverBinds
<1>1. TypeInv => ClampNeverBinds
  BY InRangeNow DEF ClampNeverBinds
<1>2. QED
  BY <1>1, AlwaysTypeInv, PTL

-----------------------------------------------------------------------------
(* What a fresh score says of the credentials.                             *)

\* A score stands for the oracle it was last computed from when that oracle
\* was not pointed at another registry, and has not changed the subject, since.
Untouched(s) == LET o == lastCompute[s].source IN
  /\ score[s] # None /\ o # None
  /\ lastStateChange[o][s] < score[s].computedAt

Covered(s) == LET o == lastCompute[s].source IN
  ~deactivated[o][s] /\ Cardinality(active[o][s]) <= score[s].vcCount

\* Inductive: a score is not from the future, and one its oracle has not
\* changed since counts what is active there.
CoverInv ==
  \A s \in Subject :
    /\ score[s] # None => score[s].computedAt <= ledger
    /\ Untouched(s) => Covered(s)

\* The credentials of a subject are finitely many.
LEMMA ActiveFinite ==
  ASSUME TypeInv, NEW o \in IdOracle, NEW s \in Subject
  PROVE  IsFiniteSet(active[o][s])
<1>1. IsFiniteSet(Hash \X Issuer)
  BY CreditAssumption, FS_Product
<1>2. active[o][s] \subseteq Hash \X Issuer
  BY DEF TypeInv, IdentityTypes, Identity!ViewTypeOK, Identity!Holdings, Identity!Credential
<1>3. QED
  BY <1>1, <1>2, FS_Subset

\* What a step of the identity oracles does to one subject of one of them: it
\* is stamped, or at most loses credentials, or that oracle is relinked.
LEMMA IdentityEffect ==
  ASSUME TypeInv, Identity!ViewStep, NEW o \in IdOracle, NEW s \in Subject
  PROVE  /\ UNCHANGED ledger
         /\ \/ lastStateChange'[o][s] = ledger
            \/ /\ lastStateChange'[o][s] = lastStateChange[o][s]
               /\ deactivated'[o][s] = deactivated[o][s]
               /\ active'[o][s] \subseteq active[o][s]
            \/ registry'[o] # registry[o]
<1>0. /\ lastStateChange \in [IdOracle -> [Subject -> Nat]]
      /\ deactivated \in [IdOracle -> [Subject -> BOOLEAN]]
      /\ active \in [IdOracle -> [Subject -> SUBSET Identity!Credential]]
      /\ registry \in [IdOracle -> Registry \cup {None}]
  BY DEF TypeInv, IdentityTypes, Identity!ViewTypeOK, Identity!Holdings
<1> DEFINE Effect == /\ UNCHANGED ledger
                     /\ \/ lastStateChange'[o][s] = ledger
                        \/ /\ lastStateChange'[o][s] = lastStateChange[o][s]
                           /\ deactivated'[o][s] = deactivated[o][s]
                           /\ active'[o][s] \subseteq active[o][s]
                        \/ registry'[o] # registry[o]
<1>1. ASSUME NEW p \in IdOracle, NEW z \in Subject, NEW c, NEW type, Identity!Issue(p, z, c, type)
      PROVE  Effect
  BY <1>0, <1>1 DEF Identity!Issue, Identity!Stamp
<1>2. ASSUME NEW p \in IdOracle, NEW z \in Subject, Identity!Touch(p, z) PROVE Effect
  BY <1>0, <1>2 DEF Identity!Touch, Identity!Stamp, Identity!Losses
<1>3. ASSUME NEW p \in IdOracle, NEW z \in Subject, Identity!Deactivate(p, z) PROVE Effect
  BY <1>0, <1>3 DEF Identity!Deactivate, Identity!Stamp
<1>4. ASSUME NEW p \in IdOracle, NEW z \in Subject, Identity!Reactivate(p, z) PROVE Effect
  BY <1>0, <1>4 DEF Identity!Reactivate, Identity!Stamp
<1>5. ASSUME Identity!Lapse PROVE Effect
  BY <1>0, <1>5 DEF Identity!Lapse, Identity!Losses
<1>6. ASSUME NEW p \in IdOracle, NEW r \in Registry, Identity!Relink(p, r) PROVE Effect
  <2>1. CASE p = o
    BY <1>0, <1>6, <2>1 DEF Identity!Relink
  <2>2. CASE p # o
    <3>1. PICK f : active' = [active EXCEPT ![p] = f]
      BY <1>6 DEF Identity!Relink
    <3>2. active'[o][s] \subseteq active[o][s]
      BY <1>0, <2>2, <3>1
    <3>3. QED
      BY <1>6, <3>2 DEF Identity!Relink
  <2>3. QED
    BY <2>1, <2>2
<1>7. QED
  BY <1>1, <1>2, <1>3, <1>4, <1>5, <1>6 DEF Identity!ViewStep

\* Changes of the identity keep the invariant.
LEMMA IdentityKeepsCover == TypeInv /\ CoverInv /\ IdentityNext => CoverInv'
<1> SUFFICES ASSUME TypeInv, CoverInv, IdentityNext, NEW s \in Subject
             PROVE  /\ score'[s] # None => score'[s].computedAt <= ledger'
                    /\ Untouched(s)' => Covered(s)'
  BY DEF CoverInv
<1>1. /\ score' = score /\ Identity!ViewStep
      /\ lastCompute' = [z \in Subject |-> IF SourceRelinked(z)
                                           THEN [lastCompute[z] EXCEPT !.source = None]
                                           ELSE lastCompute[z]]
  BY DEF IdentityNext
<1>2. /\ lastCompute[s] \in [at : 0..MAX_U32, source : IdOracle \cup {None}]
      /\ score[s] \in ScoreRecord \cup {None}
      /\ ledger \in Nat
  BY OracleAssumption DEF TypeInv, ScoreTypes, OracleTypeOK
<1>3. /\ score[s] # None => score[s].computedAt <= ledger
      /\ Untouched(s) => Covered(s)
  BY DEF CoverInv
<1>4. UNCHANGED ledger
  BY <1>1 DEF Identity!ViewStep, Identity!Issue, Identity!Touch, Identity!Deactivate,
              Identity!Reactivate, Identity!Lapse, Identity!Relink
<1>5. ASSUME Untouched(s)' PROVE Covered(s)'
  <2>1. lastCompute'[s].source # None /\ score[s] # None
    BY <1>1, <1>5 DEF Untouched
  <2>2. ~SourceRelinked(s)
    BY <1>1, <1>2, <2>1
  <2>3. lastCompute'[s] = lastCompute[s]
    BY <1>1, <2>2
  <2>4. PICK o \in IdOracle : o = lastCompute[s].source
    BY <1>2, <2>1, <2>3
  <2>5. registry'[o] = registry[o]
    BY <2>2, <2>4 DEF SourceRelinked
  <2>6. lastStateChange'[o][s] < score[s].computedAt
    BY <1>1, <1>5, <2>3, <2>4 DEF Untouched
  <2>7. score[s].computedAt \in Nat /\ score[s].vcCount \in Nat
    BY <1>2, <2>1 DEF ScoreRecord
  <2>8. lastStateChange'[o][s] # ledger
    BY <1>2, <1>3, <2>1, <2>6, <2>7
  <2>9. /\ lastStateChange'[o][s] = lastStateChange[o][s]
        /\ deactivated'[o][s] = deactivated[o][s]
        /\ active'[o][s] \subseteq active[o][s]
    BY <1>1, <2>5, <2>8, IdentityEffect
  <2>10. Untouched(s)
    BY <2>1, <2>3, <2>4, <2>6, <2>9, CreditAssumption DEF Untouched
  <2>11. ~deactivated[o][s] /\ Cardinality(active[o][s]) <= score[s].vcCount
    BY <1>3, <2>4, <2>10 DEF Covered
  <2>12. Cardinality(active'[o][s]) <= score[s].vcCount
    <3>1. IsFiniteSet(active[o][s])
      BY ActiveFinite
    <3>2. /\ Cardinality(active'[o][s]) <= Cardinality(active[o][s])
          /\ Cardinality(active[o][s]) \in Nat /\ Cardinality(active'[o][s]) \in Nat
      BY <2>9, <3>1, FS_Subset, FS_CardinalityType
    <3>3. QED
      BY <2>7, <2>11, <3>2
  <2>13. QED
    BY <1>1, <2>3, <2>4, <2>9, <2>11, <2>12 DEF Covered
<1>6. QED
  BY <1>1, <1>3, <1>4, <1>5

\* A computation makes the score stand for the oracle configured now, whether
\* it writes or finds that nothing changed.
LEMMA ComputeKeepsCover ==
  ASSUME TypeInv, CoverInv, NEW z \in Subject, ComputeScore(z)
  PROVE  CoverInv'
<1> SUFFICES ASSUME NEW s \in Subject
             PROVE  /\ score'[s] # None => score'[s].computedAt <= ledger'
                    /\ Untouched(s)' => Covered(s)'
  BY DEF CoverInv
<1>1. /\ UNCHANGED <<identity, ledger, settings>>
      /\ CanCompute(z)
      /\ lastCompute' = [lastCompute EXCEPT ![z] = [at |-> ledger, source |-> identityOracleId]]
      /\ \/ score' = [score EXCEPT ![z] = NewScore(z)]
         \/ Unchanged(z) /\ score' = score
  BY DEF ComputeScore
<1>2. /\ lastCompute \in [Subject -> [at : 0..MAX_U32, source : IdOracle \cup {None}]]
      /\ score \in [Subject -> ScoreRecord \cup {None}]
      /\ ledger \in Nat
  BY OracleAssumption DEF TypeInv, ScoreTypes, OracleTypeOK
<1>3. /\ score[s] # None => score[s].computedAt <= ledger
      /\ Untouched(s) => Covered(s)
  BY DEF CoverInv
<1>4. UNCHANGED <<active, deactivated, lastStateChange>>
  BY <1>1 DEF identity
<1>5. CASE s # z
  <2>1. score'[s] = score[s] /\ lastCompute'[s] = lastCompute[s]
    BY <1>1, <1>2, <1>5
  <2>2. QED
    BY <1>1, <1>3, <1>4, <2>1 DEF Untouched, Covered
<1>6. CASE s = z
  <2>1. lastCompute'[s].source = identityOracleId
    BY <1>1, <1>2, <1>6
  <2>2. /\ NewScore(s).computedAt = ledger
        /\ NewScore(s).vcCount = VcInput(s).count
    BY DEF NewScore
  <2>3. /\ score'[s].vcCount = VcInput(s).count
        /\ score'[s] # None => score'[s].computedAt <= ledger
    <3>1. CASE score' = [score EXCEPT ![z] = NewScore(z)]
      BY <1>2, <1>6, <2>2, <3>1
    <3>2. CASE Unchanged(z) /\ score' = score
      <4>1. score[s] # None /\ NewScore(s) = [score[s] EXCEPT !.computedAt = ledger]
        BY <1>6, <3>2 DEF Unchanged
      <4>2. score[s] \in ScoreRecord
        BY <1>2, <4>1
      <4>3. NewScore(s).vcCount = score[s].vcCount
        BY <4>1, <4>2 DEF ScoreRecord
      <4>4. QED
        BY <1>3, <2>2, <3>2, <4>3
    <3>3. QED
      BY <1>1, <3>1, <3>2
  <2>4. ASSUME Untouched(s)' PROVE Covered(s)'
    <3>1. identityOracleId # None
      BY <2>1, <2>4 DEF Untouched
    <3>2. ~deactivated[identityOracleId][s] /\ identityOracleId \in IdOracle
      BY <1>1, <1>6, <3>1 DEF CanCompute, TypeInv, SettingsTypes
    <3>3. VcInput(s).count = Cardinality(active[identityOracleId][s])
      BY <3>1 DEF VcInput, Held
    <3>4. Cardinality(active[identityOracleId][s]) \in Nat
      BY <3>2, ActiveFinite, FS_CardinalityType
    <3>5. Cardinality(active[identityOracleId][s]) <= score'[s].vcCount
      BY <2>3, <3>3, <3>4
    <3>6. QED
      BY <1>4, <2>1, <3>2, <3>5 DEF Covered
  <2>5. QED
    BY <1>1, <2>3, <2>4
<1>7. QED
  BY <1>5, <1>6

\* Every step keeps the invariant.
LEMMA StepCover == TypeInv /\ CoverInv /\ [Next]_vars => CoverInv'
<1> SUFFICES ASSUME TypeInv, CoverInv, [Next]_vars PROVE CoverInv'
  OBVIOUS
<1>1. CASE UNCHANGED <<scores, identity, ledger>>
  BY <1>1 DEF CoverInv, Untouched, Covered, scores, identity
<1>2. CASE CloseLedger
  <2>1. UNCHANGED <<scores, identity>> /\ ledger' = ledger + 1 /\ ledger \in Nat
    BY <1>2, OracleAssumption DEF CloseLedger, Tick, TypeInv, OracleTypeOK
  <2>2. ASSUME NEW s \in Subject, score[s] # None, score[s].computedAt <= ledger
        PROVE  score[s].computedAt <= ledger'
    <3>1. score[s].computedAt \in Nat
      BY <2>2, OracleAssumption DEF TypeInv, ScoreTypes, ScoreRecord
    <3>2. QED
      BY <2>1, <2>2, <3>1
  <2>3. QED
    BY <2>1, <2>2 DEF CoverInv, Untouched, Covered, scores, identity
<1>3. QED
  BY <1>1, <1>2, Frames, ComputeKeepsCover, IdentityKeepsCover

\* get_score: for any number of subjects, credentials, identity oracles and
\* registries, and however often the oracle is pointed from one to another, a
\* score last computed from the oracle that is configured and reported as
\* fresh counts every credential that is active there, unless the identity
\* changed in the ledger of the computation or that oracle was relinked.
THEOREM FreshScoresCover == Spec => []FreshCoversActive
<1>1. CreditInit => CoverInv
  BY DEF CreditInit, CoverInv, Untouched
<1>2. TypeInv /\ CoverInv => FreshCoversActive
  <2> SUFFICES ASSUME TypeInv, CoverInv, NEW s \in Subject, NEW o, o = identityOracleId,
                      score[s] # None, o # None, lastCompute[s].source = o, ~Stale(s),
                      lastStateChange[o][s] # score[s].computedAt
               PROVE  ~deactivated[o][s] /\ Cardinality(active[o][s]) <= score[s].vcCount
    BY DEF FreshCoversActive
  <2>1. score[s].computedAt \in Nat
    BY OracleAssumption DEF TypeInv, ScoreTypes, ScoreRecord
  <2>2. lastStateChange[o][s] \in Nat
    BY DEF TypeInv, SettingsTypes, IdentityTypes, Identity!ViewTypeOK
  <2>3. Untouched(s)
    BY <2>1, <2>2 DEF Stale, Untouched
  <2>4. QED
    BY <2>3 DEF CoverInv, Covered
<1>3. QED
  BY <1>1, <1>2, AlwaysTypeInv, StepCover, PTL DEF Spec

-----------------------------------------------------------------------------
(* The protocol statistics.                                                *)

WithScore == {s \in Subject : score[s] # None}

\* A subject is counted in the step that gives it its first score.
LEMMA ScoredStep == TypeInv /\ SubjectsScoredExact /\ [Next]_vars => SubjectsScoredExact'
<1> SUFFICES ASSUME TypeInv, SubjectsScoredExact, [Next]_vars PROVE SubjectsScoredExact'
  OBVIOUS
<1>0. /\ oracleStats \in [scored : Nat, repayments : Nat]
      /\ score \in [Subject -> ScoreRecord \cup {None}]
  BY DEF TypeInv, ScoreTypes
<1>1. CASE UNCHANGED <<scores, oracleStats>>
  BY <1>1 DEF SubjectsScoredExact, scores
<1>2. ASSUME UNCHANGED scores, NEW l, NEW s \in Subject, NEW amount, NEW b,
             RecordRepayment(l, s, amount, b)
      PROVE  SubjectsScoredExact'
  <2>1. oracleStats'.scored = oracleStats.scored
    BY <1>0, <1>2 DEF RecordRepayment
  <2>2. QED
    BY <1>2, <2>1 DEF SubjectsScoredExact, scores
<1>3. ASSUME NEW s \in Subject, ComputeScore(s) PROVE SubjectsScoredExact'
  <2>1. CASE UNCHANGED <<score, oracleStats>>
    BY <2>1 DEF SubjectsScoredExact
  <2>2. CASE /\ score' = [score EXCEPT ![s] = NewScore(s)]
             /\ oracleStats' = [oracleStats EXCEPT !.scored = Scored(s)]
    <3>1. NewScore(s) # None
      BY <1>3, NewScoreTyped, CreditAssumption DEF ComputeScore, CanCompute
    <3>2. WithScore' = WithScore \cup {s}
      BY <1>0, <2>2, <3>1 DEF WithScore
    <3>3. IsFiniteSet(WithScore)
      BY CreditAssumption, FS_Subset DEF WithScore
    <3>4. Cardinality(WithScore') =
            IF s \in WithScore THEN Cardinality(WithScore) ELSE Cardinality(WithScore) + 1
      BY <3>2, <3>3, FS_AddElement
    <3>5. oracleStats'.scored = Scored(s) /\ oracleStats.scored = Cardinality(WithScore)
      BY <1>0, <2>2 DEF SubjectsScoredExact, WithScore
    <3>6. oracleStats'.scored = Cardinality(WithScore')
      BY <3>4, <3>5 DEF Scored, WithScore
    <3>7. QED
      BY <3>6 DEF SubjectsScoredExact, WithScore
  <2>3. QED
    BY <1>3, <2>1, <2>2 DEF ComputeScore
<1>4. CASE UNCHANGED <<score, oracleStats>>
  BY <1>4 DEF SubjectsScoredExact
<1>5. QED
  BY <1>1, <1>2, <1>3, <1>4, MoreFrames

\* get_protocol_stats: total_subjects_scored is the number of subjects with a
\* score record, for any number of subjects and computations.
THEOREM SubjectsCountedOnce == Spec => []SubjectsScoredExact
<1>1. CreditInit => SubjectsScoredExact
  <2> SUFFICES ASSUME CreditInit PROVE SubjectsScoredExact
    OBVIOUS
  <2>1. {s \in Subject : score[s] # None} = {} /\ oracleStats.scored = 0
    BY DEF CreditInit
  <2>2. QED
    BY <2>1, FS_EmptySet DEF SubjectsScoredExact
<1>2. QED
  BY <1>1, AlwaysTypeInv, ScoredStep, PTL DEF Spec

\* What a subject's counter has counted since the upgrade.
Since == [s \in Subject |-> RepaymentOf(s).total - LegacyTotal(s)]

\* What each subject's counter has counted since the upgrade is an integer.
LEMMA SinceTyped ==
  ASSUME TypeInv
  PROVE  /\ Since \in [Subject -> Int]
         /\ \A s \in Subject : /\ RepaymentOf(s).total \in 0..MAX_COUNT
                               /\ LegacyTotal(s) \in Nat
<1>1. \A s \in Subject : RepaymentOf(s).total \in 0..MAX_COUNT
  BY ReadSound DEF TypeInv, Sound, RepaymentRecord
<1>2. \A s \in Subject : LegacyTotal(s) \in Nat
  BY CreditAssumption DEF LegacyTotal, RepaymentRecord
<1>3. MAX_COUNT \in Nat
  BY CreditAssumption
<1>4. QED
  BY <1>1, <1>2, <1>3 DEF Since

\* Recorded as a sum of one function of the subjects, to which the laws of
\* SumTheorems apply.
LEMMA RecordedIsSum ==
  ASSUME TypeInv
  PROVE  Recorded = SumFunctionOnSet(Since, Subject) /\ Recorded \in Int
<1>1. Recorded = SumFunctionOnSet(Since, Subject)
  BY DEF Recorded, Since, SumFunction
<1>2. SumFunctionOnSet(Since, Subject) \in Int
  BY SinceTyped, SumInt, CreditAssumption
<1>3. QED
  BY <1>1, <1>2

\* migrate copies the counters, and the storage version decides nothing about
\* them.
LEMMA TotalsSame ==
  ASSUME RepaymentsSound, [Next]_vars,
         \/ UNCHANGED repayment
         \/ \E subjects \in SUBSET Subject : Migrate(subjects),
         NEW s \in Subject
  PROVE  /\ RepaymentOf(s)'.total = RepaymentOf(s).total
         /\ RepaymentOf(s)'.onTime = RepaymentOf(s).onTime
         /\ RepaymentOf(s)'.repaid = RepaymentOf(s).repaid
<1>1. CASE UNCHANGED repayment
  BY <1>1 DEF RepaymentOf
<1>2. ASSUME NEW subjects \in SUBSET Subject, Migrate(subjects)
      PROVE  /\ RepaymentOf(s)'.total = RepaymentOf(s).total
             /\ RepaymentOf(s)'.onTime = RepaymentOf(s).onTime
             /\ RepaymentOf(s)'.repaid = RepaymentOf(s).repaid
  <2>1. repayment'[s] = IF s \in subjects /\ repayment[s] # None
                        THEN Migrated(repayment[s]) ELSE repayment[s]
    BY <1>2 DEF Migrate
  <2>2. CASE repayment[s] = None
    BY <2>1, <2>2 DEF RepaymentOf
  <2>3. CASE repayment[s] # None
    <3>1. Sound(repayment[s])
      BY <2>3 DEF RepaymentsSound
    <3>2. Sound(Migrated(repayment[s]))
      BY <3>1, MigratedSound
    <3>3. repayment'[s] # None
      BY <2>1, <2>3, <3>2, CreditAssumption DEF Sound
    <3>4. /\ repayment'[s].total = repayment[s].total
          /\ repayment'[s].onTime = repayment[s].onTime
          /\ repayment'[s].repaid = repayment[s].repaid
      BY <2>1, <3>1 DEF Migrated, Sound, RepaymentRecord
    <3>5. QED
      BY <2>3, <3>3, <3>4 DEF RepaymentOf
  <2>4. QED
    BY <2>2, <2>3
<1>3. QED
  BY <1>1, <1>2

\* record_repayment: what the subject's record is afterwards.
LEMMA RepaymentEffect ==
  ASSUME RepaymentsSound, NEW s \in Subject, NEW l \in Lender, NEW amount \in Amounts,
         NEW b \in BOOLEAN, RecordRepayment(l, s, amount, b)
  PROVE  LET r == RepaymentOf(s) IN
         /\ RepaymentOf(s)'.onTime = AtMost(MAX_COUNT, IF b THEN r.onTime + 1 ELSE r.onTime)
         /\ RepaymentOf(s)'.total = AtMost(MAX_COUNT, r.total + 1)
         /\ RepaymentOf(s)'.repaid = IF r.layout = 1 THEN 0 ELSE r.repaid + amount
         /\ \A z \in Subject \ {s} : RepaymentOf(z)' = RepaymentOf(z)
<1> DEFINE r == RepaymentOf(s)
           n == WithRepayment(r, amount, b)
<1>1. repayment' = [repayment EXCEPT ![s] = n] /\ UNCHANGED storageVersion
  BY DEF RecordRepayment, settings
<1>2. amount \in Int /\ amount > 0
  BY CreditAssumption DEF RecordRepayment
<1>3. Sound(r)
  BY ReadSound
<1>4. Sound(n)
  BY <1>2, <1>3, WithRepaymentSound
<1>5. repayment'[s] = n /\ n # None
  BY <1>1, <1>4, CreditAssumption DEF RepaymentsSound, Sound
<1>6. RepaymentOf(s)' = n
  BY <1>5 DEF RepaymentOf
<1>7. /\ n.onTime = AtMost(MAX_COUNT, IF b THEN r.onTime + 1 ELSE r.onTime)
      /\ n.total = AtMost(MAX_COUNT, r.total + 1)
      /\ n.repaid = IF r.layout = 1 THEN 0 ELSE r.repaid + amount
  BY <1>3 DEF WithRepayment, Sound, RepaymentRecord
<1>8. \A z \in Subject \ {s} : RepaymentOf(z)' = RepaymentOf(z)
  BY <1>1 DEF RepaymentOf, Layout, RepaymentsSound
<1>9. QED
  BY <1>6, <1>7, <1>8

\* A repayment adds one to the statistic and one, or none at saturation, to
\* one counter; a migration changes no counter.
LEMMA CountedStep == TypeInv /\ RepaymentsCounted /\ [Next]_vars => RepaymentsCounted'
<1> SUFFICES ASSUME TypeInv, RepaymentsCounted, [Next]_vars PROVE RepaymentsCounted'
  OBVIOUS
<1>0. TypeInv' /\ RepaymentsSound /\ oracleStats \in [scored : Nat, repayments : Nat]
  BY StepTypeInv DEF TypeInv, ScoreTypes
<1>1. /\ Recorded = SumFunctionOnSet(Since, Subject) /\ Recorded \in Int
      /\ Recorded' = SumFunctionOnSet(Since', Subject)
  <2>1. Recorded' = SumFunctionOnSet(Since', Subject)
    BY DEF Recorded, Since, SumFunction
  <2>2. QED
    BY <2>1, RecordedIsSum
<1> DEFINE Records == \E l \in Lender, s \in Subject, amount \in Amounts, b \in BOOLEAN :
                        RecordRepayment(l, s, amount, b)
<1>2. CASE ~Records
  <2>1. \A s \in Subject : RepaymentOf(s)'.total = RepaymentOf(s).total
    BY <1>0, <1>2, TotalsSame, Frames
  <2>2. Since' = Since
    BY <2>1 DEF Since, LegacyTotal
  <2>3. Recorded' = Recorded
    BY <1>1, <2>2
  <2>4. oracleStats'.repayments = oracleStats.repayments
    <3>1. ASSUME NEW s \in Subject, ComputeScore(s)
          PROVE  oracleStats'.repayments = oracleStats.repayments
      BY <1>0, <3>1 DEF ComputeScore
    <3>2. QED
      BY <1>2, <3>1, MoreFrames
  <2>5. QED
    BY <2>1, <2>3, <2>4 DEF RepaymentsCounted
<1>3. ASSUME NEW l \in Lender, NEW s \in Subject, NEW amount \in Amounts, NEW b \in BOOLEAN,
             RecordRepayment(l, s, amount, b)
      PROVE  RepaymentsCounted'
  <2>1. PICK n \in Nat, m \in Nat :
          /\ n = RepaymentOf(s).total /\ m = RepaymentOf(s)'.total
          /\ n <= MAX_COUNT /\ m = AtMost(MAX_COUNT, n + 1)
    <3>1. RepaymentOf(s).total \in 0..MAX_COUNT /\ MAX_COUNT \in Nat
      BY SinceTyped, CreditAssumption
    <3>2. RepaymentOf(s)'.total = AtMost(MAX_COUNT, RepaymentOf(s).total + 1)
      BY <1>0, <1>3, RepaymentEffect
    <3>3. AtMost(MAX_COUNT, RepaymentOf(s).total + 1) \in Nat
      BY <3>1 DEF AtMost
    <3>4. QED
      BY <3>1, <3>2, <3>3
  <2>2. \A z \in Subject \ {s} : RepaymentOf(z)' = RepaymentOf(z)
    BY <1>0, <1>3, RepaymentEffect
  <2>3. Since \in [Subject -> Int] /\ LegacyTotal(s) \in Nat
    BY SinceTyped
  <2>4. /\ \A z \in Subject \ {s} : Since[z] = Since'[z]
        /\ Since[s] = n - LegacyTotal(s) /\ Since'[s] = m - LegacyTotal(s)
    BY <2>1, <2>2 DEF Since, LegacyTotal
  <2>5. Since' \in [Subject -> Int]
    <3>1. \A z \in Subject : Since'[z] \in Int
      BY <2>1, <2>3, <2>4
    <3>2. QED
      BY <3>1 DEF Since
  <2>6. Recorded' = Recorded - Since[s] + Since'[s]
    <3> DEFINE f == Since
               g == Since'
    <3>1. f \in [Subject -> Int] /\ g \in [Subject -> Int] /\ \A z \in Subject \ {s} : f[z] = g[z]
      BY <2>3, <2>4, <2>5
    <3> HIDE DEF f, g
    <3>2. SumFunctionOnSet(g, Subject) = SumFunctionOnSet(f, Subject) - f[s] + g[s]
      BY <3>1, SumChange, CreditAssumption
    <3>3. QED
      BY <1>1, <3>2 DEF f, g
  <2>7. Recorded' = Recorded + (m - n)
    BY <1>1, <2>1, <2>3, <2>4, <2>6
  <2>8. oracleStats.repayments \in Nat /\ oracleStats'.repayments = oracleStats.repayments + 1
    BY <1>0, <1>3 DEF RecordRepayment
  <2>9. CASE n = MAX_COUNT
    <3>1. m = MAX_COUNT /\ Recorded' = Recorded
      BY <1>1, <2>1, <2>7, <2>9, CreditAssumption DEF AtMost
    <3>2. oracleStats'.repayments > Recorded'
      BY <1>1, <2>8, <3>1 DEF RepaymentsCounted
    <3>3. QED
      BY <2>1, <3>1, <3>2 DEF RepaymentsCounted
  <2>10. CASE n < MAX_COUNT
    <3>1. m = n + 1
      BY <2>1, <2>10, CreditAssumption DEF AtMost
    <3>2. Recorded' = Recorded + 1
      BY <1>1, <2>1, <2>7, <3>1
    <3>3. CASE oracleStats.repayments = Recorded
      BY <2>8, <3>2, <3>3 DEF RepaymentsCounted
    <3>4. CASE /\ oracleStats.repayments > Recorded
               /\ \E z \in Subject : RepaymentOf(z).total = MAX_COUNT
      <4>1. oracleStats'.repayments > Recorded'
        BY <1>1, <2>8, <3>2, <3>4
      <4>2. PICK z \in Subject : RepaymentOf(z).total = MAX_COUNT
        BY <3>4
      <4>3. z # s
        BY <2>1, <2>10, <4>2, CreditAssumption
      <4>4. RepaymentOf(z)'.total = MAX_COUNT
        BY <2>2, <4>2, <4>3
      <4>5. QED
        BY <4>1, <4>4 DEF RepaymentsCounted
    <3>5. QED
      BY <3>3, <3>4 DEF RepaymentsCounted
  <2>11. QED
    BY <2>1, <2>9, <2>10, CreditAssumption
<1>4. QED
  BY <1>2, <1>3

\* get_protocol_stats: total_repayments_recorded is the sum of what the
\* subjects' counters have counted since the upgrade, or ahead of it because a
\* counter is saturated, for any number of subjects, records of either layout
\* and migrations.
THEOREM RepaymentsAreCounted == Spec => []RepaymentsCounted
<1>1. CreditInit => RepaymentsCounted
  <2> SUFFICES ASSUME CreditInit PROVE RepaymentsCounted
    OBVIOUS
  <2>1. repayment = LegacyRepayments /\ oracleStats.repayments = 0
    BY DEF CreditInit
  <2>2. ASSUME NEW s \in Subject PROVE Since[s] = 0
    <3>1. RepaymentOf(s).total = LegacyTotal(s)
      BY <2>1 DEF RepaymentOf, LegacyTotal
    <3>2. LegacyTotal(s) \in Nat
      BY InitTypeInv, SinceTyped
    <3>3. QED
      BY <3>1, <3>2 DEF Since
  <2>3. SumFunctionOnSet(Since, Subject) = 0
    BY <2>2, SumZero, CreditAssumption
  <2>4. QED
    BY <2>1, <2>3, InitTypeInv, RecordedIsSum DEF RepaymentsCounted
<1>2. QED
  BY <1>1, AlwaysTypeInv, CountedStep, PTL DEF Spec

-----------------------------------------------------------------------------
(* How a score moves.                                                      *)

\* compute_score_pure grows with the points of the credentials and with the
\* repayment component.
LEMMA ScoreMonotone ==
  ASSUME NEW p1 \in Nat, NEW p2 \in Nat, p1 <= p2, NEW tx \in TxStats,
         NEW r1, NEW r2, Sound(r1), Sound(r2), RepayScore(r1) <= RepayScore(r2),
         NEW w \in ScoringWeights, IsValid(w)
  PROVE  RawScore(p1, tx, r1, w) <= RawScore(p2, tx, r2, w)
<1>1. PICK a1 \in 0..100, a2 \in 0..100 :
        a1 = AtMost(100, p1) /\ a2 = AtMost(100, p2) /\ a1 <= a2
  BY DEF AtMost
<1>2. PICK t \in 0..100 : t = TxScore(tx)
  BY TxScoreBounded
<1>3. PICK c1 \in 0..100, c2 \in 0..100 : c1 = RepayScore(r1) /\ c2 = RepayScore(r2) /\ c1 <= c2
  BY RepayScoreBounded
<1>4. PICK u \in Nat, v \in Nat, x \in Nat :
        u = w[1] /\ v = w[2] /\ x = w[3] /\ u + v + x = 100
  BY DEF ScoringWeights, IsValid
<1>5. PICK s1 \in Nat, s2 \in Nat :
        /\ s1 = a1 * u + t * v + c1 * x
        /\ s2 = a2 * u + t * v + c2 * x
        /\ s1 <= s2
  <2>1. a1 * u <= a2 * u /\ c1 * x <= c2 * x
    BY <1>1, <1>3, <1>4, ProductMonotone
  <2>2. a1 * u \in Nat /\ a2 * u \in Nat /\ c1 * x \in Nat /\ c2 * x \in Nat /\ t * v \in Nat
    BY <1>1, <1>3, <1>4
  <2>3. PICK k1 \in Nat, k2 \in Nat, k3 \in Nat, k4 \in Nat, k5 \in Nat :
          /\ k1 = a1 * u /\ k2 = a2 * u /\ k3 = c1 * x /\ k4 = c2 * x /\ k5 = t * v
          /\ k1 <= k2 /\ k3 <= k4
    BY <2>1, <2>2
  <2>4. PICK n1 \in Nat, n2 \in Nat : n1 = k1 + k5 + k3 /\ n2 = k2 + k5 + k4 /\ n1 <= n2
    <3>1. k1 <= k2 /\ k3 <= k4
      BY <2>3
    <3>2. k1 + k5 + k3 \in Nat /\ k2 + k5 + k4 \in Nat /\ k1 + k5 + k3 <= k2 + k5 + k4
      BY <3>1
    <3>3. QED
      BY <3>2
  <2>5. n1 = a1 * u + t * v + c1 * x /\ n2 = a2 * u + t * v + c2 * x
    BY <2>3, <2>4
  <2>6. QED
    BY <2>4, <2>5
<1>6. s1 \div 100 \in Nat /\ s2 \div 100 \in Nat /\ s1 \div 100 <= s2 \div 100
  BY <1>5, QuotientMonotone
<1>7. PICK q1 \in Nat, q2 \in Nat : q1 = s1 \div 100 /\ q2 = s2 \div 100 /\ q1 <= q2
  BY <1>6
<1>8. (q1 * 550) \div 100 <= (q2 * 550) \div 100
  BY <1>7, QuotientMonotone
<1>9. (q1 * 550) \div 100 \in Int /\ (q2 * 550) \div 100 \in Int
  BY <1>7
<1>10. /\ RawScore(p1, tx, r1, w) = 300 + (q1 * 550) \div 100
       /\ RawScore(p2, tx, r2, w) = 300 + (q2 * 550) \div 100
  BY <1>1, <1>2, <1>3, <1>4, <1>5, <1>7 DEF RawScore, MIN_SCORE
<1>11. QED
  BY <1>8, <1>9, <1>10

\* What the invariant says of the score a subject would get.
PotentialFacts ==
  config # None =>
    /\ config \in ScoringWeights /\ IsValid(config)
    /\ \A s \in Subject :
         /\ Potential(s) = RawScore(VcInput(s).points, TxInput(s), RepaymentOf(s), config)
         /\ VcInput(s).points \in Nat
         /\ TxInput(s) \in TxStats
         /\ Sound(RepaymentOf(s))

\* What the score formula is applied to, in every reachable state.
LEMMA PotentialKnown == TypeInv => PotentialFacts
<1> SUFFICES ASSUME TypeInv, config # None
             PROVE  /\ config \in ScoringWeights /\ IsValid(config)
                    /\ \A s \in Subject :
                         /\ Potential(s) =
                              RawScore(VcInput(s).points, TxInput(s), RepaymentOf(s), config)
                         /\ VcInput(s).points \in Nat
                         /\ TxInput(s) \in TxStats
                         /\ Sound(RepaymentOf(s))
  BY DEF PotentialFacts
<1>1. config \in ScoringWeights /\ IsValid(config) /\ RepaymentsSound
  BY DEF TypeInv, InputsTyped
<1>2. QED
  BY <1>1, PotentialIsRaw, PointsTyped, InRangeNow, ReadSound DEF Potential

\* Only the close of a ledger moves the time, and it moves nothing else.
LEMMA LaterIsClose ==
  ASSUME TypeInv, [Next]_vars, ledger' > ledger
  PROVE  /\ ledger \in Nat /\ ledger' \in Nat
         /\ UNCHANGED <<oracleVars, settings, feeds, repayment, identity>>
<1>1. ledger \in Nat
  BY OracleAssumption DEF TypeInv, OracleTypeOK
<1>2. CloseLedger /\ ledger' = ledger + 1
  BY <1>1, MoreFrames
<1>3. QED
  BY <1>1, <1>2 DEF CloseLedger, Tick

\* The credentials are worth no more in a later ledger.
LEMMA PointsOnlyDecay ==
  ASSUME TypeInv, [Next]_vars, ledger' > ledger, NEW s \in Subject
  PROVE  VcInput(s).points' <= VcInput(s).points
<1>1. /\ ledger \in Nat /\ ledger' \in Nat
      /\ UNCHANGED <<oracleVars, settings, feeds, repayment, identity>>
  BY LaterIsClose
<1>2. SettingsTypes /\ IdentityTypes /\ VcInput(s).points \in Nat
  BY PointsTyped DEF TypeInv
<1>3. CASE identityOracleId # None
  <2>1. Held(s) \in SUBSET Identity!Credential
    BY <1>2, <1>3, HeldTyped
  <2>2. IsFiniteSet(Held(s))
    BY <1>2, <1>3, HeldTyped
  <2> DEFINE f == [c \in Held(s) |-> PointsAt(s, c, ledger)]
             g == [c \in Held(s) |-> PointsAt(s, c, ledger')]
  <2>3. VcInput(s).points = SumFunctionOnSet(f, Held(s))
    BY <1>3 DEF VcInput, CredentialPoints, PointsAt, SumFunction
  <2>4. VcInput(s).points' = SumFunctionOnSet(g, Held(s))
    BY <1>1, <1>3 DEF VcInput, CredentialPoints, PointsAt, SumFunction, Held, settings, identity
  <2>5. \A c \in Held(s) : f[c] \in Int /\ g[c] \in Int /\ g[c] <= f[c]
    BY <1>1, <1>2, <1>3, <2>1, PointsDecrease
  <2> HIDE DEF f, g
  <2>6. SumFunctionOnSet(g, Held(s)) <= SumFunctionOnSet(f, Held(s))
    BY <2>2, <2>5, SumMonotone
  <2>7. QED
    BY <2>3, <2>4, <2>6
<1>4. CASE identityOracleId = None
  <2>1. VcInput(s).points' = VcInput(s).points
    BY <1>1, <1>4 DEF VcInput, EntryPoints, settings, feeds
  <2>2. QED
    BY <1>2, <2>1
<1>5. QED
  BY <1>3, <1>4

\* recency_multiplier_bps and compute_score: a score that is computed later,
\* with nothing else changed, is never higher, for any number of credentials,
\* any decay and any floor.
THEOREM AgeNeverRaises == Spec => AgeNeverHelps
<1>1. ASSUME TypeInv, PotentialFacts, PotentialFacts', [Next]_vars,
             config # None, ledger' > ledger, NEW s \in Subject
      PROVE  Potential(s)' <= Potential(s)
  <2>1. UNCHANGED <<oracleVars, settings, feeds, repayment, identity>>
    BY <1>1, LaterIsClose
  <2>2. config' = config /\ TxInput(s)' = TxInput(s) /\ RepaymentOf(s)' = RepaymentOf(s)
    BY <2>1 DEF oracleVars, oracleWeights, TxInput, feeds, RepaymentOf, Layout, settings
  <2>3. VcInput(s).points' <= VcInput(s).points
    BY <1>1, PointsOnlyDecay
  <2> DEFINE p1 == VcInput(s).points'
             p2 == VcInput(s).points
             tx == TxInput(s)
             r == RepaymentOf(s)
  <2>4. /\ config \in ScoringWeights /\ IsValid(config)
        /\ Potential(s) = RawScore(p2, tx, r, config) /\ p2 \in Nat
        /\ tx \in TxStats /\ Sound(r)
    BY <1>1 DEF PotentialFacts
  <2>5. Potential(s)' = RawScore(p1, tx, r, config) /\ p1 \in Nat
    BY <1>1, <2>2 DEF PotentialFacts
  <2>6. RepayScore(r) <= RepayScore(r)
    BY <2>4, RepayScoreBounded
  <2>7. p1 <= p2
    BY <2>3
  <2> HIDE DEF p1, p2, tx, r
  <2>8. QED
    BY <2>4, <2>5, <2>6, <2>7, ScoreMonotone
<1>2. TypeInv /\ PotentialFacts /\ PotentialFacts' /\ [Next]_vars =>
        [config # None /\ ledger' > ledger =>
           \A s \in Subject : Potential(s)' <= Potential(s)]_vars
  BY <1>1
<1>3. QED
  BY <1>2, AlwaysTypeInv, PotentialKnown, PTL DEF Spec, AgeNeverHelps

\* Weights are there only after initialize, which therefore never runs again.
WeightsOwned == config # None \/ pendingWeights # None => oracleAdmin # None

\* Weights are set and queued only when there is an admin, who never vanishes.
LEMMA WeightsOwnedStep == WeightsOwned /\ [Next]_vars => WeightsOwned'
<1> SUFFICES ASSUME WeightsOwned, [Next]_vars PROVE WeightsOwned'
  OBVIOUS
<1> USE DEF WeightsOwned
<1>1. CASE UNCHANGED oracleVars
  BY <1>1 DEF oracleVars, oracleRole, oracleWeights
<1>2. ASSUME NEW a \in Account, OracleInitialize(a) PROVE WeightsOwned'
  BY <1>2, OracleAssumption DEF OracleInitialize
<1>3. ASSUME NEW p, OracleSetPaused(p) PROVE WeightsOwned'
  BY <1>3 DEF OracleSetPaused, oracleRole, oracleWeights
<1>4. ASSUME NEW a \in Account, NEW w, ProposeWeights(a, w) PROVE WeightsOwned'
  BY <1>4, OracleAssumption DEF ProposeWeights, oracleRole
<1>5. ASSUME OracleApplyWeights PROVE WeightsOwned'
  BY <1>5 DEF OracleApplyWeights, oracleRole
<1>6. QED
  BY <1>1, <1>2, <1>3, <1>4, <1>5, MoreFrames DEF WeightsNext

\* An oracle with weights has an admin in every execution.
LEMMA AlwaysWeightsOwned == Spec => []WeightsOwned
<1>1. CreditInit => WeightsOwned
  BY DEF CreditInit, WeightsOwned
<1>2. QED
  BY <1>1, WeightsOwnedStep, PTL DEF Spec

\* The score reads three fields of the repayment record.
LEMMA SameFieldsSameScore ==
  ASSUME NEW points, NEW tx, NEW w, NEW r1, NEW r2,
         r1.onTime = r2.onTime, r1.total = r2.total, r1.repaid = r2.repaid
  PROVE  ComputeScorePure(points, tx, r1, w) = ComputeScorePure(points, tx, r2, w)
  BY DEF ComputeScorePure, RawScore, RepayScore

\* migrate leaves the inputs of a score alone.
LEMMA MigrationKeepsScore ==
  ASSUME RepaymentsSound, [Next]_vars, NEW subjects \in SUBSET Subject, Migrate(subjects),
         NEW s \in Subject
  PROVE  Potential(s)' = Potential(s)
<1>1. /\ RepaymentOf(s)'.total = RepaymentOf(s).total
      /\ RepaymentOf(s)'.onTime = RepaymentOf(s).onTime
      /\ RepaymentOf(s)'.repaid = RepaymentOf(s).repaid
  BY TotalsSame
<1>2. UNCHANGED <<config, ledger, identityOracleId, vcWeight, recency, feeds, identity>>
  BY DEF Migrate, oracleVars, oracleWeights
<1>3. VcInput(s)' = VcInput(s)
  BY <1>2 DEF VcInput, CredentialPoints, EntryPoints, Held, feeds, identity
<1>4. TxInput(s)' = TxInput(s)
  BY <1>2 DEF TxInput, feeds
<1>5. Potential(s)' = ComputeScorePure(VcInput(s).points, TxInput(s), RepaymentOf(s)', config)
  BY <1>2, <1>3, <1>4 DEF Potential, NewScore
<1>6. Potential(s) = ComputeScorePure(VcInput(s).points, TxInput(s), RepaymentOf(s), config)
  BY DEF Potential, NewScore
<1>7. QED
  BY <1>1, <1>5, <1>6, SameFieldsSameScore

\* No step loses a repayment.
LEMMA CountersGrow ==
  ASSUME RepaymentsSound, [Next]_vars, NEW s \in Subject, repayment[s] # None
  PROVE  /\ repayment'[s] # None
         /\ repayment'[s].total >= repayment[s].total
         /\ repayment'[s].onTime >= repayment[s].onTime
<1>0. PICK n \in Nat, m \in Nat :
        n = repayment[s].total /\ m = repayment[s].onTime /\ n <= MAX_COUNT /\ m <= MAX_COUNT
  <2>1. repayment[s].total \in 0..MAX_COUNT /\ repayment[s].onTime \in 0..MAX_COUNT
    BY DEF RepaymentsSound, Sound, RepaymentRecord
  <2>2. QED
    BY <2>1, CreditAssumption
<1>1. RepaymentOf(s) = repayment[s] /\ Sound(repayment[s])
  BY DEF RepaymentOf, RepaymentsSound
<1>2. CASE UNCHANGED repayment
  BY <1>0, <1>2
<1>3. ASSUME NEW l \in Lender, NEW z \in Subject, NEW amount \in Amounts, NEW b \in BOOLEAN,
             RecordRepayment(l, z, amount, b)
      PROVE  /\ repayment'[s] # None
             /\ repayment'[s].total >= repayment[s].total
             /\ repayment'[s].onTime >= repayment[s].onTime
  <2>1. repayment' = [repayment EXCEPT ![z] = WithRepayment(RepaymentOf(z), amount, b)]
    BY <1>3 DEF RecordRepayment
  <2>2. CASE z # s
    BY <1>0, <2>1, <2>2 DEF RepaymentsSound
  <2>3. CASE z = s
    <3>1. amount \in Int /\ amount > 0
      BY <1>3, CreditAssumption DEF RecordRepayment
    <3>2. Sound(WithRepayment(repayment[s], amount, b))
      BY <1>1, <3>1, WithRepaymentSound
    <3>3. repayment'[s] = WithRepayment(repayment[s], amount, b)
      BY <1>1, <2>1, <2>3 DEF RepaymentsSound
    <3>4. repayment'[s] # None /\ RepaymentOf(s)' = repayment'[s]
      BY <3>2, <3>3, CreditAssumption DEF Sound, RepaymentOf
    <3>5. /\ RepaymentOf(s)'.onTime = AtMost(MAX_COUNT, IF b THEN m + 1 ELSE m)
          /\ RepaymentOf(s)'.total = AtMost(MAX_COUNT, n + 1)
      BY <1>0, <1>1, <1>3, <2>3, RepaymentEffect
    <3>6. AtMost(MAX_COUNT, IF b THEN m + 1 ELSE m) >= m /\ AtMost(MAX_COUNT, n + 1) >= n
      BY <1>0, CreditAssumption DEF AtMost
    <3>7. QED
      BY <1>0, <3>4, <3>5, <3>6
  <2>4. QED
    BY <2>2, <2>3
<1>4. ASSUME NEW subjects \in SUBSET Subject, Migrate(subjects)
      PROVE  /\ repayment'[s] # None
             /\ repayment'[s].total >= repayment[s].total
             /\ repayment'[s].onTime >= repayment[s].onTime
  <2>1. repayment'[s] = IF s \in subjects THEN Migrated(repayment[s]) ELSE repayment[s]
    BY <1>4 DEF Migrate
  <2>2. Sound(Migrated(repayment[s]))
    BY <1>1, MigratedSound
  <2>3. repayment'[s] # None /\ RepaymentOf(s)' = repayment'[s]
    BY <2>1, <2>2, CreditAssumption DEF Sound, RepaymentOf
  <2>4. RepaymentOf(s)'.total = n /\ RepaymentOf(s)'.onTime = m
    BY <1>0, <1>1, <1>4, TotalsSame
  <2>5. QED
    BY <1>0, <2>3, <2>4
<1>5. QED
  BY <1>2, <1>3, <1>4, Frames

\* migrate and record_repayment lose no repayment, and the change of the
\* storage version changes no subject's score, for any number of subjects and
\* old records and whatever subset of them is migrated.
THEOREM HistoryIsKept == Spec => RepaymentHistoryKept
<1>1. ASSUME TypeInv, WeightsOwned, [Next]_vars, config # None, storageVersion' # storageVersion,
             NEW s \in Subject
      PROVE  Potential(s)' = Potential(s)
  <2>1. ASSUME NEW a \in Account, Initialize(a) PROVE FALSE
    BY <1>1, <2>1 DEF Initialize, OracleInitialize, WeightsOwned
  <2>2. ASSUME SettingsNext PROVE storageVersion' = storageVersion
    BY <2>2 DEF SettingsNext, SetComputeCooldownLedgers, SetIdentityOracle, SetVcTypeWeight,
                SetRecencyDecay
  <2>3. \E subjects \in SUBSET Subject : Migrate(subjects)
    BY <1>1, <2>1, <2>2, MoreFrames DEF settings
  <2>4. QED
    BY <1>1, <2>3, MigrationKeepsScore DEF TypeInv
<1>2. TypeInv /\ WeightsOwned /\ [Next]_vars =>
        [/\ \A s \in Subject : repayment[s] # None =>
              /\ repayment'[s] # None
              /\ repayment'[s].total >= repayment[s].total
              /\ repayment'[s].onTime >= repayment[s].onTime
         /\ config # None /\ storageVersion' # storageVersion =>
              \A s \in Subject : Readable(s) /\ Readable(s)' => Potential(s)' = Potential(s)]_vars
  BY <1>1, CountersGrow DEF TypeInv
<1>3. QED
  BY <1>2, AlwaysTypeInv, AlwaysWeightsOwned, PTL DEF Spec, RepaymentHistoryKept

\* The largest multiple of a divisor that fits.
LEMMA QuotientLeast ==
  ASSUME NEW q \in Int, NEW x \in Int, NEW d \in Nat \ {0}, d * q <= x
  PROVE  q <= x \div d
<1> DEFINE p == x \div d
<1>1. p \in Int /\ x < d * p + d
  BY Quotient
<1> HIDE DEF p
<1>2. ASSUME q > p PROVE FALSE
  <2>1. PICK k \in Nat : q = p + 1 + k
    BY <1>1, <1>2, q - p - 1 \in Nat, q = p + 1 + (q - p - 1)
  <2>2. d * q = d * p + d + d * k
    BY <1>1, <2>1
  <2>3. d * k >= 0 /\ d * q \in Int /\ d * p \in Int
    BY <1>1
  <2>4. QED
    BY <1>1, <2>2, <2>3
<1>3. QED
  BY <1>1, <1>2 DEF p

\* One more repayment on time does not lower the share of repayments on time,
\* also when the counter of all repayments is saturated.
LEMMA RateGrows ==
  ASSUME NEW m \in Nat, NEW n \in Nat, m <= n, NEW k \in {n, n + 1}, m + 1 <= k
  PROVE  RepaymentRate(m, n) <= RepaymentRate(m + 1, k)
<1>1. /\ RepaymentRate(m, n) \in 0..BPS_DENOMINATOR
      /\ RepaymentRate(m + 1, k) \in 0..BPS_DENOMINATOR
  BY ShareBounded
<1>2. CASE n = 0
  <2>1. RepaymentRate(m, n) = 0
    BY <1>2 DEF RepaymentRate
  <2>2. 0..BPS_DENOMINATOR \subseteq Nat
    BY DEF BPS_DENOMINATOR
  <2>3. QED
    BY <1>1, <2>1, <2>2
<1>3. CASE n # 0
  <2> DEFINE q == (m * 10000) \div n
  <2>1. q \in Int /\ n * q <= m * 10000
    BY <1>3, Quotient
  <2>2. RepaymentRate(m, n) = q
    BY <1>3 DEF RepaymentRate
  <2>3. q <= 10000 /\ q >= 0
    <3>1. \A x \in 0..BPS_DENOMINATOR : x <= 10000 /\ x >= 0
      BY DEF BPS_DENOMINATOR
    <3>2. QED
      BY <1>1, <2>2, <3>1
  <2> HIDE DEF q
  <2>4. k * q <= (m + 1) * 10000
    <3>1. CASE k = n
      BY <2>1, <3>1
    <3>2. CASE k = n + 1
      <4>1. k * q = n * q + q
        BY <2>1, <3>2
      <4>2. n * q \in Int
        BY <2>1
      <4>3. QED
        BY <2>1, <2>3, <4>1, <4>2
    <3>3. QED
      BY <3>1, <3>2
  <2>5. k \in Nat \ {0} /\ (m + 1) * 10000 \in Int
    OBVIOUS
  <2>6. q <= ((m + 1) * 10000) \div k
    BY <2>1, <2>4, <2>5, QuotientLeast
  <2>7. RepaymentRate(m + 1, k) = ((m + 1) * 10000) \div k
    BY <2>5 DEF RepaymentRate
  <2>8. QED
    BY <2>2, <2>6, <2>7
<1>4. QED
  BY <1>2, <1>3

\* A larger volume is never worth less.
LEMMA VolumePointsGrow ==
  ASSUME NEW a \in Int, NEW b \in Int, a <= b
  PROVE  VolumePoints(a, 100) <= VolumePoints(b, 100)
<1>1. PICK x \in Int, y \in Int : x = a \div VOLUME_UNIT /\ y = b \div VOLUME_UNIT /\ x <= y
  <2>1. a \div VOLUME_UNIT \in Int /\ b \div VOLUME_UNIT \in Int
    BY Quotient, UnitAssumption
  <2>2. a \div VOLUME_UNIT <= b \div VOLUME_UNIT
    BY QuotientMonotone, UnitAssumption
  <2>3. QED
    BY <2>1, <2>2
<1>2. QED
  BY <1>1 DEF VolumePoints, AtMost, AtLeast

\* The repayment component grows with the rate and with what was repaid.
LEMMA RepayScoreGrows ==
  ASSUME NEW r1, NEW r2, Sound(r1), Sound(r2), r1.repaid <= r2.repaid,
         RepaymentRate(r1.onTime, r1.total) <= RepaymentRate(r2.onTime, r2.total)
  PROVE  RepayScore(r1) <= RepayScore(r2)
<1>1. PICK x1 \in Nat, x2 \in Nat :
        /\ x1 = RepaymentRate(r1.onTime, r1.total)
        /\ x2 = RepaymentRate(r2.onTime, r2.total)
        /\ x1 <= x2
  <2>1. 0..BPS_DENOMINATOR \subseteq Nat
    BY DEF BPS_DENOMINATOR
  <2>2. QED
    BY <2>1, RateBounded
<1>2. PICK v1 \in Int, v2 \in Int :
        v1 = VolumePoints(r1.repaid, 100) /\ v2 = VolumePoints(r2.repaid, 100) /\ v1 <= v2
  <2>1. r1.repaid \in Int /\ r2.repaid \in Int
    BY DEF Sound, RepaymentRecord
  <2>2. VolumePoints(r1.repaid, 100) \in 0..100 /\ VolumePoints(r2.repaid, 100) \in 0..100
    BY <2>1, VolumePointsBounded
  <2>3. VolumePoints(r1.repaid, 100) <= VolumePoints(r2.repaid, 100)
    BY <2>1, VolumePointsGrow
  <2>4. QED
    BY <2>2, <2>3
<1>3. PICK h1 \in Int, h2 \in Int : h1 = x1 \div 100 /\ h2 = x2 \div 100 /\ h1 <= h2
  BY <1>1, QuotientMonotone
<1>4. (h1 + v1) \div 2 <= (h2 + v2) \div 2
  <2>1. h1 + v1 <= h2 + v2
    BY <1>2, <1>3
  <2>2. QED
    BY <2>1, QuotientMonotone
<1>5. RepayScore(r1) = (h1 + v1) \div 2 /\ RepayScore(r2) = (h2 + v2) \div 2
  BY <1>1, <1>2, <1>3 DEF RepayScore
<1>6. QED
  BY <1>4, <1>5

\* The old layout has no room for the amount.
OldUnpaid == \A s \in Subject : repayment[s] # None /\ repayment[s].layout = 1 => repayment[s].repaid = 0

\* A record in the old layout gets no repaid amount without being rewritten.
LEMMA OldUnpaidStep == RepaymentsSound /\ OldUnpaid /\ [Next]_vars => OldUnpaid'
<1> SUFFICES ASSUME RepaymentsSound, OldUnpaid, [Next]_vars,
                    NEW s \in Subject, repayment'[s] # None, repayment'[s].layout = 1
             PROVE  repayment'[s].repaid = 0
  BY DEF OldUnpaid
<1>1. CASE UNCHANGED repayment
  BY <1>1 DEF OldUnpaid
<1>2. ASSUME NEW l \in Lender, NEW z \in Subject, NEW amount \in Amounts, NEW b \in BOOLEAN,
             RecordRepayment(l, z, amount, b)
      PROVE  repayment'[s].repaid = 0
  <2>1. repayment' = [repayment EXCEPT ![z] = WithRepayment(RepaymentOf(z), amount, b)]
    BY <1>2 DEF RecordRepayment
  <2>2. CASE z # s
    BY <2>1, <2>2 DEF OldUnpaid, RepaymentsSound
  <2>3. CASE z = s
    <3>1. Sound(RepaymentOf(s))
      BY ReadSound
    <3>2. repayment'[s] = WithRepayment(RepaymentOf(s), amount, b)
      BY <2>1, <2>3 DEF RepaymentsSound
    <3>3. /\ WithRepayment(RepaymentOf(s), amount, b).layout = RepaymentOf(s).layout
          /\ RepaymentOf(s).layout = 1 => WithRepayment(RepaymentOf(s), amount, b).repaid = 0
      BY <3>1 DEF WithRepayment, Sound, RepaymentRecord
    <3>4. QED
      BY <3>2, <3>3
  <2>4. QED
    BY <2>2, <2>3
<1>3. ASSUME NEW subjects \in SUBSET Subject, Migrate(subjects)
      PROVE  repayment'[s].repaid = 0
  <2>1. repayment'[s] = IF s \in subjects /\ repayment[s] # None
                        THEN Migrated(repayment[s]) ELSE repayment[s]
    BY <1>3 DEF Migrate
  <2>2. CASE s \in subjects /\ repayment[s] # None
    <3>1. Sound(repayment[s])
      BY <2>2 DEF RepaymentsSound
    <3>2. Migrated(repayment[s]).layout = 2
      BY <3>1 DEF Migrated, Sound, RepaymentRecord
    <3>3. QED
      BY <2>1, <2>2, <3>2
  <2>3. CASE ~(s \in subjects /\ repayment[s] # None)
    BY <2>1, <2>3 DEF OldUnpaid
  <2>4. QED
    BY <2>2, <2>3
<1>4. QED
  BY <1>1, <1>2, <1>3, Frames

\* Records in the old layout have no repaid amount in any execution.
LEMMA AlwaysOldUnpaid == Spec => [](RepaymentsSound /\ OldUnpaid)
<1>1. CreditInit => OldUnpaid
  BY CreditAssumption DEF CreditInit, OldUnpaid
<1>2. QED
  BY <1>1, OldUnpaidStep, InitRepaymentsSound, StepRepaymentsSound, PTL DEF Spec

\* Only record_repayment of a repayment on time raises the counter.
LEMMA OnTimeRecorded ==
  ASSUME RepaymentsSound, [Next]_vars, NEW s \in Subject,
         RepaymentOf(s)'.onTime > RepaymentOf(s).onTime
  PROVE  \E l \in Lender, amount \in Amounts : RecordRepayment(l, s, amount, TRUE)
<1>0. RepaymentOf(s).onTime \in 0..MAX_COUNT /\ MAX_COUNT \in Nat
  BY ReadSound, CreditAssumption DEF Sound, RepaymentRecord
<1>1. ~UNCHANGED repayment /\ ~\E subjects \in SUBSET Subject : Migrate(subjects)
  BY <1>0, TotalsSame
<1>2. PICK l \in Lender, z \in Subject, amount \in Amounts, b \in BOOLEAN :
        RecordRepayment(l, z, amount, b)
  BY <1>1, Frames
<1>3. z = s
  <2>1. z # s => RepaymentOf(s)' = RepaymentOf(s)
    BY <1>2, RepaymentEffect
  <2>2. QED
    BY <1>0, <2>1
<1>4. b = TRUE
  <2>1. b = FALSE => RepaymentOf(s)'.onTime = AtMost(MAX_COUNT, RepaymentOf(s).onTime)
    BY <1>2, <1>3, RepaymentEffect
  <2>2. AtMost(MAX_COUNT, RepaymentOf(s).onTime) <= RepaymentOf(s).onTime
    BY <1>0 DEF AtMost
  <2>3. AtMost(MAX_COUNT, RepaymentOf(s).onTime) \in Int
    BY <1>0 DEF AtMost
  <2>4. b # FALSE
    <3>1. SUFFICES ASSUME b = FALSE PROVE FALSE
      OBVIOUS
    <3>2. PICK i \in Int, j \in Int : i = RepaymentOf(s)'.onTime /\ j = RepaymentOf(s).onTime /\ i <= j
      BY <1>0, <2>1, <2>2, <2>3, <3>1
    <3>3. i > j
      BY <3>2
    <3>4. QED
      BY <3>2, <3>3
  <2>5. QED
    BY <2>4
<1>5. QED
  BY <1>2, <1>3, <1>4

\* record_repayment: the repayment component does not fall.
LEMMA OnTimeRaisesComponent ==
  ASSUME RepaymentsSound, OldUnpaid, RepaymentsSound', NEW s \in Subject,
         NEW l \in Lender, NEW amount \in Amounts, RecordRepayment(l, s, amount, TRUE),
         RepaymentOf(s)'.onTime > RepaymentOf(s).onTime, Sound(RepaymentOf(s)')
  PROVE  RepayScore(RepaymentOf(s)) <= RepayScore(RepaymentOf(s)')
<1> DEFINE r == RepaymentOf(s)
           x == RepaymentOf(s)'
<1>1. Sound(r)
  BY ReadSound
<1>2. PICK m \in Nat, n \in Nat, v \in Nat :
        m = r.onTime /\ n = r.total /\ v = r.repaid /\ m <= n /\ n <= MAX_COUNT
  BY <1>1, CreditAssumption DEF Sound, RepaymentRecord
<1>3. /\ x.onTime = AtMost(MAX_COUNT, m + 1) /\ x.total = AtMost(MAX_COUNT, n + 1)
      /\ x.repaid = IF r.layout = 1 THEN 0 ELSE v + amount
  BY <1>2, RepaymentEffect
<1>4. MAX_COUNT \in Nat /\ amount \in Int /\ amount > 0
  BY CreditAssumption DEF RecordRepayment
<1>5. x.onTime = m + 1
  BY <1>2, <1>3, <1>4 DEF AtMost
<1>6. PICK k \in {n, n + 1} : k = x.total /\ m + 1 <= k
  <2>1. AtMost(MAX_COUNT, n + 1) \in {n, n + 1}
    BY <1>2, <1>4 DEF AtMost
  <2>2. x.onTime <= x.total
    BY DEF Sound
  <2>3. QED
    BY <1>3, <1>5, <2>1, <2>2
<1>7. RepaymentRate(m, n) <= RepaymentRate(m + 1, k)
  BY <1>2, <1>6, RateGrows
<1>8. r.layout = 1 => v = 0
  BY <1>2 DEF RepaymentOf, OldUnpaid
<1>9. r.repaid <= x.repaid
  BY <1>2, <1>3, <1>4, <1>8
<1>10. RepaymentRate(r.onTime, r.total) <= RepaymentRate(x.onTime, x.total)
  BY <1>2, <1>5, <1>6, <1>7
<1> HIDE DEF r, x
<1>11. Sound(x)
  BY DEF x
<1>12. RepayScore(r) <= RepayScore(x)
  BY <1>1, <1>9, <1>10, <1>11, RepayScoreGrows
<1>13. QED
  BY <1>12 DEF r, x

\* record_repayment: a repayment on time never lowers the score a subject
\* would get, in either layout, with counters of any size and at saturation.
THEOREM OnTimeNeverLowers == Spec => OnTimeNeverHurts
<1>1. ASSUME PotentialFacts, PotentialFacts', RepaymentsSound, RepaymentsSound', OldUnpaid,
             [Next]_vars, config # None, NEW s \in Subject,
             RepaymentOf(s)'.onTime > RepaymentOf(s).onTime
      PROVE  Potential(s)' >= Potential(s)
  <2>1. PICK l \in Lender, amount \in Amounts : RecordRepayment(l, s, amount, TRUE)
    BY <1>1, OnTimeRecorded
  <2>2. UNCHANGED <<config, ledger, settings, feeds, identity>>
    BY <2>1 DEF RecordRepayment, oracleVars, oracleWeights
  <2>3. VcInput(s)' = VcInput(s)
    BY <2>2 DEF VcInput, Held, CredentialPoints, EntryPoints, settings, feeds, identity
  <2>4. TxInput(s)' = TxInput(s)
    BY <2>2 DEF TxInput, feeds
  <2> DEFINE p == VcInput(s).points
             tx == TxInput(s)
             r == RepaymentOf(s)
             x == RepaymentOf(s)'
  <2>5. /\ config \in ScoringWeights /\ IsValid(config)
        /\ Potential(s) = RawScore(p, tx, r, config) /\ p \in Nat
        /\ tx \in TxStats /\ Sound(r)
    BY <1>1 DEF PotentialFacts
  <2>6. Potential(s)' = RawScore(p, tx, x, config) /\ Sound(x)
    BY <1>1, <2>2, <2>3, <2>4 DEF PotentialFacts
  <2>7. RepayScore(r) <= RepayScore(x)
    BY <1>1, <2>1, <2>6, OnTimeRaisesComponent
  <2>8. RawScore(p, tx, r, config) \in MIN_SCORE..MAX_SCORE
    BY <2>5, ScoreInRange
  <2>9. RawScore(p, tx, x, config) \in MIN_SCORE..MAX_SCORE
    BY <2>5, <2>6, ScoreInRange
  <2>10. RawScore(p, tx, r, config) <= RawScore(p, tx, x, config)
    <3>1. p <= p
      BY <2>5
    <3> HIDE DEF p, tx, r, x
    <3>2. QED
      BY <2>5, <2>6, <2>7, <3>1, ScoreMonotone
  <2> HIDE DEF p, tx, r, x
  <2>11. QED
    BY <2>5, <2>6, <2>8, <2>9, <2>10 DEF MIN_SCORE, MAX_SCORE
<1>2. /\ PotentialFacts /\ PotentialFacts' /\ RepaymentsSound /\ RepaymentsSound' /\ OldUnpaid
      /\ [Next]_vars
      => [config # None => \A s \in Subject :
            RepaymentOf(s)'.onTime > RepaymentOf(s).onTime => Potential(s)' >= Potential(s)]_vars
  BY <1>1
<1>3. QED
  BY <1>2, AlwaysTypeInv, AlwaysOldUnpaid, PotentialKnown, PTL DEF Spec, OnTimeNeverHurts

=============================================================================
