----------------------------- MODULE ScoreMath -----------------------------
(***************************************************************************)
(* The arithmetic of contracts/credit-oracle: recency decay and the score  *)
(* as a function of its inputs.  The code's saturating operations clamp    *)
(* values that the caps below them clamp again, so plain integers give the *)
(* same results.                                                           *)
(***************************************************************************)
EXTENDS Integers

CONSTANT VOLUME_UNIT   \* 100_000_000, the volume worth one point, scaled down

ASSUME UnitAssumption == VOLUME_UNIT \in Nat \ {0}

MIN_SCORE == 300
MAX_SCORE == 850
BPS_DENOMINATOR == 10000
SECONDS_PER_DAY == 86400

AtMost(cap, n) == IF n > cap THEN cap ELSE n
AtLeast(floor, n) == IF n < floor THEN floor ELSE n

\* Mutant: the subtraction wraps around instead of saturating.
RecencyMultiplierBps_Wraps(anchoredAt, now, decayPerDay, minRecency) ==
  LET ageDays == AtLeast(0, now - anchoredAt) \div SECONDS_PER_DAY
      multiplier == (BPS_DENOMINATOR - ageDays * decayPerDay) % 2^16
  IN AtLeast(AtMost(BPS_DENOMINATOR, minRecency), multiplier)

\* recency_multiplier_bps: credentials anchored in the future have age 0.
RecencyMultiplierBps(anchoredAt, now, decayPerDay, minRecency) ==
  LET ageDays == AtLeast(0, now - anchoredAt) \div SECONDS_PER_DAY
      multiplier == AtLeast(0, BPS_DENOMINATOR - ageDays * decayPerDay)
  IN AtLeast(AtMost(BPS_DENOMINATOR, minRecency), multiplier)

\* apply_recency_bps
ApplyRecencyBps(points, recency) == (points * recency) \div BPS_DENOMINATOR

\* The points of one credential of a type of this weight.
VcPoints(weight) == (20 * weight) \div 100

\* volume / 100_000_000, between 0 and a cap.
VolumePoints(volume, cap) == AtMost(cap, AtLeast(0, volume \div VOLUME_UNIT))

\* The share of repayments on time, in basis points; 0 without repayments.
RepaymentRate(onTime, total) == IF total = 0 THEN 0 ELSE (onTime * 10000) \div total

TxScore(tx) ==
  AtMost(100, VolumePoints(tx.volume, 80) + AtMost(20, tx.counterparties \div 5))

RepayScore(rep) ==
  (RepaymentRate(rep.onTime, rep.total) \div 100 + VolumePoints(rep.repaid, 100)) \div 2

\* compute_score_pure before its last line, which clamps the result.
RawScore(vcPoints, tx, rep, weights) ==
  LET composite == (AtMost(100, vcPoints) * weights[1]
                    + TxScore(tx) * weights[2] + RepayScore(rep) * weights[3]) \div 100
  IN MIN_SCORE + (composite * 550) \div 100

\* compute_score_pure
ComputeScorePure(vcPoints, tx, rep, weights) ==
  AtLeast(MIN_SCORE, AtMost(MAX_SCORE, RawScore(vcPoints, tx, rep, weights)))

=============================================================================
