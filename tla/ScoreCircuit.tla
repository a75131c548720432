---------------------------- MODULE ScoreCircuit ----------------------------
(***************************************************************************)
(* zk/circuit: the constraints of the proof that a score exceeds a         *)
(* threshold, and packages/zk-wasm: the prover that fills the witness from *)
(* the oracle's inputs.                                                    *)
(*                                                                         *)
(* A field element is an integer: every value of the circuit but the       *)
(* commitment is far below the 255-bit modulus.  Keeping the low n bits of *)
(* a difference and forcing the others to zero asks that the difference    *)
(* lie in 0..2^n-1; a negative difference wraps to a large field element   *)
(* and fails.                                                              *)
(***************************************************************************)
EXTENDS ScoreMath, FieldElements

CONSTANTS
  VOLUME_BOUND,  \* 2^27, the range of the remainder of a volume, scaled
  U32_BOUND,     \* 2^32, scaled
  U64_BOUND,     \* 2^64, scaled
  F64_BOUND,     \* 2^53, up to which an f64 holds every integer, scaled
  Spacings       \* powers of two: the distances between larger integers of an f64

ASSUME BoundAssumption ==
  /\ VOLUME_BOUND \in VOLUME_UNIT .. VOLUME_UNIT * U32_BOUND
  /\ U32_BOUND \in Nat /\ U32_BOUND >= 1024
  /\ U64_BOUND \in Nat /\ U64_BOUND >= VOLUME_UNIT * U32_BOUND
  /\ F64_BOUND \in Nat /\ F64_BOUND % 2 = 0 /\ F64_BOUND >= VOLUME_UNIT * 100
  /\ Spacings \subseteq Nat
  /\ \A p \in Spacings : p = 1 \/ \E q \in Spacings \ {0} : p = 2 * q

\* The bits above the lowest ones are all forced to zero; bound = 2^bits.
InRange(x, bound) == 0 <= x /\ x < bound

\* enforce_u32_gt_fp: value - limit - 1 has 32 bits.
GreaterThan(value, limit) == InRange(value - limit - 1, U32_BOUND)

\* The product of the differences from two values is zero.
OneOf(x, a, b) == (x - a) * (x - b) = 0

\* Mutant: the remainder of a division by 5 gets two bits.
CounterpartiesConstraint_TwoBits(w) ==
  /\ InRange(w.counterparties - w.qCp * 5, 4)
  /\ InRange(w.bonus, 32)
  /\ OneOf(w.bonus, w.qCp, 20)

\* Constraint 2: vc_score
VcConstraint(w) ==
  /\ InRange(w.vcScore, 128)
  /\ OneOf(w.vcScore, w.vcPoints, 100)

\* Constraint 3: the quotient of the volume, and volume_score
VolumeConstraint(w) ==
  /\ InRange(w.volume - w.qVolume * VOLUME_UNIT, VOLUME_BOUND)
  /\ InRange(w.volumeScore, 128)
  /\ OneOf(w.volumeScore, w.qVolume, 80)

\* Constraint 4: the quotient of the counterparties, and counterparty_bonus
CounterpartiesConstraint(w) ==
  /\ InRange(w.counterparties - w.qCp * 5, 8)
  /\ InRange(w.bonus, 32)
  /\ OneOf(w.bonus, w.qCp, 20)

\* Constraint 5: tx_score
TxConstraint(w) ==
  /\ InRange(w.txScore, 128)
  /\ OneOf(w.txScore, w.volumeScore + w.bonus, 100)

\* Constraint 6: repayment_rate_score.  The second range admits a remainder
\* equal to total_count, so that no repayments at all pass.
RateConstraint(w) ==
  LET remainder == w.onTime * 100 - w.rateScore * w.total
  IN /\ InRange(w.rateScore, 128)
     /\ InRange(remainder, U32_BOUND)
     /\ InRange(w.total - remainder, U32_BOUND)

\* Constraint 7: the quotient of the amount repaid, and its score
RepaidConstraint(w) ==
  /\ InRange(w.repaid - w.qRepaid * VOLUME_UNIT, VOLUME_BOUND)
  /\ InRange(w.repaidScore, 128)
  /\ OneOf(w.repaidScore, w.qRepaid, 100)

\* Constraint 8: twice repay_score is the sum; there is no remainder.
RepayConstraint(w) == w.repayScore * 2 = w.rateScore + w.repaidScore

\* Constraint 9: composite * 100 is the weighted sum up to seven bits.
CompositeConstraint(w) ==
  LET numerator == w.vcScore * w.weights[1] + w.txScore * w.weights[2]
                   + w.repayScore * w.weights[3]
  IN /\ InRange(numerator - w.composite * 100, 128)
     /\ InRange(w.composite, 128)

\* Constraint 10: (score - 300) * 100 is composite * 550 up to seven bits.
ScoreConstraint(w) ==
  /\ InRange(w.composite * 550 - (w.score - 300) * 100, 128)
  /\ InRange(w.score, 1024)

\* The coefficients hashed from the domain separator: eight fixed numbers.
Coefficients == <<3, 5, 7, 11, 13, 17, 19, 23>>

\* PedersenCommitment::commit: the weighted sum of the eight committed fields.
Commit(w) ==
  (Coefficients[1] * w.score + Coefficients[2] * w.vcCount
   + Coefficients[3] * w.volume + Coefficients[4] * w.counterparties
   + Coefficients[5] * w.rate + Coefficients[6] * w.lastUpdated
   + Coefficients[7] * w.computedAt + Coefficients[8] * w.stale + w.blinding) % FIELD

\* generate_constraints: the statement a proof shows of its public inputs.
Satisfied(w, threshold, commitment) ==
  /\ GreaterThan(w.score, threshold)
  /\ VcConstraint(w)
  /\ VolumeConstraint(w)
  /\ CounterpartiesConstraint(w)
  /\ TxConstraint(w)
  /\ RateConstraint(w)
  /\ RepaidConstraint(w)
  /\ RepayConstraint(w)
  /\ CompositeConstraint(w)
  /\ ScoreConstraint(w)
  /\ Commit(w) = commitment

-----------------------------------------------------------------------------
(* generate_score_proof: the witness computed from the oracle's inputs     *)
(* s.  Amounts reach the prover as f64, the circuit as u64 and their       *)
(* quotients as u32.                                                       *)

Magnitude(n) == AtLeast(-n, n)

\* The distance between the integers of an f64 around n.
IsSpacing(p, n) == Magnitude(n) <= F64_BOUND * p /\ (p = 1 \/ F64_BOUND * p < 2 * Magnitude(n))

\* The multiple of p that is nearest to n; of two, the even multiple.
Nearest(n, p) ==
  LET below == n \div p
      above == 2 * (n % p) > p \/ (2 * (n % p) = p /\ below % 2 = 1)
  IN IF above THEN (below + 1) * p ELSE below * p

\* Number(amount), which the prover's "as i128" leaves as it is.
AsF64(amount) == Nearest(amount, CHOOSE p \in Spacings : IsSpacing(p, amount))

\* (amount / 100_000_000).max(0) as u32
Units(amount) == AtLeast(0, amount \div VOLUME_UNIT) % U32_BOUND

\* amount.max(0) as u64
AsU64(amount) == AtLeast(0, amount) % U64_BOUND

Witness(s) ==
  LET vcScore == AtMost(100, s.vcPoints)
      volumeScore == AtMost(80, Units(s.volume))
      bonus == AtMost(20, s.counterparties \div 5)
      txScore == AtMost(100, volumeScore + bonus)
      rateScore == RepaymentRate(s.onTime, s.total) \div 100
      repaidScore == AtMost(100, Units(s.repaid))
      repayScore == (rateScore + repaidScore) \div 2
      composite == (vcScore * s.weights[1] + txScore * s.weights[2]
                    + repayScore * s.weights[3]) \div 100
      score == 300 + (composite * 550) \div 100
  IN [score |-> AtLeast(300, AtMost(850, score)), vcCount |-> s.vcCount,
      volume |-> AsU64(s.volume), counterparties |-> s.counterparties,
      rate |-> RepaymentRate(s.onTime, s.total), lastUpdated |-> s.lastUpdated,
      computedAt |-> s.computedAt, stale |-> s.stale, vcPoints |-> s.vcPoints,
      onTime |-> s.onTime, total |-> s.total, repaid |-> AsU64(s.repaid),
      weights |-> s.weights, vcScore |-> vcScore, volumeScore |-> volumeScore,
      bonus |-> bonus, txScore |-> txScore, rateScore |-> rateScore,
      repaidScore |-> repaidScore, repayScore |-> repayScore,
      composite |-> composite, qVolume |-> Units(s.volume),
      qCp |-> s.counterparties \div 5, qRepaid |-> Units(s.repaid),
      blinding |-> s.blinding]
=============================================================================
