--------------------------- MODULE ProofProtocol ---------------------------
(***************************************************************************)
(* From the oracle's inputs to an approval: the SDK reads a score record   *)
(* with its inputs and has the WebAssembly prover make a proof, as may any *)
(* other client; consumers submit proofs, with inputs of their choice, to  *)
(* the verifier contract.                                                  *)
(***************************************************************************)
EXTENDS ScoreCircuit, ScoreRangeVerifier, FiniteSets

CONSTANTS
  Statement,     \* bound: the records and inputs the SDK reads
  Threshold,     \* bound: the thresholds asked for
  Subject,       \* subjects of proofs
  Nonce,         \* nonces consumers choose
  Oracle,        \* the credit oracle
  Domain,        \* the hash of CIRCUIT_DOMAIN, a string of bytes
  ShaDigest,     \* the SHA-256 digest of a score record, likewise
  Paired,        \* bound: those of which a second proof is made
  MaxRequests    \* bound: proofs generated

ASSUME WidthAssumption ==
  /\ U32_BOUND = BYTE * BYTE
  /\ Threshold \subseteq U32
  /\ \A s \in Statement : s.computedAt \in U32

\* What the oracle's entry points leave in a subject's record: counters of 32
\* bits, no more repayments on time than repayments, weights that pass
\* set_weights.
ASSUME StatementAssumption ==
  \A s \in Statement :
    /\ s.vcCount \in Nat /\ s.counterparties \in Nat
    /\ s.volume \in Int /\ s.repaid \in Int
    /\ \A amount \in {s.volume, s.repaid} : \E p \in Spacings : IsSpacing(p, amount)
    /\ s.onTime \in Nat /\ s.total \in Nat
    /\ s.onTime <= s.total /\ s.total < U32_BOUND
    /\ s.weights \in Nat \X Nat \X Nat
    /\ s.weights[1] + s.weights[2] + s.weights[3] = 100

VARIABLE requests  \* the proofs generated so far, by what they were made from

vars == <<requests, verifierVars>>

\* The client of the prover hashes addresses: the SDK the bare address
\* ("ScAddress"), another one what the contract hashes ("ScVal").
Request == [statement : Statement, threshold : Threshold, subject : Subject,
            encoding : {"ScAddress", "ScVal"}]

\* generateScoreProof: what the prover is given.
ProverArguments(s) ==
  [vcPoints |-> AtMost(100, s.vcCount * 20), volume |-> AsF64(s.volume),
   counterparties |-> s.counterparties, onTime |-> s.onTime, total |-> s.total,
   repaid |-> AsF64(s.repaid), weights |-> s.weights, vcCount |-> s.vcCount,
   lastUpdated |-> s.lastUpdated, computedAt |-> s.computedAt,
   stale |-> s.stale, blinding |-> s.blinding]

RequestWitness(r) == Witness(ProverArguments(r.statement))

\* The public inputs the statement is about, as a caller of the verifier
\* writes them.
InputsOf(r) ==
  [threshold |-> r.threshold, subject |-> r.subject, oracle |-> Oracle,
   commitment |-> Commit(RequestWitness(r)),
   snapshot |-> r.statement.computedAt, domain |-> Domain]

\* verifyScoreProof: the SDK sends a hash in the place of the commitment.
SdkInputs(r) == [InputsOf(r) EXCEPT !.commitment = ShaDigest]

\* The public fields of the prover, in the order the circuit declares them.
FieldsOf(r) ==
  <<r.threshold, <<r.encoding, r.subject>>, <<r.encoding, Oracle>>,
    Commit(RequestWitness(r)), r.statement.computedAt, FrFromBytes(Domain)>>

\* generate_score_proof and generate_proof: the keys come from a fixed seed
\* and match the verifier's.  Proving does not fail on a witness that does
\* not satisfy the circuit: it yields a proof that does not verify.
ProofOf(r) ==
  [shape |-> "full", fields |-> FieldsOf(r),
   satisfied |-> Satisfied(RequestWitness(r), r.threshold, Commit(RequestWitness(r)))]

\* verify_proof: the check of a proof off the chain.
VerifyProof(proof, fields) == proof.satisfied /\ proof.fields = fields

\* Bytes that no prover made: of another length, and of points off the curve.
Rubbish == {[shape |-> "short", fields |-> <<>>, satisfied |-> FALSE],
            [shape |-> "malformed", fields |-> <<>>, satisfied |-> FALSE]}

\* What consumers may claim of the proof of r: what it was made for, the same of
\* any subject or in other bytes, and what the SDK sends.
ClaimsOf(r) ==
  {SdkInputs(r)}
  \cup {[InputsOf(r) EXCEPT !.subject = s] : s \in Subject}
  \cup {[InputsOf(r) EXCEPT !.commitment = b] : b \in Aliases(InputsOf(r).commitment)}
  \cup {[InputsOf(r) EXCEPT !.domain = b] : b \in Aliases(Domain)}

Claims == UNION {ClaimsOf(r) : r \in requests}

Submissions == {ProofOf(r) : r \in requests} \cup Rubbish

-----------------------------------------------------------------------------
Init == VerifierInit /\ requests = {}

Generate ==
  /\ \E r \in Request :
       /\ Cardinality(requests \cup {r}) <= MaxRequests
       /\ requests = {} \/ {q.statement : q \in requests \cup {r}} \subseteq Paired
       /\ requests' = requests \cup {r}
  /\ UNCHANGED verifierVars

Deploy ==
  /\ \E admin \in Address, hash \in VkHash, version \in Version :
       Initialize(admin, hash, version)
  /\ UNCHANGED requests

Submit ==
  /\ \E consumer \in Address, proof \in Submissions, inputs \in Claims, nonce \in Nonce :
       \/ VerifyAndConsume(consumer, proof, inputs, nonce)
       \/ RefuseProof(consumer, proof, inputs, nonce)
  /\ UNCHANGED requests

Next == Generate \/ Deploy \/ Submit

Spec == Init /\ [][Next]_vars

-----------------------------------------------------------------------------
(* Properties.                                                             *)

\* Amounts up to here keep their quotient in 32 bits.
FitsU32(amount) == amount < VOLUME_UNIT * U32_BOUND

\* Amounts up to here reach the circuit as they reach the prover.
FitsU64(amount) == amount < U64_BOUND

\* compute_score_pure of what a request was made from
PureScore(r) ==
  LET s == r.statement
  IN ComputeScorePure(s.vcCount * 20,
       [volume |-> s.volume, counterparties |-> s.counterparties],
       [onTime |-> s.onTime, total |-> s.total, repaid |-> s.repaid], s.weights)

\* generate_constraints against compute_score_pure: what generate_proof makes
\* passes verify_proof exactly when the oracle's formula gives a score above
\* the threshold, the two repayment scores add up to an even number
\* (constraint 8 leaves no remainder) and the quotients of the amounts, rounded
\* to an f64, fit 32 bits: rounding never changes the score, but an amount just
\* below 2^32 units that is rounded up to them has no proof.  Of amounts beyond
\* 64 bits nothing is said: both conversions of them wrap.
ProvableExactly ==
  \A r \in requests : LET volume == AsF64(r.statement.volume)
                          repaid == AsF64(r.statement.repaid) IN
    FitsU64(volume) /\ FitsU64(repaid) =>
      (VerifyProof(ProofOf(r), FieldsOf(r)) <=>
         /\ PureScore(r) > r.threshold
         /\ FitsU32(volume) /\ FitsU32(repaid)
         /\ (RequestWitness(r).rateScore + RequestWitness(r).repaidScore) % 2 = 0)

\* The inputs spell the field elements the proof of r was made for.
SameElements(inputs, r) ==
  /\ inputs.threshold = r.threshold /\ inputs.snapshot = r.statement.computedAt
  /\ inputs.subject = r.subject /\ inputs.oracle = Oracle
  /\ FrFromBytes(inputs.commitment) = Commit(RequestWitness(r))
  /\ FrFromBytes(inputs.domain) = FrFromBytes(Domain)

\* verify_score_range, which "returns `true` iff the proof is valid for the
\* supplied public inputs": true for no other inputs than those proved, in any
\* bytes that are the same field elements, and for those only when the client
\* hashed addresses as the contract does, which the SDK does not, and both
\* numbers among them are zero.  u32_to_field puts the least significant byte
\* first and the host reads it as the most significant one, so any other number
\* is not the one the prover used.
VerifiedExactly ==
  \A r \in requests, inputs \in Claims :
    VerifyScoreRange(ProofOf(r), inputs) <=>
      /\ verifierAdmin # None /\ circuitVersion = CIRCUIT_VERSION
      /\ ProofOf(r).satisfied
      /\ SameElements(inputs, r)
      /\ r.encoding = "ScVal"
      /\ inputs.threshold = 0 /\ inputs.snapshot = 0
=============================================================================
