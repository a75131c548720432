---------------------------- MODULE ProofProofs ----------------------------
(***************************************************************************)
(* Theorems about ProofProtocol: a proof is consumed once, which inputs    *)
(* the verifier accepts, and that the circuit proves what the credit       *)
(* oracle computes, for every record, threshold and byte size.             *)
(***************************************************************************)
EXTENDS ProofProtocol, TLAPS

Proofs == {ProofOf(r) : r \in Request} \cup Rubbish

Inputs == UNION {ClaimsOf(r) : r \in Request}

Approval == [consumer : Address, proof : Proofs, inputs : Inputs, nonce : Nonce]

\* The hash of an approved call is in storage.
Remembered(a) == <<a.proof, a.inputs, a.nonce>> \in consumed

Inv ==
  /\ requests \subseteq Request
  /\ approvals \in Seq(Approval)
  /\ \A i \in DOMAIN approvals : Remembered(approvals[i])
  /\ AcceptedOnce

-----------------------------------------------------------------------------
(* What is consumed stays consumed.                                        *)

\* What is submitted belongs to some request.
LEMMA SubmissionsTyped ==
  ASSUME Inv
  PROVE  Submissions \subseteq Proofs /\ Claims \subseteq Inputs
BY DEF Inv, Submissions, Claims, Proofs, Inputs

\* An approval adds its hash, which no earlier one left.
LEMMA ConsumePreserves ==
  ASSUME Inv, NEW consumer \in Address, NEW proof \in Proofs, NEW inputs \in Inputs,
         NEW nonce \in Nonce, VerifyAndConsume(consumer, proof, inputs, nonce),
         UNCHANGED requests
  PROVE  Inv'
<1> DEFINE a == [consumer |-> consumer, proof |-> proof, inputs |-> inputs, nonce |-> nonce]
<1>1. a \in Approval
  BY DEF Approval
<1>2. /\ approvals \in Seq(Approval)
      /\ approvals' = Append(approvals, a)
      /\ consumed' = consumed \cup {<<proof, inputs, nonce>>}
      /\ <<proof, inputs, nonce>> \notin consumed
  BY DEF Inv, VerifyAndConsume, Acceptable, Digest
<1> HIDE DEF a
<1>3. /\ approvals' \in Seq(Approval)
      /\ DOMAIN approvals' = 1 .. Len(approvals) + 1
      /\ DOMAIN approvals = 1 .. Len(approvals)
      /\ Len(approvals) \in Nat
      /\ approvals'[Len(approvals) + 1] = a
      /\ \A i \in DOMAIN approvals : approvals'[i] = approvals[i]
  BY <1>1, <1>2
<1>4. <<a.proof, a.inputs, a.nonce>> = <<proof, inputs, nonce>>
  BY DEF a
<1>5. \A i \in DOMAIN approvals' : Remembered(approvals[i])'
  <2> SUFFICES ASSUME NEW i \in DOMAIN approvals' PROVE Remembered(approvals[i])'
    OBVIOUS
  <2>1. CASE i \in DOMAIN approvals
    BY <1>2, <1>3, <2>1 DEF Inv, Remembered
  <2>2. CASE i = Len(approvals) + 1
    BY <1>2, <1>3, <1>4, <2>2 DEF Remembered
  <2> QED BY <1>3, <2>1, <2>2
<1>6. \A i \in DOMAIN approvals :
        <<approvals[i].proof, approvals[i].inputs, approvals[i].nonce>> # <<a.proof, a.inputs, a.nonce>>
  BY <1>2, <1>4 DEF Inv, Remembered
<1>7. AcceptedOnce'
  <2> SUFFICES ASSUME NEW i \in DOMAIN approvals', NEW j \in DOMAIN approvals',
                      approvals'[i].proof = approvals'[j].proof,
                      approvals'[i].inputs = approvals'[j].inputs,
                      approvals'[i].nonce = approvals'[j].nonce
               PROVE  i = j
    BY DEF AcceptedOnce
  <2>1. CASE i \in DOMAIN approvals /\ j \in DOMAIN approvals
    BY <1>3, <2>1 DEF Inv, AcceptedOnce
  <2>2. CASE i = Len(approvals) + 1 /\ j \in DOMAIN approvals
    BY <1>3, <1>6, <2>2
  <2>3. CASE i \in DOMAIN approvals /\ j = Len(approvals) + 1
    BY <1>3, <1>6, <2>3
  <2> QED BY <1>3, <2>1, <2>2, <2>3
<1> QED BY <1>3, <1>5, <1>7 DEF Inv

\* The invariant holds at the start.
LEMMA InvInitially == Init => Inv
BY DEF Init, VerifierInit, Inv, AcceptedOnce

\* Every step preserves it.
LEMMA InvPreserved == Inv /\ [Next]_vars => Inv'
<1> SUFFICES ASSUME Inv, [Next]_vars PROVE Inv'
  OBVIOUS
<1>1. ASSUME UNCHANGED verifierVars, requests' \subseteq Request PROVE Inv'
  BY <1>1 DEF Inv, verifierVars, Remembered, AcceptedOnce
<1>2. CASE Generate
  BY <1>1, <1>2 DEF Generate, Inv
<1>3. CASE Deploy
  BY <1>3 DEF Deploy, Initialize, Inv, Remembered, AcceptedOnce
<1>4. CASE Submit
  BY <1>1, <1>4, SubmissionsTyped, ConsumePreserves DEF Submit, RefuseProof, Inv
<1>5. CASE UNCHANGED vars
  BY <1>1, <1>5 DEF vars, Inv
<1> QED BY <1>2, <1>3, <1>4, <1>5 DEF Next

\* The invariant holds throughout.
LEMMA Invariance == Spec => []Inv
BY InvInitially, InvPreserved, PTL DEF Spec

\* verify_and_consume approves a proof with its inputs and nonce once,
\* whatever proofs exist, whoever submits them and however often.
THEOREM ConsumedOnce == Spec => []AcceptedOnce
<1>1. Inv => AcceptedOnce
  BY DEF Inv
<1> QED BY <1>1, Invariance, PTL

-----------------------------------------------------------------------------
(* The numbers among the public inputs.                                    *)

\* A positive multiple is no smaller.
LEMMA Multiple ==
  ASSUME NEW x \in Nat, NEW y \in Nat, x >= 1
  PROVE  x * y >= y
OBVIOUS

\* Multiples keep the order.
LEMMA MultiplesOrdered ==
  ASSUME NEW a \in Int, NEW b \in Int, NEW n \in Nat, a <= b
  PROVE  n * a <= n * b
<1>1. PICK k \in Nat : b = a + k
  BY b - a \in Nat, b = a + (b - a)
<1>2. n * b = n * a + n * k
  BY <1>1
<1>3. n * k >= 0 /\ n * a \in Int /\ n * k \in Int
  OBVIOUS
<1> QED BY <1>2, <1>3

\* Only zero is the same number in both byte orders.
LEMMA NumbersSurvive ==
  ASSUME NEW t \in U32, NEW u \in U32
  PROVE  u = FrFromBytes(U32ToField(t)) <=> t = 0 /\ u = 0
<1> DEFINE lo == t % BYTE
           hi == t \div BYTE
           page == BYTE * BYTE
           k == lo * BYTE + hi
<1>1. BYTE \in Nat /\ BYTE >= 2 /\ page \in Nat /\ page >= 1 /\ FIELD \in Nat /\ FIELD >= page
  BY FieldAssumption
<1>2. t \in Nat /\ u \in Nat /\ t < page /\ u < page
  BY <1>1 DEF U32
<1>3. lo \in Nat /\ lo < BYTE /\ hi \in Nat /\ t = BYTE * hi + lo
  BY <1>1, <1>2
<1>4. FrFromBytes(U32ToField(t)) = (k * (BYTE * BYTE * BYTE)) % FIELD
  BY DEF FrFromBytes, U32ToField
<1> HIDE DEF lo, hi, page
<1>5. hi < BYTE
  <2>1. hi >= BYTE => BYTE * hi >= BYTE * BYTE
    BY <1>1, <1>3, MultiplesOrdered
  <2>2. BYTE * hi \in Int
    BY <1>1, <1>3
  <2> QED BY <1>1, <1>2, <1>3, <2>1, <2>2 DEF page
<1>6. lo * BYTE \in Nat /\ (lo >= 1 => lo * BYTE >= BYTE) /\ lo * BYTE <= page - BYTE
  <2>1. BYTE * lo <= BYTE * (BYTE - 1)
    BY <1>1, <1>3, MultiplesOrdered
  <2>2. BYTE * lo = lo * BYTE /\ BYTE * (BYTE - 1) = page - BYTE /\ lo * BYTE \in Nat
    BY <1>1, <1>3 DEF page
  <2> QED BY <1>1, <1>3, <2>1, <2>2, Multiple
<1>7. k \in 0 .. page - 1
  BY <1>1, <1>3, <1>5, <1>6
<1>8. CASE lo = 0 /\ hi = 0
  <2>1. t = 0 /\ k = 0
    BY <1>1, <1>3, <1>8
  <2>2. FrFromBytes(U32ToField(t)) = 0
    BY <1>1, <1>4, <2>1
  <2> QED BY <2>1, <2>2
<1>9. CASE ~(lo = 0 /\ hi = 0)
  <2>1. k >= 1
    BY <1>1, <1>3, <1>6, <1>9
  <2>2. FrFromBytes(U32ToField(t)) >= page
    <3> HIDE DEF k
    <3>1. k \in 1 .. BYTE * BYTE - 1
      BY <1>7, <2>1 DEF page
    <3> QED BY <1>4, <3>1, FieldAssumption DEF page
  <2>3. t # 0
    <3>1. hi >= 1 => BYTE * hi >= BYTE
      BY <1>1, <1>3, Multiple
    <3> QED BY <1>1, <1>3, <1>9, <3>1
  <2>4. u # FrFromBytes(U32ToField(t))
    BY <1>1, <1>2, <2>2
  <2> QED BY <2>3, <2>4
<1> QED BY <1>8, <1>9

\* The numbers among the claimed inputs have 32 bits.
LEMMA ClaimsTyped ==
  ASSUME Inv, NEW inputs \in Claims
  PROVE  inputs.threshold \in U32 /\ inputs.snapshot \in U32
<1>1. PICK r \in requests : inputs \in ClaimsOf(r)
  BY DEF Claims
<1>2. r \in Request /\ r.threshold \in U32 /\ r.statement.computedAt \in U32
  BY WidthAssumption DEF Inv, Request
<1>3. inputs.threshold = r.threshold /\ inputs.snapshot = r.statement.computedAt
  <2>1. CASE inputs = SdkInputs(r)
    BY <2>1 DEF SdkInputs, InputsOf
  <2>2. ASSUME NEW s, inputs = [InputsOf(r) EXCEPT !.subject = s]
        PROVE  inputs.threshold = r.threshold /\ inputs.snapshot = r.statement.computedAt
    BY <2>2 DEF InputsOf
  <2>3. ASSUME NEW b, inputs = [InputsOf(r) EXCEPT !.commitment = b]
        PROVE  inputs.threshold = r.threshold /\ inputs.snapshot = r.statement.computedAt
    BY <2>3 DEF InputsOf
  <2>4. ASSUME NEW b, inputs = [InputsOf(r) EXCEPT !.domain = b]
        PROVE  inputs.threshold = r.threshold /\ inputs.snapshot = r.statement.computedAt
    BY <2>4 DEF InputsOf
  <2> QED BY <1>1, <2>1, <2>2, <2>3, <2>4 DEF ClaimsOf
<1> QED BY <1>2, <1>3

\* The verification equation holds for the fields of the proof and no others.
LEMMA VerifiedExactlyHolds == Inv => VerifiedExactly
<1> SUFFICES ASSUME Inv, NEW r \in requests, NEW inputs \in Claims
             PROVE  VerifyScoreRange(ProofOf(r), inputs) <=>
                      /\ verifierAdmin # None /\ circuitVersion = CIRCUIT_VERSION
                      /\ ProofOf(r).satisfied
                      /\ SameElements(inputs, r)
                      /\ r.encoding = "ScVal"
                      /\ inputs.threshold = 0 /\ inputs.snapshot = 0
  BY DEF VerifiedExactly
<1> DEFINE c == Commit(RequestWitness(r))
           d == FrFromBytes(Domain)
           t == FrFromBytes(U32ToField(inputs.threshold))
           l == FrFromBytes(U32ToField(inputs.snapshot))
           x == FrFromBytes(inputs.commitment)
           y == FrFromBytes(inputs.domain)
<1>1. r \in Request /\ r.threshold \in U32 /\ r.statement.computedAt \in U32
  BY WidthAssumption DEF Inv, Request
<1>2. /\ ProofOf(r).shape = "full"
      /\ ProofOf(r).fields = <<r.threshold, <<r.encoding, r.subject>>, <<r.encoding, Oracle>>,
                               c, r.statement.computedAt, d>>
  BY DEF ProofOf, FieldsOf
<1>3. PublicInputsToFields(inputs) =
        <<t, <<"ScVal", inputs.subject>>, <<"ScVal", inputs.oracle>>, x, l, y>>
  BY DEF PublicInputsToFields, AddressToField
<1>4. /\ r.threshold = t <=> inputs.threshold = 0 /\ r.threshold = 0
      /\ r.statement.computedAt = l <=> inputs.snapshot = 0 /\ r.statement.computedAt = 0
  BY <1>1, ClaimsTyped, NumbersSurvive
<1>5. SameElements(inputs, r) <=>
        /\ inputs.threshold = r.threshold /\ inputs.subject = r.subject
        /\ inputs.oracle = Oracle /\ x = c
        /\ inputs.snapshot = r.statement.computedAt /\ y = d
  BY DEF SameElements
<1> HIDE DEF c, d, t, l, x, y
<1>6. ProofOf(r).fields = PublicInputsToFields(inputs) <=>
        /\ r.threshold = t /\ r.statement.computedAt = l
        /\ r.encoding = "ScVal" /\ r.subject = inputs.subject /\ Oracle = inputs.oracle
        /\ c = x /\ d = y
  BY <1>2, <1>3
<1> QED BY <1>2, <1>4, <1>5, <1>6 DEF VerifyScoreRange, Groth16Verify

\* verify_score_range is true of a proof only with bytes that are the field
\* elements it was made for, addresses hashed as the contract hashes them,
\* threshold and ledger zero; for bytes and a field of any size, as
\* u32_to_field and the host order the bytes oppositely.
THEOREM OnlyZerosVerify == Spec => []VerifiedExactly
BY Invariance, VerifiedExactlyHolds, PTL

-----------------------------------------------------------------------------
(* The prover's witness and the circuit's constraints.                     *)

\* The quotient of a division by a positive number.
LEMMA Quotient ==
  ASSUME NEW a \in Int, NEW d \in Nat \ {0}
  PROVE  /\ a \div d \in Int
         /\ d * (a \div d) <= a /\ a < d * (a \div d) + d
         /\ a >= 0 => a \div d >= 0
  OBVIOUS

\* A capped value is the value or the cap.
LEMMA CappedPasses ==
  ASSUME NEW q \in Nat, NEW cap \in Nat
  PROVE  AtMost(cap, q) \in 0..cap /\ OneOf(AtMost(cap, q), q, cap)
<1>1. CASE q > cap
  <2>1. AtMost(cap, q) = cap
    BY <1>1 DEF AtMost
  <2>2. (cap - q) * (cap - cap) = 0
    OBVIOUS
  <2> QED BY <2>1, <2>2 DEF OneOf
<1>2. CASE ~(q > cap)
  <2>1. AtMost(cap, q) = q
    BY <1>2 DEF AtMost
  <2>2. (q - q) * (q - cap) = 0
    OBVIOUS
  <2> QED BY <1>2, <2>1, <2>2 DEF OneOf
<1> QED BY <1>1, <1>2

\* Constraints 3 and 7: an amount of 64 bits passes the range of its remainder
\* exactly when its quotient fits 32 bits, and then the quotient is the
\* oracle's.
LEMMA AmountPasses ==
  ASSUME NEW v \in Int, FitsU64(v)
  PROVE  /\ Units(v) \in Nat
         /\ FitsU32(v) => Units(v) = AtLeast(0, v \div VOLUME_UNIT)
         /\ FitsU32(v) <=> InRange(AsU64(v) - Units(v) * VOLUME_UNIT, VOLUME_BOUND)
<1> DEFINE d == VOLUME_UNIT
           m == U32_BOUND
           q == v \div d
<1>1. /\ d \in Nat \ {0} /\ m \in Nat \ {0} /\ d * m \in Nat
      /\ U64_BOUND \in Nat /\ v < U64_BOUND
      /\ VOLUME_BOUND \in Nat /\ d <= VOLUME_BOUND /\ VOLUME_BOUND <= d * m
  BY UnitAssumption, BoundAssumption DEF FitsU64
<1>2. q \in Int /\ d * q <= v /\ v < d * q + d /\ (v >= 0 => q >= 0)
  BY <1>1, Quotient
<1>3. AsU64(v) = AtLeast(0, v)
  <2>1. AtLeast(0, v) \in Nat /\ AtLeast(0, v) < U64_BOUND
    <3>1. U64_BOUND >= d * m
      BY BoundAssumption
    <3>2. U64_BOUND >= 1
      BY <1>1, <3>1
    <3> QED BY <1>1, <3>2 DEF AtLeast
  <2>2. \A y \in Nat, b \in Nat : y < b => y % b = y
    OBVIOUS
  <2> QED BY <1>1, <2>1, <2>2 DEF AsU64
<1>4. Units(v) = AtLeast(0, q) % m
  BY DEF Units
<1>5. FitsU32(v) <=> v < d * m
  BY DEF FitsU32
<1>6. AtLeast(0, q) \in Nat /\ AtLeast(0, v) \in Nat
  BY <1>2 DEF AtLeast
<1> HIDE DEF d, m, q
<1>7. Units(v) \in Nat
  BY <1>1, <1>4, <1>6
<1>8. CASE v < 0
  <2>1. q < 0
    <3>1. q >= 0 => d * 0 <= d * q
      BY <1>1, <1>2, MultiplesOrdered
    <3> QED BY <1>1, <1>2, <1>8, <3>1
  <2>2. AtLeast(0, q) = 0 /\ AtLeast(0, v) = 0
    BY <1>2, <1>8, <2>1 DEF AtLeast
  <2>3. Units(v) = 0
    BY <1>1, <1>4, <2>2
  <2>4. v < d * m
    BY <1>1, <1>8
  <2>5. InRange(AsU64(v) - Units(v) * d, VOLUME_BOUND)
    BY <1>1, <1>3, <2>2, <2>3 DEF InRange
  <2> QED BY <1>5, <1>7, <2>2, <2>3, <2>4, <2>5 DEF d, q
<1>9. CASE v >= 0
  <2>1. AtLeast(0, q) = q /\ AtLeast(0, v) = v /\ q \in Nat
    BY <1>2, <1>9 DEF AtLeast
  <2>2. CASE v < d * m
    <3>1. q < m
      <4>1. m <= q => d * m <= d * q
        BY <1>1, <2>1, MultiplesOrdered
      <4>2. d * q \in Int
        BY <1>1, <2>1
      <4> QED BY <1>1, <1>2, <2>1, <2>2, <4>1, <4>2
    <3>2. Units(v) = q
      BY <1>1, <1>4, <2>1, <3>1
    <3>3. InRange(v - q * d, VOLUME_BOUND)
      <4>1. d * q \in Int /\ q * d = d * q
        BY <1>1, <2>1
      <4>2. v - d * q >= 0 /\ v - d * q < d
        BY <1>1, <1>2, <4>1
      <4> QED BY <1>1, <4>1, <4>2 DEF InRange
    <3> QED BY <1>3, <1>5, <1>7, <2>1, <2>2, <3>2, <3>3 DEF d, q
  <2>3. CASE ~(v < d * m)
    <3> DEFINE u == Units(v)
               k == q \div m
    <3>1. k \in Int /\ u = q - m * k /\ u < m /\ u \in Nat
      BY <1>1, <1>4, <2>1
    <3>2. m <= q
      <4>1. q + 1 <= m => d * (q + 1) <= d * m
        BY <1>1, <2>1, MultiplesOrdered
      <4>2. d * (q + 1) = d * q + d /\ d * q \in Int
        BY <1>1, <2>1
      <4> QED BY <1>1, <1>2, <2>1, <2>3, <4>1, <4>2
    <3> HIDE DEF u, k
    <3>3. m <= q - u
      <4>1. k >= 1
        <5>1. k <= 0 => m * k <= m * 0
          BY <1>1, <3>1, MultiplesOrdered
        <5>2. m * k \in Int /\ m * 0 = 0
          BY <1>1, <3>1
        <5> QED BY <1>1, <2>1, <3>1, <3>2, <5>1, <5>2
      <4>2. m * 1 <= m * k
        BY <1>1, <3>1, <4>1, MultiplesOrdered
      <4>3. m * k \in Int /\ m * 1 = m
        BY <1>1, <3>1
      <4> QED BY <1>1, <2>1, <3>1, <4>2, <4>3
    <3>4. d * m <= d * (q - u)
      BY <1>1, <2>1, <3>1, <3>3, MultiplesOrdered
    <3>5. /\ d * (q - u) = d * q - u * d
          /\ d * q \in Int /\ u * d \in Int
      BY <1>1, <2>1, <3>1
    <3>6. ~(v - u * d < VOLUME_BOUND)
      BY <1>1, <1>2, <3>4, <3>5
    <3> QED BY <1>3, <1>5, <1>7, <2>1, <2>3, <3>6 DEF InRange, u, d
  <2> QED BY <2>2, <2>3
<1> QED BY <1>8, <1>9

\* Constraint 6: the share of repayments on time passes both ranges, also
\* without any repayments.
LEMMA RatePasses ==
  ASSUME NEW onTime \in Nat, NEW total \in Nat, onTime <= total, total < U32_BOUND
  PROVE  LET q == RepaymentRate(onTime, total) \div 100
             remainder == onTime * 100 - q * total
         IN  q \in 0..100 /\ InRange(remainder, U32_BOUND)
             /\ InRange(total - remainder, U32_BOUND)
<1> DEFINE p == RepaymentRate(onTime, total)
           q == p \div 100
<1>0. U32_BOUND \in Nat
  BY BoundAssumption
<1>1. CASE total = 0
  <2>1. p = 0
    BY <1>1 DEF RepaymentRate
  <2> HIDE DEF p
  <2>2. q = 0
    BY <2>1
  <2> QED BY <1>0, <1>1, <2>2 DEF InRange, p
<1>2. CASE total # 0
  <2>1. /\ p \in Int /\ p >= 0
        /\ total * p <= onTime * 10000 /\ onTime * 10000 < total * p + total
    BY <1>2, Quotient, onTime * 10000 >= 0 DEF RepaymentRate
  <2> HIDE DEF p
  <2>2. /\ q \in Int /\ q >= 0
        /\ 100 * q <= p /\ p < 100 * q + 100
    BY <2>1, Quotient
  <2> HIDE DEF q
  <2>3. total * (100 * q) <= total * p /\ total * p <= total * (100 * q + 99)
    BY <2>1, <2>2, MultiplesOrdered
  <2>4. PICK a \in Int, b \in Int :
          a = total * p /\ b = total * q
    BY <2>1, <2>2
  <2>5. total * (100 * q) = 100 * b /\ total * (100 * q + 99) = 100 * b + 99 * total
    BY <2>2, <2>4
  <2>6. b <= onTime * 100 /\ onTime * 100 < b + total
    BY <2>1, <2>3, <2>4, <2>5
  <2>7. q <= 100
    <3>1. 101 <= q => total * 101 <= b
      BY <2>2, <2>4, MultiplesOrdered
    <3> QED BY <1>2, <2>2, <2>6, <3>1
  <2>8. q * total = b
    BY <2>2, <2>4
  <2>9. onTime * 100 - q * total \in Int
    BY <2>4, <2>8
  <2>10. PICK z \in Int : z = onTime * 100 - q * total /\ 0 <= z /\ z < total
    BY <2>4, <2>6, <2>8
  <2>11. InRange(z, U32_BOUND) /\ InRange(total - z, U32_BOUND)
    BY <1>0, <2>10 DEF InRange
  <2>12. q \in 0..100
    BY <2>2, <2>7
  <2>13. /\ InRange(onTime * 100 - q * total, U32_BOUND)
         /\ InRange(total - (onTime * 100 - q * total), U32_BOUND)
    BY <2>10, <2>11
  <2> QED BY <2>12, <2>13 DEF q, p
<1> QED BY <1>1, <1>2

\* The rounding to an f64 leaves amounts up to 2^53 alone and keeps larger ones
\* on their side of it.
LEMMA Rounded ==
  ASSUME NEW n \in Int, \E p \in Spacings : IsSpacing(p, n)
  PROVE  /\ AsF64(n) \in Int
         /\ \/ AsF64(n) = n
            \/ n > F64_BOUND /\ AsF64(n) >= F64_BOUND
            \/ n < 0 /\ AsF64(n) <= 0
<1> DEFINE p == CHOOSE p \in Spacings : IsSpacing(p, n)
           P == F64_BOUND
           below == n \div p
<1>1. p \in Spacings /\ IsSpacing(p, n)
  OBVIOUS
<1>2. P \in Nat /\ Spacings \subseteq Nat /\ P % 2 = 0
  BY BoundAssumption
<1>3. AsF64(n) \in {below * p, (below + 1) * p}
  BY DEF AsF64, Nearest
<1>4. ASSUME p = 1 PROVE AsF64(n) = n
  <2>1. n \div 1 = n /\ n % 1 = 0
    OBVIOUS
  <2>2. Nearest(n, 1) = n
    BY <2>1 DEF Nearest
  <2> QED BY <1>4, <2>2 DEF AsF64
<1> HIDE DEF p
<1>5. p \in Nat /\ (p = 1 \/ p >= 2)
  <2>1. p = 1 \/ \E q \in Spacings \ {0} : p = 2 * q
    BY <1>1, BoundAssumption
  <2> QED BY <1>1, <1>2, <2>1
<1>6. below \in Int /\ p * below <= n /\ n < p * below + p
  BY <1>5, Quotient
<1> HIDE DEF below
<1>7. AsF64(n) \in Int
  BY <1>3, <1>5, <1>6
<1>8. PICK m \in Int : m = p * below
  BY <1>5, <1>6
<1>9. below * p = m /\ (below + 1) * p = m + p
  BY <1>5, <1>6, <1>8
<1>10. ASSUME p >= 2, n > P PROVE AsF64(n) >= P
  <2>1. PICK h \in Nat : P = 2 * h
    <3> HIDE DEF P
    <3> QED BY <1>2, P \div 2 \in Nat
  <2>2. P * p < 2 * n
    BY <1>1, <1>2, <1>5, <1>10 DEF IsSpacing, Magnitude, AtLeast
  <2>3. PICK g \in Int : g = p * h
    BY <1>5, <2>1
  <2>4. g < n
    <3> HIDE DEF P
    <3>1. P * p = 2 * g
      <4>1. P * p = (2 * h) * p
        BY <2>1
      <4>2. (2 * h) * p = 2 * (p * h)
        BY <1>5, <2>1
      <4> QED BY <2>3, <4>1, <4>2
    <3>2. 2 * g < 2 * n
      BY <2>2, <3>1
    <3> QED BY <2>3, <3>2
  <2>5. below >= h
    <3>1. below + 1 <= h => p * (below + 1) <= p * h
      BY <1>5, <1>6, <2>1, MultiplesOrdered
    <3>2. p * (below + 1) = m + p
      BY <1>5, <1>6, <1>9
    <3> QED BY <1>5, <1>6, <1>8, <2>1, <2>3, <2>4, <3>1, <3>2
  <2>6. p * h <= p * below
    BY <1>5, <1>6, <2>1, <2>5, MultiplesOrdered
  <2>7. h * 2 <= h * p
    BY <1>5, <1>10, <2>1, MultiplesOrdered
  <2>8. h * p = g
    BY <1>5, <2>1, <2>3
  <2>9. P <= m
    BY <1>8, <2>1, <2>3, <2>6, <2>7, <2>8
  <2> QED BY <1>2, <1>3, <1>5, <1>9, <2>9
<1>11. ASSUME n < 0 PROVE AsF64(n) <= 0
  <2>1. below + 1 <= 0
    <3>1. 0 <= below => p * 0 <= p * below
      BY <1>5, <1>6, MultiplesOrdered
    <3> QED BY <1>5, <1>6, <1>11, <3>1
  <2>2. p * (below + 1) <= p * 0
    BY <1>5, <1>6, <2>1, MultiplesOrdered
  <2>3. p * (below + 1) = m + p /\ p * 0 = 0
    BY <1>5, <1>6, <1>9
  <2> QED BY <1>3, <1>5, <1>8, <1>9, <2>2, <2>3
<1>12. ASSUME p >= 2, 0 <= n, n <= P PROVE FALSE
  <2>1. P * p < 2 * n
    BY <1>1, <1>2, <1>5, <1>12 DEF IsSpacing, Magnitude, AtLeast
  <2>2. P * 2 <= P * p
    BY <1>2, <1>5, <1>12, MultiplesOrdered
  <2>3. P * p \in Int
    BY <1>2, <1>5
  <2> QED BY <1>2, <1>12, <2>1, <2>2, <2>3
<1> QED BY <1>2, <1>4, <1>5, <1>7, <1>10, <1>11, <1>12

\* So it changes no score: amounts that it changes are at a cap or negative.
LEMMA RoundingKeepsPoints ==
  ASSUME NEW n \in Int, \E p \in Spacings : IsSpacing(p, n), NEW cap \in 0..100
  PROVE  VolumePoints(AsF64(n), cap) = VolumePoints(n, cap)
<1> DEFINE d == VOLUME_UNIT
<1>1. d \in Nat \ {0} /\ F64_BOUND \in Nat /\ F64_BOUND >= d * 100
  BY UnitAssumption, BoundAssumption
<1> HIDE DEF d
<1>2. ASSUME NEW v \in Int, v >= F64_BOUND PROVE AtMost(cap, AtLeast(0, v \div d)) = cap
  <2>1. v \div d \in Int /\ v < d * (v \div d) + d
    BY <1>1, Quotient
  <2>2. v \div d >= 100
    <3>1. v \div d + 1 <= 100 => d * (v \div d + 1) <= d * 100
      BY <1>1, <2>1, MultiplesOrdered
    <3>2. d * (v \div d + 1) = d * (v \div d) + d /\ d * (v \div d) \in Int
      BY <1>1, <2>1
    <3> QED BY <1>1, <1>2, <2>1, <3>1, <3>2
  <2> QED BY <2>1, <2>2 DEF AtMost, AtLeast
<1>3. ASSUME NEW v \in Int, v <= 0 PROVE AtLeast(0, v \div d) = 0
  <2>1. v \div d \in Int /\ d * (v \div d) <= v
    BY <1>1, Quotient
  <2>2. v \div d <= 0
    <3>1. 1 <= v \div d => d * 1 <= d * (v \div d)
      BY <1>1, <2>1, MultiplesOrdered
    <3> QED BY <1>1, <1>3, <2>1, <3>1
  <2> QED BY <2>1, <2>2 DEF AtLeast
<1>4. AsF64(n) \in Int
  BY Rounded
<1>5. CASE AsF64(n) = n
  BY <1>5
<1>6. CASE n > F64_BOUND /\ AsF64(n) >= F64_BOUND
  BY <1>1, <1>2, <1>4, <1>6 DEF VolumePoints, d
<1>7. CASE n < 0 /\ AsF64(n) <= 0
  BY <1>3, <1>4, <1>7 DEF VolumePoints, d
<1> QED BY <1>5, <1>6, <1>7, Rounded

\* What constraints 9 and 10 ask of a weighted sum.
StagesInRange(sum) ==
  LET composite == sum \div 100
      score == 300 + (composite * 550) \div 100
  IN  /\ InRange(sum - composite * 100, 128) /\ InRange(composite, 128)
      /\ InRange(composite * 550 - (score - 300) * 100, 128)
      /\ score \in MIN_SCORE..MAX_SCORE

\* A score of a component, and three weights that set_weights accepts.
Percentage(p) == p \in Nat /\ p <= 100
Weights(u, v, x) == u \in Nat /\ v \in Nat /\ x \in Nat /\ u + v + x = 100

\* Three component scores, weighted.
WeightedSum(p, t, r, u, v, x) == p * u + t * v + r * x

\* The two percentages pass their ranges, and the score needs no clamp.
LEMMA StagesPass ==
  ASSUME NEW p, NEW t, NEW r, NEW u, NEW v, NEW x,
         Percentage(p), Percentage(t), Percentage(r), Weights(u, v, x)
  PROVE  StagesInRange(WeightedSum(p, t, r, u, v, x))
<1> DEFINE sum == WeightedSum(p, t, r, u, v, x)
<1>1. \A a \in Nat, n \in Nat : a <= 100 => a * n \in Nat /\ a * n <= 100 * n
  OBVIOUS
<1>2. PICK a \in Nat, b \in Nat, c \in Nat :
        /\ a = p * u /\ b = t * v /\ c = r * x
        /\ a <= 100 * u /\ b <= 100 * v /\ c <= 100 * x
  BY <1>1 DEF Percentage, Weights
<1>3. PICK n \in Nat : n = sum /\ n <= 10000
  <2>1. a + b + c <= 10000 /\ a + b + c \in Nat
    <3>1. a <= 100 * u /\ b <= 100 * v /\ c <= 100 * x
      BY <1>2
    <3> QED BY <3>1 DEF Weights
  <2>2. sum = a + b + c
    BY <1>2 DEF WeightedSum
  <2> QED BY <2>1, <2>2
<1>4. PICK m \in 0..100 : m = n \div 100 /\ 100 * m <= n /\ n < 100 * m + 100
  BY <1>3
<1>5. PICK s \in Nat : s = (m * 550) \div 100 /\ 100 * s <= m * 550 /\ m * 550 < 100 * s + 100
  BY <1>4
<1>6. s <= 550
  BY <1>4, <1>5
<1>7. InRange(n - m * 100, 128) /\ InRange(m, 128)
  <2>1. n - m * 100 >= 0 /\ n - m * 100 < 100
    BY <1>4
  <2>2. n - m * 100 \in Int /\ m >= 0 /\ m <= 100
    BY <1>4
  <2> QED BY <2>1, <2>2 DEF InRange
<1>8. InRange(m * 550 - ((300 + s) - 300) * 100, 128)
  BY <1>4, <1>5 DEF InRange
<1>9. 300 + s \in MIN_SCORE..MAX_SCORE
  BY <1>6 DEF MIN_SCORE, MAX_SCORE
<1> HIDE DEF sum
<1>10. StagesInRange(sum)
  BY <1>3, <1>4, <1>5, <1>7, <1>8, <1>9 DEF StagesInRange
<1> QED BY <1>10 DEF sum

\* What generate_score_proof copies into the fields the constraints read.
LEMMA WitnessInputs ==
  ASSUME NEW a
  PROVE  LET w == Witness(a) IN
         /\ w.vcPoints = a.vcPoints /\ w.counterparties = a.counterparties
         /\ w.onTime = a.onTime /\ w.total = a.total /\ w.weights = a.weights
         /\ w.volume = AsU64(a.volume) /\ w.repaid = AsU64(a.repaid)
         /\ w.qVolume = Units(a.volume) /\ w.qRepaid = Units(a.repaid)
BY DEF Witness

\* What it computes for the score of the credentials and the transactions.
LEMMA WitnessTx ==
  ASSUME NEW a
  PROVE  LET w == Witness(a) IN
         /\ w.vcScore = AtMost(100, w.vcPoints)
         /\ w.volumeScore = AtMost(80, w.qVolume)
         /\ w.qCp = w.counterparties \div 5
         /\ w.bonus = AtMost(20, w.qCp)
         /\ w.txScore = AtMost(100, w.volumeScore + w.bonus)
BY DEF Witness

\* What it computes for the repayments.
LEMMA WitnessRepay ==
  ASSUME NEW a
  PROVE  LET w == Witness(a) IN
         /\ w.rateScore = RepaymentRate(w.onTime, w.total) \div 100
         /\ w.repaidScore = AtMost(100, w.qRepaid)
         /\ w.repayScore = (w.rateScore + w.repaidScore) \div 2
BY DEF Witness

\* What it computes of the three.
LEMMA WitnessTotal ==
  ASSUME NEW a
  PROVE  LET w == Witness(a) IN
         /\ w.composite = (w.vcScore * w.weights[1] + w.txScore * w.weights[2]
                           + w.repayScore * w.weights[3]) \div 100
         /\ w.score = AtLeast(300, AtMost(850, 300 + (w.composite * 550) \div 100))
BY DEF Witness

\* What it is given of a statement.
LEMMA StatementArguments ==
  ASSUME NEW s
  PROVE  LET a == ProverArguments(s) IN
         /\ a.vcPoints = AtMost(100, s.vcCount * 20) /\ a.volume = AsF64(s.volume)
         /\ a.counterparties = s.counterparties /\ a.onTime = s.onTime /\ a.total = s.total
         /\ a.repaid = AsF64(s.repaid) /\ a.weights = s.weights
BY DEF ProverArguments

\* Constraints 9 and 10 of the prover's witness.
LEMMA TotalPasses ==
  ASSUME NEW a, NEW w, w = Witness(a),
         w.vcScore \in Nat, w.txScore \in Nat, w.repayScore \in Nat,
         w.vcScore <= 100, w.txScore <= 100, w.repayScore <= 100,
         w.weights[1] \in Nat, w.weights[2] \in Nat, w.weights[3] \in Nat,
         w.weights[1] + w.weights[2] + w.weights[3] = 100
  PROVE  /\ CompositeConstraint(w) /\ ScoreConstraint(w)
         /\ w.score \in MIN_SCORE..MAX_SCORE
         /\ w.score = 300 + (w.composite * 550) \div 100
<1>1. PICK sum : sum = w.vcScore * w.weights[1] + w.txScore * w.weights[2]
                       + w.repayScore * w.weights[3]
  OBVIOUS
<1>2. StagesInRange(sum)
  <2>1. StagesInRange(WeightedSum(w.vcScore, w.txScore, w.repayScore,
                                  w.weights[1], w.weights[2], w.weights[3]))
    <3>1. /\ Percentage(w.vcScore) /\ Percentage(w.txScore) /\ Percentage(w.repayScore)
          /\ Weights(w.weights[1], w.weights[2], w.weights[3])
      BY DEF Percentage, Weights
    <3> QED BY <3>1, StagesPass
  <2> QED BY <1>1, <2>1 DEF WeightedSum
<1>3. /\ InRange(sum - (sum \div 100) * 100, 128) /\ InRange(sum \div 100, 128)
      /\ InRange((sum \div 100) * 550 - ((300 + ((sum \div 100) * 550) \div 100) - 300) * 100, 128)
      /\ 300 + ((sum \div 100) * 550) \div 100 \in MIN_SCORE..MAX_SCORE
  BY <1>2 DEF StagesInRange
<1>4. /\ w.composite = sum \div 100
      /\ w.score = AtLeast(300, AtMost(850, 300 + (w.composite * 550) \div 100))
  BY <1>1, WitnessTotal
<1>5. /\ w.score = 300 + (w.composite * 550) \div 100
      /\ w.score \in MIN_SCORE..MAX_SCORE
  <2>1. \A z \in MIN_SCORE..MAX_SCORE : AtLeast(300, AtMost(850, z)) = z
    BY DEF MIN_SCORE, MAX_SCORE, AtMost, AtLeast
  <2> QED BY <1>3, <1>4, <2>1
<1>6. CompositeConstraint(w)
  BY <1>1, <1>3, <1>4 DEF CompositeConstraint
<1>7. ScoreConstraint(w)
  <2>1. InRange(w.composite * 550 - (w.score - 300) * 100, 128)
    BY <1>3, <1>4, <1>5
  <2>2. InRange(w.score, 1024)
    BY <1>5 DEF InRange, MIN_SCORE, MAX_SCORE
  <2> QED BY <2>1, <2>2 DEF ScoreConstraint
<1> QED BY <1>5, <1>6, <1>7

\* The witness of a statement satisfies every constraint but the ranges of the
\* two quotients, the halving of the repayment scores and the threshold.
LEMMA WitnessPasses ==
  ASSUME NEW s \in Statement, NEW w, w = Witness(ProverArguments(s)),
         FitsU64(AsF64(s.volume)), FitsU64(AsF64(s.repaid))
  PROVE  /\ VcConstraint(w) /\ CounterpartiesConstraint(w) /\ TxConstraint(w)
         /\ RateConstraint(w) /\ CompositeConstraint(w) /\ ScoreConstraint(w)
         /\ VolumeConstraint(w) <=> FitsU32(AsF64(s.volume))
         /\ RepaidConstraint(w) <=> FitsU32(AsF64(s.repaid))
         /\ RepayConstraint(w) <=> (w.rateScore + w.repaidScore) % 2 = 0
         /\ w.score \in MIN_SCORE..MAX_SCORE
         /\ w.score = 300 + (w.composite * 550) \div 100
<1>1. /\ s.vcCount \in Nat /\ s.counterparties \in Nat
      /\ AsF64(s.volume) \in Int /\ AsF64(s.repaid) \in Int
      /\ s.onTime \in Nat /\ s.total \in Nat
      /\ s.onTime <= s.total /\ s.total < U32_BOUND
      /\ s.weights \in Nat \X Nat \X Nat
      /\ s.weights[1] + s.weights[2] + s.weights[3] = 100
  BY StatementAssumption, Rounded
<1>2. /\ w.vcPoints = AtMost(100, s.vcCount * 20)
      /\ w.counterparties = s.counterparties /\ w.onTime = s.onTime /\ w.total = s.total
      /\ w.weights = s.weights
      /\ w.volume = AsU64(AsF64(s.volume)) /\ w.qVolume = Units(AsF64(s.volume))
      /\ w.repaid = AsU64(AsF64(s.repaid)) /\ w.qRepaid = Units(AsF64(s.repaid))
  BY WitnessInputs, StatementArguments
<1>3. w.vcScore \in 0..100 /\ VcConstraint(w)
  <2>1. \A n \in Nat : AtMost(100, n) \in Nat
    BY DEF AtMost
  <2>2. w.vcPoints \in Nat
    BY <1>1, <1>2, <2>1, s.vcCount * 20 \in Nat
  <2>3. w.vcScore = AtMost(100, w.vcPoints)
    BY WitnessTx
  <2>4. w.vcScore \in 0..100 /\ OneOf(w.vcScore, w.vcPoints, 100)
    BY <2>2, <2>3, CappedPasses
  <2>5. InRange(w.vcScore, 128)
    BY <2>4 DEF InRange
  <2> QED BY <2>4, <2>5 DEF VcConstraint
<1>4. /\ w.qVolume \in Nat
      /\ FitsU32(AsF64(s.volume)) <=> InRange(w.volume - w.qVolume * VOLUME_UNIT, VOLUME_BOUND)
  BY <1>1, <1>2, AmountPasses
<1>5. w.volumeScore \in 0..80 /\ (VolumeConstraint(w) <=> FitsU32(AsF64(s.volume)))
  <2>1. w.volumeScore = AtMost(80, w.qVolume)
    BY WitnessTx
  <2>2. w.volumeScore \in 0..80 /\ OneOf(w.volumeScore, w.qVolume, 80)
    BY <1>4, <2>1, CappedPasses
  <2>3. InRange(w.volumeScore, 128)
    BY <2>2 DEF InRange
  <2> QED BY <1>4, <2>2, <2>3 DEF VolumeConstraint
<1>6. w.bonus \in 0..20 /\ CounterpartiesConstraint(w)
  <2>1. w.qCp = w.counterparties \div 5 /\ w.bonus = AtMost(20, w.qCp)
    BY WitnessTx
  <2>2. \A n \in Nat : n \div 5 \in Nat /\ InRange(n - (n \div 5) * 5, 8)
    BY DEF InRange
  <2>3. w.qCp \in Nat /\ InRange(w.counterparties - w.qCp * 5, 8)
    BY <1>1, <1>2, <2>1, <2>2
  <2>4. w.bonus \in 0..20 /\ OneOf(w.bonus, w.qCp, 20)
    BY <2>1, <2>3, CappedPasses
  <2>5. InRange(w.bonus, 32)
    BY <2>4 DEF InRange
  <2> QED BY <2>3, <2>4, <2>5 DEF CounterpartiesConstraint
<1>7. w.txScore \in 0..100 /\ TxConstraint(w)
  <2>1. w.txScore = AtMost(100, w.volumeScore + w.bonus)
    BY WitnessTx
  <2>2. w.volumeScore + w.bonus \in Nat
    BY <1>5, <1>6
  <2>3. w.txScore \in 0..100 /\ OneOf(w.txScore, w.volumeScore + w.bonus, 100)
    BY <2>1, <2>2, CappedPasses
  <2>4. InRange(w.txScore, 128)
    BY <2>3 DEF InRange
  <2> QED BY <2>3, <2>4 DEF TxConstraint
<1>8. w.rateScore \in 0..100 /\ RateConstraint(w)
  <2>1. w.rateScore = RepaymentRate(w.onTime, w.total) \div 100
    BY WitnessRepay
  <2>2. w.onTime \in Nat /\ w.total \in Nat /\ w.onTime <= w.total /\ w.total < U32_BOUND
    BY <1>1, <1>2
  <2>3. /\ w.rateScore \in 0..100
        /\ InRange(w.onTime * 100 - w.rateScore * w.total, U32_BOUND)
        /\ InRange(w.total - (w.onTime * 100 - w.rateScore * w.total), U32_BOUND)
    BY <2>1, <2>2, RatePasses
  <2>4. InRange(w.rateScore, 128)
    BY <2>3 DEF InRange
  <2> QED BY <2>3, <2>4 DEF RateConstraint
<1>9. /\ w.qRepaid \in Nat
      /\ FitsU32(AsF64(s.repaid)) <=> InRange(w.repaid - w.qRepaid * VOLUME_UNIT, VOLUME_BOUND)
  BY <1>1, <1>2, AmountPasses
<1>10. w.repaidScore \in 0..100 /\ (RepaidConstraint(w) <=> FitsU32(AsF64(s.repaid)))
  <2>1. w.repaidScore = AtMost(100, w.qRepaid)
    BY WitnessRepay
  <2>2. w.repaidScore \in 0..100 /\ OneOf(w.repaidScore, w.qRepaid, 100)
    BY <1>9, <2>1, CappedPasses
  <2>3. InRange(w.repaidScore, 128)
    BY <2>2 DEF InRange
  <2> QED BY <1>9, <2>2, <2>3 DEF RepaidConstraint
<1>11. w.repayScore \in 0..100 /\ (RepayConstraint(w) <=> (w.rateScore + w.repaidScore) % 2 = 0)
  <2>1. w.repayScore = (w.rateScore + w.repaidScore) \div 2
    BY WitnessRepay
  <2>2. \A m \in 0..100, n \in 0..100 :
          /\ (m + n) \div 2 \in 0..100
          /\ ((m + n) \div 2) * 2 = m + n <=> (m + n) % 2 = 0
    OBVIOUS
  <2>3. PICK m \in 0..100, n \in 0..100 : m = w.rateScore /\ n = w.repaidScore
    BY <1>8, <1>10
  <2>4. w.repayScore = (m + n) \div 2
    BY <2>1, <2>3
  <2>5. w.repayScore \in 0..100
    BY <2>2, <2>4
  <2>6. w.repayScore * 2 = m + n <=> (m + n) % 2 = 0
    BY <2>2, <2>4
  <2> QED BY <2>3, <2>5, <2>6 DEF RepayConstraint
<1>12. /\ CompositeConstraint(w) /\ ScoreConstraint(w)
       /\ w.score \in MIN_SCORE..MAX_SCORE
       /\ w.score = 300 + (w.composite * 550) \div 100
  <2>1. /\ w.vcScore \in Nat /\ w.txScore \in Nat /\ w.repayScore \in Nat
        /\ w.vcScore <= 100 /\ w.txScore <= 100 /\ w.repayScore <= 100
    BY <1>3, <1>7, <1>11
  <2>2. /\ w.weights[1] \in Nat /\ w.weights[2] \in Nat /\ w.weights[3] \in Nat
        /\ w.weights[1] + w.weights[2] + w.weights[3] = 100
    BY <1>1, <1>2
  <2> QED BY <2>1, <2>2, TotalPasses
<1> QED BY <1>3, <1>5, <1>6, <1>7, <1>8, <1>10, <1>11, <1>12

\* With quotients of 32 bits the witness's score is the oracle's.
LEMMA WitnessScore ==
  ASSUME NEW r \in Request,
         FitsU64(AsF64(r.statement.volume)), FitsU64(AsF64(r.statement.repaid)),
         FitsU32(AsF64(r.statement.volume)), FitsU32(AsF64(r.statement.repaid))
  PROVE  RequestWitness(r).score = PureScore(r)
<1> DEFINE s == r.statement
           w == RequestWitness(r)
           a == ProverArguments(s)
           tx == [volume |-> s.volume, counterparties |-> s.counterparties]
           rep == [onTime |-> s.onTime, total |-> s.total, repaid |-> s.repaid]
           raw == 300 + (w.composite * 550) \div 100
<1>1. s \in Statement
  BY DEF Request
<1>2. /\ s.vcCount \in Nat
      /\ AsF64(s.volume) \in Int /\ AsF64(s.repaid) \in Int
      /\ VolumePoints(AsF64(s.volume), 80) = VolumePoints(s.volume, 80)
      /\ VolumePoints(AsF64(s.repaid), 100) = VolumePoints(s.repaid, 100)
  BY <1>1, StatementAssumption, Rounded, RoundingKeepsPoints
<1>3. /\ a.vcPoints = AtMost(100, s.vcCount * 20) /\ a.volume = AsF64(s.volume)
      /\ a.counterparties = s.counterparties /\ a.onTime = s.onTime /\ a.total = s.total
      /\ a.repaid = AsF64(s.repaid) /\ a.weights = s.weights
  BY StatementArguments
<1>4. w = Witness(a)
  BY DEF RequestWitness
<1>5. w.score = raw /\ raw \in MIN_SCORE..MAX_SCORE
  BY <1>1, <1>4, WitnessPasses
<1>6. /\ AtMost(80, Units(AsF64(s.volume))) = VolumePoints(s.volume, 80)
      /\ AtMost(100, Units(AsF64(s.repaid))) = VolumePoints(s.repaid, 100)
  <2>1. /\ Units(AsF64(s.volume)) = AtLeast(0, AsF64(s.volume) \div VOLUME_UNIT)
        /\ Units(AsF64(s.repaid)) = AtLeast(0, AsF64(s.repaid) \div VOLUME_UNIT)
    BY <1>2, AmountPasses
  <2> QED BY <1>2, <2>1 DEF VolumePoints
<1>7. PureScore(r) = ComputeScorePure(s.vcCount * 20, tx, rep, s.weights)
  BY DEF PureScore
<1> HIDE DEF s, w, a, raw
<1>8. w.vcScore = AtMost(100, s.vcCount * 20)
  <2>1. w.vcScore = AtMost(100, AtMost(100, s.vcCount * 20))
    BY <1>3, <1>4, WitnessInputs, WitnessTx
  <2>2. \A n \in Nat : AtMost(100, AtMost(100, n)) = AtMost(100, n)
    BY DEF AtMost
  <2>3. s.vcCount * 20 \in Nat
    BY <1>2
  <2> QED BY <2>1, <2>2, <2>3
<1>9. w.txScore = TxScore(tx)
  <2>1. w.txScore = AtMost(100, AtMost(80, Units(AsF64(s.volume))) + AtMost(20, s.counterparties \div 5))
    BY <1>3, <1>4, WitnessInputs, WitnessTx
  <2> QED BY <1>6, <2>1 DEF TxScore
<1>10. w.repayScore = RepayScore(rep)
  <2>1. w.repayScore = (RepaymentRate(s.onTime, s.total) \div 100
                        + AtMost(100, Units(AsF64(s.repaid)))) \div 2
    BY <1>3, <1>4, WitnessInputs, WitnessRepay
  <2> QED BY <1>6, <2>1 DEF RepayScore
<1>11. w.composite = (w.vcScore * s.weights[1] + w.txScore * s.weights[2]
                      + w.repayScore * s.weights[3]) \div 100
  BY <1>3, <1>4, WitnessInputs, WitnessTotal
<1>12. raw = RawScore(s.vcCount * 20, tx, rep, s.weights)
  BY <1>8, <1>9, <1>10, <1>11 DEF RawScore, raw, MIN_SCORE
<1>13. \A z \in MIN_SCORE..MAX_SCORE : AtLeast(MIN_SCORE, AtMost(MAX_SCORE, z)) = z
  BY DEF MIN_SCORE, MAX_SCORE, AtMost, AtLeast
<1>14. PureScore(r) = raw
  BY <1>5, <1>7, <1>12, <1>13 DEF ComputeScorePure
<1> QED BY <1>5, <1>14 DEF w

\* A proof of a request verifies exactly when the oracle's formula gives a
\* score above the threshold and nothing in the way of it is lost.
LEMMA ProvableExactlyHolds == Inv => ProvableExactly
<1> SUFFICES ASSUME Inv, NEW r \in requests,
                    FitsU64(AsF64(r.statement.volume)), FitsU64(AsF64(r.statement.repaid))
             PROVE  VerifyProof(ProofOf(r), FieldsOf(r)) <=>
                      /\ PureScore(r) > r.threshold
                      /\ FitsU32(AsF64(r.statement.volume)) /\ FitsU32(AsF64(r.statement.repaid))
                      /\ (RequestWitness(r).rateScore + RequestWitness(r).repaidScore) % 2 = 0
  BY DEF ProvableExactly
<1> DEFINE w == RequestWitness(r)
           t == r.threshold
<1>1. r \in Request /\ r.statement \in Statement
  BY DEF Inv, Request
<1>2. t \in Int /\ t >= 0
  <2>1. t \in U32 /\ BYTE * BYTE \in Nat
    BY <1>1, WidthAssumption, FieldAssumption DEF Request
  <2> QED BY <2>1 DEF U32
<1>3. VerifyProof(ProofOf(r), FieldsOf(r)) <=> Satisfied(w, t, Commit(w))
  BY DEF VerifyProof, ProofOf
<1>4. w = Witness(ProverArguments(r.statement))
  BY DEF RequestWitness
<1> HIDE DEF w, t
<1>5. /\ VcConstraint(w) /\ CounterpartiesConstraint(w) /\ TxConstraint(w)
      /\ RateConstraint(w) /\ CompositeConstraint(w) /\ ScoreConstraint(w)
      /\ VolumeConstraint(w) <=> FitsU32(AsF64(r.statement.volume))
      /\ RepaidConstraint(w) <=> FitsU32(AsF64(r.statement.repaid))
      /\ RepayConstraint(w) <=> (w.rateScore + w.repaidScore) % 2 = 0
      /\ w.score \in MIN_SCORE..MAX_SCORE
  BY <1>1, <1>4, WitnessPasses
<1>6. GreaterThan(w.score, t) <=> w.score > t
  <2>1. PICK n \in 300..850 : n = w.score
    BY <1>5 DEF MIN_SCORE, MAX_SCORE
  <2>2. U32_BOUND \in Nat /\ U32_BOUND >= 1024
    BY BoundAssumption
  <2>3. InRange(n - t - 1, U32_BOUND) <=> n > t
    BY <1>2, <2>2 DEF InRange
  <2> QED BY <2>1, <2>3 DEF GreaterThan
<1>7. Satisfied(w, t, Commit(w)) <=>
        /\ w.score > t
        /\ FitsU32(AsF64(r.statement.volume)) /\ FitsU32(AsF64(r.statement.repaid))
        /\ (w.rateScore + w.repaidScore) % 2 = 0
  BY <1>5, <1>6 DEF Satisfied
<1>8. FitsU32(AsF64(r.statement.volume)) /\ FitsU32(AsF64(r.statement.repaid)) => w.score = PureScore(r)
  BY <1>1, WitnessScore DEF w
<1> QED BY <1>3, <1>7, <1>8 DEF w, t

\* generate_constraints against compute_score_pure, for every record of the
\* oracle with amounts of 64 bits, rounded to an f64 of any precision: a proof
\* verifies exactly when the oracle's score exceeds the threshold, the repayment
\* scores add up to an even number and the quotients of both rounded amounts fit
\* 32 bits.
THEOREM CircuitMatchesOracle == Spec => []ProvableExactly
BY Invariance, ProvableExactlyHolds, PTL

=============================================================================
