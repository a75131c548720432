------------------------- MODULE ScoreRangeVerifier -------------------------
(***************************************************************************)
(* contracts/score-range-verifier: the on-chain check of a Groth16 proof,  *)
(* and its protection against replay.                                      *)
(*                                                                         *)
(* A proof is a record: the shape of its bytes ("full", "short",           *)
(* "malformed"), the public fields it was made for, and whether the        *)
(* witness satisfied the circuit.  The pairing check is external.          *)
(***************************************************************************)
EXTENDS FieldElements, Sequences

CONSTANTS
  Address,       \* accounts and contracts
  VkHash,        \* hashes passed to initialize
  Version,       \* circuit versions passed to initialize
  None,
  MaxApprovals   \* bound: calls of verify_and_consume that return true

VARIABLES
  verifierAdmin,   \* Admin
  vkHash,          \* VkHash
  circuitVersion,  \* CircuitVersion
  consumed,        \* the hashes h with a ConsumedProof(h) entry
  approvals        \* history: the calls of verify_and_consume that returned true

verifierVars == <<verifierAdmin, vkHash, circuitVersion, consumed, approvals>>

CIRCUIT_VERSION == 1

\* u32_to_field: least significant byte first, in the first bytes of the buffer.
U32ToField(value) ==
  ((value % BYTE) * BYTE + value \div BYTE) * (BYTE * BYTE * BYTE)

\* address_to_field: the hash of the address's XDR as a contract value, which
\* is not the XDR of the bare address.  Hashes are taken to be injective, also
\* when they are reduced.
AddressToField(address) == <<"ScVal", address>>

\* public_inputs_to_fields and the conversion to scalars in
\* compute_public_inputs_combined.  The commitment and the domain are the
\* caller's bytes, of which several strings are the same element.
PublicInputsToFields(inputs) ==
  <<FrFromBytes(U32ToField(inputs.threshold)), AddressToField(inputs.subject),
    AddressToField(inputs.oracle), FrFromBytes(inputs.commitment),
    FrFromBytes(U32ToField(inputs.snapshot)), FrFromBytes(inputs.domain)>>

\* Mutant: only the commitment, which fixes the score, is compared.
Groth16Verify_CommitmentOnly(proof, inputs) ==
  /\ proof.shape = "full" /\ proof.satisfied
  /\ proof.fields[4] = PublicInputsToFields(inputs)[4]

\* groth16_verify: the pairing equation holds for the fields the proof was
\* made for, when the witness satisfied the circuit.
Groth16Verify(proof, inputs) ==
  /\ proof.shape = "full"
  /\ proof.satisfied
  /\ proof.fields = PublicInputsToFields(inputs)

\* Mutant: the hash includes who consumes the proof.
Digest_PerConsumer(consumer, proof, inputs, nonce) == <<proof, inputs, nonce, consumer>>

\* The preimage of the replay hash, of the inputs as they are passed; sha256 is
\* taken to be injective.
Digest(consumer, proof, inputs, nonce) == <<proof, inputs, nonce>>

-----------------------------------------------------------------------------
VerifierInit ==
  /\ verifierAdmin = None
  /\ vkHash = None
  /\ circuitVersion = None
  /\ consumed = {}
  /\ approvals = <<>>

Initialize(admin, hash, version) ==
  /\ verifierAdmin = None
  /\ verifierAdmin' = admin
  /\ vkHash' = hash
  /\ circuitVersion' = version
  /\ UNCHANGED <<consumed, approvals>>

\* verify_score_range, a query.
VerifyScoreRange(proof, inputs) ==
  /\ verifierAdmin # None
  /\ circuitVersion = CIRCUIT_VERSION
  /\ Groth16Verify(proof, inputs)

\* The proof, which verify_and_consume sizes up before it looks for a replay,
\* is accepted.
Acceptable(consumer, proof, inputs, nonce) ==
  /\ verifierAdmin # None
  /\ proof.shape # "short"
  /\ Digest(consumer, proof, inputs, nonce) \notin consumed
  /\ Groth16Verify(proof, inputs)

\* verify_and_consume that returns true.
VerifyAndConsume(consumer, proof, inputs, nonce) ==
  /\ Len(approvals) < MaxApprovals
  /\ Acceptable(consumer, proof, inputs, nonce)
  /\ consumed' = consumed \cup {Digest(consumer, proof, inputs, nonce)}
  /\ approvals' = Append(approvals, [consumer |-> consumer, proof |-> proof,
                                     inputs |-> inputs, nonce |-> nonce])
  /\ UNCHANGED <<verifierAdmin, vkHash, circuitVersion>>

\* verify_and_consume that returns false or an error, or dies in the host on
\* points that are not on the curve: nothing is recorded.
RefuseProof(consumer, proof, inputs, nonce) ==
  /\ ~ Acceptable(consumer, proof, inputs, nonce)
  /\ UNCHANGED verifierVars

-----------------------------------------------------------------------------
\* The hash in verify_and_consume: the same proof, inputs and nonce are
\* approved once, whoever submits them and however often.  The inputs are
\* compared as bytes: the same field elements in other bytes are approved again.
AcceptedOnce ==
  \A i, j \in DOMAIN approvals :
    /\ approvals[i].proof = approvals[j].proof
    /\ approvals[i].inputs = approvals[j].inputs
    /\ approvals[i].nonce = approvals[j].nonce
    => i = j
=============================================================================
