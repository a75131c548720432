# A formal model of stellar-did-credit

TLA+ specifications of stellar-did-credit: its Soroban contracts, the feeder that
supplies them with data, and the zero-knowledge proof of a score from the
circuit to the contract that verifies it. They are checked with TLC on small
instances and, where it matters, proved with TLAPS for every value of the
constants. `PROJECT.json` maps each definition to the lines it models and
lists the runs, the mutants, the hazards and the theorems.

## 1. The system

Contracts (`contracts/*/src/lib.rs`). A transaction is atomic: an error or a
panic anywhere in it, in a called contract too, undoes all of it, and the host
refuses to re-enter a contract that is on the call stack. Calls from different
parties come in any order. So *one action is one whole entry point*, with the
calls it makes into other contracts inside it, and the concurrency is the
interleaving of transactions. The feeder is an asynchronous program: *one action
runs from one `await` to the next*, and what happens between two of them (another
feed, a change at the source, a crash) is up to the interleaving.

| Part | State | Operations | Interacts with |
|---|---|---|---|
| identity oracle | trusted issuers and their index and tiers, DID documents, credential records per subject, cached count of active credentials, deactivation, last state change, statistics, admin, pause | initialize, (de)register_issuer, set_issuer_tier, anchor_did, anchor_vc(_typed), mark_vc_revoked, deactivate_did, (de/re)activate_identity, get_active_vc_count (seeds the cache), set_revocation_registry, pause, admin transfer | asks the registry is_revoked; links it with set_identity_oracle |
| revocation registry | status, owner and per-issuer list of revoked hashes, batch limit, link to the oracle, admin, pause | initialize, revoke, batch_revoke, set_batch_limit, set_identity_oracle, pause, admin transfer | revoke calls the oracle's mark_vc_revoked |
| credit oracle | scoring weights, pending weights and their timelock, admin, GovernanceId, pause; feeders, lenders and their indexes; per subject statistics, repayments in one of two layouts, credentials, disputes, score | initialize, propose/apply_weights, pause, admin transfer; settings, (de)register feeder and lender, update_tx_stats, set_vc_count, anchor_vc, record_repayment, migrate, flag_score_input, resolve_dispute, compute_score | reads the identity oracle while scoring; its admin is the governance contract |
| governance | voters and their weights and total, quorum (absolute or a percentage), proposals, weight used per proposal and voter | initialize, set_quorum(_percent), register/update/deregister voter, create_proposal, vote, execute, cancel, cleanup, apply_weights, accept_oracle_admin | execute calls the credit oracle's propose_weights |
| score-range verifier | admin, hash of the verifying key, circuit version, consumed proof digests | initialize, verify_score_range, verify_and_consume | given proofs by consumers, through the SDK or not |
| feeder (`packages/feeder`) | sync state per subject, event cursors, known credentials, failure counts, dead letters; nothing survives a restart | polling cycle, event loop, submission with retry and confirmation, shutdown | calls the credit oracle, reads the identity oracle, Horizon and events |
| circuit (`zk/circuit`), prover (`packages/zk-wasm`) | none | the constraints a score must satisfy; the witness and the proof computed from the oracle's inputs | called by the SDK; the verifier checks what they make |
| SDK, CLI, issuer example | none between calls | build, simulate, submit and poll a transaction; generateScoreProof, verifyScoreProof | call the contracts and the prover |

What is hard, and what makes each part right:

* *Credentials.* Two contracts each keep a part of a credential's status, and a
  third value, the cached count, is maintained by deltas from six entry points
  and seeded lazily for subjects of an older version. Either contract may be
  linked to another one, or linked on one side only. Correct means: no duplicate
  records, the count bounded by (and without registry revocations equal to) the
  records, no step above the cap but a relink, the registry's entries
  consistent, revocation permanent in its registry, statistics exact, changes
  stamped.
* *Governance.* Voters, proposers, the admin and anyone who executes act
  independently at the boundaries of two waiting periods, while weights change.
  Correct means: no weight counted twice, only won proposals executed, settled
  proposals final, and no way to the oracle's weights but an executed proposal;
  and votes that have passed take effect.
* *Scoring.* A score is computed in one ledger from inputs that feeders,
  lenders and another contract write, is kept, and is read later; computations
  that change nothing write nothing. Correct means: a score reported as fresh
  covers the identity as it is now, no repayment is lost or counted twice
  through saturation and the migration of its layout, the formula stays in its
  range, and time alone never raises a score.
* *Feeder.* Two loops work on one sync state, an event cursor skips what a page
  did not hold, a transaction may be applied although nobody saw its answer, and
  the process may die between two transactions. Correct means: once the sources
  are quiet the oracle comes to hold their values, and nothing old overwrites
  anything newer.
* *Score proofs.* The same formula exists three times: in the contract, in the
  prover and, with divisions restated as products and ranges, in the circuit;
  public inputs are encoded twice, by the prover's client and by the verifier.
  Correct means: what can be proved is what the contract would compute, what
  verifies is what was proved, and an approval happens once.

## 2. Modules

| Module | Models |
|---|---|
| `RevocationRegistry` | the registry on its own; an issuer's list is a bag, so that a duplicate would be seen |
| `IdentityOracle` | the identity oracle; EXTENDS the registry because it reads it. It may be linked to any of several registries, of which `RevocationRegistry` is one and `elsewhere` holds the others' answers; its index of issuers starts as an older version may have left it |
| `CredentialProtocol` | the two linked: `Revoke` (registry writes and mark_vc_revoked in one transaction), Init, Next, Spec and the properties |
| `IdentityView` | abstract: identity oracles as credit scoring may rely on them. Changes stamp the subject; without a stamp there is only `Lapse`, the loss of active credentials, and `Relink`, another registry, under which revoked credentials may be active again |
| `MCCredentials` | constants of the runs: records of an older version, symmetry |
| `OracleWeights` | the credit oracle's weights, timelock, pause and admin transfer |
| `Governance` | governance, composed with `OracleWeights` |
| `MCGovernance` | constants of the runs |
| `ScoreMath` | the pure functions of scoring: recency decay, component scores, the composite |
| `CreditOracle` | the credit oracle's settings, parties, inputs, migration, disputes and scores, on top of `OracleWeights`, `ScoreMath` and `IdentityView`; it may be pointed at any of several identity oracles, and back |
| `MCCredit` | constants of the runs |
| `FieldElements` | strings of bytes and the field elements they are reduced to |
| `ScoreCircuit` | the circuit's constraints as predicates over integers, its commitment, and the prover's witness, with the conversion of amounts to an f64; on top of `ScoreMath` and `FieldElements` |
| `ScoreRangeVerifier` | the verifier contract: the encoding of public inputs, verification, consumption |
| `ProofProtocol` | the two composed: requests of the SDK and of other clients, the proofs made from them, and submissions to the contract |
| `MCProofs` | constants of the run |
| `Feeder` | the feeder, with as much of the network, the oracles and Horizon as it touches |
| `MCFeeder` | constants of the runs |
| `CredentialProofs`, `CountProofs`, `ViewProofs`, `GovernanceProofs`, `CreditProofs`, `ProofProofs`, `FeederProofs` | theorems and their proofs |
| `SumTheorems` | the laws of sums over finite sets that the proofs about tallies, totals and points need |

`CredentialProtocol` implements `IdentityView` (`ImplementsView`) for its own
oracle: the mapping takes a subject's records to the set of its credentials and
its active records to the set of its active credentials; the other variables are
the same.
`CreditOracle` uses the view instead of the two contracts, so a run over scores
need not carry their whole state.

Definitions named `X_Something` next to an operation `X` are deliberately wrong
versions of it, used to show that a property notices the mistake.

Variables correspond to storage keys and are named after them; the comment at
each declaration gives the key. An absent entry is `None`, or the default the
code reads it with where the two cannot be told apart (weight 0, quorum 0, next
proposal 1). Abstractions:

* Hashes, addresses, CIDs and types are model values; strings that fail a syntax
  check are not called with.
* Admin calls are enabled when there is an admin and, where the admin could be
  the governance contract, only if that contract makes the call. Who signs a
  call is otherwise a parameter.
* Other registries are deployments of the same contract: what they have revoked
  stays revoked, and those that report to this oracle do so with its
  mark_vc_revoked in the same transaction (`RevokeElsewhere`). Nothing else of
  them is modelled, and nothing of other identity oracles a registry may be
  linked to, which write nothing this oracle reads. `set_identity_oracle` of the
  credit oracle stores only a contract that answers a probe; `IdOracle` are those
  that do.
* The older version's index of issuers was append-only and held each issuer
  once, trusted or as a tombstone (`LegacyIssuers`).
* Events, TTL extensions, `maintain_storage` and `upgrade` are left out.
  Archival of expired entries is therefore not modelled.
* The re-entrancy guard's flag is never set between transactions; its effect, a
  failed call, is modelled where a call would re-enter (`SeedAsks` in
  `MarkedBy`).
* `u32` ledger arithmetic keeps its width in `OracleWeights` and `Governance`
  (`MAX_U32`, scaled down): checked additions refuse, the saturating one
  saturates. `i128` tallies are unbounded; the runs stay far from their limit.
* The statistics' `u64` counters are unbounded.
* In `CreditOracle` the largest repayment counter (`MAX_COUNT`), the volume worth
  a point (`VOLUME_UNIT`), the age at which a score is stale and the cooldown's
  limit are scaled down; `LEDGER_SECONDS` is scaled up so that a few ledgers are
  enough to decay a credential. Other saturating operations act on values that a
  cap below them clamps again. A score's timestamp and previous_score and a
  dispute's reason and ledger are left out. Transfers of the admin role are in
  `Governance`.
* A repayment record in the layout the storage version does not announce fails
  to decode, and the call that reads it traps: `Readable` is a guard.
* In `ScoreCircuit` a field element is an integer: all values of the circuit but
  the commitment are far below the 255-bit modulus, and a range check on bits is
  a range of integers, which a negative difference fails as the wrapped field
  element does. The eight coefficients of the commitment, hashes of a fixed
  string, are eight numbers; the bounds 2^27, 2^32 and 2^64 are scaled with
  `VOLUME_UNIT`.
* Amounts reach the prover as an f64 (`AsF64`): exact up to `F64_BOUND`, 2^53
  scaled down, and beyond it rounded to the nearest multiple of the spacing of
  its binade, ties to even. `Spacings` bounds the binades an instance uses.
* A proof is a record of the fields it was made for and of whether its witness
  satisfied the circuit: Groth16 is taken to be sound and complete, and the
  prover's seeded keys to match the key embedded in the contract. A byte has
  `BYTE` values, a `u32` two bytes and a string that stands for a field element
  five, which is enough for the order of bytes to matter. The verifier reduces
  such a string modulo `FIELD`, so that up to three strings are one element;
  callers try all of them for the commitment and the domain (`Aliases`). The
  hashes of addresses are taken to be injective after the reduction as well.
  SHA-256 is injective, and the XDR of an address and of a contract value that
  holds it have different hashes.
* In `Feeder` a value of a source is known by its version, so that the same value
  at two times can be told apart; `VcValue` and `TxValue` say which versions have
  equal values, which is all the feeder compares. Statistics of an
  interrupted pagination are `Partial`; the zeros the code returns, as if they
  were complete, when the first page fails are `Empty`. A transaction in flight belongs
  to its feed, or to `ghosts` when no feed waits for it any more. All use the next
  sequence number of one account, so that one applied makes the others invalid.
  A transaction is valid for 30 seconds and waitForConfirmation waits longer: one
  it gives up on is dead, or was applied unseen. A transaction left behind may be
  applied however late, which covers its 30 seconds. Retries of reads collapse to the
  answer or the final failure; retries of a submission do not, as each may leave
  a transaction behind. `skipLegacyVcCount`, off by default, is taken as off.
* `lastCompute`, the ledger and the identity oracle of a subject's last
  computation, is a history variable of `CreditOracle`; the oracle is forgotten
  when it is relinked. `anchoredAt`, a field of
  a credential record, is kept there because only scoring reads it.

## 3. Runs

Bounds are constants named `Max...`, `...Inputs`, `...Steps` and the like in the
modules; values are in the `.cfg` files. Two runs also have a `CONSTRAINT` of
`MCCredit`, which keeps apart dimensions that do not influence each other:
`OneFed` lets one of two subjects have inputs other than repayments, and
`FewSettings` leaves the settings alone while two identity oracles or a registry
are in use. Neither run has a liveness property, whose check a constraint
could make empty.

| Run (cfg) | Instance | Shows |
|---|---|---|
| `issuers` (MCIssuers) | two issuers, one subject, two hashes, the cap on active records reached | every order of anchoring, marking, revoking, batch revoking, deactivating and linking keeps the records, the count, the index and the registry's entries related as stated |
| `upgraded` (MCUpgraded) | records left by a version without the count, an issuer that version's index holds, DID documents, a moving ledger, limits and tiers on and beyond their bounds | lazy seeding from every path is sound; an old issuer is in the index at most twice; every change of a subject is stamped; a paused registry is frozen, also through the oracle |
| `relinked` (MCRelinked) | two registries and two oracles, linked in any way and again, one issuer, two hashes, room for one active record | no step but a relink takes a subject above the cap (`ActiveCapRespected`); the contracts implement `IdentityView` |
| `voting` (MCVoting) | two voters with weights 0–2, one proposal, delays 0, 1 and one that saturates, both kinds of quorum | tallies equal what was charged; totals exact; execution rules; finality |
| `proposals` (MCProposals) | two proposals, two sets of weights and an invalid one, fairness as below | only executed proposals reach the oracle's weights, in every order of executing, overwriting, cancelling, cleaning up and applying; won proposals are executed or cancelled and queued weights applied or replaced |
| `handover` (MCHandover) | from uninitialised contracts, two accounts | transfers of the oracle's admin role; GovernanceId; what the handover makes irrevocable |
| `scoring` (MCScoring) | one subject, two identity oracles with two registries between them that change under the credit oracle and that it is turned to and from, three ledgers, cooldown, decay and type weights | a fresh score covers the identity oracle it was computed from; subjects are counted once; age never helps |
| `repayments` (MCRepayments) | two subjects, one with an old record, a lender and a feeder, counters that saturate at 2, inputs on and beyond the caps, weights changed through the timelock, disputes | no repayment lost or counted twice through every order of repayments and migrations; a repayment on time never lowers a score; the clamp never binds, up to the largest score and with saturated counters; the indexes are exact |
| `count_underflow` (MCUnderflow) | *violation* | a credential anchored after its hash was revoked makes mark_vc_revoked panic |
| `proving` (MCProving) | statements on and beyond every cap and remainder and with every amount around 2^53 and 2^32 units, three thresholds, proofs made by the SDK and by other clients, two consumers with two nonces, two requests of two statements, inputs in every spelling | which statements with amounts of 64 bits can be proved (`ProvableExactly`: the circuit and the prover's rounding against the contract's formula), which inputs a proof verifies for (`VerifiedExactly`), none consumed twice with the same bytes (`AcceptedOnce`) |
| `feeding` (MCFeeding) | one subject whose credential is anchored and revoked and who makes one payment, the polling loop and one feed started by an event, a page of one event with perhaps a foreign event ahead, one fault | the oracle comes to hold the current values (`Converges`), and no transaction overwrites a later observation (`OlderNeverOverwrites`) |
| `skipped` (MCSkipped) | *violation*; the polling loop alone, one fault | after a feed that stopped half-way, a source that returns to the recorded value is skipped as redundant although the oracle holds another one |

Met while modelling and not the subject of a run:

* `batch_revoke` does not call the identity oracle, so the cached count stays
  above the number of active credentials until the issuer marks them, and so
  does `get_active_vc_count`, which "Returns the number of non-revoked VCs"
  (`README.md:107`). What is still true of the count is `CountWithinUnrevoked`.
* The index of issuers is "Append-only" and "Entries are never removed on
  deregistration" according to the identity oracle's `lib.rs:144`,
  `CHANGELOG.md:66` and `docs/architecture.md:72`. `deregister_issuer` rebuilds it
  from the issuers still trusted (`lib.rs:618`). `IssuerIndexExact` states what
  the code does.
* There, `register_issuer` pushes an issuer whose flag is unset without a look at the
  index (`lib.rs:573`). One that an older version left as a tombstone is then in
  the index twice, passes the flag check of `list_issuers` twice, and is listed
  twice, although "the flag check also keeps this safe for legacy indexes"
  (`lib.rs:1250`). `IssuerIndexExact` allows it for such issuers only.
* `set_revocation_registry` may be called again. What the former registry had
  revoked is then active again, without a stamp, and beside credentials anchored
  in its place: more than the "Maximum number of active (non-revoked) VCs"
  (identity oracle `lib.rs:114`). `ActiveCapRespected` and `Relink` except this one step. The two
  setters do not keep links symmetric, and nothing here claims it.
* `register_issuer`, `deregister_issuer`, the deactivations and reactivation do
  not look at the identity oracle's pause.
* governance's `initialize` restarts the numbering of proposals, so a proposal
  made before it can be overwritten; statements about settled proposals start
  from `DeployedInit`.
* `execute` refuses a proposal that lost (governance `lib.rs:489`), so it is never
  marked; the comment at `lib.rs:455` says "Otherwise the proposal is marked
  executed without changing the weights", and `docs/governance.md:356` that it
  "still sets `executed = true`".
* A computation that changes nothing writes nothing (credit oracle `lib.rs:1235`),
  so computed_at_ledger is not the "Ledger sequence number when this score was
  last computed" (`lib.rs:263`), and a score just computed may read as stale
  although the flag is "Always `false` for a freshly computed score"
  (`lib.rs:270`).
* `get_score` compares computed_at_ledger strictly with the last change
  (`lib.rs:1334`): a change later in the same ledger goes unnoticed, as does a
  `batch_revoke` or a relink, which stamp nothing. The change is that of the
  identity oracle configured now: after `set_identity_oracle` a score computed
  from the former one reads as fresh whatever happens there. The comment at
  `lib.rs:1308` says that "a cached score never outlives" the identity.
  `FreshCoversActive` states what is true.
* `verify_and_consume` records its hash "so the same proof + nonce cannot be
  reused" (verifier `lib.rs:398`). The hash is of bytes and the pairing of field elements
  (`lib.rs:275`): a commitment or domain and the same one plus the field's order
  are approved one after the other under one nonce. `AcceptedOnce` is about the
  same bytes.
* A fetch that fails on its first page with an error that is not transient
  returns zeros with `partial: false` (feeder `index.ts:587`), which are written
  and recorded as complete also when `FEEDER_ALLOW_PARTIAL_STATS` is "false"
  (`index.ts:29`); the comment at `index.ts:449` says that such a failure
  "still throws". The next cycle puts it right (`Converges`).
* The verifier's `u32_to_field` puts the least significant byte first and the host
  reads the most significant byte first, so a threshold or a ledger other than 0
  does not reach the equation as the number the prover used. The contract hashes
  an address as a contract value, the SDK the bare address. The SDK sends a
  SHA-256 digest where the circuit has its own commitment. So no proof made by the
  SDK verifies; `VerifiedExactly` says precisely which ones do.
* Constraint 8 of the circuit leaves no remainder when it halves the sum of the two
  repayment scores: scores whose sum is odd cannot be proved. Quotients of volumes
  keep 32 bits in the prover and all in the contract.
* The oracle's volumes are `i128`, the circuit's `u64` and the prover's quotients
  `u32`. Beyond 2^64 both conversions wrap, and one that happens to wrap to a
  small remainder (2^64 units exactly, for one) satisfies the constraint with a
  quotient the contract does not have. `ProvableExactly` speaks of amounts that,
  rounded, fit 64 bits, and nothing is claimed of the others.
* Amounts pass through a JavaScript number and an f64 (SDK `index.ts:3143`,
  zk-wasm `lib.rs:34`). The rounding never changes a score, because whatever is
  rounded is far beyond the caps, but an amount just below 2^32 units is rounded up to
  them, its quotient wraps to 0, and there is no proof.
* `verify_and_consume` does not look at the circuit version, which
  `verify_score_range` requires, and the stored hash of the key is compared with
  nothing.
* `generateScoreProof` makes four separate reads; the model takes them as one.
* `STALE_LEDGER_AGE` is 86,400 ledgers, which its comment calls about 30 days; at
  five seconds a ledger it is five.

Why the bounds are enough: the relations concern one subject, one proposal or
one pair of parties at a time. Two issuers are needed for ownership of a hash,
two hashes for a batch that is partly refused, two
registries and two oracles for a relink and back, two records to reach the cap and
pass it, a batch one longer than the limit to be refused. In governance, two
voters are needed to split a tally, two proposals for one to overwrite the
other, and ledgers enough for a voting period, a delay and a timelock to run out
one after the other. In scoring, three ledgers hold a computation, a change, a
second computation that may skip its write, and a reading, and two identity
oracles a turn to another one and back; two subjects are needed for a migration
that names only one of them. For proofs, two requests are
needed for one's inputs to be submitted with the other's proof, and two approvals
for a replay, in the same bytes or in others. For the feeder, two feeds are enough to overlap and a value that
leaves and returns is enough to be mistaken for unchanged; events beyond the page
are lost as soon as two are due. What the runs show for these sizes the theorems of section
4 show for all, except where noted there.

*Fairness.* The contracts oblige nobody to call, so `Spec` and `DeployedSpec`
have none. `FairSpec` adds weak fairness to three things only: ledgers close
(the network does that by itself), and `execute` and `apply_weights` are called
when they can succeed, since both need no permission and anybody interested can
make the call. The admin, voters and proposers may stop at any time, cancel, or
replace what is queued. The feeder's `FairSpec` has weak fairness for the start
of the next poll (`setTimeout` fires), for each feed's progress (a request is
answered or fails: the code sets no timeout on a single request and leaves it to
the HTTP client, while waitForConfirmation has its own) and for the transaction a feed
waits for (the network applies it unless it is dropped). There is none for the
event loop, whose events may be missed, nor for transactions left behind, and
failures, shutdown and restart need never happen or may happen anywhere, up to
`MaxFaults`. Leads-to properties are restricted to what can become
due before `MaxLedger`.

`DeployedInit` is the state at the end of step 6 of the deployment sequence in
`docs/governance.md`. `Init` has both contracts uninitialised; `ProposalsSettle`
and `TallyMatchesUsed` do not hold from there, because `initialize` restarts the
numbering of proposals.

Deadlock is checked in every run but the feeder's two: a feeder that was shut down
stops.

## 4. Proofs

All by TLAPS, for every value of the constants that satisfies the named
assumptions (`RegistryAssumption`, `IdentityAssumption`, `OracleAssumption`,
`GovernanceAssumption`, `UnitAssumption`, `CreditAssumption`, `BoundAssumption`,
`FieldAssumption`, `WidthAssumption`, `StatementAssumption`, `FeederAssumption`:
finiteness where cardinalities are used, sorts of the inputs, `None` distinct
from real values, legacy records without duplicates and within the cap, old
repayment records with no more repayments on time than repayments). Three of
them the proofs made explicit, and the code has all three: the limit of the
cooldown is positive, since initialize sets a cooldown of one ledger and
set_compute_cooldown_ledgers refuses 0; a statement of a score proof is what the
oracle can hold (counters below 2^32, repayments on time among the repayments,
weights that add up to 100, as is_valid demands); and the range of a volume's
remainder, 2^27, lies between one unit and 2^32 units. `BoundAssumption` also has
2^53 beyond every cap and spacings that are powers of two, and `FieldAssumption`
that 2^256 is less than three times the field's order and that no string with a
number in its first bytes only is reduced to a small element.

*Sums* (`SumTheorems`). Totals, tallies and points are sums over a set, which the
community modules define by a recursive function on subsets. Induction over data
is beyond this prover, but it is not needed: that the function has the value its
definition promises, and each law (a sum of integers is an integer, it changes
by what one term changes by, it is monotone in its terms, a sum of zeros is
zero), is shown with a smallest counterexample. The strict subset ordering of a
finite set is well founded (a library theorem), so a set of subsets for which a
law fails would have a smallest member, and removing one element from it gives a
contradiction. That is a first-order argument, with one lemma each.

*Credentials* (`CredentialProofs`, `CountProofs`). `TypeOK` is inductive except
for one conjunct: that no count becomes negative follows from the check of the
subtraction, so it stands on its own. `RegistryConsistent` and `IssuerIndexExact`
are inductive together with it, the latter from any index an append-only version
may have left. The count needs more:
`CountWithinUnrevoked` is inductive only with `NoDuplicateAnchor` (one call of
mark_vc_revoked must set exactly one flag for one decrement) and exactness
without registry revocations needs both. The lemmas reduce every operation to
its effect on the *set* of unflagged positions of a record sequence (append adds
at most one, marking removes at most one, deactivation removes all) and then use
the cardinality facts of `FiniteSetTheorems`. `ActiveCapRespected` is an
action property: the answers of a registry only grow, so the active positions are
a subset of what they were after any step but an anchor, which checks the cap, and
a relink, which the property excepts.
`RevocationPermanent` is proved as an action property from the same context.
`StatsAccurate` counts over all subjects at once. The records of all subjects are
pairs of a subject and a position; a step replaces the pairs of one subject, the
effect of each operation on the two cardinalities is a lemma of its own
(`AppendStats`, `MarkStats`, `EmptyStats`), and `MarkedOne`, that a mark flags
exactly one record, is again where `NoDuplicateAnchor` is needed: with two records
of one credential the statistics would count one revocation for two flags.

*Governance* (`GovernanceProofs`). From `Init`: types, `PendingPaired`,
`GovernanceIdTracksAdmin`, and `HandoverIrrevocable`, whose strengthening is
that no transfer is pending once governance is the admin (accept_admin clears
it and governance never starts one). From `DeployedInit`: the context `Deployed`
(governance is in charge, ids from NextProposalId on are unused) is inductive;
from it, `ProposalSteps` classifies what any step makes of a proposal (nothing,
a vote while it is open and running, an execution, a cancellation), and
`ExecutedWon`, `ProposalsSettle` and `GovernedWeights` follow from that
classification. The saturating addition enters in `ExecutedWon`: if it saturates,
no ledger is late enough. `TypeOK` is inductive and holds from `Init` and from
`DeployedInit`. `TotalWeightExact` is inductive with it, once the sum is known to
change by what one voter's weight changes by. `TallyMatchesUsed` is not: a new
proposal starts without votes, so nobody may have been charged for its id before.
`TallyInv` adds that no voter is charged for an id not in use, which in turn
needs `Deployed`.

*The view* (`ViewProofs`). `ImplementsTheView` is a refinement: anchoring maps to
`Issue`, marking that sets a flag and anchor_did to `Touch`, deactivation and
reactivation to their namesakes, a closed ledger to `ViewTick`,
set_revocation_registry with another registry to `Relink`, and everything
else either to `Lapse` or to no step. The argument is that the answers of every
registry only ever grow (`AnswersGrow`), so that a step that appends no record and
leaves the link alone can only remove active credentials (`FlagsLose`). The same module has `ChangesStamped` and
`PausedRegistryFrozen`; the latter needs that a paused registry has an admin,
since otherwise it could still be initialised.

*Scoring* (`CreditProofs`). `FreshCoversActive` is not inductive, because a
setting or the age of a score decides what reads as fresh. `CoverInv` is: no
score is from the future, and a score whose subject has no stamp of its ledger or
a later one in the identity oracle the score was last computed from
(`lastCompute`) covers the identity there. A step of the view stamps the subject,
only takes credentials away, or relinks the oracle, which ends the claim; turning
to another oracle changes none of these, and turning back finds the claim as it
was; a computation that skips its write has just found the same count
(`IdentityKeepsCover` has the steps of the identity oracles). The repayment counters are sound
(`Sound`) through both layouts, which bounds the rate; with valid weights that
bounds the formula (`ScoreInRange`).

`TypeInv` is the context of the rest. It is `TypeOK` with three things that types
do not say: weights in force and weights queued are valid, counters are sound,
and a subject's own list of credentials is finite. From it `PotentialKnown` says
what the formula is applied to in every reachable state, the points included,
which the laws of sums show to be a natural number; so `ClampNeverBinds` needs no
assumption, and every stored score is typed as one from 300 to 850.
`SubjectsScoredExact` is inductive with `TypeInv`. `RepaymentsCounted` compares a
statistic with a sum over subjects of what each counter has counted since the
upgrade; a repayment adds one to the first and one to a single term of the second,
unless that counter is saturated, in which case the disjunct for saturation
holds from then on because no counter ever decreases.

Three action properties compare scores. `AgeNeverHelps`: a credential's points
never increase with the ledger (`PointsDecrease`), hence their sum does not, hence
no step of the formula does. `RepaymentHistoryKept`: its part about scores needs
`WeightsOwned` (an oracle that has weights has an admin, so `initialize`, which
sets the storage version too, cannot run again) and that a migrated record reads
as the old one did. `OnTimeNeverHurts` is about one more repayment in numerator and
denominator of a rate, in integer division, at saturation and in both layouts; in
the old layout it needs `OldUnpaid`, that such a record has no repaid amount.

*Score proofs* (`ProofProofs`). `ConsumedOnce`: every approval's hash is among the
consumed ones, which only grow, so an approval finds its own hash absent only
once; this is inductive together with the types of what is submitted.
`OnlyZerosVerify` needs no more than those types: `NumbersSurvive` shows that with
bytes and a field of any size a 32-bit number written in one order, read in the
other and reduced is at least 2^32 unless it is zero, and the six fields are then
compared one by one, commitment and domain as field elements.
`CircuitMatchesOracle` takes the circuit constraint by constraint. For each stage
of the formula a lemma says that the prover's witness satisfies the constraint,
or exactly when it does: a division restated as a product and a remainder in a
range holds for the true quotient alone (`Quotient`, `AmountPasses`,
`RatePasses`), a cap restated as a choice and a difference holds for the capped
value (`CappedPasses`). `StagesInRange` keeps every intermediate value in the range
that the next stage's range check covers. `Rounded` bounds the rounding to an
f64: an amount below 2^53 is unchanged, and one beyond stays beyond, so that the
points computed from it are the contract's (`RoundingKeepsPoints`). What is left
are the three conditions the property names: the parity of the repayment scores,
and the two quotients of the rounded amounts.

*The feeder* (`FeederProofs`). `NoOlderOverwrites` holds for any subjects, feeds,
values and failures. By itself it is about two states; its invariant relates three
kinds of observation: what a feed has read is no later than the source
(`Observed`) and, while its subject's feeds have not overlapped, no earlier than
what the oracle holds or what a transaction left behind could still bring
(`Latest`), and each of those is no earlier than what the oracle holds (`Pending`).
A read takes the newest value there is and so restores it; a transaction applied
clears all others, by the shared sequence number; a restart turns what feeds wait
for into transactions left behind, which satisfy the same bound. Overlapping feeds
are excluded by `Alone`, which the history variable keeps.

Only model-checked: liveness (`PassedExecuted`, `QueuedWeightsResolve`,
`Converges`), which is outside this prover. Every other property of a passing run
is a theorem. The two runs that expect a violation refute statements and have
nothing to prove.

## 5. Not modelled, and what is left

Not modelled: the SDK's other calls and the command line (one transaction each, no
state between calls); the issuer example; the proof system itself (setup, field
arithmetic, pairing, the bytes of the embedded key); how Horizon's pages add up to
statistics, and the rounding of sums above 2^53 in the feeder; the delays of its
backoff and its health endpoint, which only reports; `upgrade`, which replaces the
code, and `maintain_storage`; storage archival.

Left to prove: the weights and their timelock occur in `Governance`, where votes
decide about them, and in `CreditOracle`, where scores are computed with them; each
is proved about on its own, and no theorem yet joins the two (a score computed
after the handover uses weights that an executed proposal asked for). The three
liveness properties are beyond this prover.
