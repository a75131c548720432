------------------------------ MODULE MCProofs ------------------------------
(***************************************************************************)
(* Instances of ProofProtocol for TLC.                                     *)
(***************************************************************************)
EXTENDS ProofProtocol, TLC

\* A statement with these statistics and repayments, and default weights.
Of(vcCount, volume, counterparties, onTime, total, repaid, computedAt) ==
  [vcCount |-> vcCount, volume |-> volume, counterparties |-> counterparties,
   onTime |-> onTime, total |-> total, repaid |-> repaid,
   weights |-> <<40, 30, 30>>, lastUpdated |-> 1, computedAt |-> computedAt,
   stale |-> 0, blinding |-> 9]

\* The same with these weights.
Weighted(statement, weights) == [statement EXCEPT !.weights = weights]

\* Statements on and beyond each cap and each remainder: nothing at all, odd
\* and even repayment scores, negative volumes, remainders of every division,
\* the largest quotient that fits and the first that does not; every amount around
\* 2^53, where the prover's f64 begins to round, and around 2^32 units.
EdgeStatements ==
  {Of(2, 12, 5, 0, 0, 0, 0), Of(0, 0, 0, 0, 0, 0, 0), Of(0, 0, 0, 0, 0, 0, 7),
   Of(1, 5, 9, 1, 3, 3, 0), Of(1, 5, 9, 1, 3, 0, 0),
   Of(2, -4, 4, 2, 3, 7, 0), Of(0, -4098, 0, 1, 1, 0, 0), Of(6, 400, 200, 3, 3, 500, 0),
   Of(5, 242, 104, 0, 2, 299, 0), Of(3, 239, 99, 1, 2, 301, 0),
   Of(0, 12276, 0, 1, 1, 12276, 0),
   Weighted(Of(4, 19, 33, 2, 3, 42, 0), <<10, 10, 80>>),
   Weighted(Of(4, 19, 33, 2, 3, 43, 0), <<34, 33, 33>>),
   Weighted(Of(5, 240, 100, 7, 7, 300, 0), <<33, 34, 33>>),
   Weighted(Of(3, 100, 101, 6, 7, 63, 0), <<80, 10, 10>>)}
  \cup {Of(0, v, 0, 0, 0, 0, 0) : v \in 2045..2055 \cup 12260..12295}
  \cup {Of(0, 0, 0, 1, 1, v, 0) : v \in 2045..2055 \cup 12260..12295}

\* Two statements that have proofs, with different commitments.
FewStatements == {Of(0, 0, 0, 0, 0, 0, 0), Of(2, 12, 5, 0, 0, 0, 0)}

Symmetry == Permutations(Address) \cup Permutations(Subject) \cup Permutations(Nonce)
=============================================================================
