---------------------------- MODULE MCGovernance ----------------------------
(***************************************************************************)
(* Instances of Governance for model checking.                             *)
(***************************************************************************)
EXTENDS Governance, TLC

\* Two valid settings of the weights, and one below the minimum per component.
TwoWeights == {<<50, 20, 30>>, <<10, 10, 80>>, <<5, 35, 60>>}

\* One valid setting.
OneWeight == {<<50, 20, 30>>}

Symmetry == Permutations(Voter)
=============================================================================
