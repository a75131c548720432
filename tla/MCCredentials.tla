--------------------------- MODULE MCCredentials ---------------------------
(***************************************************************************)
(* Instances of CredentialProtocol for TLC.                                *)
(***************************************************************************)
EXTENDS CredentialProtocol, TLC

CONSTANTS i1, h1, h2

\* No legacy records: a fresh deployment.
FreshAnchors == [s \in Subject |-> <<>>]

\* Every subject comes from the older version with one revoked and one active
\* record.
UpgradedAnchors ==
  [s \in Subject |-> << [hash |-> h1, issuer |-> i1, revoked |-> TRUE],
                        [hash |-> h2, issuer |-> i1, revoked |-> FALSE] >>]

\* Hashes, issuers and subjects are interchangeable where no legacy record
\* names them.
Symmetry == Permutations(Hash) \cup Permutations(Issuer) \cup Permutations(Subject)

=============================================================================
