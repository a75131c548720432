------------------------------ MODULE MCFeeder ------------------------------
(***************************************************************************)
(* Instances of Feeder for TLC.                                            *)
(***************************************************************************)
EXTENDS Feeder, TLC

CONSTANT s1

OneSubject == <<s1>>

\* A credential is anchored and revoked.
AnchorRevoke == 0 :> 0 @@ 1 :> 1 @@ 2 :> 0

\* One payment.
OnePayment == 0 :> 0 @@ 1 :> 5

=============================================================================
