----------------------------- MODULE MCAttempt -----------------------------
(* Instances of Attempt.                                                   *)
EXTENDS Attempt

(* A provider on a workspace with a credential, then a second provider     *)
(* with a credential of its own, as in attempt-resource-lifecycle.test.ts. *)
TwoProviders == <<"workspace", "credential", "clients", "credential", "clients">>

OneProvider == <<"credential", "clients">>
=============================================================================
