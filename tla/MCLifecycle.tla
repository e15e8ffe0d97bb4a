---------------------------- MODULE MCLifecycle ----------------------------
(* Lifecycle with both builds, failures and two signals. *)
EXTENDS Lifecycle
=============================================================================
