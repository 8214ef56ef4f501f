-------------------------- MODULE MCSessionHistory --------------------------
(* Instances of the session history; see the configurations. *)
EXTENDS SessionHistory
=============================================================================
