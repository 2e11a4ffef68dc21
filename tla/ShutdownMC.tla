----------------------------- MODULE ShutdownMC -----------------------------
(***************************************************************************)
(* A small instance of Shutdown: one midnight, with the job it starts, and *)
(* a request of each kind.                                                 *)
(***************************************************************************)
EXTENDS Shutdown, FraudServiceMC
=============================================================================
