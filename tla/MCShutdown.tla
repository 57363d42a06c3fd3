----------------------------- MODULE MCShutdown -----------------------------
(* A small instance of Shutdown for TLC. *)
EXTENDS Shutdown

=============================================================================
