----------------------------- MODULE MCThreads -----------------------------
(* Small instances of the synchronization programs for TLC. *)
EXTENDS Threads
=============================================================================
