-------------------------- MODULE MCRelaySnapshots --------------------------
(* One account whose devices upload, delete and poll. *)
EXTENDS RelaySnapshots, TLC
=============================================================================
