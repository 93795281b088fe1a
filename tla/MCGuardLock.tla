---------------------------- MODULE MCGuardLock ----------------------------
(* A small instance of GuardLock. *)
EXTENDS GuardLock

BothImpls == {"guardlock", "guard"}
=============================================================================
