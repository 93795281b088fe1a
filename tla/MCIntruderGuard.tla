-------------------------- MODULE MCIntruderGuard --------------------------
(* Small instances of IntruderGuard. *)
EXTENDS IntruderGuard

\* All there is; neither face model nor siren; no relay.
Full == [worker |-> TRUE, model |-> TRUE, player |-> TRUE]
Legacy == [Full EXCEPT !.model = FALSE, !.player = FALSE]
Offline == [Full EXCEPT !.worker = FALSE]
GuardConfigs == {Full, Legacy, Offline}
=============================================================================
