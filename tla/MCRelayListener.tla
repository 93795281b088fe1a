-------------------------- MODULE MCRelayListener --------------------------
(* Small instances of RelayListener. *)
EXTENDS RelayListener

\* The command line with a gate; the same where the laptop rings second, and where only
\* the phone rings; and the desktop application.
Console == [gui |-> FALSE, route |-> "both", pin |-> TRUE, escalate |-> FALSE]
PhoneFirst == [Console EXCEPT !.route = "phone_then_laptop", !.escalate = TRUE, !.pin = FALSE]
PhoneOnly == [Console EXCEPT !.route = "phone"]
Desktop == [Console EXCEPT !.gui = TRUE, !.pin = FALSE]
ListenerConfigs == {Console, PhoneFirst, PhoneOnly, Desktop}
=============================================================================
