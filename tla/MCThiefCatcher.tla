--------------------------- MODULE MCThiefCatcher ---------------------------
(* Small instances of ThiefCatcher. *)
EXTENDS ThiefCatcher

\* The desktop with the gate and the relay; the command line with the Telegram bot; and
\* the command line without a relay or a PIN, which only tells a server on the network.
Desktop == [mode |-> "both", gui |-> TRUE, route |-> "both", worker |-> TRUE, pin |-> TRUE,
            force |-> FALSE, windows |-> TRUE, other |-> FALSE]
Telegram == [Desktop EXCEPT !.mode = "telegram", !.gui = FALSE, !.force = TRUE]
NoRelay == [Desktop EXCEPT !.mode = "relay", !.gui = FALSE, !.route = "phone", !.worker = FALSE,
                           !.pin = FALSE, !.windows = FALSE, !.other = TRUE]
ThiefConfigs == {Desktop, Telegram, NoRelay}
=============================================================================
