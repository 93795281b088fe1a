-------------------------- MODULE MCBatteryAlerts --------------------------
(* Who plays for whom, with so many failures that each way to go wrong comes up. *)
EXTENDS BatteryAlerts

Both(mode, n) ==
    [role |-> "remote", client |-> mode, server |-> mode, agree |-> TRUE, vpn |-> FALSE,
     cable |-> FALSE, faults |-> n, from |-> 0, to |-> 0]

\* Quiet hours: none, within a day, over midnight.
Monitor(from, to) == [Both("local", 0) EXCEPT !.role = "monitor", !.from = from, !.to = to]
Tunnel == [Both("local", 1) EXCEPT !.vpn = TRUE]
Fallback == [Both("auto", 1) EXCEPT !.server = "telegram"]
Strangers == [Both("local", 2) EXCEPT !.agree = FALSE]
Cabled(c) == [c EXCEPT !.cable = TRUE]

SocketConfigs ==
    {Monitor(0, 0), Monitor(1, 3), Monitor(3, 1),
     Both("local", 1), Cabled(Both("local", 2)), Tunnel, Cabled(Tunnel), Strangers,
     Fallback, Both("auto", 1)}
=============================================================================
