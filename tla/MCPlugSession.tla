---------------------------- MODULE MCPlugSession ----------------------------
(* Model-checking instances of PlugSession. *)
EXTENDS PlugSession

BothWays == [stack |-> FALSE, shutdown_soft |-> TRUE, copy_to_server |-> TRUE,
             copy_to_client |-> TRUE, interval |-> 0, timers |-> {"timeout"}]

(* Soft shutdown; hard shutdown with packet statistics; one way only. *)
PlainSessions ==
    {BothWays, [BothWays EXCEPT !.shutdown_soft = FALSE, !.interval = 2, !.timers = {}],
               [BothWays EXCEPT !.copy_to_server = FALSE, !.timers = {"timeout", "stats"}]}

StackedSessions == {[BothWays EXCEPT !.stack = TRUE, !.shutdown_soft = FALSE, !.timers = {}]}

OneByte == [l \in Legs |-> 1]
TwoBytesToServer == [OneByte EXCEPT !["cs"] = 2]

RejectedSessions == {[BothWays EXCEPT !.interval = 2, !.timers = {}]}
=============================================================================
