---------------------------- MODULE MCProxyGroup ----------------------------
(* Model-checking instances of ProxyGroup. *)
EXTENDS ProxyGroup

Plain == [blocking |-> FALSE, max_sessions |-> 2, max_instances |-> 0, load |-> Proxies,
          starters |-> 2, faults |-> {}]
TwoOf(S) == CHOOSE T \in SUBSET S : Cardinality(T) = 2

Threads == [Plain EXCEPT !.blocking = TRUE, !.max_instances = 1]

(* Failing non-blocking services, handshakes that are stopped, services     *)
(* whose proxies have threads.                                              *)
SafeServices ==
    {[Plain EXCEPT !.faults = {"thread_fails", "start_fails", "stop_requests"}],
     [Plain EXCEPT !.load = TwoOf(Proxies),
                   !.faults = {"handshake", "stop_requests", "early_stop"}],
     Threads, [Threads EXCEPT !.starters = 1, !.faults = {"thread_fails"}]}

(* Two sessions in a group, or in two, or one that may be asked to stop. *)
LiveServices ==
    {[Plain EXCEPT !.max_sessions = n, !.faults = {"start_fails", "handshake"}] : n \in {1, 2}}
    \union {[Plain EXCEPT !.max_sessions = 1, !.starters = 1, !.faults = {"stop_requests"}]}

TwoStops == {[Plain EXCEPT !.starters = 1, !.faults = {"stop_requests"}]}
=============================================================================
