------------------------------ MODULE MCControl ------------------------------
(* The parts around the sessions in one run: interfaces and listeners, the   *)
(* main loop and its policies, the statistics, zorpctl, and the chainers with*)
(* their routers and NATs.  They share no state: a behaviour is one of one   *)
(* component, named by part, while the others keep an initial state.         *)
EXTENDS IfMonitor, MainLoop, Szig, Zorpctl, Chaining

VARIABLE part

Parked(v, inits) == v = CHOOSE s \in inits : TRUE

ControlInit ==
    /\ part \in {"ifmonitor", "mainloop", "szig", "zorpctl", "chaining"}
    /\ IF part = "ifmonitor" THEN IfInit ELSE Parked(ifm, IfInits)
    /\ IF part = "mainloop" THEN LoopInit ELSE Parked(ml, LoopInits)
    /\ IF part = "szig" THEN SzigInit ELSE Parked(sz, SzigInits)
    /\ IF part = "zorpctl" THEN CtlInit ELSE Parked(ctl, CtlInits)
    /\ IF part = "chaining" THEN ChainInit ELSE Parked(ch, ChainInits)

IfMonitorStep == part = "ifmonitor" /\ IfNext /\ UNCHANGED <<part, ml, sz, ctl, ch>>
MainLoopStep == part = "mainloop" /\ LoopNext /\ UNCHANGED <<part, ifm, sz, ctl, ch>>
SzigStep == part = "szig" /\ SzigNext /\ UNCHANGED <<part, ifm, ml, ctl, ch>>
ZorpctlStep == part = "zorpctl" /\ CtlNext /\ UNCHANGED <<part, ifm, ml, sz, ch>>
ChainingStep == part = "chaining" /\ ChainNext /\ UNCHANGED <<part, ifm, ml, sz, ctl>>
ControlNext == IfMonitorStep \/ MainLoopStep \/ SzigStep \/ ZorpctlStep \/ ChainingStep

ControlSpec == ControlInit /\ [][ControlNext]_<<part, ifm, ml, sz, ctl, ch>>

-----------------------------------------------------------------------------
(* Two interfaces and two chains: a wildcard and a fixed address on one      *)
(* interface; an interface and a group, with a failing netlink socket; an    *)
(* interface that appears late and an address somebody else has bound.       *)
Interface(n, u, g, as) == [name |-> n, up |-> u, group |-> g, addrs |-> as]
OnIface == [type |-> "IFACE", name |-> "e0", group |-> 99, ip |-> "any"]
Changes ==
    {[do |-> "unlink"], [do |-> "flip"], [do |-> "link", name |-> "e0", group |-> 1]}
        \union {[do |-> "addr", addr |-> a] : a \in {"a", "b"}}
IfBase ==
    [keys |-> <<OnIface, [OnIface EXCEPT !.ip = "a"]>>, unbinds |-> {1, 2}, taken |-> {}, overrun |-> FALSE,
     kernel |-> <<Interface("e0", TRUE, 0, <<"a">>), Interface("e1", TRUE, 1, <<"a", "b">>)>>,
     changes |-> Changes \union {[do |-> "rename", name |-> n] : n \in {"e0", "e1"}}]
MCIfConfs ==
    {IfBase,
     [IfBase EXCEPT !.keys = <<OnIface, [OnIface EXCEPT !.type = "GROUP", !.group = 1]>>, !.unbinds = {1}, !.overrun = TRUE,
                    !.changes = Changes \union {[do |-> "group", group |-> g] : g \in {0, 1}}],
     [IfBase EXCEPT !.taken = {"b"}, !.kernel = <<Absent, Interface("e0", FALSE, 1, <<"b">>)>>, !.overrun = TRUE]}

(* Two SZIG clients that ask for reloads, and one client with a SIGHUP. *)
MCLoopConfs == {[clients |-> {"c1", "c2"}, signals |-> 0], [clients |-> {"c1"}, signals |-> 1]}

(* One session over the averaged interval, and two sessions with a client    *)
(* that walks the tree.                                                      *)
MCSzigConfs == {[sessions |-> {1}, ticks |-> 3, walks |-> 0], [sessions |-> {1, 2}, ticks |-> 1, walks |-> 1]}

(* Two instances without automatic restart, one of two processes and one     *)
(* that is not started by itself; an instance with its supervisor; and one   *)
(* that nobody waits for.                                                    *)
Line(n, o) == [name |-> n, opts |-> o]
CtlBase ==
    [lines |-> <<Line("a", {"-P2", "-a"}), Line("b", {"-S"})>>, wait |-> TRUE, max |-> 2,
     commands |-> {"start", "force-start", "stop", "force-stop", "restart", "force-restart", "reload", "reload-or-restart"}]
CtlSupervised == [CtlBase EXCEPT !.lines = <<Line("a", {"-A"})>>, !.max = 3]
MCCtlConfs == {CtlBase, CtlSupervised, [CtlSupervised EXCEPT !.wait = FALSE]}

(* Each chainer over two or three targets that are up or down, with forged   *)
(* source addresses and with each kind of NAT.                               *)
Address(n, h) == [net |-> n, host |-> h, port |-> 1]
Mapping(s, d, t) == [src |-> s, dst |-> d, to |-> t]
General == [kind |-> "GeneralNAT", cacheable |-> TRUE, maps |-> <<Mapping("c", "s", "m"), Mapping("any", "t", "k")>>]
Nats(p, q) == [x \in {"p", "q"} |-> IF x = "p" THEN p ELSE q]
ChainBase ==
    [kind |-> "connect", targets |-> <<Address("s", 1), Address("t", 1), Address("s", 2)>>, forge |-> TRUE,
     forge_port |-> 0,
     client |-> [x \in {"x", "y"} |-> IF x = "x" THEN Address("c", 1) ELSE Address("d", 1)],
     snat |-> "none", dnat |-> "none", nats |-> Nats(General, [General EXCEPT !.maps = <<Mapping("any", "s", "m")>>]),
     permit |-> {}, admin |-> [n \in {"s", "t", "m", "k"} |-> {n, "z"}], calls |-> 2, again |-> {"connected"}]
Natted == [ChainBase EXCEPT !.kind = "multi", !.targets = <<Address("s", 1), Address("t", 1)>>, !.snat = "p", !.dnat = "q"]
Static(cached) == [kind |-> "StaticNAT", cacheable |-> cached, maps |-> <<>>, addr |-> [Address("k", 1) EXCEPT !.port = 2]]
MCChainConfs ==
    {ChainBase, [ChainBase EXCEPT !.kind = "failover", !.calls = 1], [ChainBase EXCEPT !.kind = "roundrobin", !.calls = 1],
     [ChainBase EXCEPT !.kind = "failover", !.targets = <<Address("s", 1), [Address("s", 1) EXCEPT !.port = 2], Address("t", 1)>>, !.calls = 1],
     [ChainBase EXCEPT !.kind = "multi", !.forge = FALSE, !.targets = <<Address("s", 1), [Address("s", 1) EXCEPT !.port = 2]>>],
     [Natted EXCEPT !.permit = {"s", "m"}],
     [Natted EXCEPT !.nats = Nats([kind |-> "RandomNAT", cacheable |-> TRUE, maps |-> <<>>, addrs |-> {Address("r", 1), Address("r", 2)}],
                                  [kind |-> "OneToOneNAT", cacheable |-> TRUE, maps |-> <<>>, from |-> "s", to |-> "m"])],
     [Natted EXCEPT !.kind = "connect", !.targets = <<Address("s", 1)>>,
                    !.nats = Nats([kind |-> "ForgeClientSourceNAT", cacheable |-> TRUE, maps |-> <<>>], Static(FALSE))],
     [Natted EXCEPT !.snat = "none", !.forge = FALSE, !.forge_port = -1, !.nats = Nats(Static(TRUE), Static(TRUE))]}
=============================================================================
