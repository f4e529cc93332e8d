------------------------------ MODULE IfMonitor ------------------------------
(* The interface monitor (lib/ifmonitor.cc) and the listeners of the chains  *)
(* that are bound to an interface or to an interface group (lib/dispatch.cc).*)
(* The kernel's changes arrive as netlink messages, in order and some time   *)
(* after they were made; everything here runs in the main thread.            *)
EXTENDS Integers, Sequences, FiniteSets, SequencesExt

CONSTANTS
    IfConfs,     \* [keys: per chain its ZDispatchBind, kernel: the interfaces at the start, changes: what the
                 \*  administrator does, unbinds: the chains that are unregistered, taken: addresses that cannot be bound]
    IfMax,       \* bound: the administrator's changes
    IfAddrMax    \* Z_IFADDR_MAX

VARIABLE
    ifm   \* [conf, kernel: the interfaces by index, queue: netlink messages, alive: netlink_source is attached, hash: iface_hash,
          \*  watches: iface_watches, groups: iface_group_watches, chain: per chain [bound, watches: its iface_watches,
          \*  listeners: its listeners and their references], n: changes made]

Absent == [name |-> "none", up |-> FALSE, group |-> 0, addrs |-> <<>>]
IfIndexes(m) == DOMAIN m.kernel

-----------------------------------------------------------------------------
(* z_dispatch_bind_iface_change: an address was added to or removed from an  *)
(* interface the chain watches.                                              *)
AddrMatches(key, a) == key.type = "GROUP" \/ key.ip \in {"any", a}

(* Mutant of BindIfaceChange: a listener that exists is not referenced. *)
BindIfaceChangeNoRef(m, c, change, a) ==
    LET ls == m.chain[c].listeners
    IN CASE change = "ADD" /\ AddrMatches(m.conf.keys[c], a) /\ a \notin DOMAIN ls \union m.conf.taken ->
                [m EXCEPT !.chain[c].listeners = [b \in DOMAIN ls \union {a} |-> IF b = a THEN 1 ELSE ls[b]]]
         [] change = "REMOVE" /\ a \in DOMAIN ls -> [m EXCEPT !.chain[c].listeners = [b \in DOMAIN ls \ {a} |-> ls[b]]]
         [] OTHER -> m
BindIfaceChange(m, c, change, a) ==
    LET ls == m.chain[c].listeners
    IN CASE change = "ADD" /\ AddrMatches(m.conf.keys[c], a) /\ a \in DOMAIN ls -> [m EXCEPT !.chain[c].listeners[a] = @ + 1]
         [] change = "ADD" /\ AddrMatches(m.conf.keys[c], a) /\ a \notin DOMAIN ls \union m.conf.taken ->
                [m EXCEPT !.chain[c].listeners = [b \in DOMAIN ls \union {a} |-> IF b = a THEN 1 ELSE ls[b]]]
         [] change = "REMOVE" /\ a \in DOMAIN ls /\ ls[a] > 1 -> [m EXCEPT !.chain[c].listeners[a] = @ - 1]
         [] change = "REMOVE" /\ a \in DOMAIN ls /\ ls[a] = 1 ->
                [m EXCEPT !.chain[c].listeners = [b \in DOMAIN ls \ {a} |-> ls[b]]]
         [] OTHER -> m

(* z_ifmon_call_watchers, z_ifmon_iterate_addrs *)
CallWatchers(m, name, change, a) ==
    FoldLeft(LAMBDA s, w : IF w.name = name THEN BindIfaceChange(s, w.chain, change, a) ELSE s, m, m.watches)
IterateAddrs(m, info, change) == FoldLeft(LAMBDA s, a : CallWatchers(s, info.name, change, a), m, info.addrs)

(* z_ifmon_find_by_name: the addresses of the interface when it is up. *)
AddrsOf(m, name) ==
    LET found == {i \in DOMAIN m.hash : m.hash[i].name = name}
    IN IF found = {} THEN <<>>
       ELSE LET info == m.hash[CHOOSE i \in found : TRUE] IN IF info.up THEN info.addrs ELSE <<>>

(* z_ifmon_register_watch, z_ifmon_unregister_watch *)
RegisterWatch(m, c, name) ==
    LET told == FoldLeft(LAMBDA s, a : BindIfaceChange(s, c, "ADD", a), m, AddrsOf(m, name))
    IN [told EXCEPT !.watches = <<[chain |-> c, name |-> name]>> \o @]
UnregisterWatch(m, c, name) ==
    LET told == FoldLeft(LAMBDA s, a : BindIfaceChange(s, c, "REMOVE", a), m, AddrsOf(m, name))
        at == SelectInSeq(m.watches, LAMBDA w : w = [chain |-> c, name |-> name])
    IN [told EXCEPT !.watches = IF at = 0 THEN @ ELSE RemoveAt(@, at)]

(* z_dispatch_bind_iface_group_change *)
BindIfaceGroupChange(m, c, change, name) ==
    LET mine == m.chain[c].watches
        at == SelectInSeq(mine, LAMBDA n : n = name)
    IN CASE change = "ADD" -> [RegisterWatch(m, c, name) EXCEPT !.chain[c].watches = <<name>> \o @]
         [] change = "REMOVE" /\ at > 0 -> [UnregisterWatch(m, c, name) EXCEPT !.chain[c].watches = RemoveAt(@, at)]
         [] OTHER -> m

(* z_ifmon_call_group_watchers *)
CallGroupWatchers(m, group, change, name) ==
    FoldLeft(LAMBDA s, c : IF s.conf.keys[c].group = group THEN BindIfaceGroupChange(s, c, change, name) ELSE s, m, m.groups)

-----------------------------------------------------------------------------
(* z_ifmon_add_iface: RTM_NEWLINK, for a new interface and for any change of *)
(* its name, flags or group.  The name and the group are looked at apart.    *)
AddIface(m, msg) ==
    LET new == msg.index \notin DOMAIN m.hash
        old == IF new THEN Absent ELSE m.hash[msg.index]
        renamed == ~new /\ old.name # msg.name
        gone == IF renamed /\ old.up THEN IterateAddrs(m, old, "REMOVE") ELSE m
        info == [old EXCEPT !.name = msg.name, !.up = msg.up]
        kept == [gone EXCEPT !.hash = [i \in DOMAIN @ \union {msg.index} |-> IF i = msg.index THEN info ELSE @[i]]]
        told == CASE new \/ renamed -> IF msg.up THEN IterateAddrs(kept, info, "ADD") ELSE kept
                  [] ~new /\ ~renamed /\ old.up # msg.up -> IterateAddrs(kept, info, IF msg.up THEN "ADD" ELSE "REMOVE")
                  [] OTHER -> kept
        left == IF old.group # msg.group /\ old.group # 0 THEN CallGroupWatchers(told, old.group, "REMOVE", msg.name) ELSE told
        grouped == IF old.group = msg.group THEN told
                   ELSE CallGroupWatchers([left EXCEPT !.hash[msg.index].group = msg.group], msg.group, "ADD", msg.name)
        dump == {[t |-> "NEWADDR", index |-> i, addr |-> a] : i \in IfIndexes(m), a \in UNION {ToSet(m.kernel[j].addrs) : j \in IfIndexes(m)}}
    IN IF new
       THEN [grouped EXCEPT !.queue = @ \o SetToSeq({d \in dump : d.addr \in ToSet(m.kernel[d.index].addrs)})]   \* RTM_GETADDR
       ELSE grouped

(* z_ifmon_del_iface: RTM_DELLINK *)
DelIface(m, msg) ==
    IF msg.index \notin DOMAIN m.hash THEN m
    ELSE LET info == m.hash[msg.index]
             gone == IF info.up THEN IterateAddrs(m, info, "REMOVE") ELSE m
             left == IF info.group # 0 THEN CallGroupWatchers(gone, info.group, "REMOVE", info.name) ELSE gone
         IN [left EXCEPT !.hash = [i \in DOMAIN @ \ {msg.index} |-> @[i]]]

(* z_ifmon_change_iface_addr: RTM_NEWADDR and RTM_DELADDR, which may tell    *)
(* what is known already.                                                    *)
ChangeIfaceAddr(m, msg) ==
    LET info == m.hash[msg.index]
        known == msg.index \in DOMAIN m.hash /\ msg.addr \in ToSet(info.addrs)
        Told(s, change) == IF info.up THEN CallWatchers(s, info.name, change, msg.addr) ELSE s
    IN CASE msg.index \in DOMAIN m.hash /\ ~known /\ msg.t = "NEWADDR" /\ Len(info.addrs) < IfAddrMax ->
                Told([m EXCEPT !.hash[msg.index].addrs = Append(@, msg.addr)], "ADD")
         [] known /\ msg.t = "DELADDR" ->
                Told([m EXCEPT !.hash[msg.index].addrs = SelectSeq(@, LAMBDA a : a # msg.addr)], "REMOVE")
         [] OTHER -> m

(* z_netlink_process_responses: the handlers registered by z_ifmon_init.  A  *)
(* failed recv detaches the source.                                          *)
IfHandle(m, msg) ==
    CASE msg.t = "NEWLINK" -> AddIface(m, msg)
      [] msg.t = "DELLINK" -> DelIface(m, msg)
      [] OTHER -> ChangeIfaceAddr(m, msg)
IfReceive(m) == IF m.alive /\ m.queue # <<>> THEN {IfHandle([m EXCEPT !.queue = Tail(@)], Head(m.queue))} ELSE {}
IfRecvFails(m) == IF m.alive /\ m.conf.overrun /\ m.queue # <<>> THEN {[m EXCEPT !.alive = FALSE]} ELSE {}

-----------------------------------------------------------------------------
(* z_dispatch_bind_listener, and z_ifmon_register_group_watch with it *)
BindChain(m, c) ==
    LET key == m.conf.keys[c]
        bound == [m EXCEPT !.chain[c].bound = TRUE, !.groups = IF key.type = "GROUP" THEN <<c>> \o @ ELSE @]
        members == {m.hash[i].name : i \in {j \in DOMAIN m.hash : m.hash[j].group = key.group}}
    IN IF m.chain[c].bound THEN {}
       ELSE {IF key.type = "GROUP"
             THEN FoldLeft(LAMBDA s, n : BindIfaceGroupChange(s, c, "ADD", n), bound, SetToSeq(members))
             ELSE [RegisterWatch(bound, c, key.name) EXCEPT !.chain[c].watches = <<key.name>>]}

(* z_dispatch_unbind_listener.  z_ifmon_unregister_group_watch takes the     *)
(* watch out of iface_watches, where it is not, and frees it.                *)
UnbindChain(m, c) ==
    IF ~m.chain[c].bound \/ c \notin m.conf.unbinds THEN {}
    ELSE {[FoldLeft(LAMBDA s, n : UnregisterWatch(s, c, n), m, m.chain[c].watches)
              EXCEPT !.chain[c] = [bound |-> FALSE, watches |-> <<>>, listeners |-> <<>>]]}

-----------------------------------------------------------------------------
(* The kernel: a change is made and announced; a message holds what          *)
(* z_ifmon_parse_ifinfo and z_ifmon_parse_ifaddr read from it.               *)
LinkMessage(t, i, k) == [t |-> t, index |-> i, name |-> k.name, up |-> k.up, group |-> k.group]
AddrMessage(t, i, a) == [t |-> t, index |-> i, addr |-> a]
Linked(m, i, k) == [m EXCEPT !.kernel[i] = k, !.queue = Append(@, LinkMessage("NEWLINK", i, k)), !.n = @ + 1]

KernelChange(m, i, ch) ==
    LET k == m.kernel[i]
        here == k # Absent
        used == {m.kernel[j].name : j \in IfIndexes(m)}
    IN CASE ch.do = "link" /\ ~here /\ ch.name \notin used ->
                {Linked(m, i, [name |-> ch.name, up |-> FALSE, group |-> ch.group, addrs |-> <<>>])}
         [] ch.do = "unlink" /\ here ->
                {[m EXCEPT !.kernel[i] = Absent, !.n = @ + 1,
                           !.queue = @ \o (IF k.up THEN <<LinkMessage("NEWLINK", i, [k EXCEPT !.up = FALSE])>> ELSE <<>>)
                                       \o [j \in 1 .. Len(k.addrs) |-> AddrMessage("DELADDR", i, k.addrs[j])]
                                       \o <<LinkMessage("DELLINK", i, k)>>]}
         [] ch.do = "flip" /\ here -> {Linked(m, i, [k EXCEPT !.up = ~@])}
         [] ch.do = "rename" /\ here /\ ch.name \notin used -> {Linked(m, i, [k EXCEPT !.name = ch.name])}
         [] ch.do = "group" /\ here /\ k.group # ch.group -> {Linked(m, i, [k EXCEPT !.group = ch.group])}
         [] ch.do = "addr" /\ here ->
                {IF ch.addr \in ToSet(k.addrs)
                 THEN [m EXCEPT !.kernel[i].addrs = SelectSeq(@, LAMBDA a : a # ch.addr), !.n = @ + 1,
                                !.queue = Append(@, AddrMessage("DELADDR", i, ch.addr))]
                 ELSE [m EXCEPT !.kernel[i].addrs = Append(@, ch.addr), !.n = @ + 1,
                                !.queue = Append(@, AddrMessage("NEWADDR", i, ch.addr))]}
         [] OTHER -> {}

(* z_ifmon_init asks for the interfaces there are. *)
IfInits ==
    {[conf |-> c, kernel |-> c.kernel, alive |-> TRUE, hash |-> <<>>, watches |-> <<>>, groups |-> <<>>,
      queue |-> SelectSeq([j \in 1 .. Len(c.kernel) |-> LinkMessage("NEWLINK", j, c.kernel[j])], LAMBDA msg : msg.name # "none"),
      chain |-> [k \in DOMAIN c.keys |-> [bound |-> FALSE, watches |-> <<>>, listeners |-> <<>>]], n |-> 0] : c \in IfConfs}
IfInit == ifm \in IfInits

IfRead == ifm' \in IfReceive(ifm)
IfReadFails == ifm' \in IfRecvFails(ifm)
IfBind == \E c \in DOMAIN ifm.chain : ifm' \in BindChain(ifm, c)
IfUnbind == \E c \in DOMAIN ifm.chain : ifm' \in UnbindChain(ifm, c)
IfChange == ifm.n < IfMax /\ \E i \in IfIndexes(ifm), ch \in ifm.conf.changes : ifm' \in KernelChange(ifm, i, ch)
IfNext == IfRead \/ IfReadFails \/ IfBind \/ IfUnbind \/ IfChange
IfSpec == IfInit /\ [][IfNext]_ifm

-----------------------------------------------------------------------------
(* Once all messages are read, a chain bound to an interface listens on the  *)
(* addresses that interface has while it is up, and one bound to a group on  *)
(* those of the group's interfaces: through any changes of links, flags,     *)
(* names, groups and addresses, and however they interleave with the         *)
(* registration of the chain (z_ifmon_register_watch, z_ifmon_add_iface,     *)
(* z_dispatch_bind_iface_change).  In these configurations an interface of a *)
(* watched group keeps its name: group watches are not told of a new one.    *)
Wanted(m, c) ==
    LET key == m.conf.keys[c]
        mine == {i \in IfIndexes(m) : m.kernel[i].up /\ IF key.type = "GROUP" THEN m.kernel[i].group = key.group
                                                        ELSE m.kernel[i].name = key.name}
    IN {a \in UNION {ToSet(m.kernel[i].addrs) : i \in mine} : AddrMatches(key, a)} \ m.conf.taken
ListenersFollow ==
    (ifm.queue = <<>> /\ ifm.alive) =>
        \A c \in DOMAIN ifm.chain : ifm.chain[c].bound => DOMAIN ifm.chain[c].listeners = Wanted(ifm, c)

(* A watch in the monitor's lists belongs to a chain that is bound: "this    *)
(* interface registration is always deleted before this ZDispatchChain       *)
(* instance would be" (z_dispatch_bind_listener).                            *)
WatchesOwned ==
    /\ \A j \in DOMAIN ifm.groups : ifm.chain[ifm.groups[j]].bound
    /\ \A j \in DOMAIN ifm.watches : ifm.chain[ifm.watches[j].chain].bound
=============================================================================
