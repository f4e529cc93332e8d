------------------------------ MODULE Chaining ------------------------------
(* How a session gets its server connection: the router's targets            *)
(* (pylib/Zorp/Router.py), the chainer that picks one after the other and    *)
(* keeps the down state of hosts (Chainer.py, Cache.py), the NAT policies    *)
(* with their caches (NAT.py), the target zones (Session.py) and the connect *)
(* itself (lib/attach.cc).  A chainer and a NAT policy are shared by all     *)
(* sessions of the services that use them, each in a thread of its own.      *)
(* An address is [net, host, port]; ip_s, its IP without the port, is Ip.    *)
EXTENDS Integers, Sequences, FiniteSets

CONSTANTS
    ChainConfs,     \* [kind: of chainer, targets: addresses the router gives, forge: forge_addr, forge_port: 0 for Z_PORT_ANY, -1 for
                    \*  one of those that keep the client's port, or a port, client: per session its address,
                    \*  snat, dnat: a NAT policy or "none", nats: per policy [kind, ..., cacheable], permit: limit_target_zones_to,
                    \*  admin: per network its zone and that zone's admin parents, calls: server connections of a session,
                    \*  again: results after which a session asks for another one]
    NatThreshold    \* shift_threshold of the NAT caches

NatKinds == {"GeneralNAT", "StaticNAT", "ForgeClientSourceNAT", "OneToOneNAT", "RandomNAT"}
ASSUME ChainConstants ==
    /\ NatThreshold \in Nat
    /\ \A c \in ChainConfs :
          /\ c.kind \in {"connect", "multi", "failover", "roundrobin"} /\ Len(c.targets) \in Nat \ {0}
          /\ c.snat \in DOMAIN c.nats \union {"none"} /\ c.dnat \in DOMAIN c.nats \union {"none"}
          /\ c.calls \in Nat /\ \A p \in DOMAIN c.nats : c.nats[p].kind \in NatKinds

VARIABLE
    ch   \* [conf, count: connection_count, down: the IPs in the chainer's state, nat: per policy its ShiftCache [cache, old],
         \*  s: per session [at, first, cur: chainer_first_attempt and chainer_current_host, restart: chainer_restart,
         \*  enumd: chainer_targets_enumerated, target, local, remote, result, calls, rounds: enumerations in this call,
         \*  failed: what failed anyone since this round began, as Known, wrong: a NAT result that is not the NAT's]]

NoAddr == [net |-> "none", host |-> 0, port |-> 0]
Ip(a) == <<a.net, a.host>>
Targets(c) == 0 .. Len(c.conf.targets) - 1
Target(c, i) == c.conf.targets[i + 1]
StateBased(c) == c.conf.kind \in {"failover", "roundrobin"}
(* What a chainer tells a target by: the down state is one of IPs.           *)
Known(c, a) == IF StateBased(c) THEN Ip(a) ELSE a

-----------------------------------------------------------------------------
(* AbstractRouter.routeConnection: the local address is the client's when it *)
(* is forged or may be translated, or 0.0.0.0 when only a port is wanted;    *)
(* then the client's port stays (local_addr_port is set, not .port).         *)
LocalPort(c, x) == IF c.conf.forge_port < 0 THEN c.conf.client[x].port ELSE c.conf.forge_port
TargetLocal(c, x) ==
    LET client == c.conf.client[x]
    IN IF c.conf.forge \/ c.conf.snat # "none" THEN [net |-> client.net, host |-> client.host, port |-> LocalPort(c, x)]
       ELSE IF LocalPort(c, x) # 0 THEN [net |-> "zero", host |-> 0, port |-> client.port] ELSE NoAddr

(* performTranslation of each NAT class: the address it gives, or NoAddr.    *)
InNet(a, net) == a.net = "none" \/ net = "any" \/ a.net = net
Matching(n, addrs) == {i \in DOMAIN n.maps : InNet(addrs["SNAT"], n.maps[i].src) /\ InNet(addrs["DNAT"], n.maps[i].dst)}
GeneralNAT(n, addrs, type) ==
    LET found == Matching(n, addrs)
    IN IF found = {} THEN NoAddr
       ELSE [net |-> n.maps[CHOOSE i \in found : \A j \in found : i <= j].to, host |-> addrs[type].host, port |-> addrs[type].port]
StaticNAT(n) == n.addr
RandomNAT(n) == n.addrs
ForgeClientSourceNAT(client) == [net |-> client.net, host |-> client.host, port |-> 0]
OneToOneNAT(n, a, type) ==
    IF a.net # n.from THEN NoAddr ELSE [net |-> n.to, host |-> a.host, port |-> IF type = "SNAT" THEN 0 ELSE a.port]
Translations(n, client, addrs, type) ==
    CASE n.kind = "GeneralNAT" -> {GeneralNAT(n, addrs, type)}
      [] n.kind = "StaticNAT" -> {StaticNAT(n)}
      [] n.kind = "ForgeClientSourceNAT" -> {ForgeClientSourceNAT(client)}
      [] n.kind = "OneToOneNAT" -> {OneToOneNAT(n, addrs[type], type)}
      [] n.kind = "RandomNAT" -> RandomNAT(n)

-----------------------------------------------------------------------------
(* ShiftCache: lookup and store *)
Put(f, k, v) == [j \in DOMAIN f \union {k} |-> IF j = k THEN v ELSE f[j]]
Drop(f, k) == [j \in DOMAIN f \ {k} |-> f[j]]
ShiftLookup(t, k) ==
    CASE k \in DOMAIN t.cache -> [value |-> t.cache[k], t |-> t]
      [] k \notin DOMAIN t.cache /\ k \in DOMAIN t.old -> [value |-> t.old[k], t |-> [cache |-> Put(t.cache, k, t.old[k]), old |-> Drop(t.old, k)]]
      [] OTHER -> [value |-> NoAddr, t |-> t]
ShiftStore(t, k, v) ==
    LET full == Cardinality(DOMAIN t.cache) > NatThreshold
        cache == IF full THEN <<>> ELSE t.cache
        old == IF full THEN t.cache ELSE t.old
    IN [cache |-> IF v # NoAddr THEN Put(cache, k, v) ELSE Drop(cache, k), old |-> Drop(old, k)]

(* Mutant of NatKey: the destination is not part of the key. *)
NatKeySource(addrs) == <<Ip(addrs["SNAT"]), Ip(NoAddr)>>
(* NATPolicy.performTranslation: the same key serves both types and every    *)
(* port; a cached answer gets the port of the address it stands for.         *)
NatKey(addrs) == <<Ip(addrs["SNAT"]), Ip(addrs["DNAT"])>>
WithPort(v, port) == [net |-> v.net, host |-> v.host, port |-> port]
PerformTranslation(c, client, p, addrs, type) ==
    LET n == c.conf.nats[p]
        hit == ShiftLookup(c.nat[p], NatKey(addrs))
    IN IF n.cacheable /\ hit.value # NoAddr THEN {[addr |-> WithPort(hit.value, addrs[type].port), t |-> hit.t]}
       ELSE {[addr |-> v, t |-> IF n.cacheable THEN ShiftStore(hit.t, NatKey(addrs), v) ELSE c.nat[p]]
                : v \in Translations(n, client, addrs, type)}

(* ConnectChainer.connectTarget, one translation after the other *)
Addresses(c, x) == [SNAT |-> TargetLocal(c, x), DNAT |-> c.s[x].target]
ChainTo(c, x, at) == [c EXCEPT !.s[x] = [c.s[x] EXCEPT !.at = at]]
Answers(c, x, p, type) == PerformTranslation(c, c.conf.client[x], p, Addresses(c, x), type)
(* An answer is the NAT's, but a cached one may have the asked port instead. *)
Answer(n, a, v, port) == Ip(a) = Ip(v) /\ (a.port = v.port \/ (n.cacheable /\ a.port = port))
Wrong(c, x, p, type, a) ==
    \/ c.s[x].wrong
    \/ \A v \in Translations(c.conf.nats[p], c.conf.client[x], Addresses(c, x), type) :
          ~Answer(c.conf.nats[p], a, v, Addresses(c, x)[type].port)
TranslateLocal(c, x) ==
    LET p == c.conf.snat
        Given(a) == IF a = NoAddr /\ c.conf.forge THEN TargetLocal(c, x) ELSE a
    IN IF p = "none" THEN {[c EXCEPT !.s[x] = [c.s[x] EXCEPT !.at = "dnat", !.SNAT = TargetLocal(c, x)]]}
       ELSE {[c EXCEPT !.nat[p] = r.t,
                       !.s[x] = [c.s[x] EXCEPT !.at = "dnat", !.SNAT = Given(r.addr), !.wrong = Wrong(c, x, p, "SNAT", r.addr)]]
                : r \in Answers(c, x, p, "SNAT")}
TranslateRemote(c, x) ==
    LET p == c.conf.dnat
        Given(a) == IF a = NoAddr THEN c.s[x].target ELSE a
    IN IF p = "none" THEN {[c EXCEPT !.s[x] = [c.s[x] EXCEPT !.at = "connect", !.DNAT = c.s[x].target]]}
       ELSE {[c EXCEPT !.nat[p] = r.t,
                       !.s[x] = [c.s[x] EXCEPT !.at = "connect", !.DNAT = Given(r.addr), !.wrong = Wrong(c, x, p, "DNAT", r.addr)]]
                : r \in Answers(c, x, p, "DNAT")}

-----------------------------------------------------------------------------
(* getFirstTargetIndex; connection_count is kept modulo the number of targets*)
Fresh(r) == r.first = -1 \/ r.restart
FirstTargetIndex(c) == IF c.conf.kind = "failover" THEN 0 ELSE c.count

(* Mutant of Exhausted: the last target is taken for the first again. *)
ExhaustedShort(c, r) == ~Fresh(r) /\ r.first = (r.cur + 1) % Len(c.conf.targets)
(* MultiTargetChainer.getNextTarget: around the list once, from the first. *)
Exhausted(c, r) == ~Fresh(r) /\ r.first = r.cur
Candidate(c, r) == IF Fresh(r) THEN FirstTargetIndex(c) ELSE r.cur
GetNextTarget(c, x, at) ==
    LET i == Candidate(c, c.s[x])
        n == Len(c.conf.targets)
    IN [c EXCEPT !.count = (@ + 1) % n,
                 !.s[x] = [c.s[x] EXCEPT !.at = at, !.first = IF Fresh(c.s[x]) THEN i ELSE @, !.cur = (i + 1) % n,
                                         !.restart = FALSE, !.target = Target(c, i)]]

(* The end of a chainParent call *)
ChainEnds(c, x, result) == [c EXCEPT !.s[x] = [c.s[x] EXCEPT !.at = "idle", !.result = result]]

(* StateBasedChainer.getNextTarget, an iteration of its loop: a host known   *)
(* to be down (has_key) is looked up; after the list was enumerated the      *)
(* state is cleared and the list gone through once more.                     *)
NextTarget(c, x) ==
    LET r == c.s[x]
        counted == [r EXCEPT !.enumd = @ + 1, !.rounds = @ + 1]
    IN IF c.conf.kind = "connect" THEN [c EXCEPT !.s[x] = [r EXCEPT !.at = "snat", !.target = Target(c, 0)]]
       ELSE IF ~Exhausted(c, r)
       THEN GetNextTarget(c, x, IF StateBased(c) /\ Ip(Target(c, Candidate(c, r))) \in c.down THEN "lookup" ELSE "snat")
       ELSE IF c.conf.kind = "multi" THEN ChainEnds(c, x, "none")
       ELSE IF r.enumd + 1 = 2 THEN ChainEnds([c EXCEPT !.s[x] = counted], x, "none")
       ELSE [c EXCEPT !.down = {}, !.s[x] = [counted EXCEPT !.restart = TRUE, !.failed = {}]]

(* TimedCache.lookup and store hold no lock: between has_key and the use of  *)
(* the entry another session may clear the state, which is a KeyError.       *)
IsDown(c, x) == Ip(c.s[x].target) \in c.down
Lookup(c, x) == IF IsDown(c, x) THEN {ChainTo(c, x, "next"), ChainTo(c, x, "expire")} ELSE {ChainEnds(c, x, "error")}
Expire(c, x) ==
    IF IsDown(c, x) THEN ChainTo([c EXCEPT !.down = @ \ {Ip(c.s[x].target)}], x, "snat") ELSE ChainEnds(c, x, "error")

(* Every session's round takes note of a failure: when the connect fails and *)
(* when disableTarget stores it.                                             *)
Noted(c, x) == [c EXCEPT !.s = [y \in DOMAIN c.s |-> [c.s[y] EXCEPT !.failed = @ \union {Known(c, c.s[x].target)}]]]
DisableTarget(c, x) ==
    IF IsDown(c, x) THEN ChainTo(c, x, "differs") ELSE ChainTo([Noted(c, x) EXCEPT !.down = @ \union {Ip(c.s[x].target)}], x, "next")
Differs(c, x) == IF IsDown(c, x) THEN ChainTo(c, x, "next") ELSE ChainEnds(c, x, "error")

(* ConnectChainer.establishConnection: the zone of the server is checked,    *)
(* then the connection attempted (Attach.start, z_attach_start_block).       *)
Permitted(c, a) == c.conf.permit = {} \/ c.conf.admin[a.net] \intersect c.conf.permit # {}
EstablishConnection(c, x) ==
    LET s == c.s[x]
    IN IF ~Permitted(c, s.DNAT) THEN {ChainEnds(c, x, "denied")}                             \* DACException
       ELSE {[c EXCEPT !.s[x] = [s EXCEPT !.at = "idle", !.result = "connected", !.restart = c.conf.kind # "connect"]],
             IF c.conf.kind = "connect" THEN ChainEnds(Noted(c, x), x, "none")
             ELSE ChainTo(Noted(c, x), x, IF StateBased(c) THEN "disable" ELSE "next")}

-----------------------------------------------------------------------------
NewChain == [at |-> "idle", first |-> -1, cur |-> 0, restart |-> FALSE, enumd |-> 0, target |-> NoAddr, SNAT |-> NoAddr, DNAT |-> NoAddr,
             result |-> "new", calls |-> 0, rounds |-> 0, failed |-> {}, wrong |-> FALSE]
ChainInits ==
    {[conf |-> c, count |-> 0, down |-> {}, nat |-> [p \in DOMAIN c.nats |-> [cache |-> <<>>, old |-> <<>>]],
      s |-> [x \in DOMAIN c.client |-> NewChain]] : c \in ChainConfs}
ChainInit == ch \in ChainInits

(* ZProxy.connectServer asks the chainer. *)
ChainParent ==
    \E x \in DOMAIN ch.s :
        /\ ch.s[x].at = "idle" /\ ch.s[x].calls < ch.conf.calls /\ ch.s[x].result \in ch.conf.again \union {"new"}
        /\ ch' = [ch EXCEPT !.s[x] = [ch.s[x] EXCEPT !.at = "next", !.calls = @ + 1, !.rounds = 0, !.failed = {}]]
ChainNextTarget == \E x \in DOMAIN ch.s : ch.s[x].at = "next" /\ ch' = NextTarget(ch, x)
ChainLocal == \E x \in DOMAIN ch.s : ch.s[x].at = "snat" /\ ch' \in TranslateLocal(ch, x)
ChainRemote == \E x \in DOMAIN ch.s : ch.s[x].at = "dnat" /\ ch' \in TranslateRemote(ch, x)
ChainConnect == \E x \in DOMAIN ch.s : ch.s[x].at = "connect" /\ ch' \in EstablishConnection(ch, x)
ChainLookup == \E x \in DOMAIN ch.s : ch.s[x].at = "lookup" /\ ch' \in Lookup(ch, x)
ChainExpire == \E x \in DOMAIN ch.s : ch.s[x].at = "expire" /\ ch' = Expire(ch, x)
ChainDisable == \E x \in DOMAIN ch.s : ch.s[x].at = "disable" /\ ch' = DisableTarget(ch, x)
ChainDiffers == \E x \in DOMAIN ch.s : ch.s[x].at = "differs" /\ ch' = Differs(ch, x)
ChainNext ==
    \/ ChainParent \/ ChainNextTarget \/ ChainLocal \/ ChainRemote \/ ChainConnect
    \/ ChainLookup \/ ChainExpire \/ ChainDisable \/ ChainDiffers
ChainSpec == ChainInit /\ [][ChainNext]_ch

-----------------------------------------------------------------------------
(* A session is told that there is no server only when each of its targets  *)
(* failed, in this session or in another one, or was stored as failed, since *)
(* its last round began: hosts held for down, a shared connection count and  *)
(* the clearing of the state by others never hide a target                   *)
(* (StateBasedChainer, MultiTargetChainer).  A chainer with a state tells    *)
(* targets by their IP: of two ports of a host one may never be tried.       *)
AllTried == \A x \in DOMAIN ch.s : ch.s[x].result = "none" /\ ch.s[x].at = "idle" =>
                (IF ch.conf.kind = "connect" THEN {Target(ch, 0)} ELSE {Known(ch, Target(ch, i)) : i \in Targets(ch)}) \subseteq ch.s[x].failed

(* What a NAT policy answers is an address its NAT gives for these           *)
(* addresses, whatever other sessions left in its cache; only the port of a  *)
(* cached answer may be the one asked about instead of the NAT's             *)
(* (NATPolicy.performTranslation, ShiftCache).                               *)
NatFaithful == \A x \in DOMAIN ch.s : ~ch.s[x].wrong

(* A call goes around its targets at most twice: "All destinations are down  *)
(* for two full iterations, giving up" (StateBasedChainer.getNextTarget).    *)
TwoRounds == \A x \in DOMAIN ch.s : ch.s[x].rounds <= 2
=============================================================================
