-------------------------------- MODULE Szig --------------------------------
(* SZIG, the statistics of a Zorp process (lib/szig.cc).  Any thread pushes  *)
(* events into a queue (the sessions' life in pylib/Zorp/Service.py and      *)
(* Session.py, their proxies' threads in lib/proxy.cc); the SZIG thread takes*)
(* them one by one and keeps the result tree; the main thread reads the tree *)
(* for the clients of the SZIG socket.                                       *)
EXTENDS Integers, Sequences, FiniteSets, SequencesExt

CONSTANTS
    SzigConfs,      \* [sessions: sessions of the one service, ticks: at most so many ticks of the statistics timer,
                    \*  walks: walks of a client over the tree]
    SzigInterval,   \* the averaged interval, in ticks (avg1: 60 s, avg5, avg15)
    SzigQueued      \* bound: events in the queue

ASSUME SzigConstants == SzigInterval \in Nat /\ \A c \in SzigConfs : IsFiniteSet(c.sessions)

VARIABLE
    sz   \* [conf, queue: szig_queue, stats: the children of "stats", conns: the instances under "conns" and their properties,
         \*  service: the children of "service.<name>", avg: ZSzigAvgState of stats.thread_rate_avg*, maxdiff: ZSzigMaxDiffState,
         \*  at: per session where it is, val: the count it is about to report, num: num_instances of the service, lock:
         \*  the main thread holds result_tree_structure_lock, walk: the client's walk of "conns", clock: ticks so far,
         \*  log: <<thread_number, time>> at the processed ticks, changed: the SZIG thread changed the tree's nodes while the lock was held]

-----------------------------------------------------------------------------
(* The aggregators *)
AgrMaximum(max, value) == IF value > max THEN value ELSE max                           \* z_szig_agr_maximum

AgrMaximumDiff(d, value) == [last |-> value, max |-> AgrMaximum(d.max, value - d.last)]   \* z_szig_agr_maximum_diff

(* z_szig_agr_average_is_older, and how many values that are too old are at  *)
(* the head of the queue; the sum of the first k values.                     *)
TooOld(time, now) == time < now - SzigInterval
Outdated(values, now) == Max({k \in 0 .. Len(values) : \A i \in 1 .. k : TooOld(values[i][2], now)})
SumOf(values) == LET sum[k \in 0 .. Len(values)] == IF k = 0 THEN 0 ELSE sum[k - 1] + values[k][1] IN sum

(* Mutant of AgrAverageRate: what leaves the interval stays in the sum. *)
AgrAverageRateKeep(a, value, now) ==
    LET diff == value - a.last
        kept == SubSeq(a.values, Outdated(a.values, now) + 1, Len(a.values))
    IN [last |-> value, values |-> IF diff # 0 THEN Append(kept, <<diff, now>>) ELSE kept,
        sum |-> (IF kept = <<>> THEN 0 ELSE a.sum) + diff]
(* z_szig_agr_average_rate: the differences of the last interval and their   *)
(* sum.  Values are popped off the head of the queue while they are too old. *)
AgrAverageRate(a, value, now) ==
    LET diff == value - a.last
        n == Outdated(a.values, now)
        kept == SubSeq(a.values, n + 1, Len(a.values))
        left == IF kept = <<>> THEN 0 ELSE a.sum - SumOf(a.values)[n]
    IN [last |-> value, values |-> IF diff # 0 THEN Append(kept, <<diff, now>>) ELSE kept, sum |-> left + diff]

(* z_szig_agr_flat_connection_props: the instance's node is made when there  *)
(* is none; its server_zone counts the zones of the session for the service. *)
FlatConnectionProps(s, e) ==
    LET old == IF e.id \in DOMAIN s.conns THEN s.conns[e.id] ELSE {}
        set == [s EXCEPT !.conns = [i \in DOMAIN @ \union {e.id} |-> IF i = e.id THEN old \union e.props ELSE @[i]]]
    IN IF "server_zone" \in e.props /\ "client_zone" \in old THEN [set EXCEPT !.service.zones = @ + 1] ELSE set

(* z_szig_agr_del_connection_props *)
DelConnectionProps(s, e) == [s EXCEPT !.conns = [i \in DOMAIN @ \ {e.id} |-> @[i]]]

(* z_szig_agr_flat_props and z_szig_agr_service_maximum for SERVICE_COUNT.   *)
(* The second makes the node sessions_max without the lock.                  *)
ServiceCount(s, e) ==
    [s EXCEPT !.service.running = e.value, !.service.max = AgrMaximum(@, e.value), !.service.nodes = @ \union {"sessions_max"},
              !.changed = @ \/ (s.lock /\ "sessions_max" \notin s.service.nodes)]

(* TICK: the rates of the threads, and those of the service, whose nodes are *)
(* made without the lock as well.                                            *)
Tick(s, e) ==
    [s EXCEPT !.avg = AgrAverageRate(@, s.stats.thread_number, e.time), !.maxdiff = AgrMaximumDiff(@, s.stats.thread_number),
              !.log = Append(@, <<s.stats.thread_number, e.time>>),
              !.service.nodes = IF @ = {} THEN @ ELSE @ \union {"rates"},
              !.changed = @ \/ (s.lock /\ s.service.nodes # {} /\ "rates" \notin s.service.nodes)]

(* THREAD_START: z_szig_agr_count_inc for the threads that run and for all   *)
(* there were, and z_szig_agr_maximum of those that run.                     *)
ThreadStarted(stats) ==
    [stats EXCEPT !.threads_running = @ + 1, !.thread_number = @ + 1, !.threads_max = AgrMaximum(@, stats.threads_running + 1)]

(* z_szig_process_event: the handlers in the order z_szig_init registers them. *)
ProcessEvent(s, e) ==
    CASE e.ev = "CONNECTION_START" -> [s EXCEPT !.stats.sessions_running = @ + 1]
      [] e.ev = "CONNECTION_STOP" -> DelConnectionProps([s EXCEPT !.stats.sessions_running = @ - 1], e)
      [] e.ev = "THREAD_START" -> [s EXCEPT !.stats = ThreadStarted(@)]
      [] e.ev = "THREAD_STOP" -> [s EXCEPT !.stats.threads_running = @ - 1]
      [] e.ev = "CONNECTION_PROPS" -> FlatConnectionProps(s, e)
      [] e.ev = "SERVICE_COUNT" -> ServiceCount(s, e)
      [] e.ev = "TICK" -> Tick(s, e)

(* What a handler does under result_tree_structure_lock *)
NeedsLock(e) == e.ev \in {"CONNECTION_PROPS", "CONNECTION_STOP", "SERVICE_COUNT"}

(* z_szig_thread *)
SzigThread(s) ==
    IF s.queue = <<>> \/ (s.lock /\ NeedsLock(Head(s.queue))) THEN {}
    ELSE {ProcessEvent([s EXCEPT !.queue = Tail(@)], Head(s.queue))}

-----------------------------------------------------------------------------
(* z_szig_event, and what the events carry *)
SzigEvent(s, e) == [s EXCEPT !.queue = Append(@, e)]
PropsEvent(x, props) == [ev |-> "CONNECTION_PROPS", id |-> x, props |-> props]
CountEvent(v) == [ev |-> "SERVICE_COUNT", value |-> v]
Bare(ev) == [ev |-> ev]

(* The life of a session: Service.startInstance, StackedSession.registerStart*)
(* in the dispatcher's thread; the proxy's thread with its id and the        *)
(* server's address; the end of the session object and of its master's,      *)
(* whose stopInstance reports the count it reads after the lock was given up.*)
SessionStep(s, x) ==
    LET Go(t, at) == [t EXCEPT !.at[x] = at]
    IN CASE s.at[x] = "idle" -> Go([s EXCEPT !.num = @ + 1], "counted")
         [] s.at[x] = "counted" -> Go([s EXCEPT !.val[x] = s.num], "count")
         [] s.at[x] = "count" -> Go(SzigEvent(s, CountEvent(s.val[x])), "register")
         [] s.at[x] = "register" -> Go(SzigEvent(s, PropsEvent(x, {"client_zone"})), "start")
         [] s.at[x] = "start" -> Go(SzigEvent(s, Bare("CONNECTION_START")), "started")
         [] s.at[x] = "started" -> Go(SzigEvent(s, Bare("THREAD_START")), "thread")
         [] s.at[x] = "thread" -> Go(SzigEvent(s, PropsEvent(x, {"thread_id"})), "connect")
         [] s.at[x] = "connect" -> Go(SzigEvent(s, PropsEvent(x, {"server_zone"})), "run")
         [] s.at[x] = "run" -> Go(SzigEvent(s, [ev |-> "CONNECTION_STOP", id |-> x]), "end")
         [] s.at[x] = "end" -> Go([s EXCEPT !.num = @ - 1], "uncounted")
         [] s.at[x] = "uncounted" -> Go([s EXCEPT !.val[x] = s.num], "recount")
         [] s.at[x] = "recount" -> Go(SzigEvent(s, CountEvent(s.val[x])), "exit")
         [] s.at[x] = "exit" -> Go(SzigEvent(s, Bare("THREAD_STOP")), "gone")
         [] s.at[x] = "failed" -> Go([s EXCEPT !.num = @ - 1], "dropped")
         [] s.at[x] = "dropped" -> Go([s EXCEPT !.val[x] = s.num], "retold")
         [] s.at[x] = "retold" -> Go(SzigEvent(s, CountEvent(s.val[x])), "gone")

(* A session that fails before it has a server, or - no group would start    *)
(* its proxy - before it has a thread.                                       *)
SessionCutShort(s, x) ==
    LET Stopped(at) == {SzigEvent([s EXCEPT !.at[x] = at], [ev |-> "CONNECTION_STOP", id |-> x])}
    IN CASE s.at[x] \in {"thread", "connect"} -> Stopped("end")
         [] s.at[x] = "started" -> Stopped("failed")
         [] OTHER -> {}

-----------------------------------------------------------------------------
(* z_szig_handle_command: a client lists the sessions under "conns" with     *)
(* GETCHILD and GETSBLNG, each answered under the lock.                      *)
Instances(s) == SetToSortSeq(DOMAIN s.conns, <)
HandleCommand(s) ==
    LET is == Instances(s)
        at == SelectInSeq(is, LAMBDA i : i = s.walk.at)
        next == IF s.walk.at = 0 THEN (IF is = <<>> THEN 0 ELSE is[1])             \* GETCHILD
                ELSE IF at = 0 \/ at = Len(is) THEN 0 ELSE is[at + 1]               \* GETSBLNG; 0 is "None"
    IN [s EXCEPT !.lock = FALSE, !.walk = [at |-> next, n |-> IF next = 0 THEN @.n + 1 ELSE @.n]]

-----------------------------------------------------------------------------
(* z_szig_init: the main thread and the SZIG thread are counted. *)
SzigInits ==
    {[conf |-> c, queue |-> <<Bare("THREAD_START"), Bare("THREAD_START")>>, conns |-> <<>>,
      stats |-> [sessions_running |-> 0, threads_running |-> 0, thread_number |-> 0, threads_max |-> 0],
      service |-> [running |-> 0, max |-> 0, zones |-> 0, nodes |-> {}], avg |-> [last |-> 0, values |-> <<>>, sum |-> 0],
      maxdiff |-> [last |-> 0, max |-> 0], at |-> [x \in c.sessions |-> "idle"], val |-> [x \in c.sessions |-> 0], num |-> 0,
      lock |-> FALSE, walk |-> [at |-> 0, n |-> 0], clock |-> 0, log |-> <<>>, changed |-> FALSE] : c \in SzigConfs}
SzigInit == sz \in SzigInits

SzigPop == sz' \in SzigThread(sz)
SzigRoom == Len(sz.queue) < SzigQueued
SzigSession == SzigRoom /\ \E x \in DOMAIN sz.at : sz.at[x] # "gone" /\ sz' = SessionStep(sz, x)
SzigCut == SzigRoom /\ \E x \in DOMAIN sz.at : sz' \in SessionCutShort(sz, x)
SzigTick == SzigRoom /\ sz.clock < sz.conf.ticks /\ sz' = SzigEvent([sz EXCEPT !.clock = @ + 1], [ev |-> "TICK", time |-> sz.clock + 1])
SzigLock == sz.walk.n < sz.conf.walks /\ ~sz.lock /\ sz' = [sz EXCEPT !.lock = TRUE]
SzigAnswer == sz.lock /\ sz' = HandleCommand(sz)
SzigNext == SzigPop \/ SzigSession \/ SzigCut \/ SzigTick \/ SzigLock \/ SzigAnswer
SzigSpec == SzigInit /\ [][SzigNext]_sz

-----------------------------------------------------------------------------
(* Once the queue is drained the tree tells what happened: the sessions      *)
(* listed under "conns" and counted in sessions_running are those that are   *)
(* registered, none that ended stays listed, the threads counted are those   *)
(* there are, and the averaged rate is that of the ticks of the last         *)
(* interval - with sessions that start, fail and end in any order.           *)
Threads == {"thread", "connect", "run", "end", "uncounted", "recount", "exit"}
Registered == {x \in DOMAIN sz.at : sz.at[x] \in {"started", "thread", "connect", "run"}}
WindowStart(now) ==
    LET before == {i \in 1 .. Len(sz.log) : TooOld(sz.log[i][2], now)}
    IN IF before = {} THEN 0 ELSE sz.log[Max(before)][1]
SzigAgrees ==
    sz.queue = <<>> /\ (\A x \in DOMAIN sz.at : sz.at[x] # "start") =>
        /\ DOMAIN sz.conns = Registered
        /\ sz.stats.sessions_running = Cardinality(Registered)
        /\ sz.stats.threads_running = 2 + Cardinality({x \in DOMAIN sz.at : sz.at[x] \in Threads})
        /\ sz.log # <<>> => sz.avg.sum = Last(sz.log)[1] - WindowStart(Last(sz.log)[2])

(* The result tree's nodes are only added or removed under                   *)
(* result_tree_structure_lock: "if the @create argument is TRUE, even the    *)
(* SZIG thread needs to acquire result_tree_structure_lock prior to calling  *)
(* this function" (z_szig_tree_lookup).                                      *)
SzigTreeLocked == ~sz.changed
=============================================================================
