----------------------------- MODULE ProxyGroup -----------------------------
(****************************************************************************)
(* ZProxyGroup (lib/proxygroup.cc): the thread that runs the non-blocking   *)
(* proxies of a service, together with the parts it cannot be understood    *)
(* without: Service.startInstance (pylib/Zorp/Service.py), which moves on   *)
(* to a new group when the current one is full, the start and stop of a     *)
(* proxy (lib/proxy.cc) and the asynchronous handshake (lib/proxyssl.cc).   *)
(*                                                                          *)
(* Actors: the dispatcher threads that start sessions, the thread of each   *)
(* group, and the control thread that asks proxies to stop.  The starters   *)
(* run Python: they interleave between statements, and where C code gives   *)
(* the interpreter lock up (creating the proxy, starting its thread).       *)
(****************************************************************************)
EXTENDS Naturals, Sequences, FiniteSets, SequencesExt

CONSTANTS
    Proxies,      \* the sessions the service ever gets
    MaxGroups,    \* bound: groups the service ever creates
    Services      \* the services to look at, a subset of ServiceKinds

FaultKinds == {"thread_fails", "start_fails", "handshake", "stop_requests", "early_stop"}

(* Whether its proxies run in threads of their own, Service.max_sessions    *)
(* and max_instances (0: no limit), bounds on the sessions that arrive and  *)
(* on the dispatcher threads that start them at a time, what may go wrong.  *)
ServiceKinds == [blocking : BOOLEAN, max_sessions : Nat \ {0}, max_instances : Nat,
                 load : SUBSET Proxies, starters : Nat \ {0}, faults : SUBSET FaultKinds]

ASSUME GroupConstants ==
    /\ IsFiniteSet(Proxies) /\ Proxies # {} /\ MaxGroups \in Nat \ {0}
    /\ Services \subseteq ServiceKinds

Groups == 1 .. MaxGroups
None == 0

VARIABLES
    kind,      \* the service, one of Services
    life,      \* per proxy: where it is in its life
    thread,    \* per proxy: self->thread # NULL, its policy thread exists
    group,     \* per proxy: self->group
    stopReq,   \* per proxy: ZPF_STOP_REQUEST
    shaking,   \* per proxy: the sources of its handshake are attached
    sessions, orphaned, started, poll,  \* per group: the fields of ZProxyGroup
    queue,     \* per group: nonblocking_start_queue
    list,      \* per group: nonblocking_proxies
    wake,      \* per group: its poll was woken up
    gpc,       \* per group: where its thread is
    walk,      \* per group: what the loop over list still has to visit
    service,   \* Service.proxy_group
    instances, \* Service.num_instances
    spc,       \* per proxy: where the thread that starts it is
    target,    \* per proxy: the group whose start method that thread has in hand
    tries,     \* per proxy: its attempts
    control,   \* the proxy the control thread still has to wake up
    crash      \* a NULL pointer was used: "no", "no_group" or "no_thread"

proxyVars == <<life, thread, group, stopReq, shaking>>
groupVars == <<sessions, orphaned, started, poll, queue, list, wake, gpc, walk>>
starterVars == <<service, instances, spc, target, tries>>
vars == <<kind, proxyVars, groupVars, starterVars, control, crash>>

Lives == {"new", "starting", "queued", "running", "own", "stopped", "freed", "refused"}

Init ==
    /\ kind \in Services
    /\ life = [p \in Proxies |-> "new"]
    /\ thread = [p \in Proxies |-> TRUE]
    /\ group = [p \in Proxies |-> None]
    /\ stopReq = [p \in Proxies |-> FALSE]
    /\ shaking = [p \in Proxies |-> FALSE]
    /\ sessions = [g \in Groups |-> 0]
    /\ orphaned = [g \in Groups |-> FALSE]
    /\ started = [g \in Groups |-> FALSE]
    /\ poll = [g \in Groups |-> FALSE]
    /\ queue = [g \in Groups |-> <<>>]
    /\ list = [g \in Groups |-> <<>>]
    /\ wake = [g \in Groups |-> FALSE]
    /\ gpc = [g \in Groups |-> "none"]
    /\ walk = [g \in Groups |-> <<>>]
    /\ service = 1 /\ instances = 0
    /\ spc = [p \in Proxies |-> "idle"]
    /\ target = [p \in Proxies |-> None]
    /\ tries = [p \in Proxies |-> 0]
    /\ control = {} /\ crash = "no"

(****************************************************************************)
(* Service.startInstance, in the thread that starts the session of p.       *)
(****************************************************************************)
(* A thread inside z_proxy_group_start_session holds the interpreter lock.  *)
LockFree == \A p \in Proxies : spc[p] \notin {"thread", "push", "wake"}

At(p, pc) == spc' = [spc EXCEPT ![p] = pc]

(* The limit is compared before the lock of the counter is taken. *)
StartInstance(p) ==
    /\ p \in kind.load /\ life[p] = "new" /\ LockFree
    /\ Cardinality({q \in Proxies : spc[q] # "idle"}) < kind.starters
    /\ IF kind.max_instances # 0 /\ instances >= kind.max_instances
         THEN life' = [life EXCEPT ![p] = "refused"] /\ UNCHANGED spc
         ELSE life' = [life EXCEPT ![p] = "starting"] /\ At(p, "instance")
    /\ UNCHANGED <<kind, thread, group, stopReq, shaking, groupVars, service, instances, target,
                   tries, control, crash>>

CountInstance(p) ==
    /\ spc[p] = "instance" /\ LockFree
    /\ instances' = instances + 1
    /\ At(p, "lookup")
    /\ UNCHANGED <<kind, proxyVars, groupVars, service, target, tries, control, crash>>

(* self.proxy_group.start: the method keeps its group alive.  Creating the  *)
(* proxy gives the interpreter lock up before the session is counted.       *)
Lookup(p) ==
    /\ spc[p] = "lookup" /\ LockFree
    /\ target' = [target EXCEPT ![p] = service]
    /\ tries' = [tries EXCEPT ![p] = @ + 1]
    /\ At(p, "count")
    /\ UNCHANGED <<kind, proxyVars, groupVars, service, instances, control, crash>>

(* z_proxy_group_orphan for the groups that neither the service nor a start *)
(* method refers to any longer, and the wake-ups of the groups in woken.    *)
Orphan(woken) ==
    LET dropped == {g \in Groups : g < service' /\ \A p \in Proxies : target'[p] # g}
        now == {g \in dropped : ~orphaned[g]}
    IN /\ orphaned' = [g \in Groups |-> g \in dropped]
       /\ wake' = [g \in Groups |-> wake[g] \/ (poll[g] /\ g \in now \union woken)]

(* The start method returns, and is freed. *)
Return(p, pc, woken) ==
    /\ At(p, pc)
    /\ target' = [target EXCEPT ![p] = None]
    /\ UNCHANGED service
    /\ Orphan(woken)

(* start returned FALSE: the service tries once more, in a new group. *)
NewGroup(p) ==
    /\ spc[p] = "refused" /\ tries[p] = 1 /\ service < MaxGroups /\ LockFree
    /\ service' = service + 1
    /\ At(p, "lookup") /\ UNCHANGED target
    /\ Orphan({})
    /\ UNCHANGED <<kind, proxyVars, sessions, started, poll, queue, list, gpc, walk, instances,
                   tries, control, crash>>

(* "Error starting proxy in group". *)
GiveUp(p) ==
    /\ spc[p] = "refused" /\ tries[p] = 2 /\ LockFree
    /\ life' = [life EXCEPT ![p] = "stopped"]
    /\ At(p, "idle")
    /\ UNCHANGED <<kind, thread, group, stopReq, shaking, groupVars, service, instances, target,
                   tries, control, crash>>

(* MasterSession.__del__ calls Service.stopInstance. *)
SessionFreed(p) ==
    /\ life[p] = "stopped"
    /\ life' = [life EXCEPT ![p] = "freed"]
    /\ instances' = instances - 1
    /\ UNCHANGED <<kind, thread, group, stopReq, shaking, groupVars, service, spc, target, tries,
                   control, crash>>

(****************************************************************************)
(* z_proxy_group_start_session, in the same thread.                         *)
(****************************************************************************)
(* Mutant of StartSession: one session too many is let in. *)
StartSessionOneMore(p) ==
    /\ spc[p] = "count" /\ LockFree
    /\ sessions[target[p]] <= kind.max_sessions
    /\ sessions' = [sessions EXCEPT ![target[p]] = @ + 1]
    /\ At(p, IF kind.blocking THEN "spawn" ELSE "thread")
    /\ UNCHANGED <<kind, proxyVars, orphaned, started, poll, queue, list, wake, gpc, walk, service,
                   instances, target, tries, control, crash>>

StartSession(p) ==
    /\ spc[p] = "count" /\ LockFree
    /\ sessions[target[p]] < kind.max_sessions
    /\ sessions' = [sessions EXCEPT ![target[p]] = @ + 1]
    /\ At(p, IF kind.blocking THEN "spawn" ELSE "thread")
    /\ UNCHANGED <<kind, proxyVars, orphaned, started, poll, queue, list, wake, gpc, walk, service,
                   instances, target, tries, control, crash>>

GroupFull(p) ==
    /\ spc[p] = "count" /\ LockFree
    /\ sessions[target[p]] >= kind.max_sessions
    /\ Return(p, "refused", {})
    /\ UNCHANGED <<kind, proxyVars, sessions, started, poll, queue, list, gpc, walk, instances,
                   tries, control, crash>>

(* z_proxy_group_start_thread; thread_started stays set when it fails. *)
StartThread(p) ==
    /\ spc[p] = "thread"
    /\ started' = [started EXCEPT ![target[p]] = TRUE]
    /\ gpc' = [gpc EXCEPT ![target[p]] = IF started[target[p]] THEN @ ELSE "init"]
    /\ At(p, "push")
    /\ UNCHANGED <<kind, proxyVars, sessions, orphaned, poll, queue, list, wake, walk, service,
                   instances, target, tries, control, crash>>

StartThreadFails(p) ==
    /\ "thread_fails" \in kind.faults
    /\ spc[p] = "thread" /\ ~started[target[p]]
    /\ started' = [started EXCEPT ![target[p]] = TRUE]
    /\ Return(p, "refused", {})
    /\ UNCHANGED <<kind, proxyVars, sessions, poll, queue, list, gpc, walk, instances, tries,
                   control, crash>>

Push(p) ==
    /\ spc[p] = "push"
    /\ queue' = [queue EXCEPT ![target[p]] = Append(@, p)]
    /\ life' = [life EXCEPT ![p] = "queued"]
    /\ At(p, "wake")
    /\ UNCHANGED <<kind, thread, group, stopReq, shaking, sessions, orphaned, started, poll, list,
                   wake, gpc, walk, service, instances, target, tries, control, crash>>

(* Mutant of Wakeup: a thread that polls is not told of the new proxy. *)
WakeupMissing(p) ==
    /\ spc[p] = "wake"
    /\ Return(p, "idle", {})
    /\ UNCHANGED <<kind, proxyVars, sessions, started, poll, queue, list, gpc, walk, instances,
                   tries, control, crash>>

Wakeup(p) ==
    /\ spc[p] = "wake"
    /\ Return(p, "idle", {target[p]})
    /\ UNCHANGED <<kind, proxyVars, sessions, started, poll, queue, list, gpc, walk, instances,
                   tries, control, crash>>

(* z_proxy_threaded_start, without the interpreter lock. *)
ThreadedStart(p) ==
    /\ spc[p] = "spawn"
    /\ group' = [group EXCEPT ![p] = target[p]]
    /\ life' = [life EXCEPT ![p] = "own"]
    /\ Return(p, "idle", {})
    /\ UNCHANGED <<kind, thread, stopReq, shaking, sessions, started, poll, queue, list, gpc, walk,
                   instances, tries, control, crash>>

(* A proxy whose thread cannot be created is destroyed. *)
ThreadedStartFails(p) ==
    /\ "thread_fails" \in kind.faults
    /\ spc[p] = "spawn"
    /\ group' = [group EXCEPT ![p] = target[p]]
    /\ thread' = [thread EXCEPT ![p] = FALSE]
    /\ Return(p, "refused", {})
    /\ UNCHANGED <<kind, life, stopReq, shaking, sessions, started, poll, queue, list, gpc, walk,
                   instances, tries, control, crash>>

(* z_proxy_thread_func: every step of z_proxy_run calls the policy.  The    *)
(* session stays counted in its group.                                      *)
ThreadedRun(p) ==
    /\ life[p] = "own"
    /\ IF thread[p]
         THEN /\ life' = [life EXCEPT ![p] = "stopped"]
              /\ thread' = [thread EXCEPT ![p] = FALSE]
              /\ UNCHANGED crash
         ELSE crash' = "no_thread" /\ UNCHANGED <<life, thread>>
    /\ UNCHANGED <<kind, group, stopReq, shaking, groupVars, starterVars, control>>

(****************************************************************************)
(* The thread of group g.                                                   *)
(****************************************************************************)
(* Mutant of NonblockingStop: a session that never got into the list is not *)
(* uncounted.                                                               *)
NonblockingStopListed(g, p) ==
    /\ life' = [life EXCEPT ![p] = "stopped"]
    /\ thread' = [thread EXCEPT ![p] = FALSE]
    /\ list' = [list EXCEPT ![g] = RemoveFirst(@, p)]
    /\ sessions' = [sessions EXCEPT ![g] = IF Contains(list[g], p) THEN @ - 1 ELSE @]
    /\ UNCHANGED crash

(* z_proxy_nonblocking_stop: the policy's shutdown and destroy events, then *)
(* z_proxy_group_stop_session.  A proxy without its policy thread crashes.  *)
NonblockingStop(g, p) ==
    IF thread[p]
      THEN /\ life' = [life EXCEPT ![p] = "stopped"]
           /\ thread' = [thread EXCEPT ![p] = FALSE]
           /\ list' = [list EXCEPT ![g] = RemoveFirst(@, p)]
           /\ sessions' = [sessions EXCEPT ![g] = @ - 1]
           /\ UNCHANGED crash
      ELSE /\ crash' = "no_thread"
           /\ UNCHANGED <<life, thread, list, sessions>>

ThreadFunc(g) ==
    /\ gpc[g] = "init"
    /\ poll' = [poll EXCEPT ![g] = TRUE]
    /\ gpc' = [gpc EXCEPT ![g] = "loop"]
    /\ UNCHANGED <<kind, proxyVars, sessions, orphaned, started, queue, list, wake, walk,
                   starterVars, control, crash>>

(* Mutant of PollWoken: the thread goes back to sleep without a look around. *)
PollWokenSleeps(g) ==
    /\ gpc[g] = "poll" /\ wake[g]
    /\ wake' = [wake EXCEPT ![g] = FALSE]
    /\ UNCHANGED <<kind, proxyVars, sessions, orphaned, started, poll, queue, list, gpc, walk,
                   starterVars, control, crash>>

(* Mutant of Needed: the thread of an orphaned group ends at once. *)
NeededNotOrphaned(g) == ~orphaned[g]

Needed(g) == ~orphaned[g] \/ sessions[g] > 0

Loop(g) ==
    /\ gpc[g] = "loop"
    /\ gpc' = [gpc EXCEPT ![g] = IF Needed(g) THEN "drain" ELSE "ended"]
    /\ UNCHANGED <<kind, proxyVars, sessions, orphaned, started, poll, queue, list, wake, walk,
                   starterVars, control, crash>>

(* z_proxy_group_iteration: first the proxies that wait for their start. *)
Drain(g) ==
    /\ gpc[g] = "drain" /\ queue[g] # <<>>
    /\ LET p == Head(queue[g])
       IN /\ queue' = [queue EXCEPT ![g] = Tail(@)]
          /\ group' = [group EXCEPT ![p] = g]
          /\ \/ /\ life' = [life EXCEPT ![p] = "running"]
                /\ list' = [list EXCEPT ![g] = <<p>> \o @]
                /\ shaking' \in {shaking} \union
                                (IF "handshake" \in kind.faults THEN {[shaking EXCEPT ![p] = TRUE]} ELSE {})
                /\ UNCHANGED <<thread, sessions, crash>>
             \/ /\ "start_fails" \in kind.faults
                /\ NonblockingStop(g, p)
                /\ UNCHANGED shaking
    /\ UNCHANGED <<kind, stopReq, orphaned, started, poll, wake, gpc, walk, starterVars, control>>

StartWalk(g) ==
    /\ gpc[g] = "drain" /\ queue[g] = <<>>
    /\ walk' = [walk EXCEPT ![g] = list[g]]
    /\ gpc' = [gpc EXCEPT ![g] = "walk"]
    /\ UNCHANGED <<kind, proxyVars, sessions, orphaned, started, poll, queue, list, wake,
                   starterVars, control, crash>>

(* Then every proxy's z_proxy_loop_iteration.  Stopping a proxy frees the   *)
(* list link the loop stands on: it may find its successor or the end.      *)
Walk(g) ==
    /\ gpc[g] = "walk" /\ walk[g] # <<>>
    /\ IF stopReq[Head(walk[g])]
         THEN /\ NonblockingStop(g, Head(walk[g]))
              /\ \E rest \in {Tail(walk[g]), <<>>} : walk' = [walk EXCEPT ![g] = rest]
         ELSE /\ walk' = [walk EXCEPT ![g] = Tail(@)]
              /\ UNCHANGED <<life, thread, list, sessions, crash>>
    /\ UNCHANGED <<kind, group, stopReq, shaking, orphaned, started, poll, queue, wake, gpc,
                   starterVars, control>>

EndWalk(g) ==
    /\ gpc[g] = "walk" /\ walk[g] = <<>>
    /\ gpc' = [gpc EXCEPT ![g] = IF Needed(g) THEN "poll" ELSE "loop"]
    /\ UNCHANGED <<kind, proxyVars, sessions, orphaned, started, poll, queue, list, wake, walk,
                   starterVars, control, crash>>

(* z_poll_iter_timeout without a timeout: a wake-up... *)
PollWoken(g) ==
    /\ gpc[g] = "poll" /\ wake[g]
    /\ wake' = [wake EXCEPT ![g] = FALSE]
    /\ gpc' = [gpc EXCEPT ![g] = "loop"]
    /\ UNCHANGED <<kind, proxyVars, sessions, orphaned, started, poll, queue, list, walk,
                   starterVars, control, crash>>

(* ... or a session that ends by itself (plug_finish)... *)
Finish(g, p) ==
    /\ gpc[g] = "poll" /\ Contains(list[g], p) /\ ~shaking[p]
    /\ NonblockingStop(g, p)
    /\ gpc' = [gpc EXCEPT ![g] = "loop"]
    /\ UNCHANGED <<kind, group, stopReq, shaking, orphaned, started, poll, queue, wake, walk,
                   starterVars, control>>

(* ... or a handshake that completes, fails or times out.  Its sources stay *)
(* attached when the proxy is stopped meanwhile.                            *)
HandshakeCompleted(g, p) ==
    /\ gpc[g] = "poll" /\ shaking[p] /\ group[p] = g
    /\ shaking' = [shaking EXCEPT ![p] = FALSE]
    /\ gpc' = [gpc EXCEPT ![g] = "loop"]
    /\ \/ NonblockingStop(g, p)
       \/ life[p] = "running" /\ UNCHANGED <<life, thread, list, sessions, crash>>
    /\ UNCHANGED <<kind, group, stopReq, orphaned, started, poll, queue, wake, walk, starterVars,
                   control>>

(****************************************************************************)
(* The control thread: z_proxy_stop_request on a registered proxy.          *)
(****************************************************************************)
StopRequest(p) ==
    /\ "stop_requests" \in kind.faults /\ control = {}
    /\ tries[p] > 0 /\ thread[p] /\ life[p] # "own" /\ ~stopReq[p]
    /\ "early_stop" \in kind.faults \/ group[p] # None
    /\ stopReq' = [stopReq EXCEPT ![p] = TRUE]
    /\ control' = {p}
    /\ UNCHANGED <<kind, life, thread, group, shaking, groupVars, starterVars, crash>>

ControlWakeup(p) ==
    /\ p \in control
    /\ control' = {}
    /\ IF group[p] = None
         THEN crash' = "no_group" /\ UNCHANGED wake
         ELSE /\ wake' = [wake EXCEPT ![group[p]] = TRUE] /\ UNCHANGED crash
    /\ UNCHANGED <<kind, proxyVars, sessions, orphaned, started, poll, queue, list, gpc, walk,
                   starterVars>>

Starter(p) ==
    \/ CountInstance(p) \/ Lookup(p) \/ StartSession(p) \/ GroupFull(p) \/ NewGroup(p)
    \/ GiveUp(p) \/ StartThread(p) \/ StartThreadFails(p) \/ Push(p) \/ Wakeup(p)
    \/ ThreadedStart(p) \/ ThreadedStartFails(p)

GroupThread(g) ==
    \/ ThreadFunc(g) \/ Loop(g) \/ Drain(g) \/ StartWalk(g) \/ Walk(g) \/ EndWalk(g)
    \/ PollWoken(g)

Next ==
    /\ crash = "no"
    /\ \/ \E p \in Proxies : \/ StartInstance(p) \/ Starter(p) \/ SessionFreed(p)
                             \/ ThreadedRun(p) \/ StopRequest(p) \/ ControlWakeup(p)
       \/ \E g \in Groups : \/ GroupThread(g)
                            \/ \E p \in Proxies : Finish(g, p) \/ HandshakeCompleted(g, p)

Spec == Init /\ [][Next]_vars

(****************************************************************************)
(* Fairness: every thread keeps running, sessions may last for ever.        *)
(****************************************************************************)
Alive(A) == crash = "no" /\ A

FairSpec ==
    /\ Spec
    /\ \A p \in Proxies : WF_vars(Alive(Starter(p)))
    /\ WF_vars(Alive(\E p \in Proxies : ControlWakeup(p)))
    /\ \A g \in Groups : WF_vars(Alive(GroupThread(g)))

(* Sessions end, handshakes time out and new sessions keep coming. *)
SessionsEnd ==
    /\ WF_vars(Alive(\E p \in Proxies : StartInstance(p)))
    /\ \A p \in Proxies : WF_vars(Alive(SessionFreed(p)))
    /\ \A p \in Proxies :
          SF_vars(Alive(\E g \in Groups : Finish(g, p) \/ HandshakeCompleted(g, p)))

-----------------------------------------------------------------------------
(* Type invariant; the session counter never drops below zero. *)
GroupTypeOK ==
    /\ kind \in Services /\ life \in [Proxies -> Lives] /\ thread \in [Proxies -> BOOLEAN]
    /\ group \in [Proxies -> Groups \union {None}]
    /\ stopReq \in [Proxies -> BOOLEAN] /\ shaking \in [Proxies -> BOOLEAN]
    /\ sessions \in [Groups -> Nat]
    /\ orphaned \in [Groups -> BOOLEAN] /\ started \in [Groups -> BOOLEAN]
    /\ poll \in [Groups -> BOOLEAN] /\ wake \in [Groups -> BOOLEAN]
    /\ queue \in [Groups -> Seq(Proxies)] /\ list \in [Groups -> Seq(Proxies)]
    /\ walk \in [Groups -> Seq(Proxies)]
    /\ gpc \in [Groups -> {"none", "init", "loop", "drain", "walk", "poll", "ended"}]
    /\ service \in Groups /\ instances \in 0 .. Cardinality(Proxies)
    /\ target \in [Proxies -> Groups \union {None}] /\ tries \in [Proxies -> 0 .. 2]
    /\ spc \in [Proxies -> {"idle", "instance", "lookup", "count", "thread", "push", "wake",
                            "spawn", "refused"}]
    /\ control \subseteq Proxies /\ crash \in {"no", "no_group", "no_thread"}

(* The sessions a group's thread has to serve. *)
Served(g) == ToSet(queue[g]) \union ToSet(list[g])

(* "Maximum number of concurrent sessions handled by one thread": counting  *)
(* before the hand-over and uncounting in another thread never lets more in. *)
LimitRespected == \A g \in Groups : Cardinality(Served(g)) <= kind.max_sessions

(* A group's thread never ends while a session is queued, running or about  *)
(* to be pushed, although it reads orphaned and sessions without the lock   *)
(* and a starter may still hold the start method of a replaced group.       *)
NothingStranded ==
    \A g \in Groups : gpc[g] = "ended" =>
        Served(g) = {} /\ \A p \in Proxies : target[p] # g

(* A session that start_session accepted is started: the wake-up cannot be  *)
(* lost between the thread's last look at the queue and its poll.           *)
Started == \A p \in Proxies : (life[p] = "queued") ~> (life[p] \in {"running", "stopped", "freed"})

(* "Permitted number of concurrent instances of this service" (Service,     *)
(* max_instances).  The limit is compared outside the lock of the counter,  *)
(* so it can be exceeded, but only by the other dispatcher threads that     *)
(* compared in time: with one of them it is exact.                          *)
InstanceLimit ==
    kind.max_instances # 0 => instances < kind.max_instances + kind.starters

(* "The current number of running instances of this service": once every    *)
(* session has ended or was given up, the service counts none.              *)
InstancesReturned == SessionsEnd => <>[](instances = 0)

(* The thread of an orphaned group whose sessions end, ends. *)
GroupEnds ==
    SessionsEnd => \A g \in Groups : orphaned[g] /\ gpc[g] # "none" ~> gpc[g] = "ended"

(* With sessions that end, everything is given back: the threads of orphaned *)
(* groups and the instances of the service.                                  *)
GroupSettles == GroupEnds /\ InstancesReturned

(* z_proxy_wakeup_method promises "to wake-up the specified ZProxy instance *)
(* from sleeping, to check for example the stop-request flag": a proxy that *)
(* was asked to stop, stops.                                                *)
StopHonoured == \A p \in Proxies : (stopReq[p] /\ life[p] = "running") ~> (life[p] # "running")

(* The shutdown and destroy events acquire "the thread associated with this *)
(* TProxy instance".  There is one whenever they are called, but for two    *)
(* cases: the service starts a proxy again that z_proxy_threaded_start has  *)
(* destroyed, and a handshake completes after a stop request ended its      *)
(* proxy.                                                                   *)
EventsHaveThread ==
    crash = "no_thread" =>
        \E p \in Proxies : /\ ~thread[p]
                           /\ \/ kind.blocking /\ tries[p] = 2
                              \/ "handshake" \in kind.faults /\ stopReq[p]

(* Counters, lists and threads agree: no group serves more sessions than it  *)
(* may, no service has more instances than the racing dispatchers explain,   *)
(* and the events of a proxy are called with its policy thread but in the    *)
(* two cases above.                                                          *)
GroupSound == GroupTypeOK /\ LimitRespected /\ InstanceLimit /\ EventsHaveThread
=============================================================================
