------------------------------- MODULE Zorpctl -------------------------------
(* zorpctl (zorpctl_in_cc/main.cc): the configured instances, the processes  *)
(* with their pidfiles, and the commands that start, stop, restart and       *)
(* reload them one after the other.  The processes go their own way: they    *)
(* may end, crash or be slow between any two steps of a command, and the     *)
(* supervisor of a process that crashed starts it again (auto_restart).      *)
EXTENDS Integers, Sequences, FiniteSets, SequencesExt

CONSTANTS
    CtlConfs,   \* [lines: instances.conf, a sequence of [name, opts: its zorpctl options], commands: those that are given,
                \*  wait: start_wait_timeout is not 0, max: bound on the commands]
    MaxPids     \* bound: processes ever started

VARIABLE
    ctl   \* [conf, procs: the processes, from pids to [of: the process name, at: coming (it has no pidfile yet), up or going (it has
          \*  removed its pidfile), auto: it has a supervisor], file: the pidfiles, from process names to pids,
          \*  term: pids with a SIGTERM on its way, pid: the last pid,
          \*  cmd: the command [name, names: the instances asked for ({}: all), of: z_process_args_run_cmd's list, at, todo: its rest,
          \*  seen: the pid read, status, ok: success_all, exit], n,
          \*  blind (history): the names found not running while a copy was on its way, or that a supervisor started once more
          \*  after they had removed their pidfile]

-----------------------------------------------------------------------------
(* z_parse_args and z_parse_instances: the variables that hold the options   *)
(* are static, and keep what an earlier line set.                            *)
CtlDefaults == [auto_restart |-> TRUE, no_auto_start |-> FALSE, processes |-> 1]
ParseArgs(o, opts) ==
    [auto_restart |-> IF "-a" \in opts THEN FALSE ELSE "-A" \in opts \/ o.auto_restart,
     no_auto_start |-> "-S" \in opts \/ o.no_auto_start, processes |-> IF "-P2" \in opts THEN 2 ELSE o.processes]
ParseInstances(lines) ==
    FoldLeft(LAMBDA acc, l : LET o == ParseArgs(acc.opts, l.opts)
                             IN [opts |-> o, insts |-> Append(acc.insts, [name |-> l.name, opts |-> o])],
             [opts |-> CtlDefaults, insts |-> <<>>], lines).insts

(* z_get_configured_processes, z_get_pidfile_processes, z_merge_processes,   *)
(* z_instance_matches                                                        *)
Configured(s) ==
    FlattenSeq([i \in DOMAIN s.conf.lines |->
        LET inst == ParseInstances(s.conf.lines)[i]
        IN [k \in 1 .. inst.opts.processes |-> [proc |-> <<inst.name, k - 1>>, conf |-> TRUE, disabled |-> inst.opts.no_auto_start,
                                         auto |-> inst.opts.auto_restart]]])
Pidfiles(s) ==
    LET fs == SetToSeq(DOMAIN s.file) IN [i \in DOMAIN fs |-> [proc |-> fs[i], conf |-> FALSE, disabled |-> FALSE, auto |-> FALSE]]
Merge(a, b) == a \o SelectSeq(b, LAMBDA y : \A i \in DOMAIN a : a[i].proc # y.proc)
Aggregated(s, name) ==
    CASE name \in {"start", "force-start"} -> Configured(s)
      [] name \in {"stop", "force-stop", "reload"} -> Pidfiles(s)
      [] OTHER -> Merge(Configured(s), Pidfiles(s))
InstanceMatches(p, names) == names = {} \/ p.proc[1] \in names

(* z_instance_running, z_signal_by_pidfile, z_instance_remove_stale_pidfile *)
InstanceRunning(s, p) == p \in DOMAIN s.file /\ s.file[p] \in DOMAIN s.procs
PidOf(s, p) == IF p \in DOMAIN s.file THEN s.file[p] ELSE 0
RemovePidfile(s, p) == [s EXCEPT !.file = [q \in DOMAIN @ \ {p} |-> @[q]]]

(* The copies of a process, and the verdict that it is not running. *)
Copies(s, p, at) == {x \in DOMAIN s.procs : s.procs[x].of = p /\ s.procs[x].at = at}
FoundDown(s, p) == [s EXCEPT !.blind = IF Copies(s, p, "coming") = {} THEN @ ELSE @ \union {p}]

-----------------------------------------------------------------------------
(* A process that is started writes its pidfile as it comes up, or fails to. *)
(* At its end after SIGTERM it removes the file, whoever wrote it, and exits. *)
(* A crash leaves the file behind; the supervisor starts a process again that *)
(* did not exit by itself with 0.                                             *)
Fork(s, p, auto, at) ==
    [s EXCEPT !.pid = @ + 1,
              !.procs = [x \in DOMAIN @ \union {s.pid + 1} |-> IF x = s.pid + 1 THEN [of |-> p, at |-> at, auto |-> auto] ELSE @[x]]]
WritePidfile(s, p, pid) == [s EXCEPT !.file = [q \in DOMAIN @ \union {p} |-> IF q = p THEN pid ELSE @[q]]]
ComesUp(s, pid) == WritePidfile([s EXCEPT !.procs[pid].at = "up"], s.procs[pid].of, pid)
ProcessEnds(s, pid) == RemovePidfile([s EXCEPT !.procs[pid].at = "going"], s.procs[pid].of)
Died(s, pid) == [s EXCEPT !.procs = [x \in DOMAIN @ \ {pid} |-> @[x]], !.term = @ \ {pid}]
Crashed(s, pid) ==
    LET c == s.procs[pid]
        died == Died(s, pid)
    IN IF ~c.auto \/ s.pid = MaxPids THEN died
       ELSE Fork([died EXCEPT !.blind = IF c.at = "going" THEN @ \union {c.of} ELSE @], c.of, c.auto, "coming")

(* kill(2) *)
Kill(s, pid, signo) ==
    CASE signo = "KILL" /\ pid \in DOMAIN s.procs -> Crashed(s, pid)
      [] signo = "TERM" /\ pid \in DOMAIN s.procs -> [s EXCEPT !.term = @ \union {pid}]
      [] OTHER -> s

-----------------------------------------------------------------------------
(* z_aggregate_by_process_list: one process is done with. *)
Handled(s, success, status) ==
    LET ok == s.cmd.ok /\ (success \/ status = "WARN")
    IN [s EXCEPT !.cmd = [@ EXCEPT !.at = "next", !.todo = Tail(s.cmd.todo), !.status = status, !.ok = ok]]
CtlTo(s, at) == [s EXCEPT !.cmd.at = at]

(* z_process_start_instance, z_process_force_start_instance *)
StartInstance(s, e) ==
    IF InstanceRunning(s, e.proc) THEN Handled(s, FALSE, "WARN")
    ELSE CtlTo(FoundDown(s, e.proc), IF e.proc \in DOMAIN s.file THEN "clean" ELSE "spawn")
Clean(s, e) == CtlTo(RemovePidfile(s, e.proc), "spawn")

(* z_start_instance: the fork, and the wait for the process to come up, which *)
(* may run out (the process comes up later) or not be asked for.              *)
Spawned(s, e) ==
    IF s.conf.wait
    THEN {Handled(WritePidfile(Fork(s, e.proc, e.auto, "up"), e.proc, s.pid + 1), TRUE, "SUCCESS"),
          Handled(Fork(s, e.proc, e.auto, "coming"), FALSE, "FAILURE")}
    ELSE {Handled(Fork(s, e.proc, e.auto, "coming"), TRUE, "SUCCESS")}
Spawn(s, e) ==
    IF e.disabled /\ s.cmd.name # "force-start" THEN {Handled(s, TRUE, "SUCCESS")}
    ELSE {Handled(s, FALSE, "FAILURE")} \union (IF s.pid < MaxPids THEN Spawned(s, e) ELSE {})

(* z_process_stop_instance.  With restart the result is that of the start    *)
(* that follows, and reload-or-restart hands on no signal.                   *)
Signo(name) ==
    CASE name \in {"stop", "restart"} -> "TERM"
      [] name \in {"force-stop", "force-restart"} -> "KILL"
      [] OTHER -> "0"
(* Mutant of Stopped: the process is started whatever became of the old one. *)
StoppedBlindly(s, e, success, status) == IF s.cmd.name \in {"stop", "force-stop"} THEN Handled(s, success, status) ELSE CtlTo(s, "spawn")
Stopped(s, e, success, status) ==
    IF s.cmd.name \in {"stop", "force-stop"} THEN Handled(s, success, status)
    ELSE IF e.conf THEN CtlTo(s, "start")                                              \* z_process_restart_instance
    ELSE Handled(s, FALSE, status)
StopInstance(s, e) ==
    IF ~InstanceRunning(s, e.proc) THEN Stopped(FoundDown(s, e.proc), e, FALSE, "WARN")
    ELSE CtlTo([s EXCEPT !.cmd.seen = PidOf(s, e.proc)], "kill")
StopWait(s, e) ==
    IF InstanceRunning(s, e.proc) THEN Stopped(s, e, FALSE, "FAILURE")             \* stop_check_timeout
    ELSE IF Signo(s.cmd.name) = "KILL" THEN CtlTo(FoundDown(s, e.proc), "remove")
    ELSE Stopped(FoundDown(s, e.proc), e, TRUE, "SUCCESS")
Killed(s, e) == Stopped(RemovePidfile(s, e.proc), e, TRUE, "SUCCESS")

(* z_process_reload, z_process_reload_or_restart: the process answers RELOAD *)
(* and RELOAD RESULT, or it cannot be reached.                               *)
ReloadInstance(s, e) ==
    LET failed == IF s.cmd.name = "reload" THEN Handled(s, FALSE, "INVALID") ELSE CtlTo(s, "stop")
    IN {failed} \union (IF Copies(s, e.proc, "up") # {} THEN {Handled(s, TRUE, "INVALID")} ELSE {})

-----------------------------------------------------------------------------
(* z_process_args and the command functions.  z_kzorpd_reload returns no     *)
(* value: the commands that ask it go on or end as it happens.               *)
AsksKzorpd == {"start", "force-start", "restart", "force-restart", "reload", "reload-or-restart"}
CmdBegin(s, name, names) ==
    LET of == Aggregated(s, name)
        cmd == [name |-> name, names |-> names, of |-> of, at |-> "next", todo |-> of, seen |-> 0, status |-> "INVALID", ok |-> TRUE, exit |-> 0]
        begun == [s EXCEPT !.n = @ + 1, !.cmd = cmd]
        refused == [begun EXCEPT !.cmd = [@ EXCEPT !.at = "refused", !.todo = <<>>, !.exit = IF name \in {"start", "force-start", "restart"} THEN 1 ELSE 0]]
    IN {begun} \union (IF name \in AsksKzorpd THEN {refused} ELSE {})
CmdNext(s) ==
    IF s.cmd.todo = <<>> THEN [s EXCEPT !.cmd.at = "ended", !.cmd.exit = IF s.cmd.ok THEN 0 ELSE 1]
    ELSE IF ~InstanceMatches(Head(s.cmd.todo), s.cmd.names) THEN [s EXCEPT !.cmd.todo = Tail(@)]
    ELSE CtlTo(s, CASE s.cmd.name \in {"start", "force-start"} -> "start"
                 [] s.cmd.name \in {"reload", "reload-or-restart"} -> "reload"
                 [] OTHER -> "stop")
CmdStep(s) ==
    LET e == Head(s.cmd.todo)
    IN CASE s.cmd.at = "next" -> {CmdNext(s)}
         [] s.cmd.at = "start" -> {StartInstance(s, e)}
         [] s.cmd.at = "clean" -> {Clean(s, e)}
         [] s.cmd.at = "spawn" -> Spawn(s, e)
         [] s.cmd.at = "stop" -> {StopInstance(s, e)}
         [] s.cmd.at = "kill" -> {CtlTo(Kill(s, s.cmd.seen, Signo(s.cmd.name)), "wait")}
         [] s.cmd.at = "wait" -> {StopWait(s, e)}
         [] s.cmd.at = "remove" -> {Killed(s, e)}
         [] s.cmd.at = "reload" -> ReloadInstance(s, e)
         [] OTHER -> {}

-----------------------------------------------------------------------------
NoCmd == [name |-> "none", names |-> {}, of |-> <<>>, at |-> "ended", todo |-> <<>>, seen |-> 0, status |-> "INVALID", ok |-> TRUE, exit |-> 0]
CtlInits ==
    {[conf |-> c, procs |-> <<>>, file |-> <<>>, term |-> {}, pid |-> 0, cmd |-> NoCmd, n |-> 0, blind |-> {}] : c \in CtlConfs}
CtlInit == ctl \in CtlInits

CtlCommand ==
    /\ ctl.cmd.at \in {"ended", "refused"} /\ ctl.n < ctl.conf.max
    /\ \E name \in ctl.conf.commands, names \in {{}} \union {{ctl.conf.lines[i].name} : i \in DOMAIN ctl.conf.lines} :
           ctl' \in CmdBegin(ctl, name, names)
CtlStep == ctl' \in CmdStep(ctl)
CtlTerminates == \E pid \in ctl.term : ctl.procs[pid].at = "up" /\ ctl' = ProcessEnds(ctl, pid)
CtlExits == \E pid \in DOMAIN ctl.procs : ctl.procs[pid].at = "going" /\ ctl' = Died(ctl, pid)
CtlCrash == \E pid \in DOMAIN ctl.procs : ctl.procs[pid].at # "coming" /\ ctl' = Crashed(ctl, pid)
CtlLate == \E pid \in DOMAIN ctl.procs : ctl.procs[pid].at = "coming" /\ ctl' \in {ComesUp(ctl, pid), Died(ctl, pid)}
CtlNext == CtlCommand \/ CtlStep \/ CtlTerminates \/ CtlExits \/ CtlCrash \/ CtlLate
CtlSpec == CtlInit /\ [][CtlNext]_ctl

-----------------------------------------------------------------------------
(* Stops that time out, crashes with and without a supervisor, stale         *)
(* pidfiles and restarts never give a process a second copy or one without   *)
(* its pidfile, unless zorpctl once found it not running while a copy was on *)
(* its way (the pidfile cannot tell) or its supervisor started it again      *)
(* after it had removed its pidfile; and with the same exception a stop or   *)
(* force-stop that exits with 0 leaves none of its processes running.        *)
CtlOneCopy ==
    \A x, y \in DOMAIN ctl.procs :
        ctl.procs[x].of = ctl.procs[y].of /\ "going" \notin {ctl.procs[x].at, ctl.procs[y].at} /\ ctl.procs[x].of \notin ctl.blind =>
            x = y /\ (ctl.procs[x].at = "up" => PidOf(ctl, ctl.procs[x].of) = x)
CtlStopped ==
    ctl.cmd.at = "ended" /\ ctl.cmd.name \in {"stop", "force-stop"} /\ ctl.cmd.exit = 0 =>
        \A i \in DOMAIN ctl.cmd.of : InstanceMatches(ctl.cmd.of[i], ctl.cmd.names) /\ ctl.cmd.of[i].proc \notin ctl.blind =>
            Copies(ctl, ctl.cmd.of[i].proc, "up") = {}

(* zorpctl knows what runs: it starts no second copy and calls nothing       *)
(* stopped that is not.                                                      *)
CtlHonest == CtlOneCopy /\ CtlStopped

(* The options of an instance are those of its own line: "Disable automatic  *)
(* restart for this instance" (instances.conf(5), --no-auto-restart), while  *)
(* z_parse_args keeps them in static variables.                              *)
OwnOptions ==
    \A i \in DOMAIN ctl.conf.lines :
        ParseInstances(ctl.conf.lines)[i].opts = ParseArgs(CtlDefaults, ctl.conf.lines[i].opts)
=============================================================================
