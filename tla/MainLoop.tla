------------------------------ MODULE MainLoop ------------------------------
(* The main loop of a Zorp process (lib/zorp.cc, zorp/main.cc): the load of  *)
(* the policy and its reload on SIGHUP or on the SZIG command RELOAD, the    *)
(* reference counts of policies (lib/pypolicy.cc) and the commands RELOAD    *)
(* and RELOAD RESULT (lib/szig.cc).  SZIG connections are served by the main *)
(* loop itself; signals come at any time; sessions run in their own threads. *)
EXTENDS Integers, Sequences, FiniteSets

CONSTANTS
    LoopConfs,    \* [clients: SZIG clients that ask for reloads, signals: at most so many SIGHUPs]
    MaxPolicies,  \* bound: policies ever loaded
    MaxVersions,  \* bound: versions of the policy file
    LoopSessions  \* sessions that may run

ASSUME LoopConstants ==
    /\ MaxPolicies \in Nat \ {0} /\ MaxVersions \in Nat \ {0} /\ IsFiniteSet(LoopSessions)
    /\ \A c \in LoopConfs : c.signals \in Nat

VARIABLE
    ml   \* [conf, at: where the main thread is, file: the version of the policy file, good: how far each version gets,
         \*  cur: current_policy, new: the policy being loaded, pol: per policy [ver, refs: ref_cnt, on: its init() was run,
         \*  idle: pending z_policy_free calls, freed], hup: hup_received, term: term_received, result: reload_result, ready: what
         \*  the last poll found, asks: per client [at, ver: the file's version when it asked, answer, told: the version in use then],
         \*  session: the policy each session runs in, or 0, signals: SIGHUPs so far, wanted: the version a reload was asked for]

Outcomes == {"good", "bad_load", "bad_init"}
NoPolicy == [ver |-> 0, refs |-> 0, on |-> FALSE, idle |-> 0, freed |-> FALSE]
PolicyIds == 1 .. MaxPolicies
Used(s) == {p \in PolicyIds : s.pol[p] # NoPolicy}

-----------------------------------------------------------------------------
(* z_policy_ref, z_policy_unref: with one reference left, the main thread's  *)
(* own, the policy is freed from an idle callback.                           *)
PolicyRef(s, p) == [s EXCEPT !.pol[p] = [s.pol[p] EXCEPT !.refs = @ + 1]]
(* Mutant of PolicyUnref: the policy goes while a session still refers to it. *)
PolicyUnrefEager(s, p) ==
    [s EXCEPT !.pol[p] = [s.pol[p] EXCEPT !.refs = @ - 1, !.idle = IF s.pol[p].refs <= 3 THEN @ + 1 ELSE @]]
PolicyUnref(s, p) ==
    [s EXCEPT !.pol[p] = [s.pol[p] EXCEPT !.refs = @ - 1, !.idle = IF s.pol[p].refs = 2 THEN @ + 1 ELSE @]]

(* z_policy_free, z_policy_thread_destroy: purge() and the end of the interpreter *)
PolicyFree(s, p) == [s EXCEPT !.pol[p] = [s.pol[p] EXCEPT !.idle = @ - 1, !.freed = TRUE]]

-----------------------------------------------------------------------------
(* z_load_policy in three steps: z_policy_boot and z_policy_load read the    *)
(* file, z_policy_init runs init(), and one of the two policies is torn down.*)
LoadPolicy(s) ==
    LET p == Cardinality(Used(s)) + 1
    IN IF p > MaxPolicies THEN {}
       ELSE {[s EXCEPT !.at = IF s.good[s.file] = "bad_load" THEN "unload" ELSE "init", !.new = p,
                       !.pol[p] = [NoPolicy EXCEPT !.ver = s.file, !.refs = 2]]}

InitPolicy(s) == [s EXCEPT !.at = IF s.good[s.pol[s.new].ver] = "good" THEN "swap" ELSE "unload", !.pol[s.new] = [s.pol[s.new] EXCEPT !.on = TRUE]]

(* Mutant of FinishLoad: the result of a failed load is not stored. *)
FinishLoadStale(s, ok) ==
    LET ran == [s EXCEPT !.new = 0, !.hup = FALSE, !.result = ok \/ @]
    IN IF s.at = "unload" /\ s.cur = 0 THEN [s EXCEPT !.at = "failed", !.new = 0]
       ELSE IF s.cur = 0 THEN [s EXCEPT !.at = IF s.term THEN "cleanup" ELSE "poll", !.cur = s.new, !.new = 0]
       ELSE [ran EXCEPT !.at = "term", !.cur = IF ok THEN s.new ELSE s.cur]
(* The end of the load: a failed policy leaves the old one as it was.  The   *)
(* first load decides whether the process starts.                            *)
FinishLoad(s, ok) ==
    LET ran == [s EXCEPT !.new = 0, !.hup = FALSE, !.result = ok]
    IN IF s.at = "unload" /\ s.cur = 0 THEN [s EXCEPT !.at = "failed", !.new = 0]
       ELSE IF s.cur = 0 THEN [s EXCEPT !.at = IF s.term THEN "cleanup" ELSE "poll", !.cur = s.new, !.new = 0]
       ELSE [ran EXCEPT !.at = "term", !.cur = IF ok THEN s.new ELSE s.cur]
UnloadPolicy(s) == FinishLoad(PolicyUnref([s EXCEPT !.pol[s.new] = [s.pol[s.new] EXCEPT !.on = FALSE]], s.new), FALSE)
SwapPolicy(s) ==
    FinishLoad(IF s.cur = 0 THEN s ELSE PolicyUnref([s EXCEPT !.pol[s.cur] = [s.pol[s.cur] EXCEPT !.on = FALSE]], s.cur), TRUE)

-----------------------------------------------------------------------------
(* z_szig_handle_command *)
HandleReload(s, c) == [s EXCEPT !.hup = TRUE, !.wanted = s.file, !.asks[c] = [@ EXCEPT !.at = "initiated", !.ver = s.file]]
HandleResult(s, c) == [s EXCEPT !.asks[c] = [@ EXCEPT !.at = "done", !.answer = s.result, !.told = s.pol[s.cur].ver]]

(* One g_main_context_iteration: the sources that the poll found ready are   *)
(* dispatched in some order, the idle ones among them.                       *)
Sources(s) ==
    {<<"client", c>> : c \in {d \in DOMAIN s.asks : s.asks[d].at \in {"ask", "askresult"}}} \union
    {<<"idle", p>> : p \in {q \in PolicyIds : s.pol[q].idle > 0}}
Poll(s) == [s EXCEPT !.at = "dispatch", !.ready = Sources(s)]
DispatchSource(s, x) ==
    LET taken == [s EXCEPT !.ready = @ \ {x}]
    IN IF x[1] = "idle" THEN PolicyFree(taken, x[2])
       ELSE IF s.asks[x[2]].at = "ask" THEN HandleReload(taken, x[2])
       ELSE HandleResult(taken, x[2])

(* z_main_loop after an iteration: the reload, then the end *)
LoopTurn(s) == [s EXCEPT !.at = IF s.hup THEN "load" ELSE "term"]
LoopTerm(s) == [s EXCEPT !.at = IF s.term THEN "cleanup" ELSE "poll"]

-----------------------------------------------------------------------------
LoopInits ==
    {[conf |-> c, at |-> "load", file |-> 1, good |-> g, cur |-> 0, new |-> 0, pol |-> [p \in PolicyIds |-> NoPolicy], hup |-> FALSE,
      term |-> FALSE, result |-> FALSE, ready |-> {}, session |-> [x \in LoopSessions |-> 0], signals |-> 0, wanted |-> 0,
      asks |-> [d \in c.clients |-> [at |-> "idle", ver |-> 0, answer |-> FALSE, told |-> 0]]]
        : c \in LoopConfs, g \in [1 .. MaxVersions -> Outcomes]}
LoopInit == ml \in LoopInits

LoopLoad == ml.at = "load" /\ ml' \in LoadPolicy(ml)
LoopInitPolicy == ml.at = "init" /\ ml' = InitPolicy(ml)
LoopUnload == ml.at = "unload" /\ ml' = UnloadPolicy(ml)
LoopSwap == ml.at = "swap" /\ ml' = SwapPolicy(ml)
LoopPoll == ml.at = "poll" /\ ml' = Poll(ml)
LoopDispatch == ml.at = "dispatch" /\ \E x \in ml.ready : ml' = DispatchSource(ml, x)
LoopCheck == ml.at = "dispatch" /\ ml.ready = {} /\ ml' = LoopTurn(ml)
LoopGoOn == ml.at = "term" /\ ml' = LoopTerm(ml)
(* z_policy_cleanup, and the end of the process *)
LoopCleanup == ml.at = "cleanup" /\ ml' = [ml EXCEPT !.at = "ended"]

Alive(s) == s.at \notin {"ended", "failed"}
(* z_sighup_handler, z_sigterm_handler *)
SigHup == Alive(ml) /\ ml.signals < ml.conf.signals
          /\ ml' = [ml EXCEPT !.hup = TRUE, !.signals = @ + 1, !.wanted = ml.file]
SigTerm == Alive(ml) /\ ~ml.term /\ ml' = [ml EXCEPT !.term = TRUE]
AdminWrites == Alive(ml) /\ ml.file < MaxVersions /\ ml' = [ml EXCEPT !.file = @ + 1]
(* A client asks for a reload, reads the answer and asks for the result. *)
ClientAsks ==
    \E c \in DOMAIN ml.asks :
        /\ Alive(ml) /\ ml.asks[c].at \in {"idle", "initiated"}
        /\ ml' = [ml EXCEPT !.asks[c].at = IF @ = "idle" THEN "ask" ELSE "askresult"]
(* A session is started by a listener of an initialised policy and ends in   *)
(* its own thread (z_policy_thread_new, z_policy_thread_destroy).            *)
SessionStarts ==
    \E x \in LoopSessions, p \in PolicyIds :
        /\ Alive(ml) /\ ml.session[x] = 0 /\ ml.pol[p].on
        /\ ml' = PolicyRef([ml EXCEPT !.session[x] = p], p)
SessionStops ==
    \E x \in LoopSessions :
        Alive(ml) /\ ml.session[x] # 0 /\ ml' = PolicyUnref([ml EXCEPT !.session[x] = 0], ml.session[x])

LoopMain == LoopLoad \/ LoopInitPolicy \/ LoopUnload \/ LoopSwap \/ LoopPoll \/ LoopDispatch \/ LoopCheck \/ LoopGoOn \/ LoopCleanup
LoopNext == LoopMain \/ SigHup \/ SigTerm \/ AdminWrites \/ ClientAsks \/ SessionStarts \/ SessionStops
LoopSpec == LoopInit /\ [][LoopNext]_ml

-----------------------------------------------------------------------------
(* Reloads, good and bad, and sessions that outlive their policy's days      *)
(* never free a policy that is used: the current one, and those of running   *)
(* sessions, keep their references; a policy is freed once and with the main *)
(* thread's reference alone (the assertion of z_policy_thread_destroy); and  *)
(* between loads the current policy is the one whose init() is in effect.    *)
PolicyHeld ==
    /\ \A p \in PolicyIds :
         /\ ml.pol[p].idle + (IF ml.pol[p].freed THEN 1 ELSE 0) <= 1
         /\ (ml.pol[p].freed \/ ml.pol[p].idle > 0) => ml.pol[p].refs = 1 /\ p # ml.cur /\ p # ml.new
         /\ \A x \in LoopSessions : ml.session[x] = p => ~ml.pol[p].freed /\ ml.pol[p].idle = 0
    /\ ml.at \in {"poll", "dispatch", "term"} => {p \in PolicyIds : ml.pol[p].on} = {ml.cur}

(* An administrator told "OK Reload successful" is served by the policy file *)
(* he had in place when he asked, or by a later one (z_main_loop,            *)
(* z_main_loop_get_last_reload_result), whatever other clients ask meanwhile.*)
ReloadAnswered == \A c \in DOMAIN ml.asks : ml.asks[c].at = "done" /\ ml.asks[c].answer => ml.asks[c].told >= ml.asks[c].ver

(* No reload request is lost: between loads without one outstanding, the     *)
(* last load read the file as it was when the last reload was asked for, or  *)
(* later.                                                                    *)
ReloadNotLost ==
    ml.at = "poll" /\ ~ml.hup => \E p \in Used(ml) : ml.pol[p].ver >= ml.wanted
=============================================================================
