------------------------------- MODULE Telnet -------------------------------
(* The telnet proxy's session (modules/telnet): option negotiation with the  *)
(* client and the server, suboptions, the dialogue of a session that is not  *)
(* transparent (environment, gateway authentication, server selection) and   *)
(* STARTTLS.  The parsing of the byte streams and the line editor are module *)
(* TelnetWire: here a message is whole and a line of the client is one       *)
(* message.  The peers keep to the rules of RFC 854.                         *)
EXTENDS Integers, Sequences, FiniteSets, SequencesExt

CONSTANTS
    TelnetConfs    \* [transparent, gwauth: gw_auth_required, tls: the sides where TLS is required, sec: the sides where
                   \*  STARTTLS is permitted, verdicts: what the policy may say of each option, begins: the
                   \*  options the peers take the initiative for, max: at most so many times, envs: environments, lines: what is typed]

VARIABLE
    tn   \* [conf, state, opt: options, asked: do_dont_requested and will_wont_requested, tls: tls_status, done: tls_completed,
         \*  pending: handshake_pending, line: line_editor's line, env: environment_is_received, user, pass:
         \*  gateway_user and gateway_password, passenv: gateway_password_is_from_env, host: server_hostname, fails:
         \*  gw_authentication_failures, authed: the gateway user was authenticated, srv: the server is connected,
         \*  to, from: messages to and from the peers, peer: the peers' own view, n: initiatives]

Sides == {"C", "S"}
TnOther(ep) == IF ep = "C" THEN "S" ELSE "C"
TelnetOptions == {"ECHO", "SGA", "ENV", "NAWS", "TTYPE", "TLS"}
TnTransparent(s) == s.conf.transparent /\ ~s.conf.gwauth
TnConnected(s) == s.state = "RELAYING"
TnQuit(s) == [s EXCEPT !.state = "QUIT"]
Opneg(c, o) == [t |-> "opneg", cmd |-> c, o |-> o, body |-> <<>>]
Sub(o, kind, vars) == [t |-> "sub", cmd |-> kind, o |-> o, body |-> vars]

-----------------------------------------------------------------------------
(* telnetoption.cc.  DO: the peer uses the option; WILL: the proxy does;     *)
(* WANT_*: what the proxy asked for or answered.                             *)
InProgress(s, ep, o, w) == (w \in s.opt[ep][o]) # (("WANT_" \o w) \in s.opt[ep][o])
OptDo(s, ep, o) == {"DO", "WANT_DO"} \subseteq s.opt[ep][o]
OptWill(s, ep, o) == {"WILL", "WANT_WILL"} \subseteq s.opt[ep][o]

CommandReceived(s, ep, c, o) ==
    [s EXCEPT !.opt[ep][o] = CASE c = "WILL" -> @ \union {"DO"}
                               [] c = "WONT" -> @ \ {"DO", "WANT_DO"}
                               [] c = "DO" -> @ \union {"WILL"}
                               [] c = "DONT" -> @ \ {"WILL", "WANT_WILL"}]
CommandSent(s, ep, c, o) ==
    [s EXCEPT !.opt[ep][o] = CASE c = "WILL" -> @ \union {"WANT_WILL"}
                               [] c = "WONT" -> @ \ {"WANT_WILL"}
                               [] c = "DO" -> @ \union {"WANT_DO"}
                               [] c = "DONT" -> @ \ {"WANT_DO"}]

(* telnet_write_packet: nothing is sent while a handshake is waited for. *)
TnWrite(s, ep, m) == IF ep \in s.pending THEN s ELSE [s EXCEPT !.to[ep] = Append(@, m)]
SendOpneg(s, ep, c, o) == TnWrite(CommandSent(s, ep, c, o), ep, Opneg(c, o))

-----------------------------------------------------------------------------
(* telnettls.cc.  FALSE from a state machine is ZV_ABORT, which ends the     *)
(* session.                                                                  *)
ClientNegotiationStart(s) ==
    [SendOpneg(CommandReceived(s, "C", "WILL", "TLS"), "C", "DO", "TLS") EXCEPT !.tls["C"] = "SERVER_REQUESTED"]

(* telnet_tls_switch_stream_to_ssl: the handshake fails, is done, or waits for the other side's. *)
SwitchToSsl(s, ep) ==
    LET started == [s EXCEPT !.tls[ep] = "HANDSHAKE_STARTED"]
        both == IF s.tls[TnOther(ep)] = "HANDSHAKE_STARTED" THEN Sides ELSE {ep}
    IN {TnQuit(started), [started EXCEPT !.done = @ \union both, !.pending = {}],
        [started EXCEPT !.pending = @ \union {ep}]}

TlsClientSm(s, c, entry) ==
    CASE s.tls["C"] = "NONE" /\ (entry = "enforce" \/ (entry = "option" /\ c = "WILL" /\ "C" \in s.conf.sec)) ->
             {ClientNegotiationStart(s)}
      [] s.tls["C"] = "NONE" /\ entry = "option" /\ c = "WILL" /\ "C" \notin s.conf.sec -> {SendOpneg(s, "C", "DONT", "TLS")}
      [] s.tls["C"] = "SERVER_REQUESTED" /\ entry = "option" /\ c = "WILL" -> {[s EXCEPT !.tls["C"] = "CLIENT_STARTING"]}
      [] s.tls["C"] = "CLIENT_STARTING" /\ entry = "option" -> {s}
      [] s.tls["C"] = "CLIENT_STARTING" /\ entry = "sub" -> SwitchToSsl(TnWrite(s, "C", Sub("TLS", "FOLLOWS", <<>>)), "C")
      [] OTHER -> {TnQuit(s)}

ServerNegotiateContinue(s) ==
    LET sent == SendOpneg(CommandReceived(s, "S", "DO", "TLS"), "S", "WILL", "TLS")
    IN [TnWrite(sent, "S", Sub("TLS", "FOLLOWS", <<>>)) EXCEPT !.tls["S"] = "FOLLOWS"]

TlsServerSm(s, c, entry) ==
    CASE s.tls["S"] = "NONE" /\ entry = "enforce" ->
             {[SendOpneg(CommandReceived(s, "S", "DO", "TLS"), "S", "WILL", "TLS") EXCEPT !.tls["S"] = "CLIENT_REQUESTED"]}
      [] s.tls["S"] = "NONE" /\ entry = "option" /\ c = "DO" ->
             {IF "S" \in s.conf.sec THEN ServerNegotiateContinue(s) ELSE SendOpneg(s, "S", "WONT", "TLS")}
      [] s.tls["S"] = "NONE" /\ entry = "option" /\ c # "DO" -> {IF "S" \in s.conf.tls THEN TnQuit(s) ELSE s}
      [] s.tls["S"] = "CLIENT_REQUESTED" /\ entry = "option" /\ c = "DO" -> {ServerNegotiateContinue(s)}
      [] s.tls["S"] = "FOLLOWS" /\ entry = "sub" -> SwitchToSsl(s, "S")
      [] OTHER -> {TnQuit(s)}

TlsSm(s, ep, c, entry) == IF ep = "C" THEN TlsClientSm(s, c, entry) ELSE TlsServerSm(s, c, entry)

(* telnet_tls_start_negotiate_on_side, telnet_tls_start_negotiate *)
StartNegotiate(s, ep) == IF s.tls[ep] = "NONE" /\ ep \in s.conf.tls THEN TlsSm(s, ep, "none", "enforce") ELSE {s}
StartNegotiateBoth(s) ==
    IF s.conf.tls \subseteq s.done THEN {s} ELSE UNION {StartNegotiate(c, "S") : c \in StartNegotiate(s, "C")}

-----------------------------------------------------------------------------
(* process_opneg_non_transparent: before the server is connected the proxy   *)
(* answers itself, unless this is the answer to a request of its own.        *)
AcceptResponse(c) == IF c = "DO" THEN "WILL" ELSE "DO"
DenyResponse(c) == IF c \in {"DO", "DONT"} THEN "WONT" ELSE "DONT"
Whitelisted == {"SGA", "NAWS", "TTYPE"}

OpnegNonTransparent(s, ep, c, o) ==
    LET kind == IF c \in {"WILL", "WONT"} THEN "DO" ELSE "WILL"
        reply == s.asked[kind][o] > 0
        seen == CommandReceived(s, ep, c, o)
    IN IF reply THEN [seen EXCEPT !.asked[kind][o] = @ - 1]
       ELSE SendOpneg(seen, ep, IF c \in {"DO", "WILL"} /\ o \in Whitelisted THEN AcceptResponse(c) ELSE DenyResponse(c), o)

(* replay_opneg_to_server: what was agreed with the client beforehand is     *)
(* answered for it; "" is no answer.                                         *)
Replay(s, c, o) ==
    CASE c = "DO" -> IF OptDo(s, "C", o) /\ ~OptWill(s, "S", o) THEN "WILL" ELSE ""
      [] c = "WILL" -> IF OptWill(s, "C", o) /\ ~OptDo(s, "S", o) THEN "DO" ELSE ""
      [] c = "DONT" -> IF ~InProgress(s, "C", o, "DO") /\ ~OptDo(s, "C", o) THEN "WONT" ELSE ""
      [] c = "WONT" -> IF ~InProgress(s, "C", o, "WILL") /\ ~OptWill(s, "C", o) THEN "DONT" ELSE ""

(* Mutant of OpnegOk: the other side's table is updated. *)
OpnegOkOtherSide(s, ep, c, o) == SendOpneg(CommandReceived(s, TnOther(ep), c, o), TnOther(ep), c, o)
(* process_opneg_ok, process_opneg_reject *)
OpnegOk(s, ep, c, o) == SendOpneg(CommandReceived(s, ep, c, o), TnOther(ep), c, o)
OpnegReject(s, ep, c, o) ==
    IF c \in {"WILL", "WONT"} THEN SendOpneg(CommandReceived(s, ep, "WONT", o), ep, "DONT", o)
    ELSE SendOpneg(CommandReceived(s, ep, "DONT", o), ep, "WONT", o)

(* The policy's part of process_opneg_transparent, with telnet_policy_option *)
OpnegPolicy(s, ep, c, o) ==
    IF o = "TLS" THEN UNION {IF t.state = "QUIT" THEN {t} ELSE StartNegotiateBoth(t) : t \in TlsSm(s, ep, c, "option")}
    ELSE UNION {UNION {{CASE v = "ACCEPT" -> OpnegOk(t, ep, c, o)
                          [] v = "REJECT" -> OpnegReject(t, ep, c, o)
                          [] v = "DROP" -> t
                          [] OTHER -> TnQuit(t)} : t \in StartNegotiateBoth(s)} : v \in s.conf.verdicts[o]}

(* process_opneg.  NAWS is passed on all the same: the client then repeats the window's size. *)
ProcessOpneg(s, ep, c, o) ==
    IF ~TnConnected(s) THEN {OpnegNonTransparent(s, ep, c, o)}
    ELSE IF ep = "C" \/ TnTransparent(s) THEN OpnegPolicy(s, ep, c, o)
    ELSE LET seen == CommandReceived(s, "S", c, o)
             response == Replay(seen, c, o)
         IN IF response = "" THEN OpnegPolicy(seen, ep, c, o)
            ELSE IF c = "DO" /\ o = "NAWS" THEN OpnegPolicy(SendOpneg(seen, "S", "WILL", o), ep, c, o)
            ELSE {SendOpneg(seen, "S", response, o)}

-----------------------------------------------------------------------------
(* filter_special_variable: in the dialogue the client's environment may     *)
(* name the server and the gateway user; the other variables are passed on.  *)
(* parseInbandAuth fails on a bad value.  e: what the variables have set.    *)
SpecialVariable(s, e, v) ==
    LET bad == v.name \in {"SERVER", "USER"} /\ ~TnConnected(s) /\ v.value = "bad"
        gateway == v.name \in {"GW_USER", "GW_PASSWD"} /\ s.conf.gwauth
    IN CASE bad -> [e EXCEPT !.bad = TRUE]
         [] v.name = "SERVER" /\ ~TnConnected(s) /\ ~bad -> [e EXCEPT !.host = v.value]
         [] v.name = "GW_USER" /\ gateway /\ ~TnConnected(s) /\ e.user = "" -> [e EXCEPT !.user = v.value]
         [] v.name = "GW_PASSWD" /\ gateway /\ ~TnConnected(s) /\ e.pass = "" -> [e EXCEPT !.pass = v.value, !.passenv = TRUE]
         [] v.name # "SERVER" /\ ~gateway /\ ~bad -> [e EXCEPT !.passed = Append(@, v)]
         [] OTHER -> e

(* check_and_copy_environment_name_value_pair, over the variables, until one is bad *)
ReadVariables(s, vars) ==
    LET step(e, v) == IF e.bad THEN e
                      ELSE IF TnTransparent(s) THEN [e EXCEPT !.passed = Append(@, v)] ELSE SpecialVariable(s, e, v)
    IN FoldLeft(step, [host |-> s.host, user |-> s.user, pass |-> s.pass, passenv |-> s.passenv, bad |-> FALSE, passed |-> <<>>], vars)

(* process_environment_is: the session, and the variables that are passed on. *)
EnvironmentIs(s, vars) ==
    LET read == ReadVariables(s, vars)
    IN <<[s EXCEPT !.env = @ \/ ~TnConnected(s), !.host = read.host, !.user = read.user, !.pass = read.pass,
                   !.passenv = read.passenv, !.state = IF read.bad THEN "QUIT" ELSE @], read.passed>>

(* process_suboption with the check function of the option and               *)
(* telnet_policy_suboption.  Of a list of variables the refused ones are     *)
(* left out, and what remains is passed on.                                  *)
SubEnabled(s, ep, m) == IF m.cmd = "SEND" THEN OptWill(s, ep, m.o) ELSE OptDo(s, ep, m.o)
SubVerdicts(s, m) == s.conf.verdicts[m.o]

ProcessSub(s, ep, m) ==
    LET read == IF m.o = "ENV" /\ m.cmd = "IS" THEN EnvironmentIs(s, m.body) ELSE <<s, m.body>>
        pass(body) == IF TnConnected(s) THEN TnWrite(read[1], TnOther(ep), [m EXCEPT !.body = body]) ELSE read[1]
    IN IF ~OptDo(s, ep, m.o) /\ ~OptWill(s, ep, m.o) THEN {s}
       ELSE IF m.o = "TLS" THEN TlsSm(s, ep, "none", "sub")
       ELSE IF ~SubEnabled(s, ep, m) THEN {s}
       ELSE IF read[1].state = "QUIT" THEN {read[1]}
       ELSE {CASE v = "ACCEPT" -> pass(read[2])
               [] v \in {"DROP", "REJECT"} -> IF m.body # <<>> THEN pass(<<>>) ELSE read[1]
               [] OTHER -> TnQuit(read[1]) : v \in SubVerdicts(s, m)}

(* process_data, process_command: passed on between connected peers; a line typed at a prompt. *)
ProcessData(s, ep, m) ==
    IF TnConnected(s) THEN TnWrite(s, TnOther(ep), m)
    ELSE IF s.state \in {"PROMPT_USER", "PROMPT_PASSWORD", "PROMPT_SERVER"} /\ ep = "C" THEN [s EXCEPT !.line = m.body]
    ELSE s

-----------------------------------------------------------------------------
(* The dialogue of telnetstate.cc. *)
Prompt(s, state) == TnWrite([s EXCEPT !.state = state, !.line = <<>>], "C", [t |-> "data", cmd |-> "", o |-> "", body |-> <<>>])

(* telnet_event_connect_server *)
TnConnect(s) ==
    {TnQuit(s)} \union StartNegotiate([s EXCEPT !.state = "RELAYING", !.srv = TRUE, !.line = <<>>], "S")

ServerSelection(s) == IF s.conf.transparent \/ s.host # "" THEN TnConnect(s) ELSE {Prompt(s, "PROMPT_SERVER")}

(* telnet_do_gateway_auth: the provider's answer, then the session's userAuthenticated. *)
GatewayAuth(s) == IF s.user = "good" /\ s.pass = "good" THEN BOOLEAN ELSE {FALSE}

AuthenticationFailed(s) ==
    IF s.passenv \/ s.fails + 1 >= 3 THEN TnQuit(s) ELSE Prompt([s EXCEPT !.fails = @ + 1], "PROMPT_PASSWORD")

InbandAuthentication(s) ==
    IF s.user = "" THEN {Prompt(s, "PROMPT_USER")}
    ELSE IF s.pass = "" THEN {Prompt(s, "PROMPT_PASSWORD")}
    ELSE UNION {IF ok THEN ServerSelection([s EXCEPT !.authed = TRUE]) ELSE {AuthenticationFailed(s)} : ok \in GatewayAuth(s)}

StartSession(s) == IF s.conf.gwauth THEN InbandAuthentication(s) ELSE ServerSelection(s)

OpnegFinished(s, o) == s.asked["WILL"][o] = 0 /\ ~InProgress(s, "C", o, "WILL") /\ ~InProgress(s, "C", o, "DO")

(* telnet_state_nt_wait_opneg *)
WaitOpneg(s) ==
    IF ~(\A o \in {"ECHO", "SGA", "ENV"} : OpnegFinished(s, o)) THEN {}
    ELSE IF ~OptWill(s, "C", "ECHO") THEN {TnQuit(s)}
    ELSE UNION {IF t.state = "QUIT" THEN {t}
                ELSE IF OptDo(t, "C", "ENV")
                THEN {[TnWrite(t, "C", Sub("ENV", "SEND", <<>>)) EXCEPT !.state = "WAIT_ENVIRONMENT"]}
                ELSE StartSession(t) : t \in StartNegotiate(s, "C")}

(* telnet_state_nt_prompt_server, _user, _password: a wrong password is tried again by start_inband_authentication. *)
PromptedServer(s) == IF s.line[1] = "good" THEN TnConnect([s EXCEPT !.host = "good"]) ELSE {Prompt(s, "PROMPT_SERVER")}
PromptedUser(s) == InbandAuthentication([s EXCEPT !.user = s.line[1], !.line = <<>>])
PromptedPassword(s) ==
    LET typed == [s EXCEPT !.pass = s.line[1], !.line = <<>>]
    IN UNION {IF ok THEN ServerSelection([typed EXCEPT !.authed = TRUE]) ELSE InbandAuthentication(typed) : ok \in GatewayAuth(typed)}

(* The state's handler in the loop of telnet_main. *)
TnHandler(s) ==
    CASE s.state = "WAIT_OPNEG" -> WaitOpneg(s)
      [] s.state = "WAIT_ENVIRONMENT" -> IF s.env THEN StartSession(s) ELSE {}
      [] s.state = "PROMPT_USER" /\ s.line # <<>> -> PromptedUser(s)
      [] s.state = "PROMPT_PASSWORD" /\ s.line # <<>> -> PromptedPassword(s)
      [] s.state = "PROMPT_SERVER" /\ s.line # <<>> -> PromptedServer(s)
      [] OTHER -> {}

-----------------------------------------------------------------------------
(* The beginning of telnet_main: the server is connected at once, or the     *)
(* proxy asks the client for what the dialogue needs (telnet_event_start_opneg). *)
TnBegin(c) ==
    [conf |-> c, state |-> "START", opt |-> [ep \in Sides |-> [o \in TelnetOptions |-> {}]],
     asked |-> [k \in {"DO", "WILL"} |-> [o \in TelnetOptions |-> 0]], tls |-> [ep \in Sides |-> "NONE"], done |-> {},
     pending |-> {}, line |-> <<>>, env |-> FALSE, user |-> "", pass |-> "", passenv |-> FALSE, host |-> "", fails |-> 0,
     authed |-> FALSE, srv |-> FALSE, to |-> [ep \in Sides |-> <<>>], from |-> [ep \in Sides |-> <<>>],
     peer |-> [ep \in Sides |-> [o \in TelnetOptions |-> [us |-> "NO", him |-> "NO"]]], n |-> 0]

Asking(s, c, o) == [SendOpneg(s, "C", c, o) EXCEPT !.asked[c][o] = @ + 1]
TnStart(s) ==
    IF TnTransparent(s) THEN {TnQuit(s)} \union StartNegotiateBoth([s EXCEPT !.state = "RELAYING", !.srv = TRUE])
    ELSE {[Asking(Asking(Asking(s, "WILL", "ECHO"), "WILL", "SGA"), "DO", "ENV") EXCEPT !.state = "WAIT_OPNEG"]}

-----------------------------------------------------------------------------
(* A peer.  "us": its own use of the option, "him": the other party's.       *)
PeerSend(s, ep, m) == [s EXCEPT !.from[ep] = Append(@, m)]
Direction(c) == IF c \in {"DO", "DONT"} THEN "us" ELSE "him"

PeerAnswers(s, ep, m) ==
    LET d == Direction(m.cmd)
        view == s.peer[ep][m.o][d]
        set(v) == [s EXCEPT !.peer[ep][m.o][d] = v]
    IN CASE m.cmd \in {"DO", "WILL"} /\ view = "NO" ->
                {PeerSend(set("YES"), ep, Opneg(AcceptResponse(m.cmd), m.o)), PeerSend(s, ep, Opneg(DenyResponse(m.cmd), m.o))}
         [] m.cmd \in {"DO", "WILL"} /\ view = "WANT" -> {set("YES")}
         [] m.cmd \in {"DONT", "WONT"} /\ view = "WANT" -> {set("NO")}
         [] m.cmd \in {"DONT", "WONT"} /\ view = "YES" -> {PeerSend(set("NO"), ep, Opneg(DenyResponse(m.cmd), m.o))}
         [] OTHER -> {s}

(* A suboption: the environment is asked for, or TLS follows. *)
PeerSub(s, ep, m) ==
    IF m.o = "ENV" /\ m.cmd = "SEND" /\ s.peer[ep]["ENV"].us = "YES"
    THEN {PeerSend(s, ep, Sub("ENV", "IS", e)) : e \in s.conf.envs}
    ELSE IF m.o = "TLS" THEN {s, PeerSend(s, ep, Sub("TLS", "FOLLOWS", <<>>))}
    ELSE {s}

PeerTypes(s) == IF s.state \in {"PROMPT_USER", "PROMPT_PASSWORD", "PROMPT_SERVER"} THEN s.conf.lines ELSE {}

-----------------------------------------------------------------------------
TnInits == {TnBegin(c) : c \in TelnetConfs}
TnInit == tn \in TnInits
TnRunning == tn.state \notin {"START", "QUIT"}

TnMain == tn.state = "START" /\ tn' \in TnStart(tn)
TnRead(ep) ==
    /\ TnRunning /\ tn.from[ep] # <<>> /\ (ep = "S" => tn.srv)
    /\ LET m == Head(tn.from[ep])
           s == [tn EXCEPT !.from[ep] = Tail(@)]
       IN tn' \in (IF m.t = "opneg" THEN ProcessOpneg(s, ep, m.cmd, m.o)
                   ELSE IF m.t = "sub" THEN ProcessSub(s, ep, m) ELSE {ProcessData(s, ep, m)})
TnLoop == TnRunning /\ tn' \in TnHandler(tn)
(* A stop request, a time-out, a stream at its end, a write that fails. *)
TnEnd == TnRunning /\ tn' = TnQuit(tn)

TnPeerReads(ep) ==
    /\ TnRunning /\ tn.to[ep] # <<>>
    /\ LET m == Head(tn.to[ep])
           s == [tn EXCEPT !.to[ep] = Tail(@)]
       IN tn' \in (IF m.t = "opneg" THEN PeerAnswers(s, ep, m) ELSE IF m.t = "sub" THEN PeerSub(s, ep, m) ELSE {s})
TnPeerBegins(ep, o, d) ==
    /\ TnRunning /\ tn.n < tn.conf.max /\ (ep = "S" => tn.srv) /\ o \in tn.conf.begins
    /\ LET s == [tn EXCEPT !.n = @ + 1]
           view == tn.peer[ep][o][d]
           on == IF d = "us" THEN "WILL" ELSE "DO"
           off == IF d = "us" THEN "WONT" ELSE "DONT"
       IN \/ view = "NO" /\ tn' = PeerSend([s EXCEPT !.peer[ep][o][d] = "WANT"], ep, Opneg(on, o))
          \/ view = "YES" /\ tn' = PeerSend([s EXCEPT !.peer[ep][o][d] = "NO"], ep, Opneg(off, o))
          \/ view = "YES" /\ tn' = PeerSend(s, ep, Sub(o, IF d = "us" THEN "IS" ELSE "SEND", <<>>))
TnTypes ==
    /\ TnRunning /\ tn.from["C"] = <<>> /\ tn.to["C"] = <<>> /\ tn.line = <<>>
    /\ \E l \in PeerTypes(tn) : tn' = PeerSend(tn, "C", [t |-> "data", cmd |-> "", o |-> "", body |-> <<l>>])

TnNext ==
    \/ TnMain \/ TnLoop \/ TnEnd \/ TnTypes
    \/ \E ep \in Sides : TnRead(ep) \/ TnPeerReads(ep)
    \/ \E ep \in Sides, o \in TelnetOptions, d \in {"us", "him"} : TnPeerBegins(ep, o, d)

TnSpec == TnInit /\ [][TnNext]_tn

-----------------------------------------------------------------------------
(* Where gateway authentication is required no server is connected before    *)
(* the user was authenticated, whatever the client's environment holds and   *)
(* in whatever order its answers come.                                       *)
TelnetAuthFirst == tn.srv /\ tn.conf.gwauth => tn.authed

(* With nothing under way, an option that a peer uses is one the proxy's     *)
(* table has in use, and the other way round: suboptions are judged by this  *)
(* table.  (Without TLS, for what is sent while a handshake is waited for is *)
(* discarded, and with a policy that does not change its mind.)              *)
TelnetViews ==
    /\ tn.conf.sec = {} /\ \A o \in TelnetOptions : Cardinality(tn.conf.verdicts[o]) = 1
    /\ TnRunning /\ \A ep \in Sides : tn.to[ep] = <<>> /\ tn.from[ep] = <<>>
    =>
        \A ep \in Sides, o \in TelnetOptions \ {"TLS"} :
            /\ tn.peer[ep][o].us = "YES" <=> OptDo(tn, ep, o)
            /\ tn.peer[ep][o].him = "YES" <=> OptWill(tn, ep, o)

(* The proxy knows what was negotiated and who was authenticated.            *)
TelnetSession == TelnetViews /\ TelnetAuthFirst

=============================================================================
