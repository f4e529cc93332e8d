-------------------------------- MODULE Ftp --------------------------------
(* The FTP proxy (modules/ftp): the control channel with its two modes, and  *)
(* the data channel.  The proxy thread runs ftp_main; the two ends of a data *)
(* connection are reported by callbacks of other threads.  While data is     *)
(* copied the transfer loop polls the control channel too, so a command can  *)
(* be handled in the middle of a transfer.  Sides are "C" and "S".           *)
EXTENDS Integers, Sequences, FiniteSets

CONSTANTS
    FtpConfs,        \* [transparent, mode: data_mode, client, server: security, auth, verdicts, answers: what the policy
                     \*  says of commands and of the server's answers; sends: the client's commands, urgent: it sends
                     \*  them as urgent data too]
    FtpMaxCommands   \* bound: lines a client sends in one session

(* ftp_policy_command_hash_do: the verdicts a policy may use; what it says   *)
(* otherwise is one of them by then.                                         *)
ASSUME FtpVerdicts == \A conf \in FtpConfs : conf.verdicts \subseteq {"ACCEPT", "REJECT", "ABORT"}

VARIABLE
    ftp   \* [conf, st: state, fs: ftp_state, cmd: command_desc, watch: sides polled, bits: data_state,
          \*  how: data_connect and data_listen of each side, strm: data_stream, approved: sides bounceCheck let
          \*  pass, old: oldstate, pre: preamble, drop: drop_answer, hangup, xfer: the transfer, tls: auth_tls_ok,
          \*  prot: data_protection_enabled, pbsz: client_sent_pbsz, auth: auth_done, wire: answers of the server
          \*  not yet read, peer: what the server thinks, pri: urgent data of the client is polled, n: lines read; as
          \*  history, owed: what each line has been answered]

-----------------------------------------------------------------------------
(* ftp_commands: what a command's parser and answer handler are known by,    *)
(* and the direction of its data.                                            *)
Down == {"LIST", "NLST", "RETR", "MLSD"}
Up == {"APPE", "STOR", "STOU"}
ParserOf(c) ==
    CASE c \in Down \union Up \union {"CWD", "DELE", "MKD", "RMD", "RNFR", "SMNT", "STAT", "MLST",
                                      "XCWD", "XMKD", "XRMD"} -> "path"
      [] c \in {"CDUP", "NOOP", "PWD", "SYST", "XCUP", "XPWD"} -> "noarg"
      [] OTHER -> c
NeedsData(c) == c \in Down \union Up

Preconnect == {"PRECONNECT", "PRECONNECT_FEAT", "PRECONNECT_AUTH", "PRECONNECT_PBSZ",
               "PRECONNECT_PROT", "PRECONNECT_LOGIN_U", "PRECONNECT_LOGIN_P"}
Logins == {"LOGIN", "LOGIN_U", "LOGIN_P", "LOGIN_A"}
Talking == {"CONVERSATION", "DATA"}

FirstReady == {"COMMAND_START", "SERVER_START", "SERVER_READY", "SERVER_SAID"}
ConnectReady == FirstReady \union {"CLIENT_START", "CLIENT_READY"}
Ready == [C |-> "CLIENT_READY", S |-> "SERVER_READY"]

-----------------------------------------------------------------------------
(* Mutant of Replied: drop_answer is not looked at. *)
RepliedAnyway(s, final) ==
    LET line == s.owed.line IN
    [s EXCEPT !.drop = FALSE,
              !.owed = IF final THEN [@ EXCEPT !.open = @ \ {line}, !.odd = @ \/ line \notin s.owed.open] ELSE @]
(* ftp_answer_write: at the client, unless it is dropped.  Of every line the *)
(* client sent, owed knows whether its final answer is due (open; the        *)
(* greeting is line 0), which one is spoken of now (line), which one set up  *)
(* the data connection (job), that one was answered twice or had its only    *)
(* final answer dropped (odd), and that one was read while another was due   *)
(* its answer before any data flowed, or a transfer failed after one was     *)
(* read in the middle of it (crossed).                                       *)
Replied(s, final) ==
    LET line == s.owed.line IN
    [s EXCEPT !.drop = FALSE,
              !.owed = IF final THEN [@ EXCEPT !.open = IF s.drop THEN @ ELSE @ \ {line},
                                               !.odd = @ \/ (s.drop <=> line \in s.owed.open)] ELSE @]

(* ftp_data_reset.  A transfer that runs is told to stop. *)
DataReset(s) ==
    LET hung == IF s.hangup THEN Replied(s, FALSE) ELSE s
        back == s.st # "QUIT" /\ s.old \in {"SERVER_TO_CLIENT", "CLIENT_TO_SERVER"}
    IN [hung EXCEPT !.how = [C |-> "none", S |-> "none"], !.strm = {}, !.approved = {}, !.bits = {},
                    !.xfer = IF @ = "runs" THEN "cancelled" ELSE @,
                    !.hangup = FALSE, !.pre = FALSE, !.old = "none", !.pri = FALSE,
                    !.st = IF back THEN s.old ELSE @,
                    !.watch = IF ~back THEN @ ELSE IF s.old = "SERVER_TO_CLIENT" THEN {"S"} ELSE {"C"}]

(* A stream of a data connection is here: the callbacks' good half. *)
Arrived(s, side) ==
    [s EXCEPT !.strm = @ \union {side}, !.bits = @ \union {Ready[side]},
              !.how[side] = IF @ = "trying" THEN "joined" ELSE @]

(* data_state |= bit outside the lock: when a callback runs at the same time *)
(* one of the two bits can be lost.                                          *)
UnlockedOr(s, bit) ==
    LET here(side) == [Arrived(s, side) EXCEPT !.bits = s.bits]
        racing == {side \in {"C", "S"} : s.how[side] \in {"listen", "trying"} /\ side \notin s.strm}
    IN {[s EXCEPT !.bits = @ \union {bit}]}
       \union {[here(side) EXCEPT !.bits = @ \union {bit}] : side \in racing}
       \union {Arrived(s, side) : side \in racing}

(* ftp_data_start.  From here to the reset urgent data of the client is      *)
(* polled, whoever's turn it is.                                             *)
DataStart(s) ==
    LET t == IF "COMMAND_START" \in s.bits THEN DataReset(s) ELSE s
    IN UnlockedOr([t EXCEPT !.watch = @ \ {"C"}, !.pri = TRUE, !.owed.job = IF s.xfer = "none" THEN s.n ELSE @],
                  "COMMAND_START")

(* ftp_data_prepare_listen and ftp_data_prepare_connect: <<success, state>>.  *)
(* The old stream is forgotten; what fails leaves the other kind in place.   *)
PrepareListen(s, side) ==
    LET t == [s EXCEPT !.strm = @ \ {side}, !.approved = @ \ {side}] IN
    {<<TRUE, [t EXCEPT !.how[side] = "listen"]>>,
     <<FALSE, [t EXCEPT !.how[side] = IF @ = "listen" THEN "none" ELSE @]>>}

PrepareConnect(s, side) ==
    LET t == [s EXCEPT !.strm = @ \ {side}, !.approved = @ \ {side}] IN
    {<<TRUE, [t EXCEPT !.how[side] = "connect"]>>,
     <<FALSE, [t EXCEPT !.how[side] = IF @ = "listen" THEN @ ELSE "none"]>>}

Connects(s, side) == s.how[side] \in {"connect", "trying", "joined"}

(* ftp_policy_bounce_check: the policy says yes or no; no resets the data    *)
(* channel.                                                                  *)
BounceCheck(s, side) == {<<TRUE, [s EXCEPT !.approved = @ \union {side}]>>, <<FALSE, DataReset(s)>>}

(* z_attach_start after the check. *)
StartConnect(s, side) ==
    {IF b[1] THEN <<TRUE, [b[2] EXCEPT !.how[side] = "trying"]>> ELSE b : b \in BounceCheck(s, side)}
    \union {<<FALSE, DataReset(s)>>}

(* ftp_data_do_ssl_handshake on both sides and ftp_data_create_transfer. *)
CreateTransfer(s) ==
    {DataReset(s)}
    \union (IF NeedsData(s.cmd) /\ s.strm = {"C", "S"} THEN {[s EXCEPT !.strm = {}, !.xfer = "runs"]} ELSE {})

(* ftp_data_next_step, one operator for each of its three parts. *)
StepServer(s) ==
    IF ~("COMMAND_START" \in s.bits /\ "SERVER_START" \notin s.bits) THEN {<<TRUE, s>>}
    ELSE {IF r[1] THEN <<TRUE, [r[2] EXCEPT !.bits = @ \union {"SERVER_START"}]>> ELSE r :
            r \in IF Connects(s, "S") THEN StartConnect(s, "S") ELSE {<<TRUE, s>>}}

StepClient(s) ==
    IF ~(FirstReady \subseteq s.bits /\ "CLIENT_START" \notin s.bits) THEN {<<TRUE, s>>}
    ELSE LET started(t) == [t EXCEPT !.watch = @ \ {"S"}, !.bits = @ \union {"CLIENT_START"}]
             checked == IF Connects(s, "S") THEN {<<TRUE, s>>} ELSE BounceCheck(s, "S")
         IN UNION {IF ~r[1] THEN {r}
                   ELSE IF Connects(s, "C") THEN StartConnect(started(r[2]), "C") ELSE {<<TRUE, started(r[2])>>}
                     : r \in checked}

(* Mutant of StepTransfer: the client's end is not checked before the copy. *)
StepTransferUnchecked(s) ==
    CASE s.bits = ConnectReady -> CreateTransfer(s)
      [] s.bits \in {{"CANCEL"}, {"DESTROY"}} -> {DataReset(s)}
      [] OTHER -> {s}
StepTransfer(s) ==
    CASE s.bits = ConnectReady ->
            UNION {IF r[1] THEN CreateTransfer(r[2]) ELSE {r[2]} :
                     r \in IF Connects(s, "C") THEN {<<TRUE, s>>} ELSE BounceCheck(s, "C")}
      [] s.bits \in {{"CANCEL"}, {"DESTROY"}} -> {DataReset(s)}
      [] OTHER -> {s}

Stepped(rs, Step(_)) == UNION {IF r[1] THEN Step(r[2]) ELSE {r} : r \in rs}

DataNextStep(s) ==
    UNION {IF r[1] THEN StepTransfer(r[2]) ELSE {r[2]} : r \in Stepped(StepServer(s), StepClient)}

-----------------------------------------------------------------------------
(* The server: the answers to a command, by their first digit or code, and   *)
(* what it thinks afterwards.  Data commands are announced or not.           *)
ServerSays(s, c) ==
    LET peer == s.peer
        yes(p) == {<<<<"2">>, p>>}
        no == {<<<<"5">>, peer>>}
    IN CASE c = "USER" -> {<<<<"331">>, [peer EXCEPT !.login = "user"]>>} \union yes([peer EXCEPT !.login = "in"]) \union no
         [] c = "PASS" -> (IF peer.login = "user" THEN yes([peer EXCEPT !.login = "in"])
                                \union {<<<<"332">>, [peer EXCEPT !.login = "acct"]>>} ELSE {}) \union no
         [] c = "ACCT" -> (IF peer.login = "acct" THEN yes([peer EXCEPT !.login = "in"]) ELSE {}) \union no
         [] c = "REIN" -> yes([peer EXCEPT !.login = "out"]) \union no
         [] c = "AUTH" -> {<<<<"234">>, peer>>} \union no
         [] c = "PROT" -> yes([peer EXCEPT !.prot = TRUE]) \union no
         [] OTHER ->
                no \union IF peer.login # "in" THEN IF c \in {"QUIT", "PBSZ", "FEAT", "HELP"} THEN yes(peer) ELSE {}
                          ELSE IF NeedsData(c) THEN {<<<<"1", "2">>, peer>>, <<<<"1", "4">>, peer>>}
                          ELSE IF c = "RNFR" THEN {<<<<"350">>, peer>>} ELSE yes(peer)

(* ftp_command_write: the command is at the server, which answers it; its    *)
(* answers are to the client's last line.                                    *)
Told(s, c) ==
    {[s EXCEPT !.wire = @ \o [i \in DOMAIN a[1] |-> <<s.n, a[1][i]>>], !.peer = a[2]] : a \in ServerSays(s, c)}

-----------------------------------------------------------------------------
(* The parsers: pairs <<result, state>>.                                     *)

Rejected(s) == {<<"REJECT", s>>}
AllowedIn(s, states) == IF s.fs \in states THEN {<<"ACCEPT", s>>} ELSE Rejected(s)

(* ftp_do_inband_auth: the policy finds credentials for the firewall or not. *)
InbandAuth(s) ==
    {<<TRUE, s>>, <<TRUE, [s EXCEPT !.auth = TRUE]>>} \union (IF s.conf.auth THEN {<<FALSE, s>>} ELSE {})

WithAuth(s, results(_)) ==
    UNION {IF a[1] THEN results(a[2]) ELSE {<<"ABORT", a[2]>>} : a \in InbandAuth(s)}

ParseUSER(s) ==
    CASE s.fs \in Preconnect ->
            Rejected(s) \union
            WithAuth(s, LAMBDA t : {<<"NOOP", [t EXCEPT !.fs = "PRECONNECT_LOGIN_P"]>>,
                                    <<"PROXY_ANS", [t EXCEPT !.fs = "PRECONNECT_LOGIN_U"]>>})
      [] s.fs \in Logins ->
            Rejected(s) \union
            (IF s.conf.transparent THEN {<<"ACCEPT", [s EXCEPT !.fs = "LOGIN_U"]>>}
             ELSE WithAuth(s, LAMBDA t : {<<"ACCEPT", [t EXCEPT !.fs = "LOGIN_U"]>>}))
      [] s.fs \in Talking -> Rejected(s)
      [] OTHER -> {<<"ABORT", s>>}

ParsePASS(s) ==
    CASE s.fs = "PRECONNECT_LOGIN_U" ->
            Rejected(s) \union WithAuth(s, LAMBDA t : {<<"NOOP", [t EXCEPT !.fs = "PRECONNECT_LOGIN_P"]>>})
      [] s.fs = "LOGIN_U" ->
            Rejected(s) \union
            (IF s.conf.transparent THEN {<<"ACCEPT", [s EXCEPT !.fs = "LOGIN_P"]>>}
             ELSE WithAuth(s, LAMBDA t : {<<"ACCEPT", [t EXCEPT !.fs = "LOGIN_P"]>>}))
      [] s.fs \in {"PRECONNECT", "PRECONNECT_LOGIN_P", "LOGIN", "LOGIN_P", "LOGIN_A", "DATA"} -> Rejected(s)
      [] s.fs = "CONVERSATION" -> {<<"ACCEPT", s>>}
      [] OTHER -> {<<"ABORT", s>>}

ParseACCT(s) ==
    CASE s.fs \in {"LOGIN", "LOGIN_U", "LOGIN_P"} -> Rejected(s)
      [] s.fs \in Talking \union {"LOGIN_A"} -> {<<"ACCEPT", s>>}
      [] OTHER -> {<<"ABORT", s>>}

ParsePath(s) ==
    IF s.fs = "DATA" /\ NeedsData(s.cmd)
    THEN {<<"ACCEPT", [s EXCEPT !.watch = {"C", "S"}, !.st = "BOTH_SIDE"]>>} ELSE AllowedIn(s, Talking)

ParseQUIT(s) ==
    Rejected(s) \union
    (CASE s.fs \in Preconnect -> {<<"ABORT", [s EXCEPT !.fs = "PRECONNECT_QUIT"]>>}
       [] s.fs \in Logins \union Talking -> {<<"ACCEPT", [s EXCEPT !.fs = "QUIT"]>>}
       [] OTHER -> {})

ParseABOR(s) ==
    IF s.fs \in Talking
    THEN {<<"ACCEPT", [s EXCEPT !.st = "SERVER_TO_CLIENT", !.fs = "CONVERSATION"]>>}
    ELSE Rejected([s EXCEPT !.fs = IF @ = "RENAME" THEN "CONVERSATION" ELSE @])

ParseRNTO(s) ==
    IF s.fs = "RENAME" THEN ParsePath([s EXCEPT !.fs = "CONVERSATION"]) ELSE Rejected(s)

(* PORT, EPRT, PASV and EPSV first drop the data channel they replace. *)
Renewed(s) == IF s.fs = "DATA" THEN DataReset([s EXCEPT !.fs = "CONVERSATION"]) ELSE s

(* ftp_data_server_start_PORT and its EPRT form: the proxy listens. *)
ServerStartPort(s) ==
    {IF r[1] THEN <<"ACCEPT", r[2]>> ELSE <<"REJECT", [r[2] EXCEPT !.bits = {}]>> : r \in PrepareListen(s, "S")}

ParsePORT(s) ==
    LET t == Renewed(s) IN
    IF t.fs # "CONVERSATION" THEN Rejected(t)
    ELSE Rejected(t) \union (IF t.conf.mode = "PASSIVE" THEN {<<"ACCEPT", t>>} ELSE ServerStartPort(t))

ParsePASV(s) ==
    LET t == Renewed(s) IN
    IF t.fs # "CONVERSATION" THEN Rejected(t)
    ELSE LET u == [t EXCEPT !.bits = {}] IN
         IF t.conf.mode = "ACTIVE" THEN ServerStartPort(u) ELSE {<<"ACCEPT", u>>}

(* The extended forms differ in how an address is written. *)
ParseEPRT(s) == ParsePORT(s)
ParseEPSV(s) == ParsePASV(s)

ParseFEAT(s) ==
    IF s.fs = "PRECONNECT" THEN {<<"PROXY_ANS", [s EXCEPT !.fs = "PRECONNECT_FEAT"]>>}
    ELSE AllowedIn(s, {"LOGIN", "LOGIN_U", "LOGIN_P", "CONVERSATION"})

ToClient(s) ==
    CASE s.st = "SERVER_TO_CLIENT" -> [s EXCEPT !.st = "CLIENT_TO_SERVER", !.watch = {"C"}]
      [] s.st = "NT_SERVER_TO_PROXY" -> [s EXCEPT !.st = "NT_CLIENT_TO_PROXY", !.watch = {"C"}]
      [] OTHER -> s

(* AUTH TLS: passed on to a server that is to be told, else the proxy        *)
(* answers and shakes hands with the client itself.                          *)
OneSided(s) == s.conf.client = "ACCEPT_STARTTLS" /\ s.conf.server # "FORWARD_STARTTLS"

ParseAUTH(s) ==
    LET before == s.fs \in {"PRECONNECT", "PRECONNECT_FEAT"}
        done(ok) == LET t == [Replied(s, TRUE) EXCEPT !.tls = IF ok THEN @ \union {"C"} ELSE @ \ {"C"},
                                                     !.st = IF ok THEN @ ELSE "QUIT"]
                    IN IF before THEN [t EXCEPT !.fs = "PRECONNECT_AUTH"] ELSE ToClient(t)
    IN IF ~(before \/ s.fs = "LOGIN") \/ "C" \in s.tls \/ s.conf.client # "ACCEPT_STARTTLS" THEN Rejected(s)
       ELSE IF before \/ s.conf.server # "FORWARD_STARTTLS" THEN {<<"NOOP", done(ok)>> : ok \in BOOLEAN}
       ELSE {<<"ACCEPT", s>>}

ParsePBSZ(s) ==
    IF s.fs \notin {"CONVERSATION", "PRECONNECT_AUTH"} \/ "C" \notin s.tls THEN Rejected(s)
    ELSE IF s.fs = "PRECONNECT_AUTH" THEN {<<"PROXY_ANS", [s EXCEPT !.pbsz = TRUE, !.fs = "PRECONNECT_PBSZ"]>>}
    ELSE IF OneSided(s) THEN {<<"PROXY_ANS", s>>} ELSE {<<"ACCEPT", s>>}

(* PROT P; the level the client asks for holds for the sides that use TLS. *)
ParsePROT(s) ==
    IF s.fs \notin {"CONVERSATION", "PRECONNECT_PBSZ"} \/ "C" \notin s.tls THEN Rejected(s)
    ELSE IF s.fs = "PRECONNECT_PBSZ"
         THEN {<<"PROXY_ANS", [s EXCEPT !.prot = @ \union {"C"}, !.fs = "PRECONNECT_PROT"]>>}
    ELSE IF OneSided(s) THEN {<<"PROXY_ANS", [s EXCEPT !.prot = @ \union {"C"}]>>}
    ELSE {<<"ACCEPT", [s EXCEPT !.prot = @ \union (IF s.conf.client = "ACCEPT_STARTTLS" THEN {"C"} ELSE {})
                                           \union (IF s.conf.server = "FORWARD_STARTTLS" THEN {"S"} ELSE {})]>>}

(* The commands with an argument the proxy may not like: a type, mode or     *)
(* structure it does not know, a number that is none, nothing to restart at. *)
ParseString(s) == AllowedIn(s, Talking)
ParseTYPE(s) == Rejected(s) \union AllowedIn(s, Talking)
ParseMODE(s) == Rejected(s) \union AllowedIn(s, Talking)
ParseSTRU(s) == Rejected(s) \union AllowedIn(s, Talking)
ParseALLO(s) == Rejected(s) \union AllowedIn(s, Talking)
ParseREST(s) == Rejected(s) \union ParseString(s)

CommandParsed(s) ==
    LET p == ParserOf(s.cmd) IN
    CASE p = "USER" -> ParseUSER(s) [] p = "PASS" -> ParsePASS(s) [] p = "ACCT" -> ParseACCT(s)
      [] p = "path" -> ParsePath(s) [] p = "QUIT" -> ParseQUIT(s) [] p = "ABOR" -> ParseABOR(s)
      [] p = "noarg" -> AllowedIn(s, {"CONVERSATION"})
      [] p = "TYPE" -> ParseTYPE(s) [] p = "MODE" -> ParseMODE(s) [] p = "STRU" -> ParseSTRU(s)
      [] p = "ALLO" -> ParseALLO(s) [] p = "REST" -> ParseREST(s) [] p = "SITE" -> ParseString(s)
      [] p = "RNTO" -> ParseRNTO(s)
      [] p = "PORT" -> ParsePORT(s) [] p = "PASV" -> ParsePASV(s)
      [] p = "EPRT" -> ParseEPRT(s) [] p = "EPSV" -> ParseEPSV(s)
      [] p = "FEAT" -> ParseFEAT(s) [] p = "AUTH" -> ParseAUTH(s)
      [] p = "PBSZ" -> ParsePBSZ(s) [] p = "PROT" -> ParsePROT(s)
      [] p = "REIN" -> IF "C" \in s.tls THEN Rejected(s) ELSE {<<"ACCEPT", s>>}
      [] p = "HELP" -> {<<"ACCEPT", s>>}
      [] p = "CCC" -> Rejected(s)
      [] OTHER -> {<<"ACCEPT", s>>}  \* a command the policy knows and the table does not

(* What goes to the server when the data mode is converted. *)
SentAs(s) ==
    CASE s.cmd = "PORT" /\ s.conf.mode = "PASSIVE" -> "PASV" [] s.cmd = "PASV" /\ s.conf.mode = "ACTIVE" -> "PORT"
      [] s.cmd = "EPRT" /\ s.conf.mode = "PASSIVE" -> "EPSV" [] s.cmd = "EPSV" /\ s.conf.mode = "ACTIVE" -> "EPRT"
      [] OTHER -> s.cmd

(* ftp_policy_command_hash_do and ftp_policy_answer_hash_do: the entry of    *)
(* the command, the default, or what a handler of the policy says.           *)
CommandHashDo(s) == s.conf.verdicts
AnswerHashDo(s) == s.conf.answers

(* ftp_command_process *)
CommandProcess(s) ==
    LET parsed == UNION {IF v = "ACCEPT" THEN CommandParsed(s) ELSE {<<v, s>>} : v \in CommandHashDo(s)}
        verdict(r) == IF r[1] = "ACCEPT" /\ r[2].st = "NT_CLIENT_TO_PROXY" THEN "REJECT" ELSE r[1]
        outcome(r) ==
            CASE verdict(r) = "ACCEPT" ->
                    UNION {Told(t, SentAs(t)) : t \in IF NeedsData(s.cmd) THEN DataStart(r[2]) ELSE {r[2]}}
              [] verdict(r) \in {"REJECT", "PROXY_ANS"} -> {ToClient(Replied(r[2], TRUE))}
              [] verdict(r) = "ABORT" -> {[Replied(r[2], TRUE) EXCEPT !.st = "QUIT"]}
              [] OTHER -> {r[2]}
    IN UNION {outcome(r) : r \in parsed}

-----------------------------------------------------------------------------
(* The answer handlers: pairs <<result, state>>; d is the code of the answer *)
(* or its first digit.  A refusal puts an error of the proxy's own in the    *)
(* place of the answer.                                                      *)
Digit(d) ==
    CASE d \in {"220", "234"} -> "2" [] d \in {"331", "332", "350"} -> "3" [] OTHER -> d
Refusal(s) == {<<"REJECT", s>>}
Passed(s) == {<<"ACCEPT", s>>}

AnswerUSER(s, d) ==
    IF s.fs \in {"LOGIN_U", "LOGIN_P"}
    THEN Passed([s EXCEPT !.fs = CASE Digit(d) = "2" -> "CONVERSATION" [] d = "332" -> "LOGIN_A" [] OTHER -> @])
    ELSE IF s.fs = "CONVERSATION" THEN Passed(s) ELSE Refusal(s)

AnswerPASS(s, d) ==
    IF s.fs = "LOGIN_P"
    THEN Passed([s EXCEPT !.fs = CASE Digit(d) = "2" -> "CONVERSATION" [] d = "332" -> "LOGIN_A" [] OTHER -> @])
    ELSE IF s.fs = "CONVERSATION" THEN Passed(s) ELSE Refusal(s)

AnswerACCT(s, d) ==
    IF s.fs = "LOGIN_A" THEN Passed([s EXCEPT !.fs = IF Digit(d) = "2" THEN "CONVERSATION" ELSE @]) ELSE Refusal(s)

(* ftp_command_answer_path.  The announcement of a download is held back     *)
(* until its first byte.                                                     *)
AnswerPath(s, d) ==
    LET ended == IF s.bits # {} THEN [s EXCEPT !.old = "CLIENT_TO_SERVER", !.fs = "CONVERSATION"]
                 ELSE [s EXCEPT !.fs = "CONVERSATION"]
    IN IF s.fs \notin Talking THEN Refusal(s)
       ELSE CASE d = "1" -> UNION {Passed([t EXCEPT !.old = "SERVER_TO_CLIENT", !.pre = s.cmd \in Down,
                                                     !.drop = IF s.cmd \in Down THEN TRUE ELSE @])
                                     : t \in UnlockedOr(s, "SERVER_SAID")}
              [] Digit(d) = "2" -> Passed(IF "SERVER_SAID" \in s.bits THEN ended ELSE DataReset(ended))
              [] d \in {"4", "5"} -> Passed(DataReset(ended))
              [] OTHER -> Passed(DataReset([s EXCEPT !.old = "CLIENT_TO_SERVER"]))

AnswerQUIT(s) == IF s.fs = "QUIT" THEN Passed([s EXCEPT !.st = "QUIT"]) ELSE Refusal(s)

AnswerABOR(s, d) ==
    IF s.fs \notin Talking THEN Passed(s)
    ELSE Passed(CASE Digit(d) = "2" -> [s EXCEPT !.fs = "CONVERSATION", !.old = "CLIENT_TO_SERVER"]
                  [] d = "4" -> [s EXCEPT !.old = "SERVER_TO_CLIENT", !.bits = {}]
                  [] OTHER -> s)

(* ftp_data_server_start_PASV and _EPSV: an address, or none to be found. *)
ServerStartPasv(s) ==
    {<<FALSE, s>>}
    \union {IF r[1] THEN r ELSE <<FALSE, [r[2] EXCEPT !.bits = {}]>> : r \in PrepareConnect(s, "S")}

(* Then the client's side; E selects what differs in EPRT and EPSV: the      *)
(* states, and data_state cleared where the others reset the channel.        *)
ClientSide(s, Prepare(_, _), failed(_)) ==
    UNION {IF r[1] THEN Passed([r[2] EXCEPT !.fs = "DATA"]) ELSE Refusal(failed(r[2])) : r \in Prepare(s, "C")}

Cleared(s) == [s EXCEPT !.bits = {}]

AnswerPORT(s, d) ==
    LET giveUp == IF s.cmd = "EPRT" THEN Cleared(s) ELSE DataReset(s)
        served == IF s.conf.mode = "PASSIVE" THEN ServerStartPasv(s) ELSE {<<TRUE, s>>}
    IN IF s.fs # "CONVERSATION" THEN Refusal(s)
       ELSE IF Digit(d) = "2" THEN UNION {IF r[1] THEN ClientSide(r[2], PrepareConnect, Cleared)
                                   ELSE Refusal([r[2] EXCEPT !.fs = "DATA"]) : r \in served}
       ELSE IF (s.cmd = "EPRT" /\ s.conf.mode = "PASSIVE") \/ (s.cmd = "PORT" /\ d \notin {"4", "5"}) THEN Refusal(giveUp)
       ELSE Passed(giveUp)

AnswerPASV(s, d) ==
    LET failed(t) == IF s.cmd = "PASV" /\ s.conf.mode # "ACTIVE" THEN DataReset(t) ELSE Cleared(t)
        served == IF s.conf.mode = "ACTIVE" THEN {<<TRUE, s>>} ELSE ServerStartPasv(s)
    IN IF s.fs \notin {"CONVERSATION"} \union (IF s.cmd = "PASV" THEN {"DATA"} ELSE {}) THEN Refusal(s)
       ELSE IF Digit(d) = "2" THEN UNION {IF r[1] THEN ClientSide(r[2], PrepareListen, failed)
                                   ELSE Refusal([r[2] EXCEPT !.fs = "DATA"]) : r \in served}
       ELSE IF s.conf.mode = "ACTIVE" THEN Refusal(Cleared(s)) ELSE Passed(Cleared(s))

AnswerEPRT(s, d) == AnswerPORT(s, d)
AnswerEPSV(s, d) == AnswerPASV(s, d)

AnswerRNFR(s, d) ==
    IF s.fs = "CONVERSATION" THEN Passed([s EXCEPT !.fs = IF d = "350" THEN "RENAME" ELSE @]) ELSE Refusal(s)

(* The answer 234 is written, then both sides shake hands. *)
AnswerAUTH(s, d) ==
    IF d # "234" THEN Passed(s)
    ELSE {<<"NOOP", [Replied(s, TRUE) EXCEPT !.tls = {"C", "S"}]>>, <<"NOOP", [Replied(s, TRUE) EXCEPT !.st = "QUIT"]>>}

AnswerPROT(s, d) == Passed([s EXCEPT !.prot = IF d = "2" THEN @ ELSE {}])

(* ftp_commands has no handler for the answer to REIN. *)
AnswerHandled(s, d) ==
    CASE s.cmd = "USER" -> AnswerUSER(s, d) [] s.cmd = "PASS" -> AnswerPASS(s, d)
      [] s.cmd = "ACCT" -> AnswerACCT(s, d) [] s.cmd = "QUIT" -> AnswerQUIT(s)
      [] s.cmd = "ABOR" -> AnswerABOR(s, d) [] NeedsData(s.cmd) -> AnswerPath(s, d)
      [] s.cmd = "PORT" -> AnswerPORT(s, d) [] s.cmd = "EPRT" -> AnswerEPRT(s, d)
      [] s.cmd = "PASV" -> AnswerPASV(s, d) [] s.cmd = "EPSV" -> AnswerEPSV(s, d)
      [] s.cmd = "RNFR" -> AnswerRNFR(s, d) [] s.cmd = "AUTH" -> AnswerAUTH(s, d)
      [] s.cmd = "PROT" -> AnswerPROT(s, d)
      [] OTHER -> Passed(s)

(* ftp_answer_process *)
AnswerProcess(s, d) ==
    UNION {LET rs == IF v = "ACCEPT" THEN AnswerHandled(s, d) ELSE {<<v, s>>} IN
           {CASE r[1] = "NOOP" -> r[2]
              [] r[1] = "ABORT" -> Replied([r[2] EXCEPT !.st = "QUIT"], TRUE)
              [] OTHER -> Replied(r[2], d # "1" \/ r[1] = "REJECT") : r \in rs}
             : v \in AnswerHashDo(s)}

-----------------------------------------------------------------------------
NobodyThere == [login |-> "none", prot |-> FALSE]
Greeting == <<<<0, "220">>>>

FtpInits ==
    {[conf |-> conf, st |-> "INIT", fs |-> "CONNECT", cmd |-> "none", watch |-> {}, bits |-> {},
      how |-> [C |-> "none", S |-> "none"], strm |-> {}, approved |-> {}, old |-> "none", pre |-> FALSE,
      drop |-> FALSE, hangup |-> FALSE, xfer |-> "none", tls |-> {}, prot |-> {}, pbsz |-> FALSE,
      auth |-> FALSE, wire |-> <<>>, peer |-> NobodyThere, pri |-> FALSE,
      owed |-> [open |-> {0}, line |-> 0, job |-> 0, crossed |-> FALSE, odd |-> FALSE], n |-> 0] : conf \in FtpConfs}
FtpInit == ftp \in FtpInits

(* ftp_connect_server_event and ftp_stream_server_init: the server greets. *)
ServerConnected(s) == [s EXCEPT !.wire = Greeting, !.peer = [login |-> "out", prot |-> FALSE]]

Quit(s) == [s EXCEPT !.st = "QUIT"]

(* The cases FTP_INIT_TRANSPARENT and FTP_INIT_NONTRANSPARENT of ftp_main. *)
FtpStart ==
    /\ ftp.st = "INIT"
    /\ ftp' \in IF ftp.conf.transparent
               THEN {[ServerConnected(ftp) EXCEPT !.st = "SERVER_TO_CLIENT", !.watch = {"S"}, !.fs = "LOGIN"], Quit(ftp)}
               ELSE {[Replied(ftp, TRUE) EXCEPT !.fs = "PRECONNECT", !.st = "NT_CLIENT_TO_PROXY"]}

(* ftp_read_line_get under ftp_command_fetch: a line that cannot be read, is *)
(* too long or does not parse ends the session, with or without a word.      *)
CommandFetchFails(s) == {Quit(s), Quit(Replied(s, FALSE))}

(* ftp_answer_fetch and ftp_answer_parse: so does an answer of the server. *)
AnswerFetchFails(s) == {Quit(s)}

(* What is known of the answers due when one more line of the client's is    *)
(* read.                                                                     *)
Asked(s) ==
    [s.owed EXCEPT !.crossed = @ \/ (s.xfer = "none" /\ s.owed.open # {}),
                   !.open = @ \union {s.n + 1}, !.line = s.n + 1]

(* A command is read and processed; the two modes differ in the state it is  *)
(* processed in.                                                             *)
Commanded(s) ==
    CommandFetchFails(s)
    \union UNION {CommandProcess([s EXCEPT !.cmd = c, !.n = @ + 1, !.owed = Asked(s)]) : c \in s.conf.sends}

(* ftp_proto_nt_client_to_proxy: when all is known, the server is connected, *)
(* but not before the client is authenticated.                               *)
NtAfter(s) ==
    CASE s.fs = "PRECONNECT_LOGIN_P" ->
            IF s.conf.auth /\ ~s.auth THEN {Quit(s)}
            ELSE {[ServerConnected(s) EXCEPT !.st = "NT_SERVER_TO_PROXY", !.fs = "PRECONNECT"], Quit(s)}
      [] s.fs = "PRECONNECT_QUIT" -> {Quit(s)}
      [] OTHER -> {s}

NtClientToProxy ==
    /\ ftp.st = "NT_CLIENT_TO_PROXY" /\ ftp.n < FtpMaxCommands
    /\ ftp' \in UNION {NtAfter(s) : s \in Commanded(ftp)}

(* ftp_proto_nt_send_USER *)
SendUSER(s) == Told([s EXCEPT !.fs = "PRECONNECT_LOGIN_U"], "USER")

(* ftp_proto_nt_server_to_proxy: the proxy replays what the client has said. *)
(* An answer that is not expected is passed over where none is refused.      *)
NtReplay(s, d) ==
    CASE s.fs = "PRECONNECT" ->
            IF d # "220" THEN {s}
            ELSE IF "C" \in s.tls /\ s.conf.server = "FORWARD_STARTTLS"
                 THEN Told([s EXCEPT !.fs = "PRECONNECT_AUTH"], "AUTH") ELSE SendUSER(s)
      [] s.fs = "PRECONNECT_AUTH" ->
            {Quit(Replied(s, TRUE))} \union
            (IF d # "234" THEN {}
             ELSE LET t == [s EXCEPT !.tls = @ \union {"S"}] IN
                  IF s.pbsz THEN Told([t EXCEPT !.fs = "PRECONNECT_PBSZ"], "PBSZ") ELSE SendUSER(t))
      [] s.fs = "PRECONNECT_PBSZ" ->
            IF d # "2" THEN {Quit(Replied(s, TRUE))}
            ELSE IF "C" \in s.prot THEN Told([s EXCEPT !.fs = "PRECONNECT_PROT"], "PROT") ELSE SendUSER(s)
      [] s.fs = "PRECONNECT_PROT" -> IF d = "2" THEN SendUSER(s) ELSE {Quit(Replied(s, TRUE))}
      [] s.fs = "PRECONNECT_LOGIN_U" ->
            CASE d = "331" -> Told([s EXCEPT !.fs = "LOGIN_P", !.st = "SERVER_TO_CLIENT", !.watch = {"S"}], "PASS")
              [] d = "2" -> {[Replied(s, TRUE) EXCEPT !.fs = "CONVERSATION", !.st = "CLIENT_TO_SERVER", !.watch = {"C"}]}
              [] OTHER -> {s}
      [] OTHER -> {Quit(s)}

NtServerToProxy ==
    /\ ftp.st = "NT_SERVER_TO_PROXY"
    /\ \/ ftp' \in AnswerFetchFails(ftp)
       \/ /\ ftp.wire # <<>>
          /\ ftp' \in NtReplay([ftp EXCEPT !.wire = Tail(@), !.owed.line = ftp.n], Head(ftp.wire)[2])

-----------------------------------------------------------------------------
Polls == ftp.st \in {"SERVER_TO_CLIENT", "CLIENT_TO_SERVER", "BOTH_SIDE"} /\ ftp.xfer # "cancelled"

(* The rest of ftp_listen_both_side, which the transfer loop has not. *)
AfterPoll(s) ==
    IF s.xfer # "none"
    THEN {[s EXCEPT !.xfer = IF s.st = "QUIT" THEN "cancelled" ELSE @]}
    ELSE IF s.bits # {} /\ s.st # "QUIT"
    THEN {[t EXCEPT !.st = IF t.bits # {} /\ @ # "QUIT" THEN "BOTH_SIDE" ELSE @] : t \in DataNextStep(s)}
    ELSE {s}

(* ftp_client_data and ftp_proto_client_to_server: called for G_IO_IN and, in *)
(* the middle of an exchange, for G_IO_PRI.                                   *)
FtpClientData ==
    /\ Polls /\ ("C" \in ftp.watch \/ (ftp.pri /\ ftp.conf.urgent))
    /\ ftp.n < FtpMaxCommands
    /\ ftp' \in UNION {AfterPoll(s) : s \in Commanded([ftp EXCEPT !.st = "SERVER_TO_CLIENT", !.watch = {"S"}])}

(* ftp_server_data and ftp_proto_server_to_client *)
FtpServerData ==
    /\ Polls /\ "S" \in ftp.watch /\ ftp.wire # <<>>
    /\ LET s == [ftp EXCEPT !.wire = Tail(@), !.owed.line = Head(ftp.wire)[1], !.st = "CLIENT_TO_SERVER", !.watch = {"C"}] IN
       ftp' \in UNION {AfterPoll(t) : t \in AnswerFetchFails(ftp) \union AnswerProcess(s, Head(ftp.wire)[2])}

(* z_poll_wakeup by a callback. *)
FtpWakeup ==
    /\ Polls /\ ftp.xfer = "none" /\ ftp.bits # {}
    /\ ftp' \in AfterPoll(ftp)

FtpTimeout ==
    /\ Polls /\ ftp.xfer = "none"
    /\ ftp' = Quit(Replied(ftp, FALSE))

(* ftp_transfer_dst_write and ftp_transfer_dst_shutdown: the announcement    *)
(* that was held back goes out with the first byte or at the end.            *)
PreambleWritten(s) == IF s.pre THEN [Replied(s, FALSE) EXCEPT !.pre = FALSE] ELSE s

(* ftp_data_transfer ends; a failure is answered in place of the server's    *)
(* own verdict, which is dropped when it comes.                              *)
FtpTransferEnds ==
    /\ ftp.xfer \in {"runs", "cancelled"}
    /\ LET announced == PreambleWritten(ftp)
           failed(s) == [Replied([s EXCEPT !.owed.line = s.owed.job], TRUE) EXCEPT
                           !.drop = TRUE, !.owed.crossed = @ \/ s.n # s.owed.job]
       IN \E s \in {failed(ftp), failed(announced)} \union (IF ftp.xfer = "runs" THEN {announced} ELSE {}) :
             ftp' = DataReset([s EXCEPT !.xfer = "none"])

(* The callbacks.  A listener takes one connection. *)
DataAccepted(side) ==
    /\ ftp.how[side] = "listen" /\ side \notin ftp.strm /\ ftp.bits # {"CANCEL"}
    /\ ftp' \in {Arrived(ftp, side), [ftp EXCEPT !.bits = {"CANCEL"}, !.st = "QUIT", !.hangup = TRUE]}

(* A server that cannot be reached is left to say so itself. *)
DataConnected(side) ==
    /\ ftp.how[side] = "trying" /\ Ready[side] \notin ftp.bits /\ ftp.bits \notin {{"CANCEL"}, {"DESTROY"}}
    /\ ftp' \in {Arrived(ftp, side),
                 IF side = "C" THEN [ftp EXCEPT !.bits = {"DESTROY"}, !.st = "QUIT", !.hangup = TRUE]
                 ELSE [ftp EXCEPT !.bits = {"DESTROY"}, !.st = "SERVER_TO_CLIENT"]}

(* z_proxy_loop_iteration fails. *)
FtpStopped == Polls /\ ftp.xfer = "none" /\ ftp' = Quit(ftp)

FtpMainEnds ==
    /\ ftp.st = "QUIT" /\ ftp.xfer = "none"
    /\ ftp' = [DataReset(ftp) EXCEPT !.st = "ended"]

FtpNext ==
    FtpStart \/ NtClientToProxy \/ NtServerToProxy \/ FtpClientData \/ FtpServerData \/ FtpWakeup
    \/ FtpTimeout \/ FtpTransferEnds \/ FtpStopped \/ FtpMainEnds
    \/ \E side \in {"C", "S"} : DataAccepted(side) \/ DataConnected(side)

FtpSpec == FtpInit /\ [][FtpNext]_ftp

-----------------------------------------------------------------------------
(* A policy that does not interfere with what the server answers. *)
AnswersPass == ftp.conf.answers = {"ACCEPT"}

(* No bytes flow on a data connection before the policy's bounceCheck has    *)
(* approved both of its ends, however the ends came to be there              *)
(* (ftp_data_next_step, the callbacks, PORT and PASV in every data mode),    *)
(* where the answer to a PORT is left to its handler and the client sends no *)
(* command as urgent data: such a PORT, read before the server's answer to   *)
(* ABOR, leaves an end nobody checked for an urgent RETR that the policy     *)
(* rejects.                                                                  *)
FtpBounceChecked ==
    [][AnswersPass /\ ~ftp.conf.urgent /\ ftp.xfer = "none" /\ ftp'.xfer = "runs" => ftp'.approved = {"C", "S"}]_ftp

(* The same for every policy and client: it fails also where answers and     *)
(* data commands are rejected, since a PORT in the middle of a transfer's    *)
(* set-up then leaves a new listener in the place of the one checked.        *)
FtpEndsChecked ==
    [][ftp.xfer = "none" /\ ftp'.xfer = "runs" => ftp'.approved = {"C", "S"}]_ftp

(* Every line of the client is finally answered once at most, and no answer  *)
(* that a line is still due is dropped: what the server says of a transfer   *)
(* the proxy has already called failed is dropped, and nothing else is       *)
(* (drop_answer, the preamble, commands handled during a transfer), as long  *)
(* as no line crossed an earlier one.                                        *)
FtpOneFinal == AnswersPass /\ ~ftp.owed.crossed => ~ftp.owed.odd

(* In non-transparent mode no server is connected for a client that has not  *)
(* passed the authentication the policy asks for (auth_done).                *)
FtpAuthFirst == ftp.conf.auth /\ ~ftp.conf.transparent /\ ftp.peer.login # "none" => ftp.auth

(* A control connection gives every line its own answer, and no client a     *)
(* server too early.                                                         *)
FtpControl == FtpOneFinal /\ FtpAuthFirst

=============================================================================
