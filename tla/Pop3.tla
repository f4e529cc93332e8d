-------------------------------- MODULE Pop3 --------------------------------
(* The POP3 proxy (modules/pop3): one thread that alternates between a line  *)
(* of the client and the answer of the server, the policy's verdict on both, *)
(* and the SASL exchange that bypasses the command table.  Lines are known   *)
(* by their command and the shape of their argument; a multi-line answer is  *)
(* a status line followed by one "body" item.                                *)
EXTENDS Integers, Sequences

CONSTANTS
    Pop3Policies,     \* the request hashes to check: command -> action, "*" included
    PermitUnknown,    \* those that go with permit_unknown_command
    Pop3Commands,     \* the commands a client sends
    MaxAuthLines,     \* max_authline_count
    MaxRequests       \* bound: lines a client sends in one session

VARIABLES
    pop3Policy,       \* self->commands_policy
    pop3State,        \* self->pop3_state
    pop3Turn,         \* self->state
    pop3Request,      \* command and response_multiline of the line in work
    authLines,        \* self->auth_lines
    pop3Server,       \* the server's own idea of the session
    pop3Wire,         \* what the server has sent and the proxy has not read
    requests,         \* lines read from the client
    replies           \* answers completed at the client

pop3Vars == <<pop3Policy, pop3State, pop3Turn, pop3Request, authLines,
              pop3Server, pop3Wire, requests, replies>>

-----------------------------------------------------------------------------
(* The command table and what its parsers do with an argument.               *)

Args == {"none", "one", "two", "bad", "long"}

Known(states, mline, parse, answer) ==
    [states |-> states, mline |-> mline, parse |-> parse, answer |-> answer]

KnownCommands ==
    LET Trans == {"TRANS"} IN
    [APOP |-> Known({"AUTH"}, FALSE, "APOP", "login"),
     DELE |-> Known(Trans, FALSE, "Num_One", "any"),
     LIST |-> Known(Trans, TRUE, "Num_OneOptional", "any"),
     LAST |-> Known(Trans, FALSE, "Noarg", "numbers"),
     NOOP |-> Known(Trans, FALSE, "Noarg", "any"),
     PASS |-> Known({"AUTH_U"}, FALSE, "PASS", "login"),
     QUIT |-> Known({"AUTH", "AUTH_U", "TRANS"}, FALSE, "Noarg", "QUIT"),
     RETR |-> Known(Trans, TRUE, "Num_One", "any"),
     RSET |-> Known(Trans, FALSE, "Noarg", "any"),
     STAT |-> Known(Trans, FALSE, "Noarg", "numbers"),
     TOP  |-> Known(Trans, TRUE, "Num_Two", "any"),
     UIDL |-> Known(Trans, TRUE, "Num_OneOptional", "any"),
     USER |-> Known({"AUTH"}, FALSE, "USER", "USER"),
     AUTH |-> Known({"AUTH"}, FALSE, "AUTH", "any")]

IsKnown(c) == c \in DOMAIN KnownCommands

(* Junk after a number is cut off, so two numbers are good for one. *)
ParseNum_One(a) == IF a \in {"one", "two"} THEN "ACCEPT" ELSE "ABORT"

(* A missing second number is a reject, a negative or huge one an abort; an  *)
(* empty argument reads as one number.                                       *)
ParseNum_Two(a) ==
    CASE a = "two" -> "ACCEPT"
      [] a = "bad" -> "ABORT"
      [] OTHER -> "REJECT"

ParseLength(a) == IF a = "long" THEN "REJECT" ELSE "ACCEPT"

ParseAPOP(a) == IF a = "two" THEN "ACCEPT" ELSE "REJECT"

CommandParse(c, a) ==
    LET p == KnownCommands[c].parse IN
    CASE p = "Num_One" -> ParseNum_One(a)
      [] p = "Num_OneOptional" -> IF a = "none" THEN "ACCEPT" ELSE ParseNum_One(a)
      [] p = "Num_Two" -> ParseNum_Two(a)
      [] p \in {"USER", "PASS"} -> ParseLength(a)
      [] p = "APOP" -> ParseAPOP(a)
      [] p \in {"Noarg", "AUTH"} -> "ACCEPT"

(* LIST and UIDL with an argument are answered with one line. *)
Multiline(c, a) ==
    KnownCommands[c].mline /\ ~(KnownCommands[c].parse = "Num_OneOptional" /\ a # "none")

-----------------------------------------------------------------------------
(* The policy.  A callback may answer anything.                              *)

Entry(c) ==
    IF c \in DOMAIN pop3Policy THEN pop3Policy[c]
    ELSE IF "*" \in DOMAIN pop3Policy THEN pop3Policy["*"] ELSE "absent"

(* <<verdict, response_multiline>> for a request.  The action for multi-line  *)
(* answers is returned as it stands.                                         *)
CommandVerdicts(c) ==
    LET e == Entry(c) IN
    CASE e = "ACCEPT" -> {<<"ACCEPT", FALSE>>}
      [] e = "ACCEPT_MLINE" -> {<<"ACCEPT_MLINE", TRUE>>}
      [] e \in {"REJECT", "absent"} -> {<<"REJECT", FALSE>>}
      [] e = "POLICY" -> {<<"ACCEPT", FALSE>>, <<"ACCEPT", TRUE>>, <<"REJECT", FALSE>>, <<"ABORT", FALSE>>}
      [] OTHER -> {<<"ABORT", FALSE>>}

(* The verdict on the answer, from the entry of the request. *)
ResponseVerdicts(c) ==
    LET e == Entry(c) IN
    CASE e \in {"ACCEPT", "ACCEPT_MLINE"} -> {"ACCEPT"}
      [] e = "POLICY" -> {"ACCEPT", "REJECT", "ABORT"}
      [] e = "absent" -> {"REJECT"}
      [] OTHER -> {"ABORT"}

-----------------------------------------------------------------------------
(* The server.  It answers each line once, and a multi-line answer only when *)
(* it is positive.                                                           *)

Answer(c, a) ==
    LET item(kind) == [for |-> requests', kind |-> kind]
        body == IF IsKnown(c) /\ Multiline(c, a) THEN <<item("body")>> ELSE <<>>
        ok(next) == pop3Server' = next /\ pop3Wire' = pop3Wire \o <<item("+OK")>> \o body
        err(next) == pop3Server' = next /\ pop3Wire' = Append(pop3Wire, item("-ERR"))
    IN
    \/ pop3Server = "gone" /\ UNCHANGED <<pop3Server, pop3Wire>>
    \/ pop3Server = "sasl" /\ ok("trans")
    \/ pop3Server = "sasl" /\ err("auth")
    \/ pop3Server = "sasl" /\ c # "*" /\ pop3Wire' = Append(pop3Wire, item("+ ")) /\ UNCHANGED pop3Server
    \/ pop3Server \in {"auth", "user", "trans"} /\ c = "QUIT" /\ ok("gone")
    \/ pop3Server \in {"auth", "user", "trans"} /\ c # "QUIT" /\ err(pop3Server)
    \/ pop3Server \in {"auth", "user"} /\ c = "USER" /\ ok("user")
    \/ pop3Server = "user" /\ c = "PASS" /\ ok("trans")
    \/ pop3Server \in {"auth", "user"} /\ c = "APOP" /\ ok("trans")
    \/ /\ pop3Server \in {"auth", "user"} /\ c = "AUTH"
       /\ pop3Server' = "sasl" /\ pop3Wire' = Append(pop3Wire, item("+ "))
    \/ pop3Server = "trans" /\ c \notin {"USER", "PASS", "APOP", "AUTH", "QUIT"} /\ ok("trans")

(* The server closes, or sends something that is no POP3 answer. *)
ServerCloses ==
    /\ pop3State # "QUIT" /\ pop3Server # "gone"
    /\ pop3Server' = "gone"
    /\ pop3Wire' \in {pop3Wire, Append(pop3Wire, [for |-> requests, kind |-> "junk"])}
    /\ UNCHANGED <<pop3Policy, pop3State, pop3Turn, pop3Request, authLines, requests, replies>>

-----------------------------------------------------------------------------
NoRequest == [cmd |-> "GREETING", mline |-> FALSE]

Pop3Init ==
    /\ pop3Policy \in Pop3Policies
    /\ pop3State = "LISTEN" /\ pop3Turn = "SERVER"
    /\ pop3Request = NoRequest /\ authLines = 0
    /\ pop3Server = "auth"
    /\ pop3Wire = <<[for |-> 0, kind |-> "+OK"]>>
    /\ requests = 0 /\ replies = 0

Running == pop3State # "QUIT"

(* pop3_command_reject and pop3_response_reject: one -ERR line. *)
Reject == replies' = replies + 1

(* Mutant of Refuse: a reject is not answered. *)
RefuseSilently(verdict) ==
    /\ replies' = IF verdict = "ABORT" THEN replies + 1 ELSE replies
    /\ pop3State' = IF verdict = "REJECT" THEN pop3State ELSE "QUIT"
(* Everything but ACCEPT: a reject keeps the session, an abort answers and   *)
(* quits, and any other value quits without an answer.                       *)
Refuse(verdict) ==
    /\ IF verdict \in {"REJECT", "ABORT"} THEN Reject ELSE UNCHANGED replies
    /\ pop3State' = IF verdict = "REJECT" THEN pop3State ELSE "QUIT"

(* pop3_command_write: the line goes to the server, and it is its turn. *)
Forward(c, a, mline, next) ==
    /\ pop3Request' = [cmd |-> c, mline |-> mline]
    /\ pop3State' = next
    /\ pop3Turn' = "SERVER"
    /\ Answer(c, a)
    /\ UNCHANGED replies

StaysWithClient == UNCHANGED <<pop3Request, pop3Turn, pop3Server, pop3Wire, authLines>>

(* pop3_command_parse: NULL stands for a line this function refuses. *)
Refused(c, a) ==
    CASE ~IsKnown(c) /\ pop3Policy \notin PermitUnknown /\ c \notin DOMAIN pop3Policy -> "ABORT"
      [] IsKnown(c) /\ pop3State \notin KnownCommands[c].states -> "REJECT"
      [] OTHER -> "no"

(* pop3_command_process: the policy, then the command's own parser. *)
Process(c, a, v) ==
    IF v[1] = "ACCEPT" /\ IsKnown(c)
    THEN [verdict |-> CommandParse(c, a), mline |-> Multiline(c, a)]
    ELSE [verdict |-> v[1], mline |-> v[2]]

CommandLine(c, a) ==
    /\ pop3State # "AUTH_A"
    /\ requests' = requests + 1
    /\ \/ Refused(c, a) # "no" /\ Refuse(Refused(c, a)) /\ StaysWithClient
       \/ /\ Refused(c, a) = "no"
          /\ \E v \in CommandVerdicts(c) :
                LET p == Process(c, a, v) IN
                \/ p.verdict # "ACCEPT" /\ Refuse(p.verdict) /\ StaysWithClient
                \/ /\ p.verdict = "ACCEPT"
                   /\ Forward(c, a, p.mline, IF c = "AUTH" THEN "AUTH_A" ELSE pop3State)
                   /\ authLines' = IF c = "AUTH" THEN 0 ELSE authLines

(* pop3_auth_parse for a line of the client. *)
AuthLine(cancel) ==
    /\ pop3State = "AUTH_A"
    /\ requests' = requests + 1
    /\ authLines' = authLines + 1
    /\ \/ /\ cancel
          /\ Forward("*", "none", FALSE, "AUTH_A_CANCEL")
       \/ /\ ~cancel /\ authLines' <= MaxAuthLines
          /\ Forward("secret", "none", FALSE, pop3State)
       \/ /\ ~cancel /\ authLines' > MaxAuthLines
          /\ Reject /\ pop3State' = "AUTH"
          /\ UNCHANGED <<pop3Request, pop3Turn, pop3Server, pop3Wire>>

(* pop3_client_to_server *)
ClientToServer ==
    /\ Running /\ pop3Turn = "CLIENT" /\ requests < MaxRequests
    /\ \/ \E c \in Pop3Commands, a \in Args : CommandLine(c, a)
       \/ \E cancel \in BOOLEAN : AuthLine(cancel)
    /\ UNCHANGED pop3Policy

(* A read error is answered, end of file is not. *)
ClientEnds ==
    /\ Running /\ pop3Turn = "CLIENT"
    /\ replies' \in {replies, replies + 1}
    /\ pop3State' = "QUIT"
    /\ UNCHANGED <<pop3Policy, pop3Turn, pop3Request, authLines, pop3Server, pop3Wire, requests>>

(* pop3_response_parse: a line of a message may look like a status line. *)
Statuses(item) ==
    CASE item.kind \in {"+OK", "-ERR"} -> {item.kind}
      [] item.kind = "body" -> {"invalid", "+OK"}
      [] OTHER -> {"invalid"}

(* The command's response parser; numbers may be missing or negative. *)
ParsedAnswers(status) ==
    IF IsKnown(pop3Request.cmd) /\ KnownCommands[pop3Request.cmd].answer = "numbers" /\ status = "+OK"
    THEN {"ACCEPT", "ABORT"} ELSE {"ACCEPT"}

AfterAnswer(status) ==
    LET answer == IF IsKnown(pop3Request.cmd) THEN KnownCommands[pop3Request.cmd].answer ELSE "any" IN
    CASE answer = "USER" /\ status = "+OK" -> "AUTH_U"
      [] answer = "login" -> IF status = "+OK" THEN "TRANS" ELSE "AUTH"
      [] answer = "QUIT" -> "QUIT"
      [] OTHER -> IF pop3State = "LISTEN" THEN "AUTH" ELSE pop3State

(* pop3_response_process, then the switch of pop3_server_to_client. *)
AnswerLine(item) ==
    /\ pop3State \notin {"AUTH_A", "AUTH_A_CANCEL"}
    /\ \E status \in Statuses(item) :
       LET listened == IF pop3State = "LISTEN" THEN "AUTH" ELSE pop3State IN
       \/ status = "invalid" /\ Reject /\ pop3Turn' = "CLIENT" /\ UNCHANGED <<pop3State, pop3Request>>
       \/ /\ status # "invalid"
          /\ pop3Request' = [pop3Request EXCEPT !.mline = @ /\ status = "+OK"]
          /\ \E v \in ResponseVerdicts(pop3Request.cmd), p \in ParsedAnswers(status) :
             \/ /\ v = "ACCEPT" /\ p = "ACCEPT"
                /\ pop3State' = AfterAnswer(status)
                /\ pop3Turn' = IF pop3Request'.mline THEN "MULTILINE" ELSE "CLIENT"
                /\ replies' = IF pop3Request'.mline THEN replies ELSE replies + 1
             \/ v = "REJECT" /\ Reject /\ pop3State' = listened /\ pop3Turn' = "CLIENT"
             \/ /\ v = "ABORT" \/ (v = "ACCEPT" /\ p = "ABORT")
                /\ Reject /\ pop3State' = "QUIT" /\ pop3Turn' = "CLIENT"
    /\ UNCHANGED authLines

(* pop3_auth_parse for an answer of the server. *)
AuthAnswer(item) ==
    /\ pop3State \in {"AUTH_A", "AUTH_A_CANCEL"}
    /\ authLines' = authLines + 1
    /\ pop3Turn' = "CLIENT"
    /\ replies' = replies + 1
    /\ pop3State' =
        CASE item.kind = "+OK" /\ pop3State = "AUTH_A" -> "TRANS"
          [] item.kind = "-ERR" -> "AUTH"
          [] item.kind = "+ " /\ pop3State = "AUTH_A" ->
                IF authLines' > MaxAuthLines THEN "AUTH" ELSE "AUTH_A"
          [] OTHER -> "QUIT"
    /\ UNCHANGED pop3Request

(* pop3_server_to_client with a line to read *)
ServerToClient ==
    /\ Running /\ pop3Turn = "SERVER" /\ pop3Wire # <<>>
    /\ pop3Wire' = Tail(pop3Wire)
    /\ AnswerLine(Head(pop3Wire)) \/ AuthAnswer(Head(pop3Wire))
    /\ UNCHANGED <<pop3Policy, pop3Server, requests>>

(* ... and without one: end of file is silent, an error is answered. *)
ServerEnds ==
    /\ Running /\ pop3Turn = "SERVER" /\ pop3Wire = <<>> /\ pop3Server = "gone"
    /\ replies' \in {replies, replies + 1}
    /\ pop3State' = "QUIT"
    /\ UNCHANGED <<pop3Policy, pop3Turn, pop3Request, authLines, pop3Server, pop3Wire, requests>>

(* pop3_policy_stack_hash_do: no child, one, or an entry that is no good. *)
StackResults == {"none", "child", "failed"}

(* pop3_data_transfer: is the body read, and does the session end?  The copy *)
(* is complete, so a body the child rejects is read to its end; a transfer   *)
(* that cannot start, or fails, leaves the session as it is, and only an     *)
(* error of the child before the first byte ends it.                         *)
TransferOutcomes(stack) ==
    [read : {FALSE}, quit : {FALSE}]
    \union (IF stack = "failed" THEN {} ELSE [read : {TRUE}, quit : {FALSE}])
    \union (IF stack = "child" THEN [read : BOOLEAN, quit : {TRUE}] ELSE {})

(* pop3_response_multiline: in each case the client gets one complete answer, *)
(* the mail or a refusal.                                                    *)
DataTransfer ==
    /\ Running /\ pop3Turn = "MULTILINE"
    /\ pop3Turn' = "CLIENT"
    /\ replies' = replies + 1
    /\ \E stack \in StackResults : \E o \in TransferOutcomes(stack) :
          /\ o.read => pop3Wire # <<>>
          /\ pop3Wire' = IF o.read THEN Tail(pop3Wire) ELSE pop3Wire
          /\ pop3State' = IF o.quit THEN "QUIT" ELSE pop3State
    /\ UNCHANGED <<pop3Policy, pop3Request, authLines, pop3Server, requests>>

(* z_proxy_loop_iteration fails or z_poll_iter_timeout expires. *)
Pop3Timeout ==
    /\ Running /\ pop3State' = "QUIT"
    /\ UNCHANGED <<pop3Policy, pop3Turn, pop3Request, authLines, pop3Server, pop3Wire, requests, replies>>

Pop3Next ==
    ClientToServer \/ ClientEnds \/ ServerToClient \/ ServerEnds
    \/ DataTransfer \/ Pop3Timeout \/ ServerCloses

Pop3Spec == Pop3Init /\ [][Pop3Next]_pop3Vars

-----------------------------------------------------------------------------
(* The proxy lets the commands of a mailbox through only after the server    *)
(* has logged the client in, by USER and PASS, by APOP or by AUTH, and       *)
(* whatever was refused, cancelled or retried before (pop3_state against     *)
(* Pop3AnswerParsePASS, Pop3AnswerParseAPOP and pop3_auth_parse).            *)
Pop3LoggedIn == pop3State = "TRANS" => pop3Server \in {"trans", "gone"}

(* When it is the client's turn every line it has sent has been answered     *)
(* once, and the greeting too: by the server, by a refusal of the policy or  *)
(* of a parser, or by a mail that a child rejected.                          *)
Pop3Alternates == pop3Turn = "CLIENT" /\ Running => replies = requests + 1

(* Client, proxy and server agree on where a session is: in its login and in *)
(* the answers it still expects.                                             *)
Pop3Session == Pop3LoggedIn /\ Pop3Alternates

=============================================================================
