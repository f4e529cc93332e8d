-------------------------------- MODULE Smtp --------------------------------
(* The SMTP proxy (modules/smtp): the loop of smtp_main, one action for each *)
(* case of its switch.  The thread blocks on the server, so the server       *)
(* answers inside the action that reads the answer; what it has accepted is  *)
(* kept beside what the proxy believes.  A mail goes through a transfer      *)
(* object, plain or with a stacked child; with a child the DATA command is   *)
(* held back until the child lets the first byte through.                    *)
EXTENDS Integers

CONSTANTS
    SmtpSecurities,   \* pairs <<client, server>> of encryption settings
    RequestPolicies,  \* request hashes: command -> set of verdicts
    ListedExtensions, \* what a server may list and the policy permits
    MaxMailCommands   \* bound: lines a client sends in one session

VARIABLE
    smtp   \* [conf, proxy: proxy_state, state: smtp_state, request, reply:
           \*  response, flag: data_transfer, transfer, extensions: active_extensions, tls:
           \*  start_tls_ok, server: what the server has accepted, withheld
           \*  (history): an answer by which it went on was not passed on,
           \*  owed: answers the client waits for, lines: lines read from it]

-----------------------------------------------------------------------------
(* known_commands_table; NOOP is not in it. *)
CommandStates ==
    LET anywhere == {"INITIAL", "EHLO", "MAIL_FROM", "RCPT_TO"} IN
    [HELO |-> {"INITIAL", "EHLO"}, EHLO |-> {"INITIAL", "EHLO"}, MAIL |-> {"EHLO"},
     RCPT |-> {"MAIL_FROM", "RCPT_TO"}, DATA |-> {"RCPT_TO"}, ETRN |-> {"EHLO"},
     AUTH |-> {"EHLO"}, RSET |-> anywhere, QUIT |-> anywhere, STARTTLS |-> {"EHLO"}]

MailCommands == DOMAIN CommandStates \union {"NOOP"}

ClientSecurity(s) == s.conf.security[1]
ServerSecurity(s) == s.conf.security[2]

(* smtp_request_STARTTLS: asks for the extension and for a client that may   *)
(* still start it.                                                           *)
StartTlsAllowed(s) ==
    "STARTTLS" \in s.extensions /\ ~s.tls.client /\ ClientSecurity(s) = "ACCEPT_STARTTLS"

(* An argument is good or bad, or a good address with the AUTH= parameter. *)
MailArguments == {"good", "bad", "AUTH"}

(* smtp_sanitize_address and the address grammar below it. *)
SanitizeAddress(argument) == argument # "bad"

(* smtp_parse_mail_extensions: a parameter asks for its active extension. *)
ParseMailExtensions(s, argument) == argument = "AUTH" => "AUTH" \in s.extensions

(* The parsers of the commands, smtp_request_MAIL and the others. *)
CommandParses(s, c, argument) ==
    CASE c = "MAIL" -> SanitizeAddress(argument) /\ ParseMailExtensions(s, argument)
      [] c = "RCPT" -> SanitizeAddress(argument) /\ argument # "AUTH"
      [] c = "AUTH" -> c \in s.extensions
      [] c = "ETRN" -> c \in s.extensions /\ argument = "good"
      [] c = "STARTTLS" -> argument = "good" /\ StartTlsAllowed(s)
      [] c \in {"DATA", "NOOP"} -> TRUE
      [] OTHER -> argument = "good"

(* smtp_policy_check_request: a command without an entry is rejected. *)
PolicyVerdicts(s, c) ==
    IF c \in DOMAIN s.conf.requests THEN s.conf.requests[c] ELSE {"REJECT"}

(* smtp_policy_check_response: the answer to any command may be refused, by  *)
(* a missing entry or by the policy's function.                              *)
ResponsePolicy == {"ACCEPT", "REJECT", "ABORT"}

-----------------------------------------------------------------------------
(* The server: the answers it may give to a command, with its new state.     *)
(* After its 354 it takes every line as mail text, after its 220 to STARTTLS *)
(* as the handshake, and answers none of them; after its 334 every line is   *)
(* part of the authentication.                                               *)
ServerAnswers(at, c) ==
    LET after == CASE c \in {"HELO", "EHLO"} -> "ehlo"
                   [] c = "RSET" -> IF at = "init" THEN at ELSE "ehlo"
                   [] c = "MAIL" -> "mail"
                   [] c = "RCPT" -> "rcpt"
                   [] c = "DATA" -> "data"
                   [] c = "AUTH" -> "auth"
                   [] c = "STARTTLS" -> "tls"
                   [] OTHER -> at
        code == CASE c = "DATA" -> "354" [] c = "STARTTLS" -> "220" [] c = "AUTH" -> "334" [] OTHER -> "2xx"
        willing == CASE c \in {"MAIL", "AUTH", "ETRN", "STARTTLS"} -> at = "ehlo"
                     [] c = "RCPT" -> at \in {"mail", "rcpt"}
                     [] c = "DATA" -> at = "rcpt"
                     [] OTHER -> TRUE
    IN CASE at \in {"data", "tls"} -> {}
         [] at = "auth" -> {<<"334", "auth">>, <<"235", "ehlo">>, <<"5xx", "ehlo">>}
         [] OTHER -> (IF willing THEN {<<code, after>>} ELSE {})
                     \union (IF c = "RSET" THEN {} ELSE {<<"5xx", at>>})

(* The answers after which the server is not where smtp_state has it, unless *)
(* the proxy takes them.                                                     *)
GoesOn(c, code) == <<c, code>> \in {<<"RSET", "2xx">>, <<"DATA", "354">>, <<"AUTH", "334">>}

SmtpInits ==
    {[conf |-> [security |-> security, requests |-> requests],
      proxy |-> IF connected THEN "RESPONSE" ELSE "UNCONNECTED_GREET",
      state |-> "INITIAL", request |-> "Null", reply |-> "none", flag |-> FALSE, transfer |-> "none",
      extensions |-> {}, tls |-> [client |-> FALSE, server |-> FALSE], server |-> "init", withheld |-> FALSE,
      owed |-> 1, lines |-> 0]
        : security \in SmtpSecurities, requests \in RequestPolicies, connected \in BOOLEAN}
SmtpInit == smtp \in SmtpInits

(* smtp_copy_response: one answer at the client. *)
Answered(s) == [s EXCEPT !.owed = @ - 1]

(* The label error: in smtp_main.  The transfer is dropped, and the flag     *)
(* only together with it.                                                    *)
ErrorExit(s) ==
    Answered([s EXCEPT !.proxy = IF @ = "UNCONNECTED_REJECT_ALL" THEN @ ELSE "REQUEST",
                       !.flag = @ /\ s.transfer = "none",
                       !.transfer = "none"])

(* ... with error_abort. *)
AbortExit(s) == [ErrorExit(s) EXCEPT !.proxy = "ended"]

Quits(s) == [s EXCEPT !.state = "QUIT", !.proxy = "ended"]

-----------------------------------------------------------------------------
(* case SMTP_PROXY_UNCONNECTED_GREET *)
UnconnectedGreet ==
    /\ smtp.proxy = "UNCONNECTED_GREET"
    /\ smtp' = ErrorExit([smtp EXCEPT !.proxy = "UNCONNECTED_REJECT_ALL"])

(* The client's next line. *)
Fetched(s, c) == [s EXCEPT !.request = c, !.lines = @ + 1, !.owed = @ + 1]

(* smtp_process_request up to the policy's verdict; the parser of DATA       *)
(* raises data_transfer before the policy is asked.                          *)
Processed(s, c, argument) ==
    LET allowed == c = "NOOP" \/ s.state \in CommandStates[c]
        parsed == [s EXCEPT !.flag = @ \/ (allowed /\ c = "DATA")]
    IN IF allowed /\ CommandParses(s, c, argument)
       THEN {<<v, parsed>> : v \in PolicyVerdicts(s, c)}
       ELSE {<<"REJECT", parsed>>}

(* smtp_action_STARTTLS with a server side that is not told: the proxy       *)
(* answers the client itself and shakes hands with it.                       *)
Handshakes(s, c) == c = "STARTTLS" /\ ServerSecurity(s) # "FORWARD_STARTTLS"

ActionStartTls(s) ==
    {[Answered(s) EXCEPT !.tls.client = TRUE], Quits(Answered(s))}

(* case SMTP_PROXY_UNCONNECTED_REJECT_ALL *)
UnconnectedReject ==
    /\ smtp.proxy = "UNCONNECTED_REJECT_ALL" /\ smtp.lines < MaxMailCommands
    /\ \E c \in MailCommands, argument \in MailArguments :
       \E p \in Processed(Fetched(smtp, c), c, argument) :
          smtp' \in CASE p[1] = "ABORT" -> {AbortExit(p[2])}
                      [] p[1] = "ACCEPT" /\ c = "QUIT" -> {Quits(ErrorExit(p[2]))}
                      [] p[1] = "ACCEPT" /\ Handshakes(smtp, c) -> ActionStartTls(p[2])
                      [] OTHER -> {ErrorExit(p[2])}

(* smtp_fetch_request fails: end of file or an error is answered with 421. *)
ClientGone ==
    /\ smtp.proxy \in {"REQUEST", "UNCONNECTED_REJECT_ALL"} /\ smtp.state # "AUTH"
    /\ smtp' = AbortExit(smtp)

(* An accepted command: the transfer object of a mail, and the command to    *)
(* the server unless a child delays it.  When the child cannot be stacked    *)
(* (z_transfer2_start fails) the proxy goes on as if unconnected.            *)
Forwarded(s) ==
    IF ~s.flag THEN {[s EXCEPT !.proxy = "RESPONSE"], AbortExit(s)}
    ELSE {[s EXCEPT !.transfer = "plain", !.proxy = "RESPONSE"],
          [s EXCEPT !.transfer = "stacked", !.proxy = "TRANSFER"],
          ErrorExit([s EXCEPT !.flag = FALSE, !.proxy = "UNCONNECTED_REJECT_ALL"])}

(* case SMTP_PROXY_REQUEST, outside an authentication *)
Request ==
    /\ smtp.proxy = "REQUEST" /\ smtp.state # "AUTH" /\ smtp.lines < MaxMailCommands
    /\ \E c \in MailCommands, argument \in MailArguments :
       \E p \in Processed(Fetched(smtp, c), c, argument) :
          smtp' \in CASE p[1] = "REJECT" -> {ErrorExit(p[2])}
                      [] p[1] = "ABORT" -> {AbortExit(p[2])}
                      [] Handshakes(smtp, c) -> ActionStartTls(p[2])
                      [] OTHER -> Forwarded(p[2])

(* case SMTP_PROXY_REQUEST inside one: the line is passed on as it is.  End  *)
(* of file is answered like a bad line and does not end the loop.            *)
AuthRequest ==
    /\ smtp.proxy = "REQUEST" /\ smtp.state = "AUTH" /\ smtp.lines < MaxMailCommands
    /\ LET s == [smtp EXCEPT !.lines = @ + 1, !.owed = @ + 1] IN
       smtp' \in {[s EXCEPT !.proxy = "RESPONSE"], ErrorExit(s), AbortExit(s)}

-----------------------------------------------------------------------------
(* The response handlers: the states after an answer the policy accepts. *)

Positive(code) == code \in {"2xx", "220", "235"}

(* smtp_response_EHLO: the extensions the policy lets through; STARTTLS only *)
(* if the client side accepts it and has not used it.  A HELO that is        *)
(* answered with several lines is refused.                                   *)
ResponseEhlo(s, code) ==
    {Answered([s EXCEPT !.extensions =
                   IF s.request = "HELO" THEN {}
                   ELSE listed \ (IF ClientSecurity(s) # "ACCEPT_STARTTLS" \/ s.tls.client
                                  THEN {"STARTTLS"} ELSE {}),
                        !.state = IF Positive(code) THEN "EHLO" ELSE @]) : listed \in ListedExtensions}
    \union (IF s.request = "HELO" THEN {ErrorExit([s EXCEPT !.extensions = {}])} ELSE {})

(* smtp_response_AUTH: an exchange goes on, succeeds or fails; any other     *)
(* code is refused.                                                          *)
ResponseAuth(s, code) ==
    IF code \in {"334", "235", "5xx"}
    THEN {Answered([s EXCEPT !.state = IF code = "334" THEN "AUTH" ELSE "EHLO"])}
    ELSE {ErrorExit(s)}

(* smtp_response_STARTTLS: with tls_passthrough the rest is plugged through, *)
(* without it both sides are encrypted, or the session ends.                 *)
ResponseStartTls(s, code) ==
    IF code # "220" THEN {Answered(s)}
    ELSE {[Answered(s) EXCEPT !.proxy = "PLUG"],
          [Answered(s) EXCEPT !.tls = [client |-> TRUE, server |-> TRUE], !.state = "INITIAL", !.server = "init"],
          Quits(Answered(s))}

(* smtp_reset_state *)
ResetState(s) == [s EXCEPT !.state = "EHLO", !.withheld = FALSE]

(* Mutant of Accepted: a recipient counts whatever the server said. *)
AcceptedBlindly(s, code) ==
    LET c == s.request
        moved(state) == {Answered([s EXCEPT !.state = IF Positive(code) THEN state ELSE @])}
    IN CASE c \in {"HELO", "EHLO"} -> ResponseEhlo(s, code)
         [] c = "AUTH" -> ResponseAuth(s, code)
         [] c = "STARTTLS" -> ResponseStartTls(s, code)
         [] c = "MAIL" -> moved("MAIL_FROM")
         [] c = "RCPT" -> {Answered([s EXCEPT !.state = "RCPT_TO"])}
         [] c = "RSET" -> {Answered(IF Positive(code) THEN ResetState(s) ELSE s)}
         [] c = "QUIT" -> {Quits(Answered(s))}
         [] OTHER -> {Answered(s)}

(* smtp_process_response for an accepted answer. *)
Accepted(s, code) ==
    LET c == s.request
        moved(state) == {Answered([s EXCEPT !.state = IF Positive(code) THEN state ELSE @])}
    IN CASE c \in {"HELO", "EHLO"} -> ResponseEhlo(s, code)
         [] c = "AUTH" -> ResponseAuth(s, code)
         [] c = "STARTTLS" -> ResponseStartTls(s, code)
         [] c = "MAIL" -> moved("MAIL_FROM")
         [] c = "RCPT" -> moved("RCPT_TO")
         [] c = "RSET" -> {Answered(IF Positive(code) THEN ResetState(s) ELSE s)}
         [] c = "QUIT" -> {Quits(Answered(s))}
         [] OTHER -> {Answered(s)}

(* case SMTP_PROXY_RESPONSE.  During an authentication request is still      *)
(* AUTH, and the line the server answers may be anything.                    *)
Response ==
    /\ smtp.proxy = "RESPONSE"
    /\ LET s == [smtp EXCEPT !.proxy = IF smtp.flag THEN "TRANSFER" ELSE "REQUEST", !.flag = FALSE]
           sent == IF smtp.state = "AUTH" THEN MailCommands
                   ELSE {IF smtp.request = "Null" THEN "NOOP" ELSE smtp.request}
       IN \/ \E c \in sent : \E a \in ServerAnswers(smtp.server, c) :
             LET t == [s EXCEPT !.server = a[2], !.reply = a[1]]
                 refused == [t EXCEPT !.withheld = @ \/ GoesOn(smtp.request, a[1])]
             IN \E v \in ResponsePolicy :
                   \/ v = "ACCEPT" /\ smtp' \in Accepted(t, a[1])
                   \/ v = "REJECT" /\ smtp' = ErrorExit(refused)
                   \/ v = "ABORT" /\ smtp' = AbortExit(refused)
          \/ smtp' = AbortExit(s)

-----------------------------------------------------------------------------
(* smtp_process_transfer.  Each ends in <<success, abort, state>>.           *)

(* A mail is in the server's hands: it keeps nothing of the transaction. *)
MailDone(s) == [s EXCEPT !.server = "ehlo"]

(* Without a child the answer to DATA is at the client already; the body is  *)
(* copied if it was 354, which the client then wants answered.  A copy that  *)
(* fails leaves the server in the middle of the mail, or at its end.         *)
TransferPlain(s) ==
    IF s.reply = "354"
    THEN LET t == [s EXCEPT !.owed = @ + 1] IN
         {<<TRUE, FALSE, MailDone(t)>>, <<FALSE, TRUE, t>>, <<FALSE, FALSE, t>>,
          <<FALSE, TRUE, MailDone(t)>>, <<FALSE, FALSE, MailDone(t)>>}
    ELSE {<<FALSE, FALSE, s>>}

(* error_reset: RSET to the server, which a server in the middle of a mail   *)
(* does not take as a command.                                               *)
SentRset(s) == [s EXCEPT !.server = IF @ \in {"init", "data", "tls"} THEN @ ELSE "ehlo"]

(* With a child: a NOOP while it works, 354 to the client, the body to the   *)
(* child; then DATA and the child's output to the server.  The 354 answers   *)
(* the command and leaves the body to be answered.  The server may be left   *)
(* in the middle of the mail.                                                *)
TransferDelayed(s) ==
    {<<FALSE, FALSE, s>>}            \* no answer to a NOOP, or a failure in the middle
    \union (IF s.server \in {"data", "tls"} THEN {} ELSE
            {<<FALSE, TRUE, s>>,             \* the client does not take the 354, or the proxy is stopped
             <<FALSE, FALSE, SentRset(s)>>}) \* the child ends without output, or DATA is refused
    \union (IF s.server = "rcpt"
            THEN {<<TRUE, FALSE, MailDone(s)>>} \union
                 {<<FALSE, abort, [s EXCEPT !.server = "data"]>> : abort \in BOOLEAN}
            ELSE {})

(* case SMTP_PROXY_TRANSFER; after a success the server's verdict is passed  *)
(* on, or the session is given up.                                           *)
Transfer ==
    /\ smtp.proxy = "TRANSFER"
    /\ \E r \in IF smtp.transfer = "stacked" THEN TransferDelayed(smtp) ELSE TransferPlain(smtp) :
       LET s == [ResetState(r[3]) EXCEPT !.transfer = "none", !.flag = FALSE, !.proxy = "REQUEST"] IN
       smtp' \in IF r[1] THEN {Answered(s), AbortExit(s)}
                 ELSE IF r[2] THEN {AbortExit(s)} ELSE {ErrorExit(s)}

(* case SMTP_PROXY_PLUG: smtp_plug_do_transfer copies until one side ends. *)
Plug ==
    /\ smtp.proxy = "PLUG"
    /\ smtp' = Quits(smtp)

(* z_proxy_loop_iteration returns FALSE. *)
SmtpStopped ==
    /\ smtp.proxy # "ended"
    /\ smtp' = [smtp EXCEPT !.state = "QUIT", !.proxy = "ended"]

SmtpNext ==
    UnconnectedGreet \/ UnconnectedReject \/ ClientGone \/ Request \/ AuthRequest
    \/ Response \/ Transfer \/ Plug \/ SmtpStopped

SmtpSpec == SmtpInit /\ [][SmtpNext]_smtp

-----------------------------------------------------------------------------
(* The proxy never believes more of the mail transaction than the server has *)
(* accepted: a command it lets through in its own state is one the server    *)
(* can take (smtp_state against smtp_response_MAIL, _RCPT, _RSET), and not a *)
(* line of a mail.  This is so while the policy has not refused the answer   *)
(* to a RSET, DATA or AUTH that the server took: smtp_response_RSET is then  *)
(* never called, or the client not told to send what the server now expects; *)
(* smtp_reset_state makes up for it.                                         *)
NotAheadOfServer ==
    smtp.withheld \/
    /\ smtp.state = "MAIL_FROM" => smtp.server \in {"mail", "rcpt"}
    /\ smtp.state = "RCPT_TO" =>
          smtp.server = "rcpt" \/ (smtp.proxy = "TRANSFER" /\ smtp.server = "data")

(* smtp_process_transfer uses self->transfer without a test: the loop never  *)
(* reaches it without the object, whatever was rejected before.              *)
TransferExists ==
    /\ smtp.proxy = "TRANSFER" => smtp.transfer # "none"
    /\ smtp.proxy = "REQUEST" => smtp.transfer = "none"

(* Proxy and server agree on the mail transaction, and the proxy's objects   *)
(* with its state.                                                           *)
SmtpTransaction == NotAheadOfServer /\ TransferExists

(* The client gets no answer it does not wait for: one for each command, and *)
(* one more for a body it was asked for.                                     *)
OneReplyEach == smtp.proxy # "ended" => smtp.owed >= 0

=============================================================================
