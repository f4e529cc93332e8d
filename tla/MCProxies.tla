------------------------------ MODULE MCProxies ------------------------------
(* The protocol proxies in one run.  They share no state: a behaviour is one *)
(* of one component, named by part, while the others keep an initial state.  *)
EXTENDS Pop3, Smtp, DotTransfer, Ftp, Http, HttpBody, HttpHeaders, Telnet, TelnetWire

VARIABLE part

(* A component that is not looked at *)
Pop3Parked ==
    /\ pop3Policy = CHOOSE p \in Pop3Policies : TRUE
    /\ pop3State = "LISTEN" /\ pop3Turn = "SERVER" /\ pop3Request = NoRequest /\ authLines = 0
    /\ pop3Server = "auth" /\ pop3Wire = <<>> /\ requests = 0 /\ replies = 0
DotParked ==
    /\ child = <<>> /\ wire = << <<Dot>> >> /\ body = <<>> /\ pieces = FALSE /\ split = FALSE /\ buf = <<>>
    /\ phase = "read" /\ dws = "PREAMBLE" /\ step = "entry" /\ bw = 0 /\ out = <<>> /\ shorts = 0
    /\ resend = FALSE
Parked(v, inits) == v = CHOOSE s \in inits : TRUE

ProxiesInit ==
    /\ part \in {"pop3", "dot", "smtp", "ftp", "http", "body", "headers", "telnet", "tw"}
    /\ IF part = "smtp" THEN SmtpInit ELSE Parked(smtp, SmtpInits)
    /\ IF part = "ftp" THEN FtpInit ELSE Parked(ftp, FtpInits)
    /\ IF part = "http" THEN WebInit ELSE Parked(web, WebInits)
    /\ IF part = "body" THEN HbInit ELSE Parked(hb, HbInits)
    /\ IF part = "headers" THEN HdrInit ELSE Parked(hdr, HdrInits)
    /\ IF part = "telnet" THEN TnInit ELSE Parked(tn, TnInits)
    /\ IF part = "tw" THEN WireInit ELSE Parked(tw, WireInits)
    /\ IF part = "pop3" THEN Pop3Init ELSE Pop3Parked
    /\ IF part = "dot" THEN Init ELSE DotParked

Pop3Step == part = "pop3" /\ Pop3Next /\ UNCHANGED <<part, vars, smtp, ftp, web, hb, hdr, tn, tw>>
DotStep == part = "dot" /\ Next /\ UNCHANGED <<part, pop3Vars, smtp, ftp, web, hb, hdr, tn, tw>>
SmtpStep == part = "smtp" /\ SmtpNext /\ UNCHANGED <<part, pop3Vars, vars, ftp, web, hb, hdr, tn, tw>>
FtpStep == part = "ftp" /\ FtpNext /\ UNCHANGED <<part, pop3Vars, vars, smtp, web, hb, hdr, tn, tw>>
HttpStep == part = "http" /\ WebNext /\ UNCHANGED <<part, pop3Vars, vars, smtp, ftp, hb, hdr, tn, tw>>
BodyStep == part = "body" /\ HbNext /\ UNCHANGED <<part, pop3Vars, vars, smtp, ftp, web, hdr, tn, tw>>
HeaderStep == part = "headers" /\ HdrNext /\ UNCHANGED <<part, pop3Vars, vars, smtp, ftp, web, hb, tn, tw>>
TelnetStep == part = "telnet" /\ TnNext /\ UNCHANGED <<part, pop3Vars, vars, smtp, ftp, web, hb, hdr, tw>>
WireStep == part = "tw" /\ WireNext /\ UNCHANGED <<part, pop3Vars, vars, smtp, ftp, web, hb, hdr, tn>>
ProxiesNext ==
    Pop3Step \/ DotStep \/ SmtpStep \/ FtpStep \/ HttpStep \/ BodyStep \/ HeaderStep \/ TelnetStep \/ WireStep

ProxiesSpec == ProxiesInit /\ [][ProxiesNext]_<<part, pop3Vars, vars, smtp, ftp, web, hb, hdr, tn, tw>>

-----------------------------------------------------------------------------
(* POP3: logins by password, APOP and AUTH under three policies; the last    *)
(* one permits unknown commands.                                             *)
MCPop3Policies ==
    {[c \in {"USER", "PASS", "STAT", "RETR", "LIST", "QUIT"} |-> "ACCEPT"],
     [c \in {"USER", "PASS", "APOP", "AUTH", "QUIT", "RETR", "XTND"} |-> IF c = "XTND" THEN "ACCEPT_MLINE" ELSE "POLICY"],
     [c \in {"*", "AUTH"} |-> "ACCEPT"]}
MCPermitUnknown == {p \in MCPop3Policies : "*" \in DOMAIN p}
MCPop3Commands == {"USER", "PASS", "APOP", "AUTH", "STAT", "RETR", "LIST", "QUIT", "TOP", "XTND"}

(* DotTransfer: every line of at most two characters. *)
MCLines == UNION {[1 .. n -> {Dot, Other}] : n \in 0 .. 2}

(* SMTP: with and without TLS on either side, commands refused or not *)
MCSecurities == {<<"NONE", "NONE">>, <<"ACCEPT_STARTTLS", "FORWARD_STARTTLS">>, <<"ACCEPT_STARTTLS", "NONE">>}
MCRequestPolicies ==
    {[c \in MailCommands |-> {"ACCEPT"}], [c \in MailCommands \ {"ETRN"} |-> {"ACCEPT", "REJECT", "ABORT"}]}
MCExtensions == {{}, {"AUTH", "STARTTLS", "ETRN"}}

(* FTP: the data modes; the login of a non-transparent proxy with TLS;       *)
(* commands as urgent data; every command with every verdict.                *)
FtpBase ==
    [transparent |-> TRUE, mode |-> "KEEP", client |-> "NONE", server |-> "NONE", auth |-> FALSE, urgent |-> FALSE,
     sends |-> {"USER", "PORT", "PASV", "RETR", "STOR", "ABOR", "TYPE"}, verdicts |-> {"ACCEPT"}, answers |-> {"ACCEPT"}]
MCFtpConfs ==
    {[FtpBase EXCEPT !.mode = m] : m \in {"KEEP", "PASSIVE", "ACTIVE"}} \union
    {[FtpBase EXCEPT !.transparent = FALSE, !.client = "ACCEPT_STARTTLS", !.server = "FORWARD_STARTTLS", !.auth = TRUE,
                     !.sends = {"AUTH", "PBSZ", "PROT", "USER", "PASS", "QUIT"}],
     [FtpBase EXCEPT !.verdicts = {"ACCEPT", "REJECT"}, !.sends = {"USER", "PORT", "RETR", "ABOR"}],
     [FtpBase EXCEPT !.urgent = TRUE, !.verdicts = {"ACCEPT", "REJECT"}, !.sends = {"USER", "PORT", "RETR", "ABOR"}]} \union
    {[FtpBase EXCEPT !.verdicts = {"ACCEPT", "REJECT", "ABORT"}, !.answers = {"ACCEPT", "REJECT", "ABORT"},
                     !.mode = "PASSIVE", !.client = "ACCEPT_STARTTLS", !.sends = some] :
       some \in {{"USER", "PORT", "PASV", "EPRT", "EPSV", "RETR", "STOR", "ABOR"},
                 {"USER", "PASS", "ACCT", "TYPE", "MODE", "STRU", "ALLO", "REST", "SITE", "NOOP", "RNFR", "RNTO", "FEAT",
                  "AUTH", "PBSZ", "PROT", "HELP", "CCC", "QUIT", "XXXX", "CWD"}}}

(* HTTP: transparent, proxy and parent proxy; two servers, retries,          *)
(* authentication in band and by a form, FTP over HTTP.                      *)
WebBase ==
    [transparent |-> TRUE, parent |-> FALSE, attempts |-> 2, maxreq |-> 0, keep |-> TRUE, auth |-> "none", cached |-> FALSE,
     timed |-> FALSE, null |-> FALSE, ftp |-> FALSE, limit |-> FALSE]
MCWebConfs ==
    {WebBase,
     [WebBase EXCEPT !.transparent = FALSE, !.ftp = TRUE, !.null = TRUE, !.auth = "inband", !.cached = TRUE],
     [WebBase EXCEPT !.limit = TRUE, !.attempts = 0],
     [WebBase EXCEPT !.auth = "form", !.timed = TRUE, !.attempts = 0, !.keep = FALSE, !.maxreq = 2],
     [WebBase EXCEPT !.transparent = FALSE, !.parent = TRUE, !.attempts = 1, !.auth = "form"]}
ReqBase ==
    [method |-> "GET", version |-> 11, host |-> "a", scheme |-> "http", type |-> "SERVER", conn |-> "none", cred |-> "none", body |-> FALSE]
MCWebRequests ==
    {ReqBase,
     [ReqBase EXCEPT !.host = "b", !.cred = "good", !.body = TRUE],
     [ReqBase EXCEPT !.host = "b", !.type = "PROXY", !.cred = "good", !.body = TRUE],
     [ReqBase EXCEPT !.type = "PROXY", !.cred = "good"],
     [ReqBase EXCEPT !.version = 9, !.host = "none"],
     [ReqBase EXCEPT !.version = 10, !.conn = "KEEPALIVE", !.cred = "bad"],
     [ReqBase EXCEPT !.method = "CONNECT", !.cred = "good"],
     [ReqBase EXCEPT !.scheme = "ftp", !.type = "PROXY", !.cred = "good", !.conn = "CLOSE"],
     [ReqBase EXCEPT !.scheme = "wais", !.type = "PROXY", !.cred = "good", !.body = TRUE]}

(* HTTP bodies: every framing, stacked or not, whole and cut short; lengths  *)
(* with the top bit of a guint32, and beyond one.                            *)
BodyBase ==
    [from |-> "S", framing |-> "chunked", chunks |-> <<2, 1>>, client |-> 11, server |-> 11, stacked |-> FALSE, mime |-> FALSE,
     hint |-> FALSE, keep |-> TRUE, max |-> 0, kind |-> "NORMAL", expect |-> TRUE, suppress |-> FALSE]
Responses ==
    {[BodyBase EXCEPT !.framing = f, !.client = v, !.stacked = st, !.mime = mm /\ st, !.hint = h, !.keep = k, !.max = mx, !.chunks = c]
        : f \in {"chunked", "length", "eof"}, v \in {10, 11}, st \in BOOLEAN, mm \in BOOLEAN, h \in BOOLEAN, k \in BOOLEAN,
          mx \in {0, 2}, c \in {<<2, 1>>, <<3>>}}
Requests ==
    {[BodyBase EXCEPT !.from = "C", !.expect = FALSE, !.framing = f, !.stacked = st, !.mime = st, !.kind = k, !.max = mx]
        : f \in {"none", "length", "chunked"}, st \in BOOLEAN, k \in {"NORMAL", "TO_BLOB", "FROM_BLOB"}, mx \in {0, 2}}
Long ==
    {[BodyBase EXCEPT !.framing = f, !.chunks = c, !.max = mx] : f \in {"chunked", "length"}, c \in {<<2, 5>>, <<9>>}, mx \in {0, 2}}
MCMessages ==
    {m \in Responses \union Requests \union Long \union {[BodyBase EXCEPT !.suppress = TRUE]} :
        /\ m.kind # "NORMAL" => ~m.stacked
        /\ m.kind = "FROM_BLOB" => m.framing = "length"}

(* HTTP headers: sequences over seven lines, folded and malformed ones among *)
(* them, under policies with every verdict.                                  *)
Header(n, v, e) == [kind |-> "header", name |-> n, value |-> v, exact |-> e]
Folded == [kind |-> "folded", name |-> "none", value |-> "none", exact |-> FALSE]
HeaderLines ==
    {Header("Host", "a", TRUE), Header("X", "a", TRUE), Header("X", "odd", TRUE), Header("Proxy-Authorization", "a", TRUE),
     Header("Proxy-Connection", "a", FALSE), Folded, [Folded EXCEPT !.kind = "bad"]}
Verdict(v) == [verdict |-> v, name |-> "Y", value |-> "p"]
HeaderPolicies ==
    {<<>>, [n \in {"X"} |-> Verdict("REPLACE")], [n \in {"X", "Host"} |-> Verdict(IF n = "X" THEN "INSERT" ELSE "DROP")],
     [n \in {"*", "X"} |-> Verdict(IF n = "X" THEN "CHANGE_BOTH" ELSE "DROP")], [n \in {"X"} |-> Verdict("POLICY")],
     [n \in {"X", "Host"} |-> Verdict(IF n = "X" THEN "CHANGE_NAME" ELSE "CHANGE_VALUE")], [n \in {"X"} |-> Verdict("ABORT")]}
Strictness ==
    {[strict |-> FALSE, unfit |-> "DROP"], [strict |-> TRUE, unfit |-> "DROP"], [strict |-> TRUE, unfit |-> "ABORT"]}
MCHeaderInputs ==
    {[side |-> sd, type |-> "PROXY", parent |-> FALSE, forward |-> f, strict |-> st.strict, unfit |-> st.unfit,
      known |-> {"Host", "X", "Proxy-Authorization"}, auth |-> TRUE, lines |-> ls, policy |-> po]
        : sd \in {"C", "S"}, f \in BOOLEAN, st \in Strictness, po \in HeaderPolicies,
          ls \in UNION {[1 .. n -> HeaderLines] : n \in {0, 1, 2}}
                 \union {<<a, b, a>> : a \in HeaderLines, b \in HeaderLines}
                 \union {[i \in 1 .. 4 |-> Header("X", "a", TRUE)]}}

(* Telnet: transparent with each verdict, TLS, server selection and gateway  *)
(* authentication with every kind of answer.                                 *)
Each(a) == [o \in TelnetOptions |-> a]
TnBase ==
    [transparent |-> TRUE, gwauth |-> FALSE, tls |-> {}, sec |-> {}, verdicts |-> Each({"ACCEPT"}), begins |-> {"NAWS"}, envs |-> {},
     lines |-> {}, max |-> 3]
EnvVar(n, v) == [name |-> n, value |-> v]
MCEnvs ==
    {<<>>, <<EnvVar("SERVER", "good")>>, <<EnvVar("GW_USER", "good"), EnvVar("GW_PASSWD", "bad")>>, <<EnvVar("USER", "bad")>>,
     <<EnvVar("X", "good"), EnvVar("GW_PASSWD", "good"), EnvVar("SERVER", "good")>>}
MCTelnetConfs ==
    {TnBase, [TnBase EXCEPT !.verdicts = Each({"REJECT"})], [TnBase EXCEPT !.verdicts = Each({"ACCEPT", "REJECT", "ABORT"}), !.max = 2],
     [TnBase EXCEPT !.verdicts = Each({"DROP"})],
     [TnBase EXCEPT !.tls = {"C", "S"}, !.sec = {"C", "S"}, !.begins = {"TLS", "NAWS"}, !.max = 2],
     [TnBase EXCEPT !.sec = {"C"}, !.begins = {"TLS"}]} \union
    {[TnBase EXCEPT !.transparent = t, !.gwauth = g, !.envs = MCEnvs, !.lines = {"good", "bad", ""}, !.max = 2]
        : <<t, g>> \in {<<FALSE, FALSE>>, <<TRUE, TRUE>>, <<FALSE, TRUE>>}}

(* Telnet on the wire: two and three events, escapes and overlong suboptions *)
(* among them, in packets of every size.                                     *)
Data(b) == [k |-> "data", b |-> b]
Says ==
    {Data(<<"x">>), Data(<<"x", "IAC", "x">>), Data(<<"cr", "lf">>), Data(<<"x", "bs", "x", "cr", "lf">>), [k |-> "cmd", b |-> <<"NOP">>],
     [k |-> "cmd", b |-> <<"ext">>],
     [k |-> "opneg", b |-> <<"WILL", "x">>], [k |-> "opneg", b |-> <<"DO", "SE">>], [k |-> "sub", b |-> <<"x", "IAC">>],
     [k |-> "sub", b |-> <<"x", "SE">>], [k |-> "sub", b |-> <<"IAC", "x", "x">>], [k |-> "sub", b |-> <<"x", "kill", "x", "IAC">>]}
MCWireInputs == {<<a, b>> : a \in Says, b \in Says} \union {<<a, b, a>> : a \in Says, b \in Says}
=============================================================================
