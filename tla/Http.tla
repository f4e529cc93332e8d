-------------------------------- MODULE Http --------------------------------
(* The HTTP proxy's session (modules/http/http.cc): http_main's loop over    *)
(* the requests of one client connection, with its server connections, the   *)
(* repeated requests, authentication, CONNECT and FTP over HTTP.  A body is  *)
(* copied whole, not at all, or broken off (module HttpBody).                *)
EXTENDS Integers, Sequences, FiniteSets

CONSTANTS
    WebConfs,     \* [transparent, parent, attempts: rerequest_attempts, maxreq: max_keepalive_requests, keep:
                  \*  keep_persistent, auth: "none"/"inband"/"form", cached: auth_cache_time, timed: max_auth_time,
                  \*  null: permit_null_response and permit_http09_responses, ftp: permit_ftp_over_http,
                  \*  limit: max_body_length is set]
    WebRequests,  \* [method, version, host, scheme, type, conn, cred, body]
    WebMax        \* bound: requests of a connection

VARIABLE
    web   \* [conf, pc, req, n: requests begun, mode, smode: connection_mode and server_connection_mode, count:
          \*  request_count, srv: connected_server or "none", ready: the server has not closed, owed: requests the
          \*  server has yet to answer, tries: of rerequest_attempts left, again: force_reconnect, auth: the
          \*  provider is set, error: error_code, custom: send_custom_response,
          \*  target: remote_server, proto, sver: server_protocol and the response's version, reply: whose response
          \*  is read, told: answers begun at the client; as history, left: the server connection still holds the
          \*  rest of a body that was cut at max_body_length]

NOT_ASSIGNED == "NOT_ASSIGNED"
NoRequestYet == [method |-> "none", version |-> 11, host |-> "none", scheme |-> "http", type |-> "SERVER",
           conn |-> "none", cred |-> "none", body |-> FALSE]

-----------------------------------------------------------------------------
(* goto exit_request_loop, with the error code of the step unless one is set. *)
Fails(s, code) == [s EXCEPT !.pc = "exit", !.error = IF @ = NOT_ASSIGNED THEN code ELSE @]
FailsWith(s, code) == [s EXCEPT !.pc = "exit", !.error = code]

(* http_fetch_request: a request of the client, the end of its stream, a     *)
(* time-out, a bad line; with repeated requests the body is stored first.    *)
FetchRequest(s) ==
    {[s EXCEPT !.pc = "process", !.req = r, !.n = @ + 1, !.error = NOT_ASSIGNED] : r \in WebRequests}
    \union {FailsWith(s, "OK")}
    \union {FailsWith([s EXCEPT !.n = @ + 1], IF s.count = 0 THEN "CLIENT_TIMEOUT" ELSE "OK")}
    \union UNION {{FailsWith([s EXCEPT !.n = @ + 1, !.req = r], code) : r \in WebRequests}
                     : code \in {"CLIENT_SYNTAX"} \union IF s.conf.attempts > 0 THEN {"IO_ERROR", "OK"} ELSE {}}

(* The client's entry in auth_hash: other connections and the time change it. *)
AuthInfos(s) ==
    [fresh : IF s.conf.cached THEN BOOLEAN ELSE {FALSE}, expired : IF s.conf.timed THEN BOOLEAN ELSE {FALSE}]

(* http_process_auth_info, http_get_form_auth with http_do_authenticate *)
ByForm(s) == s.conf.auth = "form" /\ s.conf.transparent
Authenticates(s) == s.req.cred = "good" /\ (ByForm(s) => s.req.body)

(* The authentication of http_process_request: it lets the request on, asks  *)
(* for credentials, or answers a form that was filled in.                    *)
Authenticate(s, info) ==
    LET ok == ~info.expired /\ Authenticates(s)
    IN IF ~s.auth \/ (s.req.version >= 10 /\ info.fresh) THEN {s}
       ELSE IF s.req.version < 10 THEN {Fails(s, "CLIENT_SYNTAX")}
       ELSE IF ByForm(s)
       THEN IF ok THEN {[s EXCEPT !.error = code, !.custom = TRUE] : code \in {"OK", "REDIRECT"}}
            ELSE {FailsWith([s EXCEPT !.custom = TRUE], "OK"), FailsWith(s, "IO_ERROR")}
       ELSE IF ok THEN {s} ELSE {FailsWith(s, "AUTH_REQUIRED")}

(* The rest of http_process_request. *)
ConnectionMode(r) ==
    IF r.conn # "none" /\ r.method # "CONNECT" THEN r.conn ELSE IF r.version > 10 THEN "KEEPALIVE" ELSE "CLOSE"

ProcessRequest(s) ==
    {IF a.pc = "exit" THEN a
     ELSE IF s.req.method = "CONNECT"
     THEN IF s.req.version >= 10 THEN [a EXCEPT !.pc = "filter"] ELSE FailsWith(a, "CLIENT_SYNTAX")
     ELSE IF s.conf.transparent /\ s.req.type = "PROXY" THEN FailsWith(a, "POLICY_VIOLATION")
     ELSE IF s.conf.transparent /\ s.req.host = "none" THEN FailsWith(a, "CLIENT_SYNTAX")
     ELSE IF ~s.conf.transparent /\ s.req.type = "SERVER" THEN FailsWith(a, "INVALID_URL")
     ELSE [a EXCEPT !.pc = "filter"]
        : a \in UNION {Authenticate([s EXCEPT !.mode = ConnectionMode(s.req)], info) : info \in AuthInfos(s)}}
    \union {FailsWith(s, "INVALID_URL")}

(* max_keepalive_requests, then http_filter_request: the policy's verdict.   *)
FilterRequest(s) ==
    LET last == s.conf.maxreq # 0 /\ s.count >= s.conf.maxreq - 1
        k == [s EXCEPT !.mode = IF last THEN "CLOSE" ELSE @]
    IN {[k EXCEPT !.pc = IF k.custom THEN "exit" ELSE "filtered"],
        [k EXCEPT !.pc = "exit", !.custom = TRUE],
        Fails(k, "POLICY_VIOLATION"), Fails(k, "POLICY_SYNTAX")}

(* http_process_filtered_request *)
ProcessFilteredRequest(s) ==
    LET r == s.req
        proto == IF r.method = "CONNECT" \/ (s.conf.parent /\ r.scheme \in {"http", "ftp"}) THEN "HTTP"
                 ELSE IF s.conf.parent THEN "none"
                 ELSE IF r.scheme = "ftp" THEN IF s.conf.ftp THEN "FTP" ELSE "none"
                 ELSE "HTTP"
    IN IF proto = "none" THEN Fails(s, "CLIENT_SYNTAX")
       ELSE [s EXCEPT !.proto = proto, !.target = IF s.conf.parent THEN "parent" ELSE r.host,
                      !.tries = s.conf.attempts,
                      !.pc = IF r.method = "CONNECT" THEN "connect" ELSE IF proto = "FTP" THEN "ftp" ELSE "send"]

-----------------------------------------------------------------------------
(* Mutant of ConnectServer: a connection to another server is kept. *)
ConnectServerKept(s) ==
    IF s.srv = "none" \/ ~s.ready \/ s.again
    THEN LET closed == [s EXCEPT !.again = FALSE, !.srv = "none", !.owed = <<>>, !.ready = FALSE, !.left = FALSE]
         IN {[closed EXCEPT !.srv = s.target, !.ready = TRUE], [closed EXCEPT !.error = "CONNECT_ERROR"]}
    ELSE {s}
(* http_connect_server.  A server connection that is at its end, that is     *)
(* another server's or that must not be used again is replaced.              *)
ConnectServer(s) ==
    IF s.srv = "none" \/ ~s.ready \/ (~s.conf.transparent /\ s.srv # s.target) \/ s.again
    THEN LET closed == [s EXCEPT !.again = FALSE, !.srv = "none", !.owed = <<>>, !.ready = FALSE, !.left = FALSE]
         IN {[closed EXCEPT !.srv = s.target, !.ready = TRUE], [closed EXCEPT !.error = "CONNECT_ERROR"]}
    ELSE {s}

(* A failed attempt: the request is repeated on a new connection while there are attempts left. *)
Retry(s, code) ==
    IF s.tries > 1 THEN [s EXCEPT !.pc = "send", !.again = TRUE, !.error = NOT_ASSIGNED, !.tries = @ - 1]
    ELSE Fails(s, code)

(* http_copy_request: the name is checked, the request is written whole,     *)
(* refused by a stacked proxy before its first byte, or broken off.          *)
CopyRequest(s) ==
    UNION {IF c.srv = "none" THEN {Retry(c, "CLIENT_SYNTAX")}
           ELSE {[c EXCEPT !.pc = "fetch_response", !.owed = Append(@, s.n)],
                 Retry(c, "CLIENT_SYNTAX"),
                 Retry([c EXCEPT !.error = "IO_ERROR"], "OK"), Retry([c EXCEPT !.error = "BAD_CONTENT"], "OK"),
                 Retry([c EXCEPT !.error = "OK", !.ready = FALSE], "OK")} : c \in ConnectServer(s)}

(* http_fetch_response.  100 and 102 are skipped; a time-out or a bad head is a failed attempt. *)
FetchResponse(s) ==
    IF s.req.version < 10 THEN {[s EXCEPT !.pc = "process_response", !.sver = 9, !.reply = s.n]}
    ELSE {s : i \in {i \in {1} : s.owed # <<>>}}
         \union {[s EXCEPT !.pc = "process_response", !.sver = v, !.reply = Head(s.owed), !.owed = Tail(@)]
                   : v \in {w \in {9, 10, 11} : s.owed # <<>> /\ (w = 9 => s.conf.null)}}
         \union {Retry([s EXCEPT !.error = "OK"], "OK"), Retry(s, "SERVER_SYNTAX")}

(* http_process_response: which connections live on; a code of the 1xx kind that is left stops. *)
ProcessResponse(s, hdr) ==
    LET smode == IF hdr # "none" THEN IF s.mode = "KEEPALIVE" /\ hdr # "CLOSE" THEN "KEEPALIVE" ELSE "CLOSE"
                 ELSE IF s.sver = 10 \/ s.req.version = 10 THEN "CLOSE" ELSE "KEEPALIVE"
    IN IF s.sver = 9 THEN [s EXCEPT !.pc = "filter_response", !.mode = "CLOSE", !.smode = "CLOSE"]
       ELSE IF hdr = "stop" THEN Fails(s, "SERVER_SYNTAX")
       ELSE [s EXCEPT !.pc = "filter_response", !.smode = smode,
                      !.mode = IF ~s.conf.keep /\ smode = "CLOSE" THEN "CLOSE" ELSE @]

(* http_filter_response *)
FilterResponse(s) ==
    {[s EXCEPT !.pc = "copy_response"]}
    \union IF s.sver < 10 THEN {} ELSE {FailsWith(s, "POLICY_VIOLATION"), Fails(s, "POLICY_SYNTAX")}

(* http_copy_response: copied whole, perhaps to the server's end; nothing    *)
(* copied, so that an error page can follow; or broken off.  A body that is  *)
(* cut at max_body_length after its head was written counts as copied whole: *)
(* force_nonpersistent_mode is only looked at with the head, and the rest of *)
(* the answer stays on a connection that may be kept.                        *)
CopyResponse(s) ==
    LET told == [s EXCEPT !.told = @ + 1]
    IN {[told EXCEPT !.pc = "round"], [told EXCEPT !.pc = "round", !.mode = "CLOSE", !.smode = "CLOSE"],
        Fails(s, "SERVER_SYNTAX"), FailsWith(s, "IO_ERROR"), FailsWith(s, "BAD_CONTENT"),
        FailsWith(told, "OK")}
       \union IF s.conf.limit THEN {[told EXCEPT !.pc = "round", !.owed = <<s.reply>> \o @, !.left = TRUE]} ELSE {}

(* http_handle_connect: to the parent proxy the request is passed on, else   *)
(* the client is told itself; then connectMethod stacks a proxy on the       *)
(* bare streams, and the session ends without an answer of its own.          *)
HandleConnect(s) ==
    LET m == [s EXCEPT !.mode = "CLOSE"]
        told(c) == [c EXCEPT !.told = @ + 1]
        passed(c) == {[told(c) EXCEPT !.pc = "end"], FailsWith(told(c), "POLICY_SYNTAX")}
    IN {FailsWith(m, "CLIENT_SYNTAX")}
       \union UNION {IF c.srv = "none" THEN {Fails(c, "CONNECT_ERROR")}
                     ELSE passed(c) \union {Fails(c, NOT_ASSIGNED), FailsWith(c, "IO_ERROR")}
                          \union IF s.conf.parent THEN {Fails(told(c), NOT_ASSIGNED)} ELSE {} : c \in ConnectServer(m)}

(* http_handle_ftp_request: log in, change to the directory, fetch the file  *)
(* or the listing over a passive data connection; a directory that was asked *)
(* for as a file is a redirection.                                           *)
HandleFtpRequest(s) ==
    LET ended(c) == [c EXCEPT !.pc = "round", !.mode = "CLOSE"]
        err(c, code) == [ended(c) EXCEPT !.error = IF @ = NOT_ASSIGNED THEN code ELSE @]
    IN UNION {IF c.srv = "none" THEN {err(c, "FTP_ERROR")}
              ELSE {ended([c EXCEPT !.told = @ + 1]),
                    err(c, "FTP_ERROR"),
                    err([c EXCEPT !.error = "REDIRECT"], "FTP_ERROR"),
                    ended([c EXCEPT !.told = @ + 1, !.error = "OK"])} : c \in ConnectServer(s)}

(* The end of a round of http_main: authentication is for the first one only. *)
EndRound(s) ==
    IF s.mode = "CLOSE" THEN [s EXCEPT !.pc = "exit"]
    ELSE [s EXCEPT !.pc = "fetch", !.again = @ \/ s.smode = "CLOSE", !.count = @ + 1, !.auth = FALSE,
                   !.error = NOT_ASSIGNED]

(* exit_request_loop: an error page, or the policy's own response. *)
ErrorPage(s) == s.error \notin {NOT_ASSIGNED, "OK"}
ExitRequestLoop(s) ==
    [s EXCEPT !.pc = "end", !.custom = FALSE, !.told = IF ErrorPage(s) \/ s.custom THEN @ + 1 ELSE @]

-----------------------------------------------------------------------------
WebInits ==
    {[conf |-> c, pc |-> "fetch", req |-> NoRequestYet, n |-> 0, mode |-> "CLOSE", smode |-> "CLOSE", count |-> 0,
      srv |-> "none", ready |-> FALSE, owed |-> <<>>, tries |-> 0, again |-> FALSE, auth |-> c.auth # "none",
      error |-> NOT_ASSIGNED, custom |-> FALSE, target |-> "none", proto |-> "HTTP", sver |-> 11,
      reply |-> 0, told |-> 0, left |-> FALSE] : c \in WebConfs}
WebInit == web \in WebInits

At(pc) == web.pc = pc
WebFetch == At("fetch") /\ web.n < WebMax /\ web' \in FetchRequest(web)
WebProcess == At("process") /\ web' \in ProcessRequest(web)
WebFilter == At("filter") /\ web' \in FilterRequest(web)
WebFiltered == At("filtered") /\ web' = ProcessFilteredRequest(web)
WebSend == At("send") /\ web' \in CopyRequest(web)
WebFetchResponse == At("fetch_response") /\ web' \in FetchResponse(web)
WebResponse == At("process_response") /\ \E hdr \in {"none", "CLOSE", "KEEPALIVE", "stop"} : web' = ProcessResponse(web, hdr)
WebFilterResponse == At("filter_response") /\ web' \in FilterResponse(web)
WebCopyResponse == At("copy_response") /\ web' \in CopyResponse(web)
WebConnect == At("connect") /\ web' \in HandleConnect(web)
WebFtp == At("ftp") /\ web' \in HandleFtpRequest(web)
WebRound == At("round") /\ web' = EndRound(web)
WebExit == At("exit") /\ web' = ExitRequestLoop(web)

(* The server closes an idle connection. *)
WebServerCloses ==
    /\ web.srv # "none" /\ web.ready /\ At("fetch")
    /\ web' = [web EXCEPT !.ready = FALSE]

(* z_proxy_loop_iteration: the proxy is told to stop. *)
WebStopped ==
    /\ web.pc \in {"process", "process_response"}
    /\ web' = [web EXCEPT !.pc = "exit"]

WebNext ==
    \/ WebFetch \/ WebProcess \/ WebFilter \/ WebFiltered \/ WebSend \/ WebFetchResponse \/ WebResponse
    \/ WebFilterResponse \/ WebCopyResponse \/ WebConnect \/ WebFtp \/ WebRound \/ WebExit \/ WebServerCloses \/ WebStopped

WebSpec == WebInit /\ [][WebNext]_web

-----------------------------------------------------------------------------
(* No request is answered twice: once a response has begun at the client     *)
(* the request is not sent again, and no error page or policy's response     *)
(* follows it.  (CONNECT is left out: a connectMethod that fails puts an     *)
(* error page behind the "200 Connection established".)                      *)
HttpOneAnswer == web.told <= web.n \/ web.req.method = "CONNECT"

(* What is read as a response was sent for the request at hand, whatever     *)
(* attempts failed and whichever connections were kept.  (Not on a           *)
(* connection that holds the rest of a body that was cut at max_body_length: *)
(* there that rest is read as the next response.)                            *)
Spoilt(s) == s.left /\ s.conf.limit
HttpPaired ==
    web.pc \in {"process_response", "filter_response", "copy_response"} => web.reply = web.n \/ Spoilt(web)

(* A proxy that is not transparent sends a request to the server it names,   *)
(* or to the parent proxy.                                                   *)
HttpRightServer ==
    web.pc = "fetch_response" /\ ~web.conf.transparent =>
        web.srv = IF web.conf.parent THEN "parent" ELSE web.req.host

(* A request goes to its server and is answered once and by what that server *)
(* said of it.                                                               *)
HttpExchange == HttpOneAnswer /\ HttpPaired /\ HttpRightServer

=============================================================================
