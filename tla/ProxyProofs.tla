---------------------------- MODULE ProxyProofs ----------------------------
(****************************************************************************)
(* The HTTP proxy's session, proved for every set of configurations and     *)
(* requests and any number of requests on a connection; then the headers of *)
(* a message, for any headers and any policy; then the FTP proxy's data     *)
(* channel, for every set of configurations and any number of commands;     *)
(* then the telnet proxy's authentication, for any messages of its peers.   *)
(****************************************************************************)
EXTENDS Http, HttpHeaders, Ftp, Telnet, TLAPS

(* A session is a record with these fields.  As a function on them it can be *)
(* compared with what a step makes of it field by field (Same).              *)
WebFields ==
    {"conf", "pc", "req", "n", "mode", "smode", "count", "srv", "ready", "owed", "tries", "again", "auth", "error", "custom",
     "target", "proto", "sver", "reply", "told", "left"}
IsWeb(s) == s = [f \in WebFields |-> s[f]]

(* Between a request and the first byte of its answer; the places where      *)
(* nothing has gone wrong with it; those where its response is at hand.      *)
Responding == {"process_response", "filter_response", "copy_response"}
Clean == {"process", "filtered", "send", "fetch_response", "connect", "ftp"} \union Responding
Unanswered == Clean \union {"filter"}
WebPcs == Unanswered \union {"fetch", "round", "exit", "end"}

(* Answers: one is due, or one was given and nothing more is said. *)
Due(s) == s.told < s.n
Settled(s) == s.told <= s.n /\ ~ErrorPage(s) /\ ~s.custom
AnswersAt(s) ==
    /\ s.pc \in Unanswered => Due(s)
    /\ s.pc \in Clean \union {"fetch"} \/ (s.pc = "filter" /\ ~s.custom) => s.error = NOT_ASSIGNED
    /\ s.pc \in Clean \union {"fetch", "round"} => ~s.custom
    /\ s.pc = "fetch" => s.told <= s.n
    /\ s.pc = "connect" => s.req.method = "CONNECT"
    /\ s.pc = "round" => Due(s) \/ Settled(s)
    /\ s.pc = "exit" => Due(s) \/ Settled(s) \/ s.req.method = "CONNECT"
    /\ s.pc = "end" => s.told <= s.n \/ s.req.method = "CONNECT"

(* Responses: the server owes that of the request at hand or nothing, or its *)
(* connection is not used again; or the connection is spoilt.                *)
OwedWhole(s) ==
    /\ s.pc \in {"fetch", "process", "filter", "filtered", "connect", "ftp"} => s.owed = <<>>
    /\ s.pc = "send" => s.owed = <<>> \/ s.again
    /\ s.pc = "fetch_response" => s.owed = <<s.n>>
    /\ s.pc = "process_response" => s.owed = <<>> \/ s.sver = 9
    /\ s.pc \in {"filter_response", "copy_response", "round"} => s.owed = <<>> \/ s.mode = "CLOSE"
    /\ s.pc \in Responding => s.reply = s.n
OwedAt(s) == OwedWhole(s) \/ Spoilt(s)

(* Servers: the request's own, or the parent proxy. *)
Named(s) == IF s.conf.parent THEN "parent" ELSE s.req.host
ServerAt(s) ==
    /\ s.pc \in {"send", "fetch_response"} => s.target = Named(s)
    /\ s.pc = "fetch_response" /\ ~s.conf.transparent => s.srv = Named(s)

(* The inductive invariant. *)
WebGood(s) ==
    /\ IsWeb(s) /\ s.pc \in WebPcs /\ s.n \in Nat /\ s.told \in Nat
    /\ AnswersAt(s) /\ OwedAt(s) /\ ServerAt(s)

(* The fields of a session that a step leaves alone. *)
Same(s, t, F) == \A f \in WebFields \ F : t[f] = s[f]

(* The exits: every one of them is good while the answer is due. *)
LEMMA GoodExit ==
    ASSUME NEW t, IsWeb(t), t.pc = "exit", t.n \in Nat, t.told \in Nat, Due(t) \/ Settled(t) \/ t.req.method = "CONNECT"
    PROVE  WebGood(t)
  BY DEF WebGood, AnswersAt, OwedAt, OwedWhole, ServerAt, Unanswered, Clean, Responding, WebPcs

(* Fails and FailsWith leave the loop and only set the error code. *)
LEMMA FailsSets ==
    ASSUME NEW s, IsWeb(s), NEW code
    PROVE  /\ IsWeb(Fails(s, code)) /\ Fails(s, code).pc = "exit" /\ Same(s, Fails(s, code), {"pc", "error"})
           /\ IsWeb(FailsWith(s, code)) /\ FailsWith(s, code).pc = "exit" /\ Same(s, FailsWith(s, code), {"pc", "error"})
           /\ FailsWith(s, code).error = code
           /\ Fails(s, code).error = IF s.error = NOT_ASSIGNED THEN code ELSE s.error
<1> DEFINE t == [s EXCEPT !.pc = "exit", !.error = code]
           u == [s EXCEPT !.pc = "exit", !.error = IF s.error = NOT_ASSIGNED THEN code ELSE s.error]
<1>1. FailsWith(s, code) = t /\ Fails(s, code) = u
  BY DEF Fails, FailsWith
<1>2. IsWeb(t) /\ t.pc = "exit" /\ Same(s, t, {"pc", "error"}) /\ t.error = code
  BY DEF IsWeb, WebFields, Same
<1>3. IsWeb(u) /\ u.pc = "exit" /\ Same(s, u, {"pc", "error"}) /\ u.error = IF s.error = NOT_ASSIGNED THEN code ELSE s.error
  BY DEF IsWeb, WebFields, Same
<1> HIDE DEF t, u
<1> QED
  BY <1>1, <1>2, <1>3

(* A failure while the answer is due. *)
LEMMA FailsDue ==
    ASSUME NEW s, IsWeb(s), s.n \in Nat, s.told \in Nat, Due(s), NEW code
    PROVE  WebGood(Fails(s, code)) /\ WebGood(FailsWith(s, code))
<1> DEFINE t == Fails(s, code)
           u == FailsWith(s, code)
<1>1. IsWeb(t) /\ t.pc = "exit" /\ t.n = s.n /\ t.told = s.told /\ IsWeb(u) /\ u.pc = "exit" /\ u.n = s.n /\ u.told = s.told
  BY FailsSets DEF Same, WebFields
<1> HIDE DEF t, u
<1>2. Due(t) /\ Due(u)
  BY <1>1 DEF Due
<1>3. WebGood(t) /\ WebGood(u)
  BY <1>1, <1>2, GoodExit
<1> QED
  BY <1>3 DEF t, u

(* http_fetch_request *)
LEMMA FetchGood ==
    ASSUME NEW s, WebGood(s), s.pc = "fetch", NEW t \in FetchRequest(s)
    PROVE  WebGood(t)
<1>1. /\ IsWeb(s) /\ s.n \in Nat /\ s.told \in Nat /\ s.told <= s.n /\ s.error = NOT_ASSIGNED /\ ~s.custom /\ (s.owed = <<>> \/ Spoilt(s))
  BY DEF WebGood, AnswersAt, OwedAt, OwedWhole
<1>2. \/ \E r \in WebRequests : t = [s EXCEPT !.pc = "process", !.req = r, !.n = @ + 1, !.error = NOT_ASSIGNED]
      \/ t = FailsWith(s, "OK")
      \/ \E code : t = FailsWith([s EXCEPT !.n = @ + 1], code)
      \/ \E r \in WebRequests, code \in {"CLIENT_SYNTAX", "IO_ERROR", "OK"} : t = FailsWith([s EXCEPT !.n = @ + 1, !.req = r], code)
  <2> DEFINE late == IF s.count = 0 THEN "CLIENT_TIMEOUT" ELSE "OK"
             codes == {"CLIENT_SYNTAX"} \union IF s.conf.attempts > 0 THEN {"IO_ERROR", "OK"} ELSE {}
  <2>1. codes \subseteq {"CLIENT_SYNTAX", "IO_ERROR", "OK"}
    OBVIOUS
  <2> DEFINE A == {[s EXCEPT !.pc = "process", !.req = r, !.n = @ + 1, !.error = NOT_ASSIGNED] : r \in WebRequests}
             B(code) == {FailsWith([s EXCEPT !.n = @ + 1, !.req = r], code) : r \in WebRequests}
  <2>2. FetchRequest(s) = A \union {FailsWith(s, "OK")} \union {FailsWith([s EXCEPT !.n = @ + 1], late)} \union UNION {B(code) : code \in codes}
    BY Zenon DEF FetchRequest
  <2>3. t \in A => \E r \in WebRequests : t = [s EXCEPT !.pc = "process", !.req = r, !.n = @ + 1, !.error = NOT_ASSIGNED]
    OBVIOUS
  <2>4. \A code : t \in B(code) => \E r \in WebRequests : t = FailsWith([s EXCEPT !.n = @ + 1, !.req = r], code)
    OBVIOUS
  <2> HIDE DEF late, codes, A, B
  <2>5. t \in A \/ t = FailsWith(s, "OK") \/ t = FailsWith([s EXCEPT !.n = @ + 1], late) \/ \E code \in codes : t \in B(code)
    BY <2>2
  <2> QED
    BY <2>1, <2>3, <2>4, <2>5, Zenon
<1>3. CASE \E r \in WebRequests : t = [s EXCEPT !.pc = "process", !.req = r, !.n = @ + 1, !.error = NOT_ASSIGNED]
  <2>1. PICK r \in WebRequests : t = [s EXCEPT !.pc = "process", !.req = r, !.n = @ + 1, !.error = NOT_ASSIGNED]
    BY <1>3
  <2>2. IsWeb(t) /\ t.pc = "process" /\ t.n = s.n + 1 /\ t.error = NOT_ASSIGNED /\ Same(s, t, {"pc", "req", "n", "error"})
    BY <1>1, <2>1 DEF IsWeb, WebFields, Same
  <2>3. t.told = s.told /\ t.custom = s.custom /\ t.owed = s.owed /\ (Spoilt(s) => Spoilt(t))
    BY <2>2 DEF Same, WebFields, Spoilt
  <2> QED
    BY <1>1, <2>2, <2>3 DEF WebGood, AnswersAt, OwedAt, OwedWhole, ServerAt, Unanswered, Clean, Responding, WebPcs, Due
<1>4. CASE t = FailsWith(s, "OK")
  <2>1. IsWeb(t) /\ t.pc = "exit" /\ Same(s, t, {"pc", "error"}) /\ t.error = "OK"
    BY <1>1, <1>4, FailsSets
  <2>2. t.told = s.told /\ t.custom = s.custom /\ t.n = s.n
    BY <2>1 DEF Same, WebFields
  <2> QED
    BY <1>1, <2>1, <2>2, GoodExit DEF Settled, ErrorPage
<1>5. CASE \E code : t = FailsWith([s EXCEPT !.n = @ + 1], code)
  <2>1. PICK code : t = FailsWith([s EXCEPT !.n = s.n + 1], code)
    BY <1>5
  <2> DEFINE u == [s EXCEPT !.n = s.n + 1]
  <2>2. IsWeb(u) /\ u.n = s.n + 1 /\ u.told = s.told
    BY <1>1 DEF IsWeb, WebFields
  <2> HIDE DEF u
  <2>3. Due(u) /\ u.n \in Nat /\ u.told \in Nat
    BY <1>1, <2>2 DEF Due
  <2> QED
    BY <2>1, <2>2, <2>3, FailsDue DEF u
<1>6. CASE \E r \in WebRequests, code \in {"CLIENT_SYNTAX", "IO_ERROR", "OK"} : t = FailsWith([s EXCEPT !.n = @ + 1, !.req = r], code)
  <2>1. PICK r \in WebRequests, code \in {"CLIENT_SYNTAX", "IO_ERROR", "OK"} : t = FailsWith([s EXCEPT !.n = s.n + 1, !.req = r], code)
    BY <1>6
  <2> DEFINE u == [s EXCEPT !.n = s.n + 1, !.req = r]
  <2>2. IsWeb(u) /\ u.n = s.n + 1 /\ u.told = s.told
    BY <1>1 DEF IsWeb, WebFields
  <2> HIDE DEF u
  <2>3. Due(u) /\ u.n \in Nat /\ u.told \in Nat
    BY <1>1, <2>2 DEF Due
  <2> QED
    BY <2>1, <2>2, <2>3, FailsDue DEF u
<1> QED
  BY <1>2, <1>3, <1>4, <1>5, <1>6

(* The authentication lets a request on or fails; a form that was filled in  *)
(* is answered by the proxy.                                                 *)
LEMMA AuthSets ==
    ASSUME NEW s, IsWeb(s), s.pc = "process", s.error = NOT_ASSIGNED, ~s.custom, NEW info, NEW t \in Authenticate(s, info)
    PROVE  /\ IsWeb(t) /\ Same(s, t, {"pc", "error", "custom"}) /\ t.pc \in {"process", "exit"}
           /\ t.pc = "process" /\ ~t.custom => t.error = NOT_ASSIGNED
<1> DEFINE u == [s EXCEPT !.custom = TRUE]
<1>1. \/ t = s
      \/ \E code : t = Fails(s, code) \/ t = FailsWith(s, code) \/ t = FailsWith(u, code)
      \/ \E code : t = [s EXCEPT !.error = code, !.custom = TRUE]
  BY DEF Authenticate
<1>2. IsWeb(u) /\ Same(s, u, {"custom"})
  BY DEF IsWeb, WebFields, Same
<1> HIDE DEF u
<1>3. CASE t = s
  BY <1>3 DEF Same
<1>4. CASE \E code : t = Fails(s, code) \/ t = FailsWith(s, code)
  <2>1. IsWeb(t) /\ t.pc = "exit" /\ Same(s, t, {"pc", "error"})
    BY <1>4, FailsSets
  <2> QED
    BY <2>1 DEF Same
<1>5. CASE \E code : t = FailsWith(u, code)
  <2>1. IsWeb(t) /\ t.pc = "exit" /\ Same(u, t, {"pc", "error"})
    BY <1>2, <1>5, FailsSets
  <2> QED
    BY <1>2, <2>1 DEF Same
<1>6. CASE \E code : t = [s EXCEPT !.error = code, !.custom = TRUE]
  <2>1. PICK code : t = [s EXCEPT !.error = code, !.custom = TRUE]
    BY <1>6
  <2>2. IsWeb(t) /\ Same(s, t, {"error", "custom"}) /\ t.pc = s.pc
    BY <2>1 DEF IsWeb, WebFields, Same
  <2>3. t.custom
    BY <2>1 DEF IsWeb, WebFields
  <2> QED
    BY <2>2, <2>3 DEF Same
<1> QED
  BY <1>1, <1>3, <1>4, <1>5, <1>6

(* http_process_request *)
LEMMA ProcessGood ==
    ASSUME NEW s, WebGood(s), s.pc = "process", NEW t \in ProcessRequest(s)
    PROVE  WebGood(t)
<1>1. IsWeb(s) /\ s.n \in Nat /\ s.told \in Nat /\ Due(s) /\ s.error = NOT_ASSIGNED /\ ~s.custom /\ (s.owed = <<>> \/ Spoilt(s))
  BY DEF WebGood, AnswersAt, OwedAt, OwedWhole, Unanswered, Clean
<1> DEFINE m == [s EXCEPT !.mode = ConnectionMode(s.req)]
<1>2. IsWeb(m) /\ Same(s, m, {"mode"})
  BY <1>1 DEF IsWeb, WebFields, Same
<1>3. \/ t = FailsWith(s, "INVALID_URL")
      \/ \E info : \E a \in Authenticate(m, info) :
            (t = a /\ a.pc = "exit") \/ (a.pc # "exit" /\ t = [a EXCEPT !.pc = "filter"]) \/ \E code : t = FailsWith(a, code)
  BY DEF ProcessRequest
<1> HIDE DEF m
<1>4. m.pc = "process" /\ m.n = s.n /\ m.told = s.told /\ m.error = NOT_ASSIGNED /\ ~m.custom /\ (m.owed = <<>> \/ Spoilt(m))
  BY <1>1, <1>2 DEF Same, WebFields, Spoilt
<1>5. CASE t = FailsWith(s, "INVALID_URL")
  BY <1>1, <1>5, FailsDue
<1>6. CASE \E info : \E a \in Authenticate(m, info) :
            (t = a /\ a.pc = "exit") \/ (a.pc # "exit" /\ t = [a EXCEPT !.pc = "filter"]) \/ \E code : t = FailsWith(a, code)
  <2>1. PICK info : \E a \in Authenticate(m, info) :
            (t = a /\ a.pc = "exit") \/ (a.pc # "exit" /\ t = [a EXCEPT !.pc = "filter"]) \/ \E code : t = FailsWith(a, code)
    BY <1>6
  <2>2. PICK a \in Authenticate(m, info) :
            (t = a /\ a.pc = "exit") \/ (a.pc # "exit" /\ t = [a EXCEPT !.pc = "filter"]) \/ \E code : t = FailsWith(a, code)
    BY <2>1
  <2>3. IsWeb(a) /\ Same(m, a, {"pc", "error", "custom"}) /\ a.pc \in {"process", "exit"} /\ (a.pc = "process" /\ ~a.custom => a.error = NOT_ASSIGNED)
    BY <1>2, <1>4, AuthSets
  <2>4. a.n = s.n /\ a.told = s.told /\ (a.owed = <<>> \/ Spoilt(a))
    BY <1>4, <2>3 DEF Same, WebFields, Spoilt
  <2>5. Due(a) /\ a.n \in Nat /\ a.told \in Nat
    BY <1>1, <2>4 DEF Due
  <2>6. CASE t = a /\ a.pc = "exit"
    BY <2>3, <2>5, <2>6, GoodExit
  <2>7. CASE t = [a EXCEPT !.pc = "filter"] /\ a.pc = "process"
    <3>1. IsWeb(t) /\ t.pc = "filter" /\ Same(a, t, {"pc"})
      BY <2>3, <2>7 DEF IsWeb, WebFields, Same
    <3>2. t.n = a.n /\ t.told = a.told /\ t.owed = a.owed /\ t.error = a.error /\ t.custom = a.custom /\ (Spoilt(a) => Spoilt(t))
      BY <3>1 DEF Same, WebFields, Spoilt
    <3> QED
      BY <2>3, <2>4, <2>5, <2>7, <3>1, <3>2 DEF WebGood, AnswersAt, OwedAt, OwedWhole, ServerAt, Unanswered, Clean, Responding, WebPcs, Due
  <2>8. CASE \E code : t = FailsWith(a, code)
    BY <2>3, <2>5, <2>8, FailsDue
  <2> QED
    BY <2>2, <2>3, <2>6, <2>7, <2>8
<1> QED
  BY <1>3, <1>5, <1>6

(* max_keepalive_requests and http_filter_request *)
LEMMA FilterGood ==
    ASSUME NEW s, WebGood(s), s.pc = "filter", NEW t \in FilterRequest(s)
    PROVE  WebGood(t)
<1>1. IsWeb(s) /\ s.n \in Nat /\ s.told \in Nat /\ Due(s) /\ (~s.custom => s.error = NOT_ASSIGNED) /\ (s.owed = <<>> \/ Spoilt(s))
  BY DEF WebGood, AnswersAt, OwedAt, OwedWhole, Unanswered
<1>2. PICK v : LET k == [s EXCEPT !.mode = v]
               IN  t \in {[k EXCEPT !.pc = IF k.custom THEN "exit" ELSE "filtered"], [k EXCEPT !.pc = "exit", !.custom = TRUE],
                          Fails(k, "POLICY_VIOLATION"), Fails(k, "POLICY_SYNTAX")}
  BY DEF FilterRequest
<1> DEFINE k == [s EXCEPT !.mode = v]
<1>3. IsWeb(k) /\ Same(s, k, {"mode"})
  BY <1>1 DEF IsWeb, WebFields, Same
<1>4. t \in {[k EXCEPT !.pc = IF k.custom THEN "exit" ELSE "filtered"], [k EXCEPT !.pc = "exit", !.custom = TRUE],
             Fails(k, "POLICY_VIOLATION"), Fails(k, "POLICY_SYNTAX")}
  BY <1>2
<1> HIDE DEF k
<1>5. k.n = s.n /\ k.told = s.told /\ k.custom = s.custom /\ k.error = s.error /\ (k.owed = <<>> \/ Spoilt(k))
  BY <1>1, <1>3 DEF Same, WebFields, Spoilt
<1>6. Due(k) /\ k.n \in Nat /\ k.told \in Nat
  BY <1>1, <1>5 DEF Due
<1>7. CASE t = [k EXCEPT !.pc = IF k.custom THEN "exit" ELSE "filtered"]
  <2>1. IsWeb(t) /\ t.pc = (IF k.custom THEN "exit" ELSE "filtered") /\ Same(k, t, {"pc"})
    BY <1>3, <1>7 DEF IsWeb, WebFields, Same
  <2>2. t.n = k.n /\ t.told = k.told /\ t.custom = k.custom /\ t.error = k.error /\ (t.owed = <<>> \/ Spoilt(t))
    BY <1>5, <2>1 DEF Same, WebFields, Spoilt
  <2>3. CASE k.custom
    BY <1>6, <2>1, <2>2, <2>3, GoodExit DEF Due
  <2>4. CASE ~k.custom
    BY <1>1, <1>5, <1>6, <2>1, <2>2, <2>4 DEF WebGood, AnswersAt, OwedAt, OwedWhole, ServerAt, Unanswered, Clean, Responding, WebPcs, Due
  <2> QED
    BY <2>3, <2>4
<1>8. CASE t = [k EXCEPT !.pc = "exit", !.custom = TRUE]
  <2>1. IsWeb(t) /\ t.pc = "exit" /\ t.n = k.n /\ t.told = k.told
    BY <1>3, <1>8 DEF IsWeb, WebFields
  <2> QED
    BY <1>6, <2>1, GoodExit DEF Due
<1>9. CASE t \in {Fails(k, "POLICY_VIOLATION"), Fails(k, "POLICY_SYNTAX")}
  BY <1>3, <1>6, <1>9, FailsDue
<1> QED
  BY <1>4, <1>7, <1>8, <1>9

(* http_process_filtered_request *)
LEMMA FilteredGood ==
    ASSUME NEW s, WebGood(s), s.pc = "filtered", NEW t, t = ProcessFilteredRequest(s)
    PROVE  WebGood(t)
<1>1. IsWeb(s) /\ s.n \in Nat /\ s.told \in Nat /\ Due(s) /\ ~s.custom /\ s.error = NOT_ASSIGNED /\ (s.owed = <<>> \/ Spoilt(s))
  BY DEF WebGood, AnswersAt, OwedAt, OwedWhole, Unanswered, Clean
<1>2. \/ t = Fails(s, "CLIENT_SYNTAX")
      \/ \E p, v : t = [s EXCEPT !.proto = p, !.target = IF s.conf.parent THEN "parent" ELSE s.req.host, !.tries = v,
                                 !.pc = IF s.req.method = "CONNECT" THEN "connect" ELSE IF p = "FTP" THEN "ftp" ELSE "send"]
  BY DEF ProcessFilteredRequest
<1>3. CASE t = Fails(s, "CLIENT_SYNTAX")
  BY <1>1, <1>3, FailsDue
<1>4. CASE \E p, v : t = [s EXCEPT !.proto = p, !.target = IF s.conf.parent THEN "parent" ELSE s.req.host, !.tries = v,
                                   !.pc = IF s.req.method = "CONNECT" THEN "connect" ELSE IF p = "FTP" THEN "ftp" ELSE "send"]
  <2>1. PICK p, v : t = [s EXCEPT !.proto = p, !.target = IF s.conf.parent THEN "parent" ELSE s.req.host, !.tries = v,
                                  !.pc = IF s.req.method = "CONNECT" THEN "connect" ELSE IF p = "FTP" THEN "ftp" ELSE "send"]
    BY <1>4
  <2> DEFINE name == IF s.conf.parent THEN "parent" ELSE s.req.host
             pc == IF s.req.method = "CONNECT" THEN "connect" ELSE IF p = "FTP" THEN "ftp" ELSE "send"
  <2>2. pc \in {"connect", "ftp", "send"} /\ (pc = "connect" => s.req.method = "CONNECT")
    OBVIOUS
  <2>3. name = Named(s)
    BY DEF Named
  <2>4. t = [s EXCEPT !.proto = p, !.target = name, !.tries = v, !.pc = pc]
    BY <2>1
  <2> HIDE DEF name, pc
  <2>5. IsWeb(t) /\ t.pc = pc /\ t.target = name /\ Same(s, t, {"proto", "target", "tries", "pc"})
    BY <1>1, <2>4 DEF IsWeb, WebFields, Same
  <2>6. t.n = s.n /\ t.told = s.told /\ t.custom = s.custom /\ t.error = s.error /\ (t.owed = <<>> \/ Spoilt(t)) /\ t.conf = s.conf /\ t.req = s.req
    BY <1>1, <2>5 DEF Same, WebFields, Spoilt
  <2>7. Named(t) = Named(s)
    BY <2>6 DEF Named
  <2> QED
    BY <1>1, <2>2, <2>3, <2>5, <2>6, <2>7 DEF WebGood, AnswersAt, OwedAt, OwedWhole, ServerAt, Unanswered, Clean, Responding, WebPcs, Due
<1> QED
  BY <1>2, <1>3, <1>4

(* http_connect_server: the connection is the old one, a new one or none. *)
LEMMA ConnectSets ==
    ASSUME NEW s, IsWeb(s), NEW c \in ConnectServer(s)
    PROVE  /\ IsWeb(c) /\ Same(s, c, {"again", "srv", "owed", "ready", "error", "left"})
           /\ c.srv # "none" =>
                 /\ c.error = s.error /\ (~s.conf.transparent => c.srv = s.target)
                 /\ (c = s /\ ~s.again) \/ (c.again = FALSE /\ c.owed = <<>>)
<1>1. \/ \E v \in {TRUE} : c = [s EXCEPT !.again = FALSE, !.srv = s.target, !.owed = <<>>, !.ready = v, !.left = FALSE]
      \/ \E code \in {"CONNECT_ERROR"} : c = [s EXCEPT !.again = FALSE, !.srv = "none", !.owed = <<>>, !.ready = FALSE, !.error = code, !.left = FALSE]
      \/ c = s /\ ~s.again /\ (~s.conf.transparent => s.srv = s.target)
  BY DEF ConnectServer, IsWeb, WebFields
<1>2. CASE \E v \in {TRUE} : c = [s EXCEPT !.again = FALSE, !.srv = s.target, !.owed = <<>>, !.ready = v, !.left = FALSE]
  BY <1>2 DEF IsWeb, WebFields, Same
<1>3. CASE \E code \in {"CONNECT_ERROR"} : c = [s EXCEPT !.again = FALSE, !.srv = "none", !.owed = <<>>, !.ready = FALSE, !.error = code, !.left = FALSE]
  BY <1>3 DEF IsWeb, WebFields, Same
<1>4. CASE c = s /\ ~s.again /\ (~s.conf.transparent => s.srv = s.target)
  <2>1. IsWeb(c) /\ Same(s, c, {"again", "srv", "owed", "ready", "error", "left"})
    BY <1>4 DEF Same
  <2>2. c.error = s.error /\ (~s.conf.transparent => c.srv = s.target) /\ c = s /\ ~s.again
    BY <1>4
  <2> QED
    BY <2>1, <2>2
<1> QED
  BY <1>1, <1>2, <1>3, <1>4

(* A repeated request goes to a new connection. *)
LEMMA RetryGood ==
    ASSUME NEW c, IsWeb(c), c.n \in Nat, c.told \in Nat, Due(c), ~c.custom, c.target = Named(c), NEW code
    PROVE  WebGood(Retry(c, code))
<1> DEFINE t == Retry(c, code)
<1>1. CASE c.tries > 1
  <2>1. t = [c EXCEPT !.pc = "send", !.again = TRUE, !.error = NOT_ASSIGNED, !.tries = c.tries - 1]
    BY <1>1 DEF Retry
  <2> HIDE DEF t
  <2>2. IsWeb(t) /\ t.pc = "send" /\ t.again = TRUE /\ t.error = NOT_ASSIGNED /\ Same(c, t, {"pc", "again", "error", "tries"})
    BY <2>1 DEF IsWeb, WebFields, Same
  <2>3. t.n = c.n /\ t.told = c.told /\ t.custom = c.custom /\ t.conf = c.conf /\ t.req = c.req /\ t.target = c.target
    BY <2>2 DEF Same, WebFields
  <2>4. Named(t) = Named(c)
    BY <2>3 DEF Named
  <2>5. WebGood(t)
    BY <2>2, <2>3, <2>4 DEF WebGood, AnswersAt, OwedAt, OwedWhole, ServerAt, Unanswered, Clean, Responding, WebPcs, Due
  <2> QED
    BY <2>5 DEF t
<1>2. CASE ~(c.tries > 1)
  BY <1>2, FailsDue DEF Retry
<1> QED
  BY <1>1, <1>2

(* http_copy_request *)
LEMMA SendGood ==
    ASSUME NEW s, WebGood(s), s.pc = "send", NEW t \in CopyRequest(s)
    PROVE  WebGood(t)
<1>1. /\ IsWeb(s) /\ s.n \in Nat /\ s.told \in Nat /\ Due(s) /\ ~s.custom /\ s.error = NOT_ASSIGNED
      /\ s.owed = <<>> \/ s.again \/ Spoilt(s)
      /\ s.target = Named(s)
  BY DEF WebGood, AnswersAt, OwedAt, OwedWhole, ServerAt, Unanswered, Clean
<1>2. PICK c \in ConnectServer(s) :
        \/ c.srv = "none" /\ t = Retry(c, "CLIENT_SYNTAX")
        \/ /\ c.srv # "none"
           /\ t \in {[c EXCEPT !.pc = "fetch_response", !.owed = Append(@, s.n)], Retry(c, "CLIENT_SYNTAX"),
                     Retry([c EXCEPT !.error = "IO_ERROR"], "OK"), Retry([c EXCEPT !.error = "BAD_CONTENT"], "OK"),
                     Retry([c EXCEPT !.error = "OK", !.ready = FALSE], "OK")}
  BY DEF CopyRequest
<1>3. /\ IsWeb(c) /\ Same(s, c, {"again", "srv", "owed", "ready", "error", "left"})
      /\ c.srv # "none" =>
            /\ c.error = s.error /\ (~s.conf.transparent => c.srv = s.target)
            /\ (c = s /\ ~s.again) \/ (c.again = FALSE /\ c.owed = <<>>)
  BY <1>1, ConnectSets
<1>4. c.n = s.n /\ c.told = s.told /\ c.custom = s.custom /\ c.conf = s.conf /\ c.req = s.req /\ c.target = s.target
  BY <1>3 DEF Same, WebFields
<1>5. Due(c) /\ Named(c) = Named(s) /\ c.n \in Nat /\ c.told \in Nat /\ ~c.custom
  BY <1>1, <1>4 DEF Due, Named
<1>6. ASSUME NEW d, IsWeb(d), Same(c, d, {"error", "ready"}), NEW code PROVE WebGood(Retry(d, code))
  <2>1. d.n = c.n /\ d.told = c.told /\ d.custom = c.custom /\ d.conf = c.conf /\ d.req = c.req /\ d.target = c.target
    BY <1>6 DEF Same, WebFields
  <2>2. Due(d) /\ d.target = Named(d)
    BY <1>1, <1>4, <1>5, <2>1 DEF Due, Named
  <2> QED
    BY <1>5, <1>6, <2>1, <2>2, RetryGood
<1>7. CASE t = Retry(c, "CLIENT_SYNTAX")
  <2>1. Same(c, c, {"error", "ready"})
    BY DEF Same
  <2> QED
    BY <1>3, <1>6, <1>7, <2>1
<1>8. CASE t = Retry([c EXCEPT !.error = "IO_ERROR"], "OK")
  <2> DEFINE d == [c EXCEPT !.error = "IO_ERROR"]
  <2>1. IsWeb(d) /\ Same(c, d, {"error", "ready"})
    BY <1>3 DEF IsWeb, WebFields, Same
  <2> HIDE DEF d
  <2>2. WebGood(Retry(d, "OK"))
    BY <1>6, <2>1
  <2> QED
    BY <1>8, <2>2 DEF d
<1>9. CASE t = Retry([c EXCEPT !.error = "BAD_CONTENT"], "OK")
  <2> DEFINE d == [c EXCEPT !.error = "BAD_CONTENT"]
  <2>1. IsWeb(d) /\ Same(c, d, {"error", "ready"})
    BY <1>3 DEF IsWeb, WebFields, Same
  <2> HIDE DEF d
  <2>2. WebGood(Retry(d, "OK"))
    BY <1>6, <2>1
  <2> QED
    BY <1>9, <2>2 DEF d
<1>10. CASE t = Retry([c EXCEPT !.error = "OK", !.ready = FALSE], "OK")
  <2> DEFINE d == [c EXCEPT !.error = "OK", !.ready = FALSE]
  <2>1. IsWeb(d) /\ Same(c, d, {"error", "ready"})
    BY <1>3 DEF IsWeb, WebFields, Same
  <2> HIDE DEF d
  <2>2. WebGood(Retry(d, "OK"))
    BY <1>6, <2>1
  <2> QED
    BY <1>10, <2>2 DEF d
<1>11. CASE c.srv # "none" /\ t = [c EXCEPT !.pc = "fetch_response", !.owed = Append(@, s.n)]
  <2> DEFINE q == Append(c.owed, s.n)
  <2>1. (c.owed = <<>> \/ Spoilt(c)) /\ c.error = NOT_ASSIGNED
    BY <1>1, <1>3, <1>11
  <2>2. c.owed = <<>> => q = <<s.n>>
    OBVIOUS
  <2>3. t = [c EXCEPT !.pc = "fetch_response", !.owed = q]
    BY <1>11
  <2> HIDE DEF q
  <2>4. IsWeb(t) /\ t.pc = "fetch_response" /\ t.owed = q /\ Same(c, t, {"pc", "owed"})
    BY <1>3, <2>3 DEF IsWeb, WebFields, Same
  <2>5. t.n = c.n /\ t.told = c.told /\ t.custom = c.custom /\ t.conf = c.conf /\ t.req = c.req /\ t.target = c.target /\ t.srv = c.srv /\ t.error = c.error /\ (Spoilt(c) => Spoilt(t))
    BY <2>4 DEF Same, WebFields, Spoilt
  <2>6. Named(t) = Named(s)
    BY <1>4, <2>5 DEF Named
  <2>7. AnswersAt(t)
    BY <1>5, <2>1, <2>4, <2>5 DEF AnswersAt, Unanswered, Clean, Responding, Due
  <2>8. OwedAt(t)
    BY <1>4, <2>1, <2>2, <2>4, <2>5 DEF OwedAt, OwedWhole, Responding
  <2>9. ServerAt(t)
    BY <1>1, <1>3, <1>4, <1>11, <2>4, <2>5, <2>6 DEF ServerAt
  <2> QED
    BY <1>5, <2>4, <2>5, <2>7, <2>8, <2>9 DEF WebGood, WebPcs, Unanswered, Clean
<1> QED
  BY <1>2, <1>7, <1>8, <1>9, <1>10, <1>11

(* http_fetch_response *)
LEMMA FetchResponseGood ==
    ASSUME NEW s, WebGood(s), s.pc = "fetch_response", NEW t \in FetchResponse(s)
    PROVE  WebGood(t)
<1>1. /\ IsWeb(s) /\ s.n \in Nat /\ s.told \in Nat /\ Due(s) /\ ~s.custom /\ s.error = NOT_ASSIGNED
      /\ s.owed = <<s.n>> \/ Spoilt(s)
      /\ s.target = Named(s)
  BY DEF WebGood, AnswersAt, OwedAt, OwedWhole, ServerAt, Unanswered, Clean
<1>2. \/ t = s
      \/ t = [s EXCEPT !.pc = "process_response", !.sver = 9, !.reply = s.n]
      \/ \E v : t = [s EXCEPT !.pc = "process_response", !.sver = v, !.reply = Head(s.owed), !.owed = Tail(s.owed)]
      \/ t = Retry([s EXCEPT !.error = "OK"], "OK")
      \/ t = Retry(s, "SERVER_SYNTAX")
  BY DEF FetchResponse
<1>3. CASE \E v : t = [s EXCEPT !.pc = "process_response", !.sver = v, !.reply = Head(s.owed), !.owed = Tail(s.owed)]
  <2> DEFINE h == Head(s.owed)
             q == Tail(s.owed)
  <2>1. s.owed = <<s.n>> => h = s.n /\ q = <<>>
    OBVIOUS
  <2>2. PICK v : t = [s EXCEPT !.pc = "process_response", !.sver = v, !.reply = h, !.owed = q]
    BY <1>3
  <2> HIDE DEF h, q
  <2>3. IsWeb(t) /\ t.pc = "process_response" /\ t.reply = h /\ t.owed = q /\ Same(s, t, {"pc", "sver", "reply", "owed"})
    BY <1>1, <2>2 DEF IsWeb, WebFields, Same
  <2>4. t.n = s.n /\ t.told = s.told /\ t.custom = s.custom /\ t.error = s.error /\ (Spoilt(s) => Spoilt(t))
    BY <2>3 DEF Same, WebFields, Spoilt
  <2> QED
    BY <1>1, <2>1, <2>3, <2>4 DEF WebGood, AnswersAt, OwedAt, OwedWhole, ServerAt, Unanswered, Clean, Responding, WebPcs, Due
<1>4. CASE t = [s EXCEPT !.pc = "process_response", !.sver = 9, !.reply = s.n]
  <2>1. IsWeb(t) /\ t.pc = "process_response" /\ t.reply = s.n /\ t.sver = 9 /\ Same(s, t, {"pc", "sver", "reply"})
    BY <1>1, <1>4 DEF IsWeb, WebFields, Same
  <2>2. t.n = s.n /\ t.told = s.told /\ t.custom = s.custom /\ t.error = s.error /\ (Spoilt(s) => Spoilt(t))
    BY <2>1 DEF Same, WebFields, Spoilt
  <2> QED
    BY <1>1, <2>1, <2>2 DEF WebGood, AnswersAt, OwedAt, OwedWhole, ServerAt, Unanswered, Clean, Responding, WebPcs, Due
<1>5. CASE t = Retry([s EXCEPT !.error = "OK"], "OK")
  <2> DEFINE d == [s EXCEPT !.error = "OK"]
  <2>1. IsWeb(d) /\ Same(s, d, {"error"})
    BY <1>1 DEF IsWeb, WebFields, Same
  <2> HIDE DEF d
  <2>2. d.n = s.n /\ d.told = s.told /\ d.custom = s.custom /\ d.conf = s.conf /\ d.req = s.req /\ d.target = s.target
    BY <2>1 DEF Same, WebFields
  <2>3. Due(d) /\ d.target = Named(d)
    BY <1>1, <2>2 DEF Due, Named
  <2>4. WebGood(Retry(d, "OK"))
    BY <1>1, <2>1, <2>2, <2>3, RetryGood
  <2> QED
    BY <1>5, <2>4 DEF d
<1>6. CASE t = Retry(s, "SERVER_SYNTAX")
  BY <1>1, <1>6, RetryGood
<1> QED
  BY <1>2, <1>3, <1>4, <1>5, <1>6

(* http_process_response *)
LEMMA ResponseGood ==
    ASSUME NEW s, WebGood(s), s.pc = "process_response", NEW head, NEW t, t = ProcessResponse(s, head)
    PROVE  WebGood(t)
<1>1. /\ IsWeb(s) /\ s.n \in Nat /\ s.told \in Nat /\ Due(s) /\ ~s.custom /\ s.error = NOT_ASSIGNED
      /\ ((s.owed = <<>> \/ s.sver = 9) /\ s.reply = s.n) \/ Spoilt(s)
  BY DEF WebGood, AnswersAt, OwedAt, OwedWhole, Unanswered, Clean, Responding
<1>2. \/ t = Fails(s, "SERVER_SYNTAX")
      \/ \E m, v : t = [s EXCEPT !.pc = "filter_response", !.smode = v, !.mode = m] /\ (s.sver = 9 => m = "CLOSE")
  <2>1. CASE s.sver = 9
    <3>1. t = [s EXCEPT !.pc = "filter_response", !.mode = "CLOSE", !.smode = "CLOSE"]
      BY <2>1 DEF ProcessResponse
    <3>2. t = [s EXCEPT !.pc = "filter_response", !.smode = "CLOSE", !.mode = "CLOSE"]
      BY <1>1, <3>1 DEF IsWeb, WebFields
    <3> QED
      BY <3>2
  <2>2. CASE s.sver # 9
    BY <2>2 DEF ProcessResponse
  <2> QED
    BY <2>1, <2>2
<1>3. CASE t = Fails(s, "SERVER_SYNTAX")
  BY <1>1, <1>3, FailsDue
<1>4. CASE \E m, v : t = [s EXCEPT !.pc = "filter_response", !.smode = v, !.mode = m] /\ (s.sver = 9 => m = "CLOSE")
  <2>1. PICK m, v : t = [s EXCEPT !.pc = "filter_response", !.smode = v, !.mode = m] /\ (s.sver = 9 => m = "CLOSE")
    BY <1>4
  <2>2. IsWeb(t) /\ t.pc = "filter_response" /\ t.mode = m /\ Same(s, t, {"pc", "smode", "mode"})
    BY <1>1, <2>1 DEF IsWeb, WebFields, Same
  <2>3. t.n = s.n /\ t.told = s.told /\ t.custom = s.custom /\ t.error = s.error /\ t.owed = s.owed /\ t.reply = s.reply /\ (Spoilt(s) => Spoilt(t))
    BY <2>2 DEF Same, WebFields, Spoilt
  <2>4. t.owed = <<>> \/ t.mode = "CLOSE" \/ Spoilt(t)
    BY <1>1, <2>1, <2>2, <2>3
  <2> QED
    BY <1>1, <2>2, <2>3, <2>4 DEF WebGood, AnswersAt, OwedAt, OwedWhole, ServerAt, Unanswered, Clean, Responding, WebPcs, Due
<1> QED
  BY <1>2, <1>3, <1>4

(* http_filter_response *)
LEMMA FilterResponseGood ==
    ASSUME NEW s, WebGood(s), s.pc = "filter_response", NEW t \in FilterResponse(s)
    PROVE  WebGood(t)
<1>1. /\ IsWeb(s) /\ s.n \in Nat /\ s.told \in Nat /\ Due(s) /\ ~s.custom /\ s.error = NOT_ASSIGNED
      /\ ((s.owed = <<>> \/ s.mode = "CLOSE") /\ s.reply = s.n) \/ Spoilt(s)
  BY DEF WebGood, AnswersAt, OwedAt, OwedWhole, Unanswered, Clean, Responding
<1>2. t = [s EXCEPT !.pc = "copy_response"] \/ t = FailsWith(s, "POLICY_VIOLATION") \/ t = Fails(s, "POLICY_SYNTAX")
  BY DEF FilterResponse
<1>3. CASE t = [s EXCEPT !.pc = "copy_response"]
  <2>1. IsWeb(t) /\ t.pc = "copy_response" /\ Same(s, t, {"pc"})
    BY <1>1, <1>3 DEF IsWeb, WebFields, Same
  <2>2. t.n = s.n /\ t.told = s.told /\ t.custom = s.custom /\ t.error = s.error /\ t.owed = s.owed /\ t.reply = s.reply /\ t.mode = s.mode /\ (Spoilt(s) => Spoilt(t))
    BY <2>1 DEF Same, WebFields, Spoilt
  <2> QED
    BY <1>1, <2>1, <2>2 DEF WebGood, AnswersAt, OwedAt, OwedWhole, ServerAt, Unanswered, Clean, Responding, WebPcs, Due
<1>4. CASE t = FailsWith(s, "POLICY_VIOLATION") \/ t = Fails(s, "POLICY_SYNTAX")
  BY <1>1, <1>4, FailsDue
<1> QED
  BY <1>2, <1>3, <1>4

(* A round's end: the answer is due, or was given and nothing more is said. *)
LEMMA RoundEnds ==
    ASSUME NEW t, IsWeb(t), t.pc = "round", t.n \in Nat, t.told \in Nat, Due(t) \/ Settled(t), ~t.custom,
           t.owed = <<>> \/ t.mode = "CLOSE" \/ Spoilt(t)
    PROVE  WebGood(t)
  BY DEF WebGood, AnswersAt, OwedAt, OwedWhole, ServerAt, Unanswered, Clean, Responding, WebPcs

(* http_copy_response *)
LEMMA CopyResponseGood ==
    ASSUME NEW s, WebGood(s), s.pc = "copy_response", NEW t \in CopyResponse(s)
    PROVE  WebGood(t)
<1>1. /\ IsWeb(s) /\ s.n \in Nat /\ s.told \in Nat /\ Due(s) /\ ~s.custom /\ s.error = NOT_ASSIGNED
      /\ s.owed = <<>> \/ s.mode = "CLOSE" \/ Spoilt(s)
  BY DEF WebGood, AnswersAt, OwedAt, OwedWhole, Unanswered, Clean, Responding
<1> DEFINE w == [s EXCEPT !.told = @ + 1]
<1>2. IsWeb(w) /\ w.told = s.told + 1 /\ Same(s, w, {"told"})
  BY <1>1 DEF IsWeb, WebFields, Same
<1>3. \/ t = [w EXCEPT !.pc = "round"]
      \/ t = [w EXCEPT !.pc = "round", !.mode = "CLOSE", !.smode = "CLOSE"]
      \/ \E code : t = Fails(s, code) \/ t = FailsWith(s, code)
      \/ t = FailsWith(w, "OK")
      \/ s.conf.limit /\ \E q : t = [w EXCEPT !.pc = "round", !.owed = q, !.left = TRUE]
  BY DEF CopyResponse
<1> HIDE DEF w
<1>4. w.n = s.n /\ w.custom = s.custom /\ w.error = s.error /\ w.owed = s.owed /\ w.mode = s.mode /\ (Spoilt(s) => Spoilt(w))
  BY <1>2 DEF Same, WebFields, Spoilt
<1>5. w.told \in Nat /\ w.told <= w.n
  BY <1>1, <1>2, <1>4 DEF Due
<1>6. CASE t = [w EXCEPT !.pc = "round"]
  <2>1. IsWeb(t) /\ t.pc = "round" /\ Same(w, t, {"pc"})
    BY <1>2, <1>6 DEF IsWeb, WebFields, Same
  <2>2. t.n = w.n /\ t.told = w.told /\ t.custom = w.custom /\ t.error = w.error /\ t.owed = w.owed /\ t.mode = w.mode /\ (Spoilt(w) => Spoilt(t))
    BY <2>1 DEF Same, WebFields, Spoilt
  <2>3. Settled(t)
    BY <1>1, <1>4, <1>5, <2>2 DEF Settled, ErrorPage
  <2> QED
    BY <1>1, <1>4, <1>5, <2>1, <2>2, <2>3, RoundEnds
<1>7. CASE t = [w EXCEPT !.pc = "round", !.mode = "CLOSE", !.smode = "CLOSE"]
  <2>1. IsWeb(t) /\ t.pc = "round" /\ t.mode = "CLOSE" /\ Same(w, t, {"pc", "mode", "smode"})
    BY <1>2, <1>7 DEF IsWeb, WebFields, Same
  <2>2. t.n = w.n /\ t.told = w.told /\ t.custom = w.custom /\ t.error = w.error
    BY <2>1 DEF Same, WebFields
  <2>3. Settled(t)
    BY <1>1, <1>4, <1>5, <2>2 DEF Settled, ErrorPage
  <2> QED
    BY <1>1, <1>4, <1>5, <2>1, <2>2, <2>3, RoundEnds
<1>8. CASE \E code : t = Fails(s, code) \/ t = FailsWith(s, code)
  BY <1>1, <1>8, FailsDue
<1>9. CASE t = FailsWith(w, "OK")
  <2>1. IsWeb(t) /\ t.pc = "exit" /\ Same(w, t, {"pc", "error"}) /\ t.error = "OK"
    BY <1>2, <1>9, FailsSets
  <2>2. t.told = w.told /\ t.custom = w.custom /\ t.n = w.n
    BY <2>1 DEF Same, WebFields
  <2>3. Settled(t)
    BY <1>1, <1>4, <1>5, <2>1, <2>2 DEF Settled, ErrorPage
  <2> QED
    BY <1>1, <1>4, <1>5, <2>1, <2>2, <2>3, GoodExit
<1>10. CASE s.conf.limit /\ \E q : t = [w EXCEPT !.pc = "round", !.owed = q, !.left = TRUE]
  <2>1. PICK q : t = [w EXCEPT !.pc = "round", !.owed = q, !.left = TRUE]
    BY <1>10
  <2>2. IsWeb(t) /\ t.pc = "round" /\ t.left /\ Same(w, t, {"pc", "owed", "left"})
    BY <1>2, <2>1 DEF IsWeb, WebFields, Same
  <2>3. t.n = w.n /\ t.told = w.told /\ t.custom = w.custom /\ t.error = w.error /\ t.conf = s.conf
    BY <1>2, <2>2 DEF Same, WebFields
  <2>4. Spoilt(t)
    BY <1>10, <2>2, <2>3 DEF Spoilt
  <2>5. Settled(t)
    BY <1>1, <1>4, <1>5, <2>3 DEF Settled, ErrorPage
  <2> QED
    BY <1>1, <1>4, <1>5, <2>2, <2>3, <2>4, <2>5, RoundEnds
<1> QED
  BY <1>3, <1>6, <1>7, <1>8, <1>9, <1>10

(* http_handle_connect: whatever becomes of it the session ends. *)
LEMMA ConnectGood ==
    ASSUME NEW s, WebGood(s), s.pc = "connect", NEW t \in HandleConnect(s)
    PROVE  WebGood(t)
<1>1. IsWeb(s) /\ s.n \in Nat /\ s.told \in Nat /\ s.req.method = "CONNECT"
  BY DEF WebGood, AnswersAt
<1>2. ASSUME NEW u, IsWeb(u), u.pc \in {"exit", "end"}, u.n \in Nat, u.told \in Nat, u.req = s.req PROVE WebGood(u)
  BY <1>1, <1>2 DEF WebGood, AnswersAt, OwedAt, OwedWhole, ServerAt, Unanswered, Clean, Responding, WebPcs
<1> DEFINE m == [s EXCEPT !.mode = "CLOSE"]
           w(c) == [c EXCEPT !.told = @ + 1]
<1>3. IsWeb(m) /\ m.n = s.n /\ m.told = s.told /\ m.req = s.req
  BY <1>1 DEF IsWeb, WebFields
<1>4. \/ t = FailsWith(m, "CLIENT_SYNTAX")
      \/ \E c \in ConnectServer(m) :
            \/ t = [w(c) EXCEPT !.pc = "end"]
            \/ \E code : t = FailsWith(w(c), code) \/ t = Fails(w(c), code) \/ t = Fails(c, code) \/ t = FailsWith(c, code)
  BY DEF HandleConnect
<1> HIDE DEF m
<1>5. ASSUME NEW d, IsWeb(d), d.n \in Nat, d.told \in Nat, d.req = s.req, NEW code
      PROVE  WebGood(Fails(d, code)) /\ WebGood(FailsWith(d, code))
  <2> DEFINE u == Fails(d, code)
             v == FailsWith(d, code)
  <2>1. /\ IsWeb(u) /\ u.pc = "exit" /\ Same(d, u, {"pc", "error"})
        /\ IsWeb(v) /\ v.pc = "exit" /\ Same(d, v, {"pc", "error"})
    BY <1>5, FailsSets
  <2> HIDE DEF u, v
  <2>2. u.n = d.n /\ u.told = d.told /\ u.req = d.req /\ v.n = d.n /\ v.told = d.told /\ v.req = d.req
    BY <2>1 DEF Same, WebFields
  <2>3. WebGood(u)
    BY <1>2, <1>5, <2>1, <2>2
  <2>4. WebGood(v)
    BY <1>2, <1>5, <2>1, <2>2
  <2> QED
    BY <2>3, <2>4 DEF u, v
<1>6. CASE t = FailsWith(m, "CLIENT_SYNTAX")
  BY <1>1, <1>3, <1>5, <1>6
<1>7. CASE \E c \in ConnectServer(m) :
            \/ t = [w(c) EXCEPT !.pc = "end"]
            \/ \E code : t = FailsWith(w(c), code) \/ t = Fails(w(c), code) \/ t = Fails(c, code) \/ t = FailsWith(c, code)
  <2>1. PICK c \in ConnectServer(m) :
            \/ t = [w(c) EXCEPT !.pc = "end"]
            \/ \E code : t = FailsWith(w(c), code) \/ t = Fails(w(c), code) \/ t = Fails(c, code) \/ t = FailsWith(c, code)
    BY <1>7
  <2>2. IsWeb(c) /\ Same(m, c, {"again", "srv", "owed", "ready", "error", "left"})
    BY <1>3, ConnectSets
  <2>3. c.n = s.n /\ c.told = s.told /\ c.req = s.req
    BY <1>3, <2>2 DEF Same, WebFields
  <2> DEFINE d == w(c)
  <2>4. IsWeb(d) /\ d.n = s.n /\ d.told = s.told + 1 /\ d.req = s.req
    BY <2>2, <2>3 DEF IsWeb, WebFields
  <2>5. \/ t = [d EXCEPT !.pc = "end"]
        \/ \E code : t = FailsWith(d, code) \/ t = Fails(d, code) \/ t = Fails(c, code) \/ t = FailsWith(c, code)
    BY <2>1
  <2> HIDE DEF d, w
  <2>6. d.told \in Nat /\ c.told \in Nat /\ c.n \in Nat /\ d.n \in Nat
    BY <1>1, <2>3, <2>4
  <2>7. CASE t = [d EXCEPT !.pc = "end"]
    <3>1. IsWeb(t) /\ t.pc = "end" /\ t.n = d.n /\ t.told = d.told /\ t.req = d.req
      BY <2>4, <2>7 DEF IsWeb, WebFields
    <3> QED
      BY <1>2, <2>4, <2>6, <3>1
  <2>8. CASE \E code : t = FailsWith(d, code) \/ t = Fails(d, code)
    BY <1>5, <2>4, <2>6, <2>8
  <2>9. CASE \E code : t = FailsWith(c, code) \/ t = Fails(c, code)
    BY <1>5, <2>2, <2>3, <2>6, <2>9
  <2> QED
    BY <2>5, <2>7, <2>8, <2>9
<1> QED
  BY <1>4, <1>6, <1>7

(* http_handle_ftp_request *)
LEMMA FtpGood ==
    ASSUME NEW s, WebGood(s), s.pc = "ftp", NEW t \in HandleFtpRequest(s)
    PROVE  WebGood(t)
<1>1. IsWeb(s) /\ s.n \in Nat /\ s.told \in Nat /\ Due(s) /\ ~s.custom /\ s.error = NOT_ASSIGNED
  BY DEF WebGood, AnswersAt, Unanswered, Clean
<1>2. PICK c \in ConnectServer(s) :
        \/ \E code : t = [c EXCEPT !.pc = "round", !.mode = "CLOSE", !.error = code]
        \/ c.srv # "none" /\ t = [c EXCEPT !.told = @ + 1, !.pc = "round", !.mode = "CLOSE"]
        \/ t = [c EXCEPT !.told = @ + 1, !.error = "OK", !.pc = "round", !.mode = "CLOSE"]
  <2> DEFINE ended(c) == [c EXCEPT !.pc = "round", !.mode = "CLOSE"]
             err(c, code) == [ended(c) EXCEPT !.error = IF @ = NOT_ASSIGNED THEN code ELSE @]
  <2>1. PICK c \in ConnectServer(s) :
          \/ t = err(c, "FTP_ERROR")
          \/ c.srv # "none" /\ t = ended([c EXCEPT !.told = @ + 1])
          \/ t = err([c EXCEPT !.error = "REDIRECT"], "FTP_ERROR")
          \/ t = ended([c EXCEPT !.told = @ + 1, !.error = "OK"])
    BY DEF HandleFtpRequest
  <2>2. IsWeb(c)
    BY <1>1, ConnectSets
  <2>3. CASE t = err(c, "FTP_ERROR")
    <3>1. PICK code : t = [ended(c) EXCEPT !.error = code]
      BY <2>3
    <3>2. t = [c EXCEPT !.pc = "round", !.mode = "CLOSE", !.error = code]
      BY <2>2, <3>1 DEF IsWeb, WebFields
    <3> QED
      BY <3>2
  <2>4. CASE t = err([c EXCEPT !.error = "REDIRECT"], "FTP_ERROR")
    <3>1. PICK code : t = [ended([c EXCEPT !.error = "REDIRECT"]) EXCEPT !.error = code]
      BY <2>4
    <3>2. t = [c EXCEPT !.pc = "round", !.mode = "CLOSE", !.error = code]
      BY <2>2, <3>1 DEF IsWeb, WebFields
    <3> QED
      BY <3>2
  <2>5. CASE c.srv # "none" /\ t = ended([c EXCEPT !.told = @ + 1])
    BY <2>2, <2>5 DEF IsWeb, WebFields
  <2>6. CASE t = ended([c EXCEPT !.told = @ + 1, !.error = "OK"])
    BY <2>2, <2>6 DEF IsWeb, WebFields
  <2> QED
    BY <2>1, <2>3, <2>4, <2>5, <2>6
<1>3. IsWeb(c) /\ Same(s, c, {"again", "srv", "owed", "ready", "error", "left"}) /\ (c.srv # "none" => c.error = s.error)
  BY <1>1, ConnectSets
<1>4. c.n = s.n /\ c.told = s.told /\ c.custom = s.custom
  BY <1>3 DEF Same, WebFields
<1>5. CASE \E code : t = [c EXCEPT !.pc = "round", !.mode = "CLOSE", !.error = code]
  <2>1. IsWeb(t) /\ t.pc = "round" /\ t.mode = "CLOSE" /\ Same(c, t, {"pc", "mode", "error"})
    BY <1>3, <1>5 DEF IsWeb, WebFields, Same
  <2>2. t.n = s.n /\ t.told = s.told /\ t.custom = s.custom
    BY <1>4, <2>1 DEF Same, WebFields
  <2>3. Due(t)
    BY <1>1, <2>2 DEF Due
  <2> QED
    BY <1>1, <2>1, <2>2, <2>3, RoundEnds
<1>6. CASE c.srv # "none" /\ t = [c EXCEPT !.told = @ + 1, !.pc = "round", !.mode = "CLOSE"]
  <2>1. IsWeb(t) /\ t.pc = "round" /\ t.mode = "CLOSE" /\ t.told = c.told + 1 /\ Same(c, t, {"told", "pc", "mode"})
    BY <1>3, <1>6 DEF IsWeb, WebFields, Same
  <2>2. t.n = s.n /\ t.custom = s.custom /\ t.error = NOT_ASSIGNED /\ t.told = s.told + 1
    BY <1>1, <1>3, <1>4, <1>6, <2>1 DEF Same, WebFields
  <2>3. Settled(t) /\ t.told \in Nat
    BY <1>1, <2>2 DEF Settled, ErrorPage, Due
  <2> QED
    BY <1>1, <2>1, <2>2, <2>3, RoundEnds
<1>7. CASE t = [c EXCEPT !.told = @ + 1, !.error = "OK", !.pc = "round", !.mode = "CLOSE"]
  <2>1. IsWeb(t) /\ t.pc = "round" /\ t.mode = "CLOSE" /\ t.told = c.told + 1 /\ t.error = "OK" /\ Same(c, t, {"told", "error", "pc", "mode"})
    BY <1>3, <1>7 DEF IsWeb, WebFields, Same
  <2>2. t.n = s.n /\ t.custom = s.custom /\ t.told = s.told + 1
    BY <1>4, <2>1 DEF Same, WebFields
  <2>3. Settled(t) /\ t.told \in Nat
    BY <1>1, <2>1, <2>2 DEF Settled, ErrorPage, Due
  <2> QED
    BY <1>1, <2>1, <2>2, <2>3, RoundEnds
<1> QED
  BY <1>2, <1>5, <1>6, <1>7

(* The end of a round: the next request finds the last one answered and its  *)
(* server owing nothing.                                                     *)
LEMMA RoundGood ==
    ASSUME NEW s, WebGood(s), s.pc = "round", NEW t, t = EndRound(s)
    PROVE  WebGood(t)
<1>1. /\ IsWeb(s) /\ s.n \in Nat /\ s.told \in Nat /\ ~s.custom
      /\ Due(s) \/ Settled(s)
      /\ s.owed = <<>> \/ s.mode = "CLOSE" \/ Spoilt(s)
  BY DEF WebGood, AnswersAt, OwedAt, OwedWhole
<1>2. CASE s.mode = "CLOSE"
  <2>1. t = [s EXCEPT !.pc = "exit"]
    BY <1>2 DEF EndRound
  <2>2. IsWeb(t) /\ t.pc = "exit" /\ t.n = s.n /\ t.told = s.told /\ t.custom = s.custom /\ t.error = s.error
    BY <1>1, <2>1 DEF IsWeb, WebFields
  <2>3. Due(t) \/ Settled(t)
    BY <1>1, <2>2 DEF Due, Settled, ErrorPage
  <2> QED
    BY <1>1, <2>2, <2>3, GoodExit
<1>3. CASE s.mode # "CLOSE"
  <2>1. PICK a, k : t = [s EXCEPT !.pc = "fetch", !.again = a, !.count = k, !.auth = FALSE, !.error = NOT_ASSIGNED]
    BY <1>3 DEF EndRound
  <2>2. IsWeb(t) /\ t.pc = "fetch" /\ t.error = NOT_ASSIGNED /\ Same(s, t, {"pc", "again", "count", "auth", "error"})
    BY <1>1, <2>1 DEF IsWeb, WebFields, Same
  <2>3. t.n = s.n /\ t.told = s.told /\ t.custom = s.custom /\ t.owed = s.owed /\ (Spoilt(s) => Spoilt(t))
    BY <2>2 DEF Same, WebFields, Spoilt
  <2>4. t.told <= t.n
    BY <1>1, <2>3 DEF Due, Settled
  <2> QED
    BY <1>1, <1>3, <2>2, <2>3, <2>4 DEF WebGood, AnswersAt, OwedAt, OwedWhole, ServerAt, Unanswered, Clean, Responding, WebPcs
<1> QED
  BY <1>2, <1>3

(* exit_request_loop: an error page or the policy's response goes out only   *)
(* for a request that has no answer yet.                                     *)
LEMMA ExitGood ==
    ASSUME NEW s, WebGood(s), s.pc = "exit", NEW t, t = ExitRequestLoop(s)
    PROVE  WebGood(t)
<1>1. IsWeb(s) /\ s.n \in Nat /\ s.told \in Nat /\ (Due(s) \/ Settled(s) \/ s.req.method = "CONNECT")
  BY DEF WebGood, AnswersAt
<1> DEFINE k == IF ErrorPage(s) \/ s.custom THEN s.told + 1 ELSE s.told
<1>2. t = [s EXCEPT !.pc = "end", !.custom = FALSE, !.told = k]
  BY DEF ExitRequestLoop
<1>3. k \in Nat /\ (k <= s.n \/ s.req.method = "CONNECT")
  BY <1>1 DEF Due, Settled
<1> HIDE DEF k
<1>4. IsWeb(t) /\ t.pc = "end" /\ t.n = s.n /\ t.told = k /\ t.req = s.req
  BY <1>1, <1>2 DEF IsWeb, WebFields
<1> QED
  BY <1>1, <1>3, <1>4 DEF WebGood, AnswersAt, OwedAt, OwedWhole, ServerAt, Unanswered, Clean, Responding, WebPcs

(* The server closes an idle connection. *)
LEMMA ServerClosesGood ==
    ASSUME NEW s, WebGood(s), s.pc = "fetch", NEW t, t = [s EXCEPT !.ready = FALSE]
    PROVE  WebGood(t)
<1>1. IsWeb(s) /\ s.n \in Nat /\ s.told \in Nat /\ s.told <= s.n /\ s.error = NOT_ASSIGNED /\ ~s.custom /\ (s.owed = <<>> \/ Spoilt(s))
  BY DEF WebGood, AnswersAt, OwedAt, OwedWhole
<1>2. IsWeb(t) /\ t.pc = s.pc /\ Same(s, t, {"ready"})
  BY <1>1 DEF IsWeb, WebFields, Same
<1>3. t.n = s.n /\ t.told = s.told /\ t.custom = s.custom /\ t.owed = s.owed /\ t.error = s.error /\ (Spoilt(s) => Spoilt(t))
  BY <1>2 DEF Same, WebFields, Spoilt
<1> QED
  BY <1>1, <1>2, <1>3 DEF WebGood, AnswersAt, OwedAt, OwedWhole, ServerAt, Unanswered, Clean, Responding, WebPcs

(* A stop request between two steps leaves the loop with the answer due. *)
LEMMA StoppedGood ==
    ASSUME NEW s, WebGood(s), s.pc \in {"process", "process_response"}, NEW t, t = [s EXCEPT !.pc = "exit"]
    PROVE  WebGood(t)
<1>1. IsWeb(s) /\ s.n \in Nat /\ s.told \in Nat /\ Due(s)
  BY DEF WebGood, AnswersAt, Unanswered, Clean, Responding
<1>2. IsWeb(t) /\ t.pc = "exit" /\ t.n = s.n /\ t.told = s.told
  BY <1>1 DEF IsWeb, WebFields
<1> QED
  BY <1>1, <1>2, GoodExit DEF Due

(* A new session is good. *)
LEMMA WebStarts == ASSUME NEW s \in WebInits PROVE WebGood(s)
<1>1. PICK c \in WebConfs :
        s = [conf |-> c, pc |-> "fetch", req |-> NoRequestYet, n |-> 0, mode |-> "CLOSE", smode |-> "CLOSE", count |-> 0,
             srv |-> "none", ready |-> FALSE, owed |-> <<>>, tries |-> 0, again |-> FALSE, auth |-> c.auth # "none",
             error |-> NOT_ASSIGNED, custom |-> FALSE, target |-> "none", proto |-> "HTTP", sver |-> 11,
             reply |-> 0, told |-> 0, left |-> FALSE]
  BY DEF WebInits
<1>2. IsWeb(s)
  BY <1>1 DEF IsWeb, WebFields
<1>3. s.pc = "fetch" /\ s.n = 0 /\ s.told = 0 /\ s.error = NOT_ASSIGNED /\ s.owed = <<>>
  BY <1>1
<1>4. ~s.custom
  BY <1>1
<1> QED
  BY <1>2, <1>3, <1>4 DEF WebGood, AnswersAt, OwedAt, OwedWhole, ServerAt, Unanswered, Clean, Responding, WebPcs

(* Every step of http_main keeps a session good. *)
LEMMA WebStep ==
    ASSUME WebGood(web), WebNext
    PROVE  WebGood(web')
<1>1. CASE WebFetch
  BY <1>1, FetchGood DEF WebFetch, At
<1>2. CASE WebProcess
  BY <1>2, ProcessGood DEF WebProcess, At
<1>3. CASE WebFilter
  BY <1>3, FilterGood DEF WebFilter, At
<1>4. CASE WebFiltered
  BY <1>4, FilteredGood DEF WebFiltered, At
<1>5. CASE WebSend
  BY <1>5, SendGood DEF WebSend, At
<1>6. CASE WebFetchResponse
  BY <1>6, FetchResponseGood DEF WebFetchResponse, At
<1>7. CASE WebResponse
  BY <1>7, ResponseGood DEF WebResponse, At
<1>8. CASE WebFilterResponse
  BY <1>8, FilterResponseGood DEF WebFilterResponse, At
<1>9. CASE WebCopyResponse
  BY <1>9, CopyResponseGood DEF WebCopyResponse, At
<1>10. CASE WebConnect
  BY <1>10, ConnectGood DEF WebConnect, At
<1>11. CASE WebFtp
  BY <1>11, FtpGood DEF WebFtp, At
<1>12. CASE WebRound
  BY <1>12, RoundGood DEF WebRound, At
<1>13. CASE WebExit
  BY <1>13, ExitGood DEF WebExit, At
<1>14. CASE WebServerCloses
  BY <1>14, ServerClosesGood DEF WebServerCloses, At
<1>15. CASE WebStopped
  BY <1>15, StoppedGood DEF WebStopped
<1> QED
  BY <1>1, <1>2, <1>3, <1>4, <1>5, <1>6, <1>7, <1>8, <1>9, <1>10, <1>11, <1>12, <1>13, <1>14, <1>15 DEF WebNext

(* A good session answers at most once and with the right response. *)
LEMMA GoodExchange == ASSUME WebGood(web) PROVE HttpExchange
<1>1. HttpOneAnswer
  <2>1. web.pc \in WebPcs /\ web.n \in Nat /\ web.told \in Nat /\ AnswersAt(web)
    BY DEF WebGood
  <2> QED
    BY <2>1 DEF HttpOneAnswer, AnswersAt, WebPcs, Due, Settled
<1>2. HttpPaired
  BY DEF HttpPaired, WebGood, OwedAt, OwedWhole, Responding
<1>3. HttpRightServer
  BY DEF HttpRightServer, WebGood, ServerAt, Named
<1> QED
  BY <1>1, <1>2, <1>3 DEF HttpExchange

(* For every set of requests and configurations and any number of requests   *)
(* on a connection: http_main answers a request once at most, with the       *)
(* response that was sent for it (whatever attempts failed, whichever server *)
(* connections were kept, closed or replaced on the way, and whenever a stop *)
(* request comes; but not once max_body_length has cut a body on the         *)
(* connection after its head was written), and a proxy that is not           *)
(* transparent sends it to the server it names or to the parent proxy.       *)
THEOREM HttpExchanges == WebSpec => []HttpExchange
<1>1. WebInit => WebGood(web)
  BY WebStarts DEF WebInit
<1>2. WebGood(web) /\ [WebNext]_web => WebGood(web)'
  BY WebStep
<1>3. WebGood(web) => HttpExchange
  BY GoodExchange
<1> QED
  BY <1>1, <1>2, <1>3, PTL DEF WebSpec

-----------------------------------------------------------------------------
(* The headers of a message. *)
HdrFields == {"in", "pc", "list", "i", "last", "todo"}
HeaderFields == {"name", "value", "exact", "present", "key"}
IsHdr(s) == s = [f \in HdrFields |-> s[f]]
IsHeader(h) == h = [f \in HeaderFields |-> h[f]]
IsList(l) == \E S : l \in Seq(S) /\ \A h \in S : IsHeader(h)

(* What the policy takes out, and whose names it may put in their place. *)
Taken(s) == {n \in DOMAIN s.in.policy : s.in.policy[n].verdict \in {"DROP", "REPLACE"}}
Renamed(s) == {s.in.policy[n].name : n \in DOMAIN s.in.policy}
Credentials(s) == IF s.in.type = "SERVER" THEN "Authorization" ELSE "Proxy-Authorization"
Guarded(s) == s.in.side = "C" /\ s.in.auth /\ ~s.in.forward /\ DOMAIN s.in.policy = {}

(* A header that may go on as it came, and one that is the policy's own. *)
HdrPassed(s, h) == h.name \notin Taken(s) \ Renamed(s) /\ (Guarded(s) => h.name # Credentials(s))
Own(s, h) == h.name \in Inserting(s) /\ h.value = s.in.policy[h.name].value

HdrInv(s) ==
    /\ IsHdr(s) /\ IsList(s.list) /\ s.pc \in {"fetch", "filter", "insert", "done", "failed"}
    /\ s.pc = "fetch" => s.i \in Nat /\ s.last \in 0 .. Len(s.list)
    /\ s.pc = "filter" => s.i \in 0 .. Len(s.list) /\ \A k \in s.i + 1 .. Len(s.list) : s.list[k].present => HdrPassed(s, s.list[k])
    /\ s.pc \in {"insert", "done"} =>
          /\ \A k \in 1 .. Len(s.list) : s.list[k].present => HdrPassed(s, s.list[k]) \/ Own(s, s.list[k])
          /\ \A n \in Inserting(s) \ (s.todo \union Smuggle) :
                \E k \in 1 .. Len(s.list) : s.list[k].present /\ s.list[k].name = n /\ Own(s, s.list[k])
    /\ s.pc = "done" => s.todo = {}

(* The list grows by a header. *)
LEMMA ListGrows ==
    ASSUME NEW l, IsList(l), NEW h, IsHeader(h)
    PROVE  /\ IsList(Append(l, h)) /\ Len(Append(l, h)) = Len(l) + 1 /\ Len(l) \in Nat
           /\ Append(l, h)[Len(l) + 1] = h /\ \A k \in 1 .. Len(l) : Append(l, h)[k] = l[k]
<1> PICK S : l \in Seq(S) /\ \A x \in S : IsHeader(x)
  BY DEF IsList
<1>1. l \in Seq(S \union {h}) /\ h \in S \union {h}
  OBVIOUS
<1>2. Append(l, h) \in Seq(S \union {h}) /\ \A x \in S \union {h} : IsHeader(x)
  BY <1>1
<1>3. IsList(Append(l, h))
  BY <1>2 DEF IsList
<1> QED BY <1>1, <1>3

(* A header of the list is changed. *)
LEMMA ListChanges ==
    ASSUME NEW l, IsList(l), NEW i \in 1 .. Len(l), NEW h, IsHeader(h)
    PROVE  /\ IsList([l EXCEPT ![i] = h]) /\ Len([l EXCEPT ![i] = h]) = Len(l) /\ Len(l) \in Nat
           /\ [l EXCEPT ![i] = h][i] = h /\ \A k \in 1 .. Len(l) : k # i => [l EXCEPT ![i] = h][k] = l[k]
<1> PICK S : l \in Seq(S) /\ \A x \in S : IsHeader(x)
  BY DEF IsList
<1>1. l \in Seq(S \union {h}) /\ h \in S \union {h}
  OBVIOUS
<1>2. [l EXCEPT ![i] = h] \in Seq(S \union {h}) /\ \A x \in S \union {h} : IsHeader(x)
  BY <1>1
<1>3. IsList([l EXCEPT ![i] = h])
  BY <1>2 DEF IsList
<1> QED BY <1>1, <1>3

(* The list holds headers. *)
LEMMA ListHas ==
    ASSUME NEW l, IsList(l) PROVE Len(l) \in Nat /\ \A i \in 1 .. Len(l) : IsHeader(l[i])
BY DEF IsList

(* http_add_header *)
LEMMA AddHeaderIs ==
    ASSUME NEW l, IsList(l), NEW name, NEW value, NEW exact, NEW m, m = AddHeader(l, name, value, exact)
    PROVE  /\ IsList(m) /\ Len(l) \in Nat
           /\ \/ m = l /\ name \in Smuggle
              \/ /\ Len(m) = Len(l) + 1 /\ (\A k \in 1 .. Len(l) : m[k] = l[k])
                 /\ m[Len(m)].name = name /\ m[Len(m)].value = value /\ m[Len(m)].present
<1> DEFINE known == LookupHeader(l, name) # {}
           key == IF known THEN "none" ELSE name
           h == [name |-> name, value |-> value, exact |-> exact, present |-> TRUE, key |-> key]
<1>1. (m = l /\ name \in Smuggle) \/ m = Append(l, h)
  BY DEF AddHeader
<1> HIDE DEF known, key
<1>2. IsHeader(h) /\ h.name = name /\ h.value = value /\ h.present
  BY DEF IsHeader, HeaderFields
<1> HIDE DEF h
<1>3. CASE m = l /\ name \in Smuggle
  BY <1>3, ListHas
<1>4. CASE m = Append(l, h)
  <2>1. /\ IsList(m) /\ Len(m) = Len(l) + 1 /\ Len(l) \in Nat /\ m[Len(l) + 1] = h /\ \A k \in 1 .. Len(l) : m[k] = l[k]
    BY <1>2, <1>4, ListGrows
  <2> QED BY <1>2, <2>1
<1> QED BY <1>1, <1>3, <1>4

(* http_request_filter_headers: credentials for the proxy do not get past it.*)
LEMMA OwnFilterIs ==
    ASSUME NEW s, NEW h, IsHeader(h), NEW own, own = OwnFilter(s, h)
    PROVE  /\ IsHeader(own.h) /\ own.action \in {"ACCEPT", "DROP"} /\ own = [h |-> own.h, action |-> own.action]
           /\ Guarded(s) /\ own.action = "ACCEPT" => own.h.name # Credentials(s)
<1> DEFINE mine == IF s.in.type = "SERVER" THEN [conn |-> "Connection", auth |-> "Authorization"]
                   ELSE [conn |-> "Proxy-Connection", auth |-> "Proxy-Authorization"]
           sent == IF s.in.parent THEN [conn |-> "Proxy-Connection", auth |-> "Proxy-Authorization"]
                   ELSE [conn |-> "Connection", auth |-> "Authorization"]
           conn == sent.conn  auth == sent.auth
           a == [h EXCEPT !.name = conn, !.value = "mode"]
           b == [h EXCEPT !["name"] = auth]
<1>1. mine.auth = Credentials(s) /\ conn \in {"Connection", "Proxy-Connection"}
  BY DEF Credentials
<1>2. \/ own = [h |-> h, action |-> "ACCEPT"] /\ (Guarded(s) => h.name # mine.auth)
      \/ own = [h |-> a, action |-> "ACCEPT"]
      \/ own = [h |-> b, action |-> "ACCEPT"] /\ s.in.forward
      \/ own = [h |-> h, action |-> "DROP"]
  BY DEF OwnFilter, Guarded
<1> HIDE DEF mine, sent, conn, auth
<1>3. IsHeader(a) /\ a.name = conn
  BY DEF IsHeader, HeaderFields
<1>4. IsHeader(b)
  BY DEF IsHeader, HeaderFields
<1> HIDE DEF a, b
<1>5. CASE own = [h |-> h, action |-> "ACCEPT"] /\ (Guarded(s) => h.name # mine.auth)
  BY <1>1, <1>5
<1>6. CASE own = [h |-> a, action |-> "ACCEPT"]
  BY <1>1, <1>3, <1>6 DEF Credentials
<1>7. CASE own = [h |-> b, action |-> "ACCEPT"] /\ s.in.forward
  BY <1>4, <1>7 DEF Guarded
<1>8. CASE own = [h |-> h, action |-> "DROP"]
  BY <1>8
<1> QED BY <1>2, <1>5, <1>6, <1>7, <1>8

(* The policy's verdict: what goes on has its own name and is not taken out, *)
(* or has a name the policy gave it.                                         *)
LEMMA JudgeIs ==
    ASSUME NEW own, IsHeader(own.h), own.action \in {"ACCEPT", "DROP"}, own = [h |-> own.h, action |-> own.action],
           NEW p, NEW x \in Judge(own, p)
    PROVE  /\ IsHeader(x.h) /\ x = [h |-> x.h, action |-> x.action] /\ x.action \in {"ACCEPT", "DROP", "ABORT"}
           /\ x.action = "ACCEPT" => x.h.name = p.name \/ (x.h.name = own.h.name /\ p.verdict \notin {"DROP", "REPLACE"})
<1> DEFINE name == p.name  value == p.value
           n == [own.h EXCEPT !["name"] = name]
           v == [own.h EXCEPT !["value"] = value]
           b == [own.h EXCEPT !.name = name, !.value = value]
<1>1. \/ \E a \in {"ACCEPT", "DROP", "ABORT"} : x = [h |-> own.h, action |-> a] /\ (a = "ACCEPT" => p.verdict \notin {"DROP", "REPLACE"})
      \/ x = [h |-> n, action |-> "ACCEPT"]
      \/ x = [h |-> v, action |-> "ACCEPT"] /\ p.verdict = "CHANGE_VALUE"
      \/ x = [h |-> b, action |-> "ACCEPT"]
  <2>1. CASE p.verdict = "POLICY"
    BY <2>1 DEF Judge
  <2>2. CASE p.verdict = "INSERT"
    BY <2>2 DEF Judge
  <2>3. CASE p.verdict = "ACCEPT"
    BY <2>3 DEF Judge
  <2>4. CASE p.verdict \in {"REPLACE", "DROP"}
    BY <2>4 DEF Judge
  <2>5. CASE p.verdict = "CHANGE_NAME"
    BY <2>5 DEF Judge
  <2>6. CASE p.verdict = "CHANGE_VALUE"
    BY <2>6 DEF Judge
  <2>7. CASE p.verdict = "CHANGE_BOTH"
    BY <2>7 DEF Judge
  <2>8. CASE p.verdict \notin {"POLICY", "INSERT", "ACCEPT", "REPLACE", "DROP", "CHANGE_NAME", "CHANGE_VALUE", "CHANGE_BOTH"}
    BY <2>8 DEF Judge
  <2> QED BY <2>1, <2>2, <2>3, <2>4, <2>5, <2>6, <2>7, <2>8
<1>2. IsHeader(n) /\ n.name = name
  BY DEF IsHeader, HeaderFields
<1>3. IsHeader(v) /\ v.name = own.h.name
  BY DEF IsHeader, HeaderFields
<1>4. IsHeader(b) /\ b.name = name
  BY DEF IsHeader, HeaderFields
<1> HIDE DEF n, v, b
<1> QED BY <1>1, <1>2, <1>3, <1>4

(* http_filter_headers: one header.  What stays present passes. *)
LEMMA FilteredIs ==
    ASSUME NEW s, NEW h, IsHeader(h), NEW own, own = OwnFilter(s, h), NEW x, NEW r, r = StrictCheck(s, x),
           x \in UNION ({Judge(own, p) : p \in PolicyOf(s, own.h.name)} \union IF PolicyOf(s, own.h.name) = {} THEN {{own}} ELSE {})
    PROVE  IsHeader(r.h) /\ (r.action = "ACCEPT" => HdrPassed(s, r.h))
<1>1. /\ IsHeader(own.h) /\ own.action \in {"ACCEPT", "DROP"} /\ own = [h |-> own.h, action |-> own.action]
      /\ Guarded(s) /\ own.action = "ACCEPT" => own.h.name # Credentials(s)
  BY OwnFilterIs
<1>2. /\ IsHeader(x.h) /\ x = [h |-> x.h, action |-> x.action] /\ x.action \in {"ACCEPT", "DROP", "ABORT"}
      /\ x.action = "ACCEPT" => HdrPassed(s, x.h)
  <2>1. CASE PolicyOf(s, own.h.name) = {}
    <3>1. x = own
      BY <2>1
    <3>2. own.h.name \notin DOMAIN s.in.policy
      BY <2>1 DEF PolicyOf
    <3> QED BY <1>1, <3>1, <3>2 DEF HdrPassed, Taken
  <2>2. CASE PolicyOf(s, own.h.name) # {}
    <3>1. PICK p \in PolicyOf(s, own.h.name) : x \in Judge(own, p)
      BY <2>2
    <3>2. /\ DOMAIN s.in.policy # {} /\ \E n \in DOMAIN s.in.policy : p = s.in.policy[n]
          /\ own.h.name \in DOMAIN s.in.policy => p = s.in.policy[own.h.name]
      BY <3>1 DEF PolicyOf
    <3>3. /\ IsHeader(x.h) /\ x = [h |-> x.h, action |-> x.action] /\ x.action \in {"ACCEPT", "DROP", "ABORT"}
          /\ x.action = "ACCEPT" => x.h.name = p.name \/ (x.h.name = own.h.name /\ p.verdict \notin {"DROP", "REPLACE"})
      BY <1>1, <3>1, JudgeIs
    <3>4. p.name \in Renamed(s)
      BY <3>2 DEF Renamed
    <3>5. p.verdict \notin {"DROP", "REPLACE"} => own.h.name \notin Taken(s)
      BY <3>2 DEF Taken
    <3>6. ~Guarded(s)
      BY <3>2 DEF Guarded
    <3> QED BY <3>3, <3>4, <3>5, <3>6 DEF HdrPassed
  <2> QED BY <2>1, <2>2
<1>3. r = x \/ (r.h = x.h /\ x.action = "ACCEPT")
  BY <1>2 DEF StrictCheck
<1> QED BY <1>2, <1>3

(* http_filter_headers: a step of its loop *)
LEMMA FilterKeeps ==
    ASSUME NEW s, HdrInv(s), s.pc = "filter", s.i > 0, NEW t \in FilterHeader(s) PROVE HdrInv(t)
<1> DEFINE own == OwnFilter(s, s.list[s.i])
           judged == UNION ({Judge(own, p) : p \in PolicyOf(s, own.h.name)}
                            \union IF PolicyOf(s, own.h.name) = {} THEN {{own}} ELSE {})
<1>0. IsHdr(s) /\ IsList(s.list) /\ Len(s.list) \in Nat /\ s.i \in 1 .. Len(s.list) /\ IsHeader(s.list[s.i])
  BY ListHas DEF HdrInv
<1> DEFINE Then(r) == CASE r.action = "ACCEPT" -> [s EXCEPT !.i = @ - 1, !.list[s.i] = r.h]
                        [] r.action = "DROP" -> [s EXCEPT !.i = @ - 1, !.list[s.i] = [r.h EXCEPT !.present = FALSE]]
                        [] OTHER -> [s EXCEPT !.pc = "failed"]
<1>1. PICK x \in judged : t = Then(StrictCheck(s, x))
  <2>1. t \in {Then(r) : r \in {StrictCheck(s, x) : x \in judged}}
    BY Zenon DEF FilterHeader
  <2> HIDE DEF Then, judged
  <2> QED BY <2>1
<1> DEFINE r == StrictCheck(s, x)  d == [r.h EXCEPT !["present"] = FALSE]
           g == IF r.action = "ACCEPT" THEN r.h ELSE d
           l == [s.list EXCEPT ![s.i] = g]  m == s.i - 1
<1>2. IsHeader(r.h) /\ (r.action = "ACCEPT" => HdrPassed(s, r.h))
  BY <1>0, FilteredIs
<1>3. t = [s EXCEPT !["i"] = m, !["list"] = l] \/ t = [s EXCEPT !["pc"] = "failed"]
  BY <1>1, <1>2
<1> HIDE DEF r, own, judged
<1>4. IsHeader(d) /\ ~d.present
  BY <1>2 DEF IsHeader, HeaderFields
<1> HIDE DEF d
<1>5. IsHeader(g) /\ (g.present => HdrPassed(s, g))
  BY <1>2, <1>4
<1> HIDE DEF g
<1>6. /\ IsList(l) /\ Len(l) = Len(s.list) /\ l[s.i] = g /\ \A k \in 1 .. Len(s.list) : k # s.i => l[k] = s.list[k]
  BY <1>0, <1>5, ListChanges
<1> HIDE DEF l
<1>7. CASE t = [s EXCEPT !["pc"] = "failed"]
  <2>1. IsHdr(t) /\ t.pc = "failed" /\ t.list = s.list
    BY <1>0, <1>7 DEF IsHdr, HdrFields
  <2> QED BY <1>0, <2>1 DEF HdrInv
<1>8. CASE t = [s EXCEPT !["i"] = m, !["list"] = l]
  <2>1. IsHdr(t) /\ t.pc = "filter" /\ t.list = l /\ t.i = m /\ t.in = s.in
    BY <1>0, <1>8 DEF IsHdr, HdrFields
  <2>2. m \in 0 .. Len(l)
    BY <1>0, <1>6
  <2>3. ASSUME NEW k \in m + 1 .. Len(l), l[k].present PROVE HdrPassed(t, l[k])
    <3>1. HdrPassed(s, l[k])
      <4>1. CASE k = s.i
        BY <1>5, <1>6, <2>3, <4>1
      <4>2. CASE k # s.i
        <5>1. k \in s.i + 1 .. Len(s.list) /\ l[k] = s.list[k]
          BY <1>0, <1>6, <4>2
        <5> QED BY <2>3, <5>1 DEF HdrInv
      <4> QED BY <4>1, <4>2
    <3> QED BY <2>1, <3>1 DEF HdrPassed, Taken, Renamed, Guarded, Credentials
  <2> QED BY <1>6, <2>1, <2>2, <2>3 DEF HdrInv
<1> QED BY <1>3, <1>7, <1>8

(* http_fetch_headers: one line *)
LEMMA FetchKeeps ==
    ASSUME NEW s, HdrInv(s), s.pc = "fetch", NEW t, t = FetchLine(s) PROVE HdrInv(t)
<1> DEFINE line == s.in.lines[s.i]  j == s.i + 1
           a == AddHeader(s.list, line.name, line.value, line.exact)
           la == IF Len(a) > Len(s.list) THEN Len(a) ELSE 0
           f == [s.list[s.last] EXCEPT !["value"] = "folded"]
           l == [s.list EXCEPT ![s.last] = f]
<1>0. IsHdr(s) /\ IsList(s.list) /\ Len(s.list) \in Nat /\ s.i \in Nat /\ s.last \in 0 .. Len(s.list)
  BY ListHas DEF HdrInv
<1>1. \/ t = [s EXCEPT !["pc"] = "failed"]
      \/ t = [s EXCEPT !["i"] = j]
      \/ t = [s EXCEPT !["i"] = j, !["list"] = l] /\ s.last # 0
      \/ t = [s EXCEPT !["i"] = j, !["list"] = a, !["last"] = la]
  BY <1>0 DEF FetchLine, IsHdr, HdrFields
<1>2. IsList(a) /\ Len(a) \in Nat /\ Len(a) >= Len(s.list)
  <2> HIDE DEF line
  <2>1. IsList(a) /\ (a = s.list \/ Len(a) = Len(s.list) + 1)
    BY <1>0, AddHeaderIs
  <2> QED BY <1>0, <2>1
<1>3. la \in 0 .. Len(a)
  BY <1>2
<1>4. s.last # 0 => IsList(l) /\ Len(l) = Len(s.list)
  <2> SUFFICES ASSUME s.last # 0 PROVE IsList(l) /\ Len(l) = Len(s.list)
    OBVIOUS
  <2>1. s.last \in 1 .. Len(s.list) /\ IsHeader(s.list[s.last])
    BY <1>0, ListHas
  <2>2. IsHeader(f)
    BY <2>1 DEF IsHeader, HeaderFields
  <2> HIDE DEF f
  <2> QED BY <1>0, <2>1, <2>2, ListChanges
<1>5. j \in Nat
  BY <1>0
<1> HIDE DEF line, a, la, f, l, j
<1>6. CASE t = [s EXCEPT !["pc"] = "failed"]
  <2>1. IsHdr(t) /\ t.pc = "failed" /\ t.list = s.list
    BY <1>0, <1>6 DEF IsHdr, HdrFields
  <2> QED BY <1>0, <2>1 DEF HdrInv
<1>7. CASE t = [s EXCEPT !["i"] = j]
  <2>1. IsHdr(t) /\ t.pc = "fetch" /\ t.list = s.list /\ t.i = j /\ t.last = s.last
    BY <1>0, <1>7 DEF IsHdr, HdrFields
  <2> QED BY <1>0, <1>5, <2>1 DEF HdrInv
<1>8. CASE t = [s EXCEPT !["i"] = j, !["list"] = l] /\ s.last # 0
  <2>1. IsHdr(t) /\ t.pc = "fetch" /\ t.list = l /\ t.i = j /\ t.last = s.last
    BY <1>0, <1>8 DEF IsHdr, HdrFields
  <2> QED BY <1>0, <1>4, <1>5, <1>8, <2>1 DEF HdrInv
<1>9. CASE t = [s EXCEPT !["i"] = j, !["list"] = a, !["last"] = la]
  <2>1. IsHdr(t) /\ t.pc = "fetch" /\ t.list = a /\ t.i = j /\ t.last = la
    BY <1>0, <1>9 DEF IsHdr, HdrFields
  <2> QED BY <1>2, <1>3, <1>5, <2>1 DEF HdrInv
<1> QED BY <1>1, <1>6, <1>7, <1>8, <1>9

(* http_insert_headers: one entry of the policy *)
LEMMA InsertKeeps ==
    ASSUME NEW s, HdrInv(s), s.pc = "insert", NEW n \in s.todo, NEW t, t = InsertHeaders(s, n) PROVE HdrInv(t)
<1> DEFINE a == AddHeader(s.list, n, s.in.policy[n].value, TRUE)
           l == IF n \in Inserting(s) THEN a ELSE s.list
           todo == s.todo \ {n}
           pc == IF todo = {} THEN "done" ELSE "insert"
<1>0. IsHdr(s) /\ IsList(s.list) /\ Len(s.list) \in Nat
  BY ListHas DEF HdrInv
<1>1. t = [s EXCEPT !["list"] = l, !["todo"] = todo, !["pc"] = pc]
  BY DEF InsertHeaders
<1>2. /\ IsList(l) /\ Len(l) \in Nat /\ Len(l) >= Len(s.list) /\ (\A k \in 1 .. Len(s.list) : l[k] = s.list[k])
      /\ \A k \in 1 .. Len(l) : k > Len(s.list) => l[k].present /\ Own(s, l[k]) /\ l[k].name = n
      /\ n \in Inserting(s) \ Smuggle => Len(l) > Len(s.list)
  <2>1. CASE n \in Inserting(s)
    <3> DEFINE v == s.in.policy[n].value  e == TRUE
    <3>0. a = AddHeader(s.list, n, v, e)
      OBVIOUS
    <3> HIDE DEF v, e, a
    <3>1. /\ IsList(a) /\ Len(s.list) \in Nat
          /\ \/ a = s.list /\ n \in Smuggle
             \/ /\ Len(a) = Len(s.list) + 1 /\ (\A k \in 1 .. Len(s.list) : a[k] = s.list[k])
                /\ a[Len(a)].name = n /\ a[Len(a)].value = v /\ a[Len(a)].present
      BY <1>0, <3>0, AddHeaderIs
    <3> QED BY <1>0, <2>1, <3>1 DEF Own, v
  <2>2. CASE n \notin Inserting(s)
    BY <1>0, <2>2
  <2> QED BY <2>1, <2>2
<1> HIDE DEF l, a
<1>3. IsHdr(t) /\ t.pc = pc /\ t.list = l /\ t.todo = todo /\ t.in = s.in
  BY <1>0, <1>1 DEF IsHdr, HdrFields
<1>4. Inserting(t) = Inserting(s) /\ \A h : (HdrPassed(t, h) <=> HdrPassed(s, h)) /\ (Own(t, h) <=> Own(s, h))
  BY <1>3 DEF HdrPassed, Own, Inserting, Taken, Renamed, Guarded, Credentials
<1>5. ASSUME NEW k \in 1 .. Len(l), l[k].present PROVE HdrPassed(t, l[k]) \/ Own(t, l[k])
  <2>1. CASE k \in 1 .. Len(s.list)
    BY <1>2, <1>4, <1>5, <2>1 DEF HdrInv
  <2>2. CASE k > Len(s.list)
    BY <1>2, <1>4, <2>2
  <2> QED BY <1>0, <2>1, <2>2
<1>6. ASSUME NEW x \in Inserting(s) \ (todo \union Smuggle)
      PROVE  \E k \in 1 .. Len(l) : l[k].present /\ l[k].name = x /\ Own(t, l[k])
  <2>1. CASE x = n
    <3>1. Len(l) \in 1 .. Len(l) /\ Len(l) > Len(s.list)
      BY <1>0, <1>2, <2>1
    <3> QED BY <1>2, <1>4, <2>1, <3>1
  <2>2. CASE x # n
    <3>1. PICK k \in 1 .. Len(s.list) : s.list[k].present /\ s.list[k].name = x /\ Own(s, s.list[k])
      BY <2>2 DEF HdrInv
    <3>2. k \in 1 .. Len(l) /\ l[k] = s.list[k]
      BY <1>0, <1>2, <3>1
    <3> QED BY <1>4, <3>1, <3>2
  <2> QED BY <2>1, <2>2
<1> QED BY <1>2, <1>3, <1>4, <1>5, <1>6 DEF HdrInv

(* Every step. *)
LEMMA HdrSteps == ASSUME HdrInv(hdr), [HdrNext]_hdr PROVE HdrInv(hdr)'
<1>0. IsHdr(hdr) /\ IsList(hdr.list) /\ Len(hdr.list) \in Nat
  BY ListHas DEF HdrInv
<1>1. CASE HdrFetch
  BY <1>1, FetchKeeps DEF HdrFetch
<1>2. CASE HdrFetched
  <2> DEFINE n == Len(hdr.list)
  <2>1. hdr' = [hdr EXCEPT !["pc"] = "filter", !["i"] = n]
    BY <1>2 DEF HdrFetched
  <2> HIDE DEF n
  <2>2. IsHdr(hdr') /\ hdr'.pc = "filter" /\ hdr'.i = n /\ hdr'.list = hdr.list
    BY <1>0, <2>1 DEF IsHdr, HdrFields
  <2>3. hdr'.i \in 0 .. Len(hdr'.list) /\ hdr'.i + 1 .. Len(hdr'.list) = {}
    BY <1>0, <2>2 DEF n
  <2> QED BY <1>0, <2>2, <2>3 DEF HdrInv
<1>3. CASE HdrFilter
  BY <1>3, FilterKeeps DEF HdrFilter
<1>4. CASE HdrFiltered
  <2> DEFINE todo == DOMAIN hdr.in.policy  pc == IF todo = {} THEN "done" ELSE "insert"
  <2>1. hdr' = [hdr EXCEPT !["todo"] = todo, !["pc"] = pc]
    BY <1>4 DEF HdrFiltered
  <2>2. IsHdr(hdr') /\ hdr'.pc = pc /\ hdr'.todo = todo /\ hdr'.list = hdr.list /\ hdr'.in = hdr.in
    BY <1>0, <2>1 DEF IsHdr, HdrFields
  <2>3. Inserting(hdr') \subseteq todo /\ \A h : HdrPassed(hdr, h) => HdrPassed(hdr', h)
    BY <2>2 DEF Inserting, HdrPassed, Taken, Renamed, Guarded, Credentials
  <2>4. \A k \in 1 .. Len(hdr.list) : hdr.list[k].present => HdrPassed(hdr, hdr.list[k])
    BY <1>0, <1>4 DEF HdrInv, HdrFiltered
  <2> QED BY <1>0, <2>2, <2>3, <2>4 DEF HdrInv
<1>5. CASE HdrInsert
  BY <1>5, InsertKeeps DEF HdrInsert
<1>6. CASE hdr' = hdr
  BY <1>6
<1> QED BY <1>1, <1>2, <1>3, <1>4, <1>5, <1>6 DEF HdrNext

(* The list is empty at first. *)
LEMMA HdrStarts == ASSUME NEW s \in HdrInits PROVE HdrInv(s)
<1> PICK in \in HeaderInputs : s = [in |-> in, pc |-> "fetch", list |-> <<>>, i |-> 1, last |-> 0, todo |-> {}]
  BY DEF HdrInits
<1>1. IsHdr(s) /\ s.pc = "fetch" /\ s.list = <<>> /\ s.i = 1 /\ s.last = 0
  BY DEF IsHdr, HdrFields
<1>2. IsList(s.list) /\ Len(s.list) = 0
  <2>1. <<>> \in Seq({})
    OBVIOUS
  <2> QED BY <1>1, <2>1 DEF IsList
<1> QED BY <1>1, <1>2 DEF HdrInv

(* The invariant at the end. *)
LEMMA HdrInvFilters == ASSUME HdrInv(hdr) PROVE HttpHeadersFiltered
<1> SUFFICES ASSUME hdr.pc = "done" PROVE
        LET of(n) == {h \in Flat(hdr) : h.name = n}
            dropped == {n \in DOMAIN hdr.in.policy : hdr.in.policy[n].verdict \in {"DROP", "REPLACE"}}
            renamed == {hdr.in.policy[n].name : n \in DOMAIN hdr.in.policy}
            creds == IF hdr.in.type = "SERVER" THEN "Authorization" ELSE "Proxy-Authorization"
        IN /\ \A n \in dropped \ renamed : \A h \in of(n) : h.value = hdr.in.policy[n].value
           /\ \A n \in Inserting(hdr) \ Smuggle : \E h \in of(n) : h.value = hdr.in.policy[n].value
           /\ hdr.in.side = "C" /\ hdr.in.auth /\ ~hdr.in.forward /\ DOMAIN hdr.in.policy = {} => of(creds) = {}
  BY DEF HttpHeadersFiltered
<1>1. \A h \in Flat(hdr) : HdrPassed(hdr, h) \/ Own(hdr, h)
  BY DEF HdrInv, Flat
<1>2. \A n \in Inserting(hdr) \ Smuggle : \E h \in Flat(hdr) : h.name = n /\ Own(hdr, h)
  BY DEF HdrInv, Flat
<1>3. \A n \in Taken(hdr) \ Renamed(hdr) : \A h \in Flat(hdr) : h.name = n => h.value = hdr.in.policy[n].value
  BY <1>1 DEF HdrPassed, Own
<1>4. \A n \in Inserting(hdr) \ Smuggle : \E h \in Flat(hdr) : h.name = n /\ h.value = hdr.in.policy[n].value
  BY <1>2 DEF Own
<1>5. Guarded(hdr) => \A h \in Flat(hdr) : h.name # Credentials(hdr)
  BY <1>1 DEF HdrPassed, Own, Guarded, Inserting
<1> HIDE DEF Flat
<1> QED BY <1>3, <1>4, <1>5 DEF Taken, Renamed, Credentials, Guarded

(* For any headers, in any number and order, and any header policy, a        *)
(* message that http_filter_headers lets pass holds none of the headers the  *)
(* policy drops or replaces (but for the policy's own), all those it         *)
(* inserts, in whatever order g_hash_table_foreach takes them, and no        *)
(* credentials meant for the proxy.                                          *)
THEOREM HttpHeadersFilter == HdrSpec => []HttpHeadersFiltered
<1>1. HdrInit => HdrInv(hdr)
  BY HdrStarts DEF HdrInit
<1>2. HdrInv(hdr) /\ [HdrNext]_hdr => HdrInv(hdr)'
  BY HdrSteps
<1>3. HdrInv(hdr) => HttpHeadersFiltered
  BY HdrInvFilters
<1> QED BY <1>1, <1>2, <1>3, PTL DEF HdrSpec

-----------------------------------------------------------------------------
(* FTP: the states of a session. *)
FtpFields == {"conf", "st", "fs", "cmd", "watch", "bits", "how", "strm", "approved", "old", "pre", "drop", "hangup",
              "xfer", "tls", "prot", "pbsz", "auth", "wire", "peer", "pri", "owed", "n"}
IsFtp(s) == s = [f \in FtpFields |-> s[f]]

(* t is s but for the fields of F. *)
FtpKept(s, t, F) == IsFtp(t) /\ \A f \in FtpFields \ F : t[f] = s[f]

Alive(s) == s.st \notin {"QUIT", "ended"}
Starting(s) == s.st \in {"INIT", "NT_CLIENT_TO_PROXY", "NT_SERVER_TO_PROXY"}
Blank(s) == s.bits = {} /\ s.how = [C |-> "none", S |-> "none"] /\ s.strm = {} /\ s.xfer = "none"

(* The ends of a data connection.  A stream is there only of a listener or   *)
(* of an attempt; an attempt of this set-up has passed the check.            *)
FtpEnds(s) ==
    /\ s.how \in [Sides -> {"none", "listen", "connect", "trying", "joined"}] /\ s.strm \subseteq Sides /\ s.approved \subseteq Sides
    /\ "SERVER_START" \in s.bits => "COMMAND_START" \in s.bits
    /\ "CLIENT_START" \in s.bits => "SERVER_START" \in s.bits
    /\ \A x \in s.strm : s.how[x] \in {"listen", "trying", "joined"}
    /\ "SERVER_START" \in s.bits /\ s.how["S"] \in {"trying", "joined"} => "S" \in s.approved
    /\ "CLIENT_START" \in s.bits /\ s.how["C"] \in {"trying", "joined"} => "C" \in s.approved

(* A client that sends no urgent data, and a policy that leaves the answers  *)
(* alone.                                                                    *)
Calm(s) == s.conf.answers = {"ACCEPT"} /\ ~s.conf.urgent

(* A set-up that has come to the client's side has a listener for the server *)
(* that was checked, or none that the client can be joined to.               *)
FtpSettled(s) ==
    Calm(s) /\ s.xfer = "none" /\ "CLIENT_START" \in s.bits /\ s.how["S"] = "listen" =>
        "S" \in s.approved \/ s.how["C"] = "connect"
(* ... but for a PORT that replaced it and is not yet answered. *)
AwaitsPort(s) == s.cmd \in {"PORT", "EPRT"} /\ s.fs = "CONVERSATION" /\ s.conf.mode # "PASSIVE"

(* PASV and EPSV begin anew, unless they are read out of turn. *)
Unbegun(s) == ~s.conf.urgent /\ s.cmd \in {"PASV", "EPSV"}

(* The policy's authentication, where it is asked for. *)
FtpAuthed(s) == s.conf.auth /\ ~s.conf.transparent => s.auth

FtpInv(s) ==
    /\ IsFtp(s) /\ s.conf \in FtpConfs /\ s.watch \subseteq Sides /\ FtpEnds(s)
    /\ Alive(s) /\ Unbegun(s) /\ "S" \in s.watch => "COMMAND_START" \notin s.bits
    /\ Starting(s) => Blank(s) /\ s.fs \notin Talking \union {"RENAME"}
    /\ Alive(s) => FtpSettled(s) \/ (AwaitsPort(s) /\ s.watch = {"S"})
    /\ FtpAuthed(s) \/ (s.st \in {"INIT", "NT_CLIENT_TO_PROXY", "QUIT", "ended"} /\ Blank(s) /\ s.peer.login = "none")

-----------------------------------------------------------------------------
(* ftp_answer_write and ftp_data_reset. *)
LEMMA RepliedIs ==
    ASSUME NEW s, IsFtp(s), NEW final
    PROVE  FtpKept(s, Replied(s, final), {"drop", "owed"})
<1>1. IsFtp(Replied(s, final))
  BY DEF IsFtp, Replied, FtpFields
<1>2. \A f \in FtpFields \ {"drop", "owed"} : Replied(s, final)[f] = s[f]
  BY DEF IsFtp, Replied, FtpFields
<1> QED BY <1>1, <1>2 DEF FtpKept

(* Keeping a field. *)
LEMMA KeptMore ==
    ASSUME NEW s, NEW t, NEW F, NEW G, FtpKept(s, t, F), F \subseteq G
    PROVE  FtpKept(s, t, G)
BY DEF FtpKept

(* Two steps that keep the same fields. *)
LEMMA KeptTwice ==
    ASSUME NEW s, NEW t, NEW u, NEW F, FtpKept(s, t, F), FtpKept(t, u, F)
    PROVE  FtpKept(s, u, F)
BY DEF FtpKept

(* What ftp_data_reset clears; it may hand the turn back to the side that had it. *)
LEMMA DataResetIs ==
    ASSUME NEW s, IsFtp(s), NEW t, t = DataReset(s)
    PROVE  /\ FtpKept(s, t, {"drop", "owed", "how", "strm", "approved", "bits", "xfer", "hangup", "pre", "old", "pri", "st", "watch"})
           /\ t.how = [C |-> "none", S |-> "none"] /\ t.strm = {} /\ t.approved = {} /\ t.bits = {}
           /\ t.xfer = (IF s.xfer = "runs" THEN "cancelled" ELSE s.xfer)
           /\ \/ t.st = s.st /\ t.watch = s.watch
              \/ s.st # "QUIT" /\ t.st \in {"SERVER_TO_CLIENT", "CLIENT_TO_SERVER"} /\ t.watch \in {{"C"}, {"S"}}
<1> DEFINE h == IF s.hangup THEN Replied(s, FALSE) ELSE s
<1>1. FtpKept(s, h, {"drop", "owed"})
  <2>1. FtpKept(s, Replied(s, FALSE), {"drop", "owed"})
    <3> DEFINE no == FALSE
    <3> HIDE DEF no
    <3>1. FtpKept(s, Replied(s, no), {"drop", "owed"})
      BY RepliedIs
    <3> QED BY <3>1 DEF no
  <2>2. FtpKept(s, s, {"drop", "owed"})
    BY DEF FtpKept
  <2> QED BY <2>1, <2>2
<1> DEFINE back == s.st # "QUIT" /\ s.old \in {"SERVER_TO_CLIENT", "CLIENT_TO_SERVER"}
<1> DEFINE gone == [C |-> "none", S |-> "none"]
<1>2. t = [h EXCEPT !.how = gone, !.strm = {}, !.approved = {}, !.bits = {},
                    !.xfer = IF @ = "runs" THEN "cancelled" ELSE @,
                    !.hangup = FALSE, !.pre = FALSE, !.old = "none", !.pri = FALSE,
                    !.st = IF back THEN s.old ELSE @,
                    !.watch = IF ~back THEN @ ELSE IF s.old = "SERVER_TO_CLIENT" THEN {"S"} ELSE {"C"}]
  BY DEF DataReset
<1>3. IsFtp(h) /\ h.xfer = s.xfer /\ h.st = s.st /\ h.watch = s.watch /\ \A f \in FtpFields \ {"drop", "owed"} : h[f] = s[f]
  BY <1>1 DEF FtpKept, FtpFields
<1> HIDE DEF h, back, gone
<1>4. IsFtp(t)
  BY <1>2, <1>3, ZenonT(60) DEF IsFtp, FtpFields
<1>5. \A f \in FtpFields \ {"drop", "owed", "how", "strm", "approved", "bits", "xfer", "hangup", "pre", "old", "pri", "st", "watch"} : t[f] = s[f]
  BY <1>2, <1>3, ZenonT(60) DEF IsFtp, FtpFields
<1>6. t.how = gone
  BY <1>2, <1>3, ZenonT(60) DEF IsFtp, FtpFields
<1>6a. t.strm = {}
  BY <1>2, <1>3, ZenonT(60) DEF IsFtp, FtpFields
<1>6b. t.approved = {}
  BY <1>2, <1>3, ZenonT(60) DEF IsFtp, FtpFields
<1>6c. t.bits = {}
  BY <1>2, <1>3, ZenonT(60) DEF IsFtp, FtpFields
<1>7. t.xfer = (IF s.xfer = "runs" THEN "cancelled" ELSE s.xfer)
  BY <1>2, <1>3, ZenonT(60) DEF IsFtp, FtpFields
<1>8. t.st = (IF back THEN s.old ELSE s.st)
  BY <1>2, <1>3, ZenonT(60) DEF IsFtp, FtpFields
<1>9. t.watch = IF ~back THEN s.watch ELSE IF s.old = "SERVER_TO_CLIENT" THEN {"S"} ELSE {"C"}
  BY <1>2, <1>3, ZenonT(60) DEF IsFtp, FtpFields
<1> QED BY <1>4, <1>5, <1>6, <1>6a, <1>6b, <1>6c, <1>7, <1>8, <1>9 DEF FtpKept, back, gone

(* What a field of a state is set to. *)
LEMMA FtpPut ==
    ASSUME NEW s, IsFtp(s), NEW f \in FtpFields, NEW e, NEW t, t = [s EXCEPT ![f] = e]
    PROVE  FtpKept(s, t, {f}) /\ t[f] = e
<1>1. IsFtp(t)
  BY DEF IsFtp, FtpFields
<1>2. t[f] = e /\ \A g \in FtpFields \ {f} : t[g] = s[g]
  BY DEF IsFtp, FtpFields
<1> QED BY <1>1, <1>2 DEF FtpKept

(* The ends depend on the data channel alone. *)
LEMMA EndsSame ==
    ASSUME NEW s, NEW t, FtpEnds(s), t.how = s.how, t.strm = s.strm, t.approved = s.approved, t.bits = s.bits
    PROVE  FtpEnds(t)
BY DEF FtpEnds

(* FtpSettled looks at these; a cancelled transfer only helps. *)
LEMMA SettledSame ==
    ASSUME NEW s, NEW t, FtpSettled(s), t.how = s.how, t.approved = s.approved, t.bits = s.bits, t.conf = s.conf,
           t.xfer = s.xfer \/ t.xfer = "cancelled"
    PROVE  FtpSettled(t)
BY DEF FtpSettled, Calm

DataFields == {"drop", "owed", "how", "strm", "approved", "bits", "xfer", "hangup", "pre", "old", "pri", "st", "watch"}

(* A data channel that is reset. *)
LEMMA ResetEnds ==
    ASSUME NEW s, IsFtp(s), NEW t, t = DataReset(s)
    PROVE  FtpKept(s, t, DataFields) /\ FtpEnds(t) /\ FtpSettled(t) /\ t.bits = {}
<1>1. /\ FtpKept(s, t, DataFields)
      /\ t.how = [C |-> "none", S |-> "none"] /\ t.strm = {} /\ t.approved = {} /\ t.bits = {}
  BY DataResetIs DEF DataFields
<1>2. t.how \in [Sides -> {"none", "listen", "connect", "trying", "joined"}]
  BY <1>1 DEF Sides
<1> QED BY <1>1, <1>2 DEF FtpEnds, FtpSettled

(* data_state |= bit, with or without a stream that arrives. *)
LEMMA UnlockedOrIs ==
    ASSUME NEW s, IsFtp(s), FtpEnds(s), NEW bit \in {"COMMAND_START", "SERVER_SAID"}, NEW t \in UnlockedOr(s, bit)
    PROVE  /\ FtpKept(s, t, {"strm", "bits", "how"}) /\ FtpEnds(t)
           /\ \A b \in {"COMMAND_START", "SERVER_START", "CLIENT_START"} \ {bit} : b \in t.bits <=> b \in s.bits
           /\ FtpSettled(s) => FtpSettled(t)
<1>1. CASE t = [s EXCEPT !.bits = @ \union {bit}]
  <2> DEFINE bits == s.bits \union {bit}
  <2>1. t = [s EXCEPT !["bits"] = bits]
    BY <1>1
  <2> HIDE DEF bits
  <2>2. FtpKept(s, t, {"bits"}) /\ t["bits"] = bits
    <3>1. IsFtp(t)
      BY <2>1 DEF IsFtp, FtpFields
    <3>2. \A f \in FtpFields \ {"bits"} : t[f] = s[f]
      BY <2>1 DEF IsFtp, FtpFields
    <3>3. t["bits"] = bits
      BY <2>1 DEF IsFtp, FtpFields
    <3> QED BY <3>1, <3>2, <3>3 DEF FtpKept
  <2>3. t.how = s.how /\ t.strm = s.strm /\ t.approved = s.approved /\ t.conf = s.conf /\ t.xfer = s.xfer
    BY <2>2 DEF FtpKept, FtpFields
  <2>4. \A b \in {"COMMAND_START", "SERVER_START", "CLIENT_START"} \ {bit} : b \in t.bits <=> b \in s.bits
    BY <2>2 DEF bits
  <2> QED BY <2>2, <2>3, <2>4 DEF FtpEnds, FtpKept, FtpSettled, Calm, bits
<1>2. CASE ~(t = [s EXCEPT !.bits = @ \union {bit}])
  <2> DEFINE how(x) == [s.how EXCEPT ![x] = IF s.how[x] = "trying" THEN "joined" ELSE s.how[x]]
             strm(x) == s.strm \union {x}
  <2>0. Ready["C"] = "CLIENT_READY" /\ Ready["S"] = "SERVER_READY"
    BY DEF Ready
  <2>0a. s.how \in [Sides -> {"none", "listen", "connect", "trying", "joined"}]
    BY DEF FtpEnds
  <2>1. PICK side \in {"C", "S"}, bits \in {s.bits \union {b} : b \in {bit, Ready["C"], Ready["S"]}} :
            /\ s.how[side] \in {"listen", "trying"} /\ side \notin s.strm
            /\ t = [s EXCEPT !.strm = strm(side), !.bits = bits, !.how = how(side)]
    <3> DEFINE A(x) == [s EXCEPT !.strm = strm(x), !.bits = s.bits \union {Ready[x]}, !.how = how(x)]
               racing == {x \in {"C", "S"} : s.how[x] \in {"listen", "trying"} /\ x \notin s.strm}
    <3>1. \A x \in {"C", "S"} : Arrived(s, x) = A(x)
      BY <2>0a DEF Arrived, IsFtp, FtpFields, Sides
    <3>2. PICK x \in racing : t = Arrived(s, x) \/ t = [[Arrived(s, x) EXCEPT !.bits = s.bits] EXCEPT !.bits = @ \union {bit}]
      BY <1>2 DEF UnlockedOr
    <3>3. CASE t = Arrived(s, x)
      <4> DEFINE R == s.bits \union {Ready[x]}
      <4>1. t = [s EXCEPT !.strm = strm(x), !.bits = R, !.how = how(x)]
        BY <3>1, <3>2, <3>3
      <4>2. R \in {s.bits \union {b} : b \in {bit, Ready["C"], Ready["S"]}}
        BY <3>2
      <4> HIDE DEF R, how, strm
      <4> QED BY <3>2, <4>1, <4>2
    <3>4. CASE t = [[Arrived(s, x) EXCEPT !.bits = s.bits] EXCEPT !.bits = @ \union {bit}]
      <4> DEFINE S == strm(x)
                 H == how(x)
                 R == s.bits \union {Ready[x]}
                 B == s.bits
      <4>1. t = [[[s EXCEPT !.strm = S, !.bits = R, !.how = H] EXCEPT !.bits = B] EXCEPT !.bits = @ \union {bit}]
        BY <3>1, <3>2, <3>4
      <4> HIDE DEF S, H, R, B
      <4>2. t = [s EXCEPT !.strm = S, !.bits = B \union {bit}, !.how = H]
        BY <4>1 DEF IsFtp, FtpFields
      <4> QED BY <3>2, <4>2 DEF S, H, B
    <3> QED BY <3>2, <3>3, <3>4
  <2>1a. \A b \in {"COMMAND_START", "SERVER_START", "CLIENT_START"} \ {bit} : b \in bits <=> b \in s.bits
    BY <2>0, <2>1
  <2>1b. bit = "COMMAND_START" => ("COMMAND_START" \in s.bits => "COMMAND_START" \in bits)
    BY <2>1
  <2> DEFINE H == how(side)
             S == strm(side)
  <2>2. t = [s EXCEPT !.strm = S, !.bits = bits, !.how = H]
    BY <2>1
  <2>9. /\ H \in [Sides -> {"none", "listen", "connect", "trying", "joined"}]
        /\ \A x \in Sides : x # side => H[x] = s.how[x]
        /\ H[side] \in {"listen", "joined"} /\ (H[side] = "listen" <=> s.how[side] = "listen")
    BY <2>0a, <2>1 DEF Sides
  <2>9a. S = s.strm \union {side}
    OBVIOUS
  <2> HIDE DEF how, strm, H, S
  <2>3. IsFtp(t)
    BY <2>2 DEF IsFtp, FtpFields
  <2>4. \A f \in FtpFields \ {"strm", "bits", "how"} : t[f] = s[f]
    BY <2>2 DEF IsFtp, FtpFields
  <2>5. t.how = H
    BY <2>2 DEF IsFtp, FtpFields
  <2>6. t.strm = S
    BY <2>2 DEF IsFtp, FtpFields
  <2>7. t.bits = bits
    BY <2>2 DEF IsFtp, FtpFields
  <2>8. t.approved = s.approved /\ t.conf = s.conf /\ t.xfer = s.xfer
    BY <2>4 DEF FtpFields
  <2>10. /\ H["C"] = "connect" <=> s.how["C"] = "connect"
         /\ H["S"] = "listen" <=> s.how["S"] = "listen"
         /\ \A x \in Sides : H[x] \in {"trying", "joined"} => s.how[x] \in {"trying", "joined"}
    BY <2>1, <2>9 DEF Sides
  <2>11. FtpEnds(t)
    <3>1. t.strm \subseteq Sides /\ \A x \in t.strm : t.how[x] \in {"listen", "trying", "joined"}
      BY <2>5, <2>6, <2>9, <2>9a DEF FtpEnds, Sides
    <3> QED BY <2>1a, <2>1b, <2>5, <2>6, <2>7, <2>8, <2>9, <2>10, <3>1 DEF FtpEnds, Sides
  <2>12. FtpSettled(s) => FtpSettled(t)
    BY <2>1a, <2>5, <2>7, <2>8, <2>10 DEF FtpSettled, Calm
  <2> QED BY <2>1a, <2>3, <2>4, <2>7, <2>11, <2>12 DEF FtpKept
<1> QED BY <1>1, <1>2

(* ftp_data_start *)
LEMMA DataStartIs ==
    ASSUME NEW s, IsFtp(s), FtpEnds(s), NEW t \in DataStart(s)
    PROVE  /\ FtpKept(s, t, DataFields) /\ FtpEnds(t) /\ FtpSettled(t)
           /\ t.st = s.st \/ t.st \in {"SERVER_TO_CLIENT", "CLIENT_TO_SERVER"}
           /\ s.watch \subseteq Sides => t.watch \subseteq Sides
           /\ t.xfer = s.xfer \/ (s.xfer = "runs" /\ t.xfer = "cancelled")
<1> DEFINE u == IF "COMMAND_START" \in s.bits THEN DataReset(s) ELSE s
           watch == u.watch \ {"C"}
           yes == TRUE
           owed == [u.owed EXCEPT !.job = IF s.xfer = "none" THEN s.n ELSE @]
           w == [u EXCEPT !.watch = watch, !.pri = yes, !.owed = owed]
<1>1. /\ FtpKept(s, u, DataFields) /\ FtpEnds(u) /\ "COMMAND_START" \notin u.bits
      /\ u.st = s.st \/ u.st \in {"SERVER_TO_CLIENT", "CLIENT_TO_SERVER"}
      /\ s.watch \subseteq Sides => u.watch \subseteq Sides
      /\ u.xfer = s.xfer \/ (s.xfer = "runs" /\ u.xfer = "cancelled")
  <2>1. CASE "COMMAND_START" \in s.bits
    <3>1. u = DataReset(s)
      BY <2>1
    <3> HIDE DEF u
    <3> QED BY <3>1, ResetEnds, DataResetIs DEF Sides
  <2>2. CASE "COMMAND_START" \notin s.bits
    BY <2>2 DEF FtpKept
  <2> QED BY <2>1, <2>2
<1>2. t \in UnlockedOr(w, "COMMAND_START")
  BY DEF DataStart
<1>2a. watch = u.watch \ {"C"}
  OBVIOUS
<1> HIDE DEF u, watch, yes, owed
<1>3. FtpKept(u, w, {"watch", "pri", "owed"}) /\ w.watch = u.watch \ {"C"}
  <2>1. IsFtp(u)
    BY <1>1 DEF FtpKept
  <2>2. IsFtp(w)
    BY <2>1 DEF IsFtp, FtpFields
  <2>3. \A f \in FtpFields \ {"watch", "pri", "owed"} : w[f] = u[f]
    BY <2>1 DEF IsFtp, FtpFields
  <2>4. w.watch = watch
    BY <2>1 DEF IsFtp, FtpFields
  <2> QED BY <1>2a, <2>2, <2>3, <2>4 DEF FtpKept
<1>4. IsFtp(w) /\ FtpEnds(w) /\ "COMMAND_START" \notin w.bits /\ w.st = u.st /\ w.xfer = u.xfer
  <2>1. w.how = u.how /\ w.strm = u.strm /\ w.approved = u.approved /\ w.bits = u.bits /\ w.st = u.st /\ w.xfer = u.xfer /\ IsFtp(w)
    BY <1>3 DEF FtpKept, FtpFields
  <2> QED BY <1>1, <2>1, EndsSame
<1> HIDE DEF w
<1>5. FtpKept(w, t, {"strm", "bits", "how"}) /\ FtpEnds(t) /\ ("CLIENT_START" \in t.bits <=> "CLIENT_START" \in w.bits)
  BY <1>2, <1>4, UnlockedOrIs
<1>6. t.st = w.st /\ t.watch = w.watch /\ t.xfer = w.xfer
  BY <1>5 DEF FtpKept, FtpFields
<1>7. FtpKept(s, t, DataFields)
  BY <1>1, <1>3, <1>5 DEF FtpKept, DataFields
<1>8. FtpSettled(t)
  BY <1>4, <1>5 DEF FtpSettled, FtpEnds
<1> QED BY <1>1, <1>3, <1>4, <1>5, <1>6, <1>7, <1>8

-----------------------------------------------------------------------------
(* An end is prepared: the old stream and what the policy said of it go. *)
Hows == {"none", "listen", "connect", "trying", "joined"}
PreparedAs(s, side, v) == [[s EXCEPT !.strm = @ \ {side}, !.approved = @ \ {side}] EXCEPT !.how[side] = v]
(* A side that is prepared anew has neither a stream nor an approval. *)
LEMMA PreparedIs ==
    ASSUME NEW s, IsFtp(s), FtpEnds(s), NEW side \in Sides, NEW v \in Hows, NEW u, u = PreparedAs(s, side, v)
    PROVE  /\ FtpKept(s, u, {"strm", "approved", "how"})
           /\ u.how[side] = v /\ \A x \in Sides : x # side => u.how[x] = s.how[x]
           /\ v \notin {"trying", "joined"} \/ s.bits = {} => FtpEnds(u)
           /\ FtpEnds(Cleared(u)) /\ FtpKept(s, Cleared(u), {"strm", "approved", "how", "bits"})
<1> DEFINE strm == s.strm \ {side}
           app == s.approved \ {side}
           how == [s.how EXCEPT ![side] = v]
           c == Cleared(u)
<1> DEFINE p == [s EXCEPT !.strm = strm, !.approved = app]
<1>0. u = [p EXCEPT !.how[side] = v]
  BY DEF PreparedAs
<1>1. p.how = s.how
  BY DEF IsFtp, FtpFields
<1>2. u = [p EXCEPT !.how = how]
  BY <1>0, <1>1
<1> HIDE DEF strm, app, how
<1>3. IsFtp(p)
  BY DEF IsFtp, FtpFields
<1>4. \A f \in FtpFields \ {"strm", "approved"} : p[f] = s[f]
  BY DEF IsFtp, FtpFields
<1>5. p.strm = strm
  BY DEF IsFtp, FtpFields
<1>6. p.approved = app
  BY DEF IsFtp, FtpFields
<1> HIDE DEF p
<1>7. IsFtp(u)
  BY <1>2, <1>3 DEF IsFtp, FtpFields
<1>8. \A f \in FtpFields \ {"how"} : u[f] = p[f]
  BY <1>2, <1>3 DEF IsFtp, FtpFields
<1>9. u.how = how
  BY <1>2, <1>3 DEF IsFtp, FtpFields
<1>10. IsFtp(c)
  BY <1>7 DEF IsFtp, FtpFields, Cleared
<1>11. \A f \in FtpFields \ {"bits"} : c[f] = u[f]
  BY <1>7 DEF IsFtp, FtpFields, Cleared
<1>12. c.bits = {}
  BY <1>7 DEF IsFtp, FtpFields, Cleared
<1> HIDE DEF c
<1>13. u.strm = strm /\ u.approved = app /\ u.bits = s.bits
  BY <1>4, <1>5, <1>6, <1>8 DEF FtpFields
<1>14. c.strm = strm /\ c.approved = app /\ c.how = how
  BY <1>9, <1>11, <1>13 DEF FtpFields
<1>15. /\ how \in [Sides -> Hows] /\ how[side] = v /\ \A x \in Sides : x # side => how[x] = s.how[x]
  BY DEF how, FtpEnds, Hows, Sides
<1>16. /\ strm \subseteq Sides /\ app \subseteq Sides /\ \A x \in strm : how[x] \in {"listen", "trying", "joined"}
       /\ \A x \in Sides : x # side /\ x \in s.approved => x \in app
  BY <1>15 DEF strm, app, FtpEnds, Sides
<1>17. v \notin {"trying", "joined"} \/ s.bits = {} => FtpEnds(u)
  BY <1>9, <1>13, <1>15, <1>16 DEF FtpEnds, Hows, Sides
<1>18. FtpEnds(c)
  BY <1>12, <1>14, <1>15, <1>16 DEF FtpEnds, Hows, Sides
<1>19. FtpKept(s, u, {"strm", "approved", "how"})
  BY <1>4, <1>7, <1>8 DEF FtpKept
<1>20. FtpKept(s, c, {"strm", "approved", "how", "bits"})
  BY <1>10, <1>11, <1>19 DEF FtpKept
<1> QED BY <1>9, <1>15, <1>17, <1>18, <1>19, <1>20 DEF c

(* ftp_data_prepare_listen *)
LEMMA PrepareListenIs ==
    ASSUME NEW s, IsFtp(s), FtpEnds(s), NEW side \in Sides, NEW r \in PrepareListen(s, side)
    PROVE  /\ r = <<r[1], r[2]>> /\ r[1] \in BOOLEAN /\ FtpKept(s, r[2], {"strm", "approved", "how"})
           /\ r[1] => r[2].how[side] = "listen" /\ FtpEnds(r[2])
           /\ \A x \in Sides : x # side => r[2].how[x] = s.how[x]
           /\ s.bits = {} => FtpEnds(r[2])
           /\ FtpEnds(Cleared(r[2])) /\ FtpKept(s, Cleared(r[2]), {"strm", "approved", "how", "bits"})
<1> DEFINE p == [s EXCEPT !.strm = @ \ {side}, !.approved = @ \ {side}]
           old == IF s.how[side] = "listen" THEN "none" ELSE s.how[side]
<1>1. p.how[side] = s.how[side]
  BY DEF IsFtp, FtpFields
<1>2. old \in Hows
  BY DEF Hows, FtpEnds
<1>3. CASE r = <<TRUE, [p EXCEPT !.how[side] = "listen"]>>
  <2>1. r[1] = TRUE /\ r[2] = PreparedAs(s, side, "listen") /\ r = <<r[1], r[2]>>
    BY <1>3 DEF PreparedAs
  <2>2. "listen" \in Hows
    BY DEF Hows
  <2>3. /\ FtpKept(s, r[2], {"strm", "approved", "how"})
        /\ r[2].how[side] = "listen" /\ \A x \in Sides : x # side => r[2].how[x] = s.how[x]
        /\ "listen" \notin {"trying", "joined"} \/ s.bits = {} => FtpEnds(r[2])
        /\ FtpEnds(Cleared(r[2])) /\ FtpKept(s, Cleared(r[2]), {"strm", "approved", "how", "bits"})
    BY <2>2, <2>1, PreparedIs
  <2> QED BY <2>1, <2>3
<1>4. CASE r = <<FALSE, [p EXCEPT !.how[side] = old]>>
  <2>1. r[1] = FALSE /\ r[2] = PreparedAs(s, side, old) /\ r = <<r[1], r[2]>>
    BY <1>4 DEF PreparedAs
  <2> HIDE DEF old
  <2>3. /\ FtpKept(s, r[2], {"strm", "approved", "how"})
        /\ r[2].how[side] = old /\ \A x \in Sides : x # side => r[2].how[x] = s.how[x]
        /\ old \notin {"trying", "joined"} \/ s.bits = {} => FtpEnds(r[2])
        /\ FtpEnds(Cleared(r[2])) /\ FtpKept(s, Cleared(r[2]), {"strm", "approved", "how", "bits"})
    BY <1>2, <2>1, PreparedIs
  <2> QED BY <1>2, <2>1, <2>3
<1> QED BY <1>1, <1>3, <1>4 DEF PrepareListen

(* ftp_data_prepare_connect *)
LEMMA PrepareConnectIs ==
    ASSUME NEW s, IsFtp(s), FtpEnds(s), NEW side \in Sides, NEW r \in PrepareConnect(s, side)
    PROVE  /\ r = <<r[1], r[2]>> /\ r[1] \in BOOLEAN /\ FtpKept(s, r[2], {"strm", "approved", "how"})
           /\ r[1] => r[2].how[side] = "connect"
           /\ \A x \in Sides : x # side => r[2].how[x] = s.how[x]
           /\ FtpEnds(r[2])
           /\ FtpEnds(Cleared(r[2])) /\ FtpKept(s, Cleared(r[2]), {"strm", "approved", "how", "bits"})
<1> DEFINE p == [s EXCEPT !.strm = @ \ {side}, !.approved = @ \ {side}]
           old == IF s.how[side] = "listen" THEN s.how[side] ELSE "none"
<1>1. p.how[side] = s.how[side]
  BY DEF IsFtp, FtpFields
<1>2. old \in Hows /\ old \notin {"trying", "joined"}
  BY DEF Hows
<1>3. CASE r = <<TRUE, [p EXCEPT !.how[side] = "connect"]>>
  <2>1. r[1] = TRUE /\ r[2] = PreparedAs(s, side, "connect") /\ r = <<r[1], r[2]>>
    BY <1>3 DEF PreparedAs
  <2>2. "connect" \in Hows
    BY DEF Hows
  <2>3. /\ FtpKept(s, r[2], {"strm", "approved", "how"})
        /\ r[2].how[side] = "connect" /\ \A x \in Sides : x # side => r[2].how[x] = s.how[x]
        /\ "connect" \notin {"trying", "joined"} \/ s.bits = {} => FtpEnds(r[2])
        /\ FtpEnds(Cleared(r[2])) /\ FtpKept(s, Cleared(r[2]), {"strm", "approved", "how", "bits"})
    BY <2>2, <2>1, PreparedIs
  <2> QED BY <2>1, <2>3
<1>4. CASE r = <<FALSE, [p EXCEPT !.how[side] = old]>>
  <2>1. r[1] = FALSE /\ r[2] = PreparedAs(s, side, old) /\ r = <<r[1], r[2]>>
    BY <1>4 DEF PreparedAs
  <2> HIDE DEF old
  <2>3. /\ FtpKept(s, r[2], {"strm", "approved", "how"})
        /\ r[2].how[side] = old /\ \A x \in Sides : x # side => r[2].how[x] = s.how[x]
        /\ old \notin {"trying", "joined"} \/ s.bits = {} => FtpEnds(r[2])
        /\ FtpEnds(Cleared(r[2])) /\ FtpKept(s, Cleared(r[2]), {"strm", "approved", "how", "bits"})
    BY <1>2, <2>1, PreparedIs
  <2> QED BY <1>2, <2>1, <2>3
<1> QED BY <1>1, <1>3, <1>4 DEF PrepareConnect

EndFields == {"strm", "approved", "how", "bits"}

(* ftp_data_server_start_PORT: the listener is there and data_state is as it *)
(* was, or there is nothing under way.                                       *)
LEMMA ServerStartPortIs ==
    ASSUME NEW s, IsFtp(s), FtpEnds(s), NEW r \in ServerStartPort(s)
    PROVE  /\ r = <<r[1], r[2]>> /\ FtpKept(s, r[2], EndFields) /\ FtpEnds(r[2])
           /\ (r[1] = "ACCEPT" /\ r[2].bits = s.bits) \/ (r[1] = "REJECT" /\ r[2].bits = {})
<1>1. PICK q \in PrepareListen(s, "S") : r = IF q[1] THEN <<"ACCEPT", q[2]>> ELSE <<"REJECT", Cleared(q[2])>>
  BY DEF ServerStartPort, Cleared
<1>2. /\ q = <<q[1], q[2]>> /\ q[1] \in BOOLEAN /\ FtpKept(s, q[2], {"strm", "approved", "how"})
      /\ q[1] => FtpEnds(q[2])
      /\ FtpEnds(Cleared(q[2])) /\ FtpKept(s, Cleared(q[2]), {"strm", "approved", "how", "bits"})
  BY PrepareListenIs DEF Sides
<1>3. CASE q[1]
  <2>1. r[1] = "ACCEPT" /\ r[2] = q[2] /\ r = <<r[1], r[2]>>
    BY <1>1, <1>3
  <2>2. q[2].bits = s.bits /\ FtpKept(s, q[2], EndFields)
    BY <1>2 DEF FtpKept, FtpFields, EndFields
  <2> QED BY <1>2, <1>3, <2>1, <2>2
<1>4. CASE ~q[1]
  <2>1. r[1] = "REJECT" /\ r[2] = Cleared(q[2]) /\ r = <<r[1], r[2]>>
    BY <1>1, <1>4
  <2>2. IsFtp(q[2])
    BY <1>2 DEF FtpKept
  <2>3. Cleared(q[2]).bits = {}
    BY <2>2 DEF Cleared, IsFtp, FtpFields
  <2> QED BY <1>2, <2>1, <2>3 DEF EndFields
<1> QED BY <1>3, <1>4

(* ftp_data_server_start_PASV *)
LEMMA ServerStartPasvIs ==
    ASSUME NEW s, IsFtp(s), FtpEnds(s), NEW r \in ServerStartPasv(s)
    PROVE  /\ r = <<r[1], r[2]>> /\ r[1] \in BOOLEAN /\ FtpKept(s, r[2], EndFields) /\ FtpEnds(r[2])
           /\ r[2].bits \in {s.bits, {}}
           /\ r[1] => r[2].how["S"] = "connect"
           /\ ~r[1] => r[2] = s \/ r[2].bits = {}
<1>1. CASE r = <<FALSE, s>>
  <2>1. r[1] = FALSE /\ r[2] = s /\ r = <<r[1], r[2]>>
    BY <1>1
  <2> QED BY <2>1 DEF FtpKept
<1>2. CASE ~(r = <<FALSE, s>>)
  <2>1. PICK q \in PrepareConnect(s, "S") : r = IF q[1] THEN q ELSE <<FALSE, Cleared(q[2])>>
    BY <1>2 DEF ServerStartPasv, Cleared
  <2>2. /\ q = <<q[1], q[2]>> /\ q[1] \in BOOLEAN /\ FtpKept(s, q[2], {"strm", "approved", "how"})
        /\ q[1] => q[2].how["S"] = "connect"
        /\ FtpEnds(q[2])
        /\ FtpEnds(Cleared(q[2])) /\ FtpKept(s, Cleared(q[2]), {"strm", "approved", "how", "bits"})
    BY PrepareConnectIs DEF Sides
  <2>3. CASE q[1]
    <3>1. r = q
      BY <2>1, <2>3
    <3>2. q[2].bits = s.bits /\ FtpKept(s, q[2], EndFields)
      BY <2>2 DEF FtpKept, FtpFields, EndFields
    <3> QED BY <2>2, <2>3, <3>1, <3>2
  <2>4. CASE ~q[1]
    <3>1. r[1] = FALSE /\ r[2] = Cleared(q[2]) /\ r = <<r[1], r[2]>>
      BY <2>1, <2>4
    <3>2. IsFtp(q[2])
      BY <2>2 DEF FtpKept
    <3>3. Cleared(q[2]).bits = {}
      BY <3>2 DEF Cleared, IsFtp, FtpFields
    <3> QED BY <2>2, <3>1, <3>3 DEF EndFields
  <2> QED BY <2>3, <2>4
<1> QED BY <1>1, <1>2

-----------------------------------------------------------------------------
(* ftp_policy_bounce_check and z_attach_start. *)
LEMMA BounceCheckIs ==
    ASSUME NEW s, IsFtp(s), NEW side, NEW r \in BounceCheck(s, side)
    PROVE  /\ r = <<r[1], r[2]>> /\ r[1] \in BOOLEAN
           /\ ~r[1] => r[2] = DataReset(s)
           /\ r[1] => FtpKept(s, r[2], {"approved"}) /\ r[2].approved = s.approved \union {side}
<1> DEFINE app == s.approved \union {side}
           u == [s EXCEPT !.approved = app]
<1> HIDE DEF app
<1>1. IsFtp(u)
  BY DEF IsFtp, FtpFields
<1>2. \A f \in FtpFields \ {"approved"} : u[f] = s[f]
  BY DEF IsFtp, FtpFields
<1>3. u.approved = app
  BY DEF IsFtp, FtpFields
<1>4. r = <<TRUE, u>> \/ r = <<FALSE, DataReset(s)>>
  BY DEF BounceCheck, app
<1> HIDE DEF u
<1>5. CASE r = <<TRUE, u>>
  <2>1. r[1] = TRUE /\ r[2] = u /\ r = <<r[1], r[2]>>
    BY <1>5
  <2> QED BY <1>1, <1>2, <1>3, <2>1 DEF FtpKept, app
<1>6. CASE r = <<FALSE, DataReset(s)>>
  BY <1>6
<1> QED BY <1>4, <1>5, <1>6

(* The check of an address and z_attach_start. *)
LEMMA StartConnectIs ==
    ASSUME NEW s, IsFtp(s), NEW side \in Sides, s.how \in [Sides -> Hows], NEW r \in StartConnect(s, side)
    PROVE  /\ r = <<r[1], r[2]>> /\ r[1] \in BOOLEAN
           /\ ~r[1] => r[2] = DataReset(s)
           /\ r[1] => /\ FtpKept(s, r[2], {"approved", "how"}) /\ r[2].approved = s.approved \union {side}
                      /\ r[2].how \in [Sides -> Hows] /\ r[2].how[side] = "trying"
                      /\ \A x \in Sides : x # side => r[2].how[x] = s.how[x]
<1>1. CASE r = <<FALSE, DataReset(s)>>
  BY <1>1
<1>2. CASE ~(r = <<FALSE, DataReset(s)>>)
  <2>1. PICK b \in BounceCheck(s, side) : r = IF b[1] THEN <<TRUE, [b[2] EXCEPT !.how[side] = "trying"]>> ELSE b
    BY <1>2 DEF StartConnect
  <2>2. /\ b = <<b[1], b[2]>> /\ b[1] \in BOOLEAN
        /\ ~b[1] => b[2] = DataReset(s)
        /\ b[1] => FtpKept(s, b[2], {"approved"}) /\ b[2].approved = s.approved \union {side}
    BY BounceCheckIs
  <2>3. CASE ~b[1]
    BY <2>1, <2>2, <2>3
  <2>4. CASE b[1]
    <3> DEFINE u == b[2]
               w == [u EXCEPT !.how[side] = "trying"]
               how == [s.how EXCEPT ![side] = "trying"]
    <3>1. r[1] = TRUE /\ r[2] = w /\ r = <<r[1], r[2]>>
      BY <2>1, <2>4
    <3>2. IsFtp(u) /\ u.how = s.how /\ FtpKept(s, u, {"approved"}) /\ u.approved = s.approved \union {side}
      BY <2>2, <2>4 DEF FtpKept, FtpFields
    <3> HIDE DEF u
    <3>3. w = [u EXCEPT !.how = how]
      BY <3>2
    <3>4. how \in [Sides -> Hows] /\ how[side] = "trying" /\ \A x \in Sides : x # side => how[x] = s.how[x]
      BY DEF Sides, Hows
    <3> HIDE DEF w, how
    <3>5. IsFtp(w)
      BY <3>2, <3>3 DEF IsFtp, FtpFields
    <3>6. \A f \in FtpFields \ {"how"} : w[f] = u[f]
      BY <3>2, <3>3 DEF IsFtp, FtpFields
    <3>7. w.how = how
      BY <3>2, <3>3 DEF IsFtp, FtpFields
    <3>8. FtpKept(s, w, {"approved", "how"}) /\ w.approved = s.approved \union {side}
      BY <3>2, <3>5, <3>6 DEF FtpKept, FtpFields
    <3> QED BY <3>1, <3>4, <3>7, <3>8
  <2> QED BY <2>3, <2>4
<1> QED BY <1>1, <1>2

-----------------------------------------------------------------------------
(* A session that talks to both sides. *)
FtpReady(s) ==
    /\ IsFtp(s) /\ s.st \in {"SERVER_TO_CLIENT", "CLIENT_TO_SERVER", "BOTH_SIDE"} /\ s.watch \subseteq Sides /\ FtpEnds(s)
    /\ Unbegun(s) /\ "S" \in s.watch => "COMMAND_START" \notin s.bits
    /\ FtpSettled(s) \/ (AwaitsPort(s) /\ s.watch = {"S"})

(* A session that polls, after a reset. *)
LEMMA ResetReady ==
    ASSUME NEW s, IsFtp(s), s.st \in {"SERVER_TO_CLIENT", "CLIENT_TO_SERVER", "BOTH_SIDE"}, s.watch \subseteq Sides,
           NEW t, t = DataReset(s)
    PROVE  FtpReady(t) /\ FtpKept(s, t, DataFields) /\ (s.xfer = "none" => t.xfer = "none")
<1>1. FtpKept(s, t, DataFields) /\ FtpEnds(t) /\ FtpSettled(t) /\ t.bits = {}
  BY ResetEnds
<1>2. /\ t.xfer = (IF s.xfer = "runs" THEN "cancelled" ELSE s.xfer)
      /\ \/ t.st = s.st /\ t.watch = s.watch
         \/ s.st # "QUIT" /\ t.st \in {"SERVER_TO_CLIENT", "CLIENT_TO_SERVER"} /\ t.watch \in {{"C"}, {"S"}}
  BY DataResetIs
<1>3. IsFtp(t)
  BY <1>1 DEF FtpKept
<1>4. t.watch \subseteq Sides /\ t.st \in {"SERVER_TO_CLIENT", "CLIENT_TO_SERVER", "BOTH_SIDE"}
  BY <1>2 DEF Sides
<1> QED BY <1>1, <1>2, <1>3, <1>4 DEF FtpReady

(* ftp_data_next_step: each part leaves a session that is ready. *)
LEMMA StepServerReady ==
    ASSUME NEW s, FtpReady(s), s.xfer = "none", NEW r \in StepServer(s)
    PROVE  r = <<r[1], r[2]>> /\ r[1] \in BOOLEAN /\ FtpReady(r[2]) /\ FtpKept(s, r[2], DataFields) /\ r[2].xfer = "none"
<1>0. IsFtp(s) /\ s.how \in [Sides -> Hows] /\ FtpEnds(s)
  BY DEF FtpReady, FtpEnds, Hows
<1>1. CASE ~("COMMAND_START" \in s.bits /\ "SERVER_START" \notin s.bits)
  <2>1. r = <<TRUE, s>>
    BY <1>1 DEF StepServer
  <2> QED BY <2>1 DEF FtpReady, FtpKept
<1>2. CASE "COMMAND_START" \in s.bits /\ "SERVER_START" \notin s.bits
  <2>1. PICK q \in IF Connects(s, "S") THEN StartConnect(s, "S") ELSE {<<TRUE, s>>} :
             r = IF q[1] THEN <<TRUE, [q[2] EXCEPT !.bits = @ \union {"SERVER_START"}]>> ELSE q
    BY <1>2 DEF StepServer
  <2>2. /\ q = <<q[1], q[2]>> /\ q[1] \in BOOLEAN
        /\ ~q[1] => q[2] = DataReset(s)
        /\ q[1] => /\ FtpKept(s, q[2], {"approved", "how"}) /\ s.approved \subseteq q[2].approved /\ q[2].approved \subseteq Sides
                   /\ q[2].how \in [Sides -> Hows] /\ q[2].how["C"] = s.how["C"]
                   /\ q[2].how["S"] = s.how["S"] \/ (q[2].how["S"] = "trying" /\ s.how["S"] \in {"connect", "trying", "joined"})
                   /\ q[2].how["S"] \in {"trying", "joined"} => "S" \in q[2].approved
    <3>1. CASE Connects(s, "S")
      <4>1. q \in StartConnect(s, "S") /\ "S" \in Sides
        BY <3>1 DEF Sides
      <4>2. /\ q = <<q[1], q[2]>> /\ q[1] \in BOOLEAN
            /\ ~q[1] => q[2] = DataReset(s)
            /\ q[1] => /\ FtpKept(s, q[2], {"approved", "how"}) /\ q[2].approved = s.approved \union {"S"}
                       /\ q[2].how \in [Sides -> Hows] /\ q[2].how["S"] = "trying"
                       /\ \A x \in Sides : x # "S" => q[2].how[x] = s.how[x]
        BY <1>0, <4>1, StartConnectIs
      <4> QED BY <1>0, <3>1, <4>2 DEF Connects, FtpEnds, Sides
    <3>2. CASE ~Connects(s, "S")
      <4>1. q = <<TRUE, s>>
        BY <3>2
      <4>2. s.how["S"] \notin {"trying", "joined"}
        BY <3>2 DEF Connects
      <4> QED BY <1>0, <4>1, <4>2 DEF FtpKept, FtpEnds
    <3> QED BY <3>1, <3>2
  <2>3. CASE ~q[1]
    <3>1. r = q
      BY <2>1, <2>3
    <3> QED BY <2>2, <2>3, <3>1, ResetReady DEF FtpReady
  <2>4. CASE q[1]
    <3> DEFINE u == q[2]
               bits == u.bits \union {"SERVER_START"}
               w == [u EXCEPT !.bits = bits]
    <3>1. r[1] = TRUE /\ r[2] = w /\ r = <<r[1], r[2]>>
      BY <2>1, <2>4
    <3>2. IsFtp(u) /\ FtpKept(s, u, {"approved", "how"}) /\ u.bits = s.bits /\ u.strm = s.strm /\ u.conf = s.conf
      BY <2>2, <2>4 DEF FtpKept, FtpFields
    <3> HIDE DEF u, bits
    <3>3. IsFtp(w)
      BY <3>2 DEF IsFtp, FtpFields
    <3>4. \A f \in FtpFields \ {"bits"} : w[f] = u[f]
      BY <3>2 DEF IsFtp, FtpFields
    <3>5. w.bits = bits
      BY <3>2 DEF IsFtp, FtpFields
    <3> HIDE DEF w
    <3>6. FtpKept(s, w, {"approved", "how", "bits"})
      BY <3>2, <3>3, <3>4 DEF FtpKept
    <3>7. /\ w.st = s.st /\ w.watch = s.watch /\ w.cmd = s.cmd /\ w.conf = s.conf /\ w.xfer = s.xfer /\ w.strm = s.strm
          /\ w.fs = s.fs /\ w.approved = u.approved /\ w.how = u.how
      BY <3>4, <3>6 DEF FtpKept, FtpFields
    <3>8. FtpEnds(w)
      <4>1. \A x \in w.strm : w.how[x] \in {"listen", "trying", "joined"}
        BY <1>0, <2>2, <2>4, <3>7 DEF FtpEnds, Sides, u
      <4>2. w.bits = s.bits \union {"SERVER_START"}
        BY <3>2, <3>5 DEF bits
      <4>3. "CLIENT_START" \notin s.bits
        BY <1>0, <1>2 DEF FtpEnds
      <4> QED BY <1>0, <1>2, <2>2, <2>4, <3>7, <4>1, <4>2, <4>3 DEF FtpEnds, Hows, u
    <3>9. "CLIENT_START" \notin w.bits
      BY <1>0, <1>2, <3>2, <3>5 DEF FtpEnds, bits
    <3>10. FtpReady(w)
      <4>1. FtpSettled(w)
        BY <3>9 DEF FtpSettled
      <4>2. Unbegun(w) /\ "S" \in s.watch => "COMMAND_START" \notin w.bits
        BY <1>2, <3>2, <3>5, <3>7 DEF FtpReady, bits, Unbegun
      <4> QED BY <3>3, <3>7, <3>8, <4>1, <4>2 DEF FtpReady
    <3> QED BY <3>1, <3>6, <3>7, <3>10, KeptMore DEF DataFields
  <2> QED BY <2>2, <2>3, <2>4
<1> QED BY <1>1, <1>2

(* The client's side is started. *)
Started(t) == [t EXCEPT !.watch = @ \ {"S"}, !.bits = @ \union {"CLIENT_START"}]
(* The client side is started. *)
LEMMA StartedIs ==
    ASSUME NEW s, IsFtp(s), NEW w, w = Started(s)
    PROVE  FtpKept(s, w, {"watch", "bits"}) /\ w.watch = s.watch \ {"S"} /\ w.bits = s.bits \union {"CLIENT_START"}
<1> DEFINE watch == s.watch \ {"S"}
           bits == s.bits \union {"CLIENT_START"}
<1>1. w = [s EXCEPT !.watch = watch, !.bits = bits]
  BY DEF Started
<1> HIDE DEF watch, bits
<1>2. IsFtp(w)
  BY <1>1 DEF IsFtp, FtpFields
<1>3. \A f \in FtpFields \ {"watch", "bits"} : w[f] = s[f]
  BY <1>1 DEF IsFtp, FtpFields
<1>4. w.watch = watch
  BY <1>1 DEF IsFtp, FtpFields
<1>5. w.bits = bits
  BY <1>1 DEF IsFtp, FtpFields
<1> QED BY <1>2, <1>3, <1>4, <1>5 DEF FtpKept, watch, bits

(* The client's part of ftp_data_next_step. *)
LEMMA StepClientReady ==
    ASSUME NEW s, FtpReady(s), s.xfer = "none", NEW r \in StepClient(s)
    PROVE  r = <<r[1], r[2]>> /\ r[1] \in BOOLEAN /\ FtpReady(r[2]) /\ FtpKept(s, r[2], DataFields) /\ r[2].xfer = "none"
<1>0. IsFtp(s) /\ s.how \in [Sides -> Hows] /\ FtpEnds(s)
  BY DEF FtpReady, FtpEnds, Hows
<1>1. CASE ~(FirstReady \subseteq s.bits /\ "CLIENT_START" \notin s.bits)
  <2>1. r = <<TRUE, s>>
    BY <1>1 DEF StepClient
  <2> QED BY <2>1 DEF FtpReady, FtpKept
<1>2. CASE FirstReady \subseteq s.bits /\ "CLIENT_START" \notin s.bits
  <2>1. PICK q \in IF Connects(s, "S") THEN {<<TRUE, s>>} ELSE BounceCheck(s, "S") :
             r \in IF ~q[1] THEN {q}
                   ELSE IF Connects(s, "C") THEN StartConnect(Started(q[2]), "C") ELSE {<<TRUE, Started(q[2])>>}
    BY <1>2 DEF StepClient, Started
  <2>2. /\ q = <<q[1], q[2]>> /\ q[1] \in BOOLEAN
        /\ ~q[1] => q[2] = DataReset(s)
        /\ q[1] => /\ FtpKept(s, q[2], {"approved"}) /\ s.approved \subseteq q[2].approved /\ q[2].approved \subseteq Sides
                   /\ s.how["S"] = "listen" => "S" \in q[2].approved
    <3>1. CASE Connects(s, "S")
      <4>1. q = <<TRUE, s>> /\ s.how["S"] # "listen"
        BY <3>1 DEF Connects
      <4> QED BY <1>0, <4>1 DEF FtpKept, FtpEnds
    <3>2. CASE ~Connects(s, "S")
      <4>1. /\ q = <<q[1], q[2]>> /\ q[1] \in BOOLEAN
            /\ ~q[1] => q[2] = DataReset(s)
            /\ q[1] => FtpKept(s, q[2], {"approved"}) /\ q[2].approved = s.approved \union {"S"}
        BY <1>0, <2>1, <3>2, BounceCheckIs
      <4> QED BY <1>0, <4>1 DEF FtpEnds, Sides
    <3> QED BY <3>1, <3>2
  <2>3. CASE ~q[1]
    <3>1. r = q
      BY <2>1, <2>3
    <3> QED BY <2>2, <2>3, <3>1, ResetReady DEF FtpReady
  <2>4. CASE q[1]
    <3> DEFINE u == q[2]
               w == Started(u)
    <3>1. r \in IF Connects(s, "C") THEN StartConnect(w, "C") ELSE {<<TRUE, w>>}
      BY <2>1, <2>4
    <3>2. IsFtp(u) /\ FtpKept(s, u, {"approved"})
      BY <2>2, <2>4 DEF FtpKept
    <3>3. FtpKept(u, w, {"watch", "bits"}) /\ w.watch = u.watch \ {"S"} /\ w.bits = u.bits \union {"CLIENT_START"}
      BY <3>2, StartedIs
    <3>3a. /\ s.approved \subseteq u.approved /\ u.approved \subseteq Sides
           /\ s.how["S"] = "listen" => "S" \in u.approved
      BY <2>2, <2>4
    <3> HIDE DEF u, w
    <3>4. /\ w.how = s.how /\ w.strm = s.strm /\ w.approved = u.approved /\ w.conf = s.conf /\ w.st = s.st /\ w.xfer = s.xfer
          /\ w.watch = s.watch \ {"S"} /\ w.bits = s.bits \union {"CLIENT_START"} /\ IsFtp(w)
      BY <3>2, <3>3 DEF FtpKept, FtpFields
    <3>5. FtpKept(s, w, DataFields)
      BY <3>2, <3>3 DEF FtpKept, DataFields
    <3>6. /\ r = <<r[1], r[2]>> /\ r[1] \in BOOLEAN
          /\ ~r[1] => r[2] = DataReset(w)
          /\ r[1] => /\ FtpKept(w, r[2], {"approved", "how"}) /\ w.approved \subseteq r[2].approved /\ r[2].approved \subseteq Sides
                     /\ r[2].how \in [Sides -> Hows] /\ r[2].how["S"] = s.how["S"]
                     /\ r[2].how["C"] = s.how["C"] \/ (r[2].how["C"] = "trying" /\ s.how["C"] \in {"connect", "trying", "joined"})
                     /\ r[2].how["C"] \in {"trying", "joined"} => "C" \in r[2].approved
      <4>1. CASE Connects(s, "C")
        <5>1. r \in StartConnect(w, "C") /\ "C" \in Sides /\ w.how \in [Sides -> Hows]
          BY <1>0, <3>1, <3>4, <4>1 DEF Sides
        <5>2. /\ r = <<r[1], r[2]>> /\ r[1] \in BOOLEAN
              /\ ~r[1] => r[2] = DataReset(w)
              /\ r[1] => /\ FtpKept(w, r[2], {"approved", "how"}) /\ r[2].approved = w.approved \union {"C"}
                         /\ r[2].how \in [Sides -> Hows] /\ r[2].how["C"] = "trying"
                         /\ \A x \in Sides : x # "C" => r[2].how[x] = w.how[x]
          BY <3>4, <5>1, StartConnectIs
        <5> QED BY <3>3a, <3>4, <4>1, <5>2 DEF Connects, Sides
      <4>2. CASE ~Connects(s, "C")
        <5>1. r = <<TRUE, w>> /\ s.how["C"] \notin {"trying", "joined"}
          BY <3>1, <4>2 DEF Connects
        <5> QED BY <1>0, <3>3a, <3>4, <5>1 DEF FtpKept
      <4> QED BY <4>1, <4>2
    <3>7. CASE ~r[1]
      <4>1. r[2] = DataReset(w)
        BY <3>6, <3>7
      <4>2. w.watch \subseteq Sides /\ w.st \in {"SERVER_TO_CLIENT", "CLIENT_TO_SERVER", "BOTH_SIDE"}
        BY <3>4 DEF FtpReady
      <4>3. FtpReady(r[2]) /\ FtpKept(w, r[2], DataFields) /\ r[2].xfer = "none"
        BY <3>4, <4>1, <4>2, ResetReady
      <4> QED BY <3>5, <3>6, <4>3, KeptTwice
    <3>8. CASE r[1]
      <4> DEFINE v == r[2]
      <4>1. /\ FtpKept(w, v, {"approved", "how"}) /\ w.approved \subseteq v.approved /\ v.approved \subseteq Sides
            /\ v.how \in [Sides -> Hows] /\ v.how["S"] = s.how["S"]
            /\ v.how["C"] = s.how["C"] \/ (v.how["C"] = "trying" /\ s.how["C"] \in {"connect", "trying", "joined"})
            /\ v.how["C"] \in {"trying", "joined"} => "C" \in v.approved
        BY <3>6, <3>8
      <4> HIDE DEF v
      <4>2. /\ v.strm = s.strm /\ v.conf = s.conf /\ v.st = s.st /\ v.xfer = s.xfer
            /\ v.watch = s.watch \ {"S"} /\ v.bits = s.bits \union {"CLIENT_START"} /\ IsFtp(v)
        BY <3>4, <4>1 DEF FtpKept, FtpFields
      <4>3. FtpKept(s, v, DataFields)
        BY <3>5, <4>1 DEF FtpKept, DataFields
      <4>4. FtpEnds(v)
        <5>1. \A x \in v.strm : v.how[x] \in {"listen", "trying", "joined"}
          BY <1>0, <4>1, <4>2 DEF FtpEnds, Sides
        <5>2. "S" \in s.approved => "S" \in v.approved
          BY <3>3a, <3>4, <4>1
        <5> QED BY <1>0, <1>2, <4>1, <4>2, <5>1, <5>2 DEF FtpEnds, Hows, FirstReady
      <4>5. FtpSettled(v)
        BY <3>3a, <3>4, <4>1, <4>2 DEF FtpSettled
      <4>6. FtpReady(v)
        BY <4>2, <4>4, <4>5 DEF FtpReady
      <4> QED BY <3>6, <4>2, <4>3, <4>6 DEF v
    <3> QED BY <3>6, <3>7, <3>8
  <2> QED BY <2>2, <2>3, <2>4
<1> QED BY <1>1, <1>2

(* ftp_data_create_transfer and what comes before it: bytes flow only        *)
(* between ends that were both approved.                                     *)
LEMMA CreateTransferReady ==
    ASSUME NEW s, FtpReady(s), s.xfer = "none", NEW t \in CreateTransfer(s)
    PROVE  /\ FtpReady(t) /\ FtpKept(s, t, DataFields)
           /\ t.xfer = "none" \/ (t.xfer = "runs" /\ t.approved = s.approved /\ NeedsData(s.cmd) /\ s.strm = {"C", "S"})
<1>1. CASE t = DataReset(s)
  BY <1>1, ResetReady DEF FtpReady
<1>2. CASE ~(t = DataReset(s))
  <2>1. NeedsData(s.cmd) /\ s.strm = {"C", "S"} /\ t = [s EXCEPT !.strm = {}, !.xfer = "runs"]
    BY <1>2 DEF CreateTransfer
  <2>2. IsFtp(s)
    BY DEF FtpReady
  <2>3. IsFtp(t)
    BY <2>1, <2>2 DEF IsFtp, FtpFields
  <2>4. \A f \in FtpFields \ {"strm", "xfer"} : t[f] = s[f]
    BY <2>1, <2>2 DEF IsFtp, FtpFields
  <2>5. t.strm = {}
    BY <2>1, <2>2 DEF IsFtp, FtpFields
  <2>6. t.xfer = "runs"
    BY <2>1, <2>2 DEF IsFtp, FtpFields
  <2>7. t.st = s.st /\ t.watch = s.watch /\ t.cmd = s.cmd /\ t.conf = s.conf /\ t.how = s.how /\ t.approved = s.approved /\ t.bits = s.bits
    BY <2>4 DEF FtpFields
  <2>8. FtpEnds(t) /\ FtpSettled(t)
    BY <2>5, <2>6, <2>7 DEF FtpEnds, FtpSettled, FtpReady
  <2>9. FtpReady(t)
    BY <2>3, <2>7, <2>8 DEF FtpReady, Unbegun
  <2> QED BY <2>1, <2>3, <2>4, <2>6, <2>7, <2>9 DEF FtpKept, DataFields
<1> QED BY <1>1, <1>2

Approved(s, t) == Calm(s) /\ s.xfer = "none" /\ t.xfer = "runs" => t.approved = {"C", "S"}

(* The last part of ftp_data_next_step: here both ends have been approved. *)
LEMMA StepTransferReady ==
    ASSUME NEW s, FtpReady(s), s.xfer = "none", NEW t \in StepTransfer(s)
    PROVE  FtpReady(t) /\ FtpKept(s, t, DataFields) /\ t.xfer \in {"none", "runs"} /\ Approved(s, t)
<1>0. IsFtp(s) /\ FtpEnds(s)
  BY DEF FtpReady
<1>1. CASE s.bits = ConnectReady
  <2>1. PICK q \in IF Connects(s, "C") THEN {<<TRUE, s>>} ELSE BounceCheck(s, "C") :
             t \in IF q[1] THEN CreateTransfer(q[2]) ELSE {q[2]}
    <3>1. StepTransfer(s) = UNION {IF r[1] THEN CreateTransfer(r[2]) ELSE {r[2]} :
                                     r \in IF Connects(s, "C") THEN {<<TRUE, s>>} ELSE BounceCheck(s, "C")}
      <4>1. s.bits \notin {{"CANCEL"}, {"DESTROY"}}
        BY <1>1 DEF ConnectReady, FirstReady
      <4> QED BY <1>1, <4>1 DEF StepTransfer
    <3> QED BY <3>1
  <2>2. /\ q = <<q[1], q[2]>> /\ q[1] \in BOOLEAN
        /\ ~q[1] => q[2] = DataReset(s)
        /\ q[1] => /\ FtpKept(s, q[2], {"approved"}) /\ s.approved \subseteq q[2].approved /\ q[2].approved \subseteq Sides
                   /\ "C" \in q[2].approved \/ Connects(s, "C")
    <3>1. CASE Connects(s, "C")
      <4>1. q = <<TRUE, s>>
        BY <3>1
      <4> QED BY <1>0, <3>1, <4>1 DEF FtpKept, FtpEnds
    <3>2. CASE ~Connects(s, "C")
      <4>1. /\ q = <<q[1], q[2]>> /\ q[1] \in BOOLEAN
            /\ ~q[1] => q[2] = DataReset(s)
            /\ q[1] => FtpKept(s, q[2], {"approved"}) /\ q[2].approved = s.approved \union {"C"}
        BY <1>0, <2>1, <3>2, BounceCheckIs
      <4> QED BY <1>0, <4>1 DEF FtpEnds, Sides
    <3> QED BY <3>1, <3>2
  <2>3. CASE ~q[1]
    <3>1. t = DataReset(s)
      BY <2>1, <2>2, <2>3
    <3> QED BY <3>1, ResetReady DEF FtpReady, Approved
  <2>4. CASE q[1]
    <3> DEFINE u == q[2]
    <3>1. t \in CreateTransfer(u)
      BY <2>1, <2>4
    <3>2. /\ FtpKept(s, u, {"approved"}) /\ s.approved \subseteq u.approved /\ u.approved \subseteq Sides
          /\ "C" \in u.approved \/ Connects(s, "C")
      BY <2>2, <2>4
    <3> HIDE DEF u
    <3>3. /\ u.how = s.how /\ u.strm = s.strm /\ u.conf = s.conf /\ u.st = s.st /\ u.xfer = s.xfer /\ u.fs = s.fs
          /\ u.watch = s.watch /\ u.bits = s.bits /\ u.cmd = s.cmd /\ IsFtp(u)
      BY <3>2 DEF FtpKept, FtpFields
    <3>4. FtpEnds(u)
      BY <1>0, <3>2, <3>3 DEF FtpEnds
    <3>5. FtpSettled(s) => FtpSettled(u)
      BY <3>2, <3>3 DEF FtpSettled, Calm
    <3>6. FtpReady(u)
      BY <3>3, <3>4, <3>5 DEF FtpReady, Unbegun, AwaitsPort
    <3>7. /\ FtpReady(t) /\ FtpKept(u, t, DataFields)
          /\ t.xfer = "none" \/ (t.xfer = "runs" /\ t.approved = u.approved /\ NeedsData(u.cmd) /\ u.strm = {"C", "S"})
      BY <3>1, <3>3, <3>6, CreateTransferReady
    <3>8. FtpKept(s, t, DataFields)
      BY <3>2, <3>7 DEF FtpKept, DataFields
    <3>9. ASSUME Calm(s), t.xfer = "runs"
          PROVE  t.approved = {"C", "S"}
      <4>1. t.approved = u.approved /\ NeedsData(s.cmd) /\ s.strm = {"C", "S"}
        BY <3>3, <3>7, <3>9
      <4>2. s.how["C"] \in {"listen", "trying", "joined"} /\ s.how["S"] \in {"listen", "trying", "joined"}
        BY <1>0, <4>1 DEF FtpEnds
      <4>3. "SERVER_START" \in s.bits /\ "CLIENT_START" \in s.bits
        BY <1>1 DEF ConnectReady, FirstReady
      <4>4. "C" \in u.approved
        BY <1>0, <3>2, <4>2, <4>3 DEF FtpEnds, Connects
      <4>5. ~AwaitsPort(s)
        BY <4>1 DEF AwaitsPort, NeedsData, Up, Down
      <4>6. FtpSettled(s)
        BY <4>5 DEF FtpReady
      <4>7. "S" \in s.approved
        BY <1>0, <3>9, <4>2, <4>3, <4>6 DEF FtpEnds, FtpSettled
      <4> QED BY <3>2, <4>1, <4>4, <4>7 DEF Sides
    <3> QED BY <3>7, <3>8, <3>9 DEF Approved
  <2> QED BY <2>2, <2>3, <2>4
<1>2. CASE s.bits # ConnectReady /\ s.bits \in {{"CANCEL"}, {"DESTROY"}}
  <2>1. t = DataReset(s)
    BY <1>2 DEF StepTransfer
  <2> QED BY <2>1, ResetReady DEF FtpReady, Approved
<1>3. CASE s.bits # ConnectReady /\ s.bits \notin {{"CANCEL"}, {"DESTROY"}}
  <2>1. t = s
    BY <1>3 DEF StepTransfer
  <2> QED BY <1>0, <2>1 DEF FtpKept, Approved
<1> QED BY <1>1, <1>2, <1>3

(* ftp_data_next_step *)
LEMMA DataNextStepReady ==
    ASSUME NEW s, FtpReady(s), s.xfer = "none", NEW t \in DataNextStep(s)
    PROVE  FtpReady(t) /\ FtpKept(s, t, DataFields) /\ t.xfer \in {"none", "runs"} /\ Approved(s, t)
<1>1. PICK r \in Stepped(StepServer(s), StepClient) : t \in IF r[1] THEN StepTransfer(r[2]) ELSE {r[2]}
  BY DEF DataNextStep
<1>2. PICK q \in StepServer(s) : r \in IF q[1] THEN StepClient(q[2]) ELSE {q}
  BY <1>1 DEF Stepped
<1>3. q = <<q[1], q[2]>> /\ q[1] \in BOOLEAN /\ FtpReady(q[2]) /\ FtpKept(s, q[2], DataFields) /\ q[2].xfer = "none"
  BY StepServerReady
<1>4. r[1] \in BOOLEAN /\ FtpReady(r[2]) /\ FtpKept(s, r[2], DataFields) /\ r[2].xfer = "none"
  <2>1. CASE ~q[1]
    BY <1>2, <1>3, <2>1
  <2>2. CASE q[1]
    <3>1. r \in StepClient(q[2])
      BY <1>2, <2>2
    <3>2. r[1] \in BOOLEAN /\ FtpReady(r[2]) /\ FtpKept(q[2], r[2], DataFields) /\ r[2].xfer = "none"
      BY <1>3, <3>1, StepClientReady
    <3> QED BY <1>3, <3>2, KeptTwice
  <2> QED BY <1>3, <2>1, <2>2
<1>5. r[2].conf = s.conf
  BY <1>4 DEF FtpKept, FtpFields, DataFields
<1>6. CASE ~r[1]
  BY <1>1, <1>4, <1>6 DEF Approved
<1>7. CASE r[1]
  <2>1. t \in StepTransfer(r[2])
    BY <1>1, <1>7
  <2>2. FtpReady(t) /\ FtpKept(r[2], t, DataFields) /\ t.xfer \in {"none", "runs"} /\ Approved(r[2], t)
    BY <1>4, <2>1, StepTransferReady
  <2> QED BY <1>4, <1>5, <2>2, KeptTwice DEF Approved, Calm
<1> QED BY <1>4, <1>6, <1>7

(* The rest of a round of the proxy's loop. *)
LEMMA AfterPollReady ==
    ASSUME NEW s, FtpReady(s), NEW t \in AfterPoll(s)
    PROVE  FtpReady(t) /\ FtpKept(s, t, DataFields) /\ Approved(s, t)
<1>0. IsFtp(s) /\ s.st # "QUIT"
  BY DEF FtpReady
<1>1. CASE s.xfer # "none"
  <2>1. t = [s EXCEPT !.xfer = s.xfer]
    BY <1>0, <1>1 DEF AfterPoll
  <2>2. t = s
    BY <1>0, <2>1 DEF IsFtp, FtpFields
  <2> QED BY <1>0, <1>1, <2>2 DEF FtpKept, Approved
<1>2. CASE s.xfer = "none" /\ s.bits # {}
  <2>1. PICK u \in DataNextStep(s) : t = [u EXCEPT !.st = IF u.bits # {} /\ @ # "QUIT" THEN "BOTH_SIDE" ELSE @]
    BY <1>0, <1>2 DEF AfterPoll
  <2>2. FtpReady(u) /\ FtpKept(s, u, DataFields) /\ u.xfer \in {"none", "runs"} /\ Approved(s, u)
    BY <1>2, DataNextStepReady
  <2> DEFINE st == IF u.bits # {} /\ u.st # "QUIT" THEN "BOTH_SIDE" ELSE u.st
  <2>3. IsFtp(u) /\ t = [u EXCEPT !.st = st] /\ st \in {"SERVER_TO_CLIENT", "CLIENT_TO_SERVER", "BOTH_SIDE"}
    BY <2>1, <2>2 DEF FtpReady
  <2> HIDE DEF st
  <2>4. IsFtp(t)
    BY <2>3 DEF IsFtp, FtpFields
  <2>5. \A f \in FtpFields \ {"st"} : t[f] = u[f]
    BY <2>3 DEF IsFtp, FtpFields
  <2>6. t.st = st
    BY <2>3 DEF IsFtp, FtpFields
  <2>7. /\ t.how = u.how /\ t.strm = u.strm /\ t.conf = u.conf /\ t.xfer = u.xfer /\ t.fs = u.fs /\ t.approved = u.approved
        /\ t.watch = u.watch /\ t.bits = u.bits /\ t.cmd = u.cmd
    BY <2>5 DEF FtpFields
  <2>8. FtpEnds(t) /\ (FtpSettled(u) => FtpSettled(t))
    BY <2>2, <2>7, EndsSame, SettledSame DEF FtpReady
  <2>9. FtpReady(t)
    BY <2>2, <2>3, <2>4, <2>6, <2>7, <2>8 DEF FtpReady, Unbegun, AwaitsPort
  <2> QED BY <2>2, <2>4, <2>5, <2>7, <2>9 DEF FtpKept, DataFields, Approved
<1>3. CASE s.xfer = "none" /\ s.bits = {}
  <2>1. t = s
    BY <1>3 DEF AfterPoll
  <2> QED BY <1>0, <1>3, <2>1 DEF FtpKept, Approved
<1> QED BY <1>1, <1>2, <1>3

(* ... and in one that ends. *)
LEMMA AfterPollQuit ==
    ASSUME NEW s, IsFtp(s), s.st = "QUIT", NEW t \in AfterPoll(s)
    PROVE  FtpKept(s, t, {"xfer"}) /\ t.xfer \in {s.xfer, "cancelled"} /\ (t.xfer = "none" <=> s.xfer = "none")
<1> DEFINE x == IF s.xfer # "none" THEN "cancelled" ELSE s.xfer
<1>1. t = [s EXCEPT !.xfer = x]
  <2>1. CASE s.xfer # "none"
    BY <2>1 DEF AfterPoll
  <2>2. CASE s.xfer = "none"
    <3>1. t = s
      BY <2>2 DEF AfterPoll
    <3>2. s = [s EXCEPT !.xfer = s.xfer]
      BY DEF IsFtp, FtpFields
    <3> QED BY <2>2, <3>1, <3>2
  <2> QED BY <2>1, <2>2
<1>2. x \in {s.xfer, "cancelled"} /\ (x = "none" <=> s.xfer = "none")
  OBVIOUS
<1> HIDE DEF x
<1>3. IsFtp(t)
  BY <1>1 DEF IsFtp, FtpFields
<1>4. \A f \in FtpFields \ {"xfer"} : t[f] = s[f]
  BY <1>1 DEF IsFtp, FtpFields
<1>5. t.xfer = x
  BY <1>1 DEF IsFtp, FtpFields
<1> QED BY <1>2, <1>3, <1>4, <1>5 DEF FtpKept

-----------------------------------------------------------------------------
(* The parsers, but for those of the data channel: what they may change. *)
ParseFields == {"fs", "auth", "st", "watch", "owed", "drop", "tls", "pbsz", "prot"}
ParsedAs(s, r) ==
    /\ r = <<r[1], r[2]>> /\ FtpKept(s, r[2], ParseFields)
    /\ s.auth => r[2].auth
    /\ r[2].fs \in Talking \union {"RENAME"} => s.fs \in Talking \union {"RENAME"}
    /\ \/ r[2].st = s.st /\ r[2].watch = s.watch
       \/ r[2].st = "QUIT" /\ r[2].watch = s.watch /\ r[1] # "ACCEPT"
       \/ s.fs \in Talking /\ r[2].st \in {"BOTH_SIDE", "SERVER_TO_CLIENT"} /\ r[2].watch \in {s.watch, {"C", "S"}}
       \/ s.st = "SERVER_TO_CLIENT" /\ r[2].st = "CLIENT_TO_SERVER" /\ r[2].watch = {"C"}

(* A parser that leaves the state alone. *)
LEMMA ParsedSame ==
    ASSUME NEW s, IsFtp(s), NEW v, NEW r, r = <<v, s>>
    PROVE  ParsedAs(s, r)
<1>1. r[1] = v /\ r[2] = s /\ r = <<r[1], r[2]>>
  OBVIOUS
<1> QED BY <1>1 DEF ParsedAs, FtpKept

WithFs(s, v) == [s EXCEPT !.fs = v]
(* ftp_state is assigned. *)
LEMMA WithFsIs ==
    ASSUME NEW s, IsFtp(s), NEW v
    PROVE  FtpKept(s, WithFs(s, v), {"fs"}) /\ WithFs(s, v).fs = v
<1> DEFINE u == WithFs(s, v)
<1>1. IsFtp(u)
  BY DEF IsFtp, FtpFields, WithFs
<1>2. \A f \in FtpFields \ {"fs"} : u[f] = s[f]
  BY DEF IsFtp, FtpFields, WithFs
<1>3. u.fs = v
  BY DEF IsFtp, FtpFields, WithFs
<1> QED BY <1>1, <1>2, <1>3 DEF FtpKept

(* A parser that only moves ftp_state, and not to a conversation. *)
LEMMA ParsedFs ==
    ASSUME NEW s, IsFtp(s), NEW v, NEW w, v \in Talking \union {"RENAME"} => s.fs \in Talking \union {"RENAME"}, NEW r, r = <<w, WithFs(s, v)>>
    PROVE  ParsedAs(s, r)
<1>1. r[1] = w /\ r[2] = WithFs(s, v) /\ r = <<r[1], r[2]>>
  OBVIOUS
<1>2. FtpKept(s, r[2], {"fs"}) /\ r[2].fs = v
  BY <1>1, WithFsIs
<1>3. r[2].st = s.st /\ r[2].watch = s.watch /\ r[2].auth = s.auth
  BY <1>2 DEF FtpKept, FtpFields
<1>4. FtpKept(s, r[2], ParseFields)
  BY <1>2 DEF FtpKept, ParseFields
<1> QED BY <1>1, <1>2, <1>3, <1>4 DEF ParsedAs

(* ftp_do_inband_auth *)
LEMMA InbandAuthIs ==
    ASSUME NEW s, IsFtp(s), NEW a \in InbandAuth(s)
    PROVE  FtpKept(s, a[2], {"auth"}) /\ (s.auth => a[2].auth) /\ a[1] \in BOOLEAN
<1> DEFINE e == TRUE
           u == [s EXCEPT !.auth = e]
<1>1. a = <<TRUE, s>> \/ a = <<TRUE, u>> \/ a = <<FALSE, s>>
  BY DEF InbandAuth
<1>2. e = TRUE
  OBVIOUS
<1> HIDE DEF e
<1>3. IsFtp(u)
  BY DEF IsFtp, FtpFields
<1>4. \A f \in FtpFields \ {"auth"} : u[f] = s[f]
  BY DEF IsFtp, FtpFields
<1>5. u.auth = e
  BY DEF IsFtp, FtpFields
<1> HIDE DEF u
<1>6. CASE a = <<TRUE, u>>
  <2>1. a[1] = TRUE /\ a[2] = u
    BY <1>6
  <2> QED BY <1>2, <1>3, <1>4, <1>5, <2>1 DEF FtpKept
<1>7. CASE a = <<TRUE, s>>
  <2>1. a[1] = TRUE /\ a[2] = s
    BY <1>7
  <2> QED BY <2>1 DEF FtpKept
<1>8. CASE a = <<FALSE, s>>
  <2>1. a[1] = FALSE /\ a[2] = s
    BY <1>8
  <2> QED BY <2>1 DEF FtpKept
<1> QED BY <1>1, <1>6, <1>7, <1>8

(* A result after the authentication. *)
LEMMA ParsedAuth ==
    ASSUME NEW s, IsFtp(s), NEW a \in InbandAuth(s), NEW r, ParsedAs(a[2], r)
    PROVE  ParsedAs(s, r)
<1>1. FtpKept(s, a[2], {"auth"}) /\ (s.auth => a[2].auth)
  BY InbandAuthIs
<1>2. a[2].st = s.st /\ a[2].watch = s.watch /\ a[2].fs = s.fs
  BY <1>1 DEF FtpKept, FtpFields
<1>3. FtpKept(s, r[2], ParseFields)
  BY <1>1 DEF ParsedAs, FtpKept, ParseFields
<1> QED BY <1>1, <1>2, <1>3 DEF ParsedAs

(* The state after the authentication. *)
LEMMA AuthIsFtp ==
    ASSUME NEW s, IsFtp(s), NEW a \in InbandAuth(s)
    PROVE  IsFtp(a[2]) /\ a[2].fs = s.fs
<1>1. FtpKept(s, a[2], {"auth"})
  BY InbandAuthIs
<1> QED BY <1>1 DEF FtpKept, FtpFields

(* USER *)
LEMMA ParsedUSER ==
    ASSUME NEW s, IsFtp(s), NEW r \in ParseUSER(s)
    PROVE  ParsedAs(s, r)
<1>1. CASE r \in Rejected(s)
  BY <1>1, ParsedSame DEF Rejected
<1>2. CASE r \in WithAuth(s, LAMBDA t : {<<"NOOP", WithFs(t, "PRECONNECT_LOGIN_P")>>, <<"PROXY_ANS", WithFs(t, "PRECONNECT_LOGIN_U")>>})
  <2>1. PICK a \in InbandAuth(s) : r \in IF a[1] THEN {<<"NOOP", WithFs(a[2], "PRECONNECT_LOGIN_P")>>, <<"PROXY_ANS", WithFs(a[2], "PRECONNECT_LOGIN_U")>>}
                                         ELSE {<<"ABORT", a[2]>>}
    BY <1>2 DEF WithAuth
  <2>2. IsFtp(a[2])
    BY AuthIsFtp
  <2>3. "PRECONNECT_LOGIN_P" \notin Talking \union {"RENAME"} /\ "PRECONNECT_LOGIN_U" \notin Talking \union {"RENAME"}
    BY DEF Talking
  <2>4. ParsedAs(a[2], r)
    <3>1. CASE r = <<"NOOP", WithFs(a[2], "PRECONNECT_LOGIN_P")>>
      BY <2>2, <2>3, <3>1, ParsedFs
    <3>2. CASE r = <<"PROXY_ANS", WithFs(a[2], "PRECONNECT_LOGIN_U")>>
      BY <2>2, <2>3, <3>2, ParsedFs
    <3>3. CASE r = <<"ABORT", a[2]>>
      BY <2>2, <3>3, ParsedSame
    <3> QED BY <2>1, <3>1, <3>2, <3>3
  <2> QED BY <2>4, ParsedAuth
<1>3. CASE r \in WithAuth(s, LAMBDA t : {<<"ACCEPT", WithFs(t, "LOGIN_U")>>})
  <2>1. PICK a \in InbandAuth(s) : r \in IF a[1] THEN {<<"ACCEPT", WithFs(a[2], "LOGIN_U")>>} ELSE {<<"ABORT", a[2]>>}
    BY <1>3 DEF WithAuth
  <2>2. IsFtp(a[2])
    BY AuthIsFtp
  <2>3. "LOGIN_U" \notin Talking \union {"RENAME"}
    BY DEF Talking
  <2>4. ParsedAs(a[2], r)
    <3>1. CASE r = <<"ACCEPT", WithFs(a[2], "LOGIN_U")>>
      BY <2>2, <2>3, <3>1, ParsedFs
    <3>2. CASE r = <<"ABORT", a[2]>>
      BY <2>2, <3>2, ParsedSame
    <3> QED BY <2>1, <3>1, <3>2
  <2> QED BY <2>4, ParsedAuth
<1>4. CASE r = <<"ACCEPT", WithFs(s, "LOGIN_U")>>
  <2>1. "LOGIN_U" \notin Talking \union {"RENAME"}
    BY DEF Talking
  <2> QED BY <1>4, <2>1, ParsedFs
<1>5. CASE r = <<"ABORT", s>>
  BY <1>5, ParsedSame
<1> QED
  <2>1. CASE s.fs \in Preconnect
    <3>1. s.fs \notin Logins /\ s.fs \notin Talking
      BY <2>1 DEF Preconnect, Logins, Talking
    <3> QED BY <1>1, <1>2, <2>1, <3>1 DEF ParseUSER, WithFs
  <2>2. CASE s.fs \in Logins
    <3>1. s.fs \notin Preconnect /\ s.fs \notin Talking
      BY <2>2 DEF Preconnect, Logins, Talking
    <3> QED BY <1>1, <1>3, <1>4, <2>2, <3>1 DEF ParseUSER, WithFs
  <2>3. CASE s.fs \in Talking
    <3>1. s.fs \notin Preconnect /\ s.fs \notin Logins
      BY <2>3 DEF Preconnect, Logins, Talking
    <3> QED BY <1>1, <2>3, <3>1 DEF ParseUSER
  <2>4. CASE s.fs \notin Preconnect /\ s.fs \notin Logins /\ s.fs \notin Talking
    BY <1>5, <2>4 DEF ParseUSER
  <2> QED BY <2>1, <2>2, <2>3, <2>4

(* PASS *)
LEMMA ParsedPASS ==
    ASSUME NEW s, IsFtp(s), NEW r \in ParsePASS(s)
    PROVE  ParsedAs(s, r)
<1>1. CASE r \in Rejected(s)
  BY <1>1, ParsedSame DEF Rejected
<1>2. ASSUME NEW v \in {"PRECONNECT_LOGIN_P", "LOGIN_P"}, NEW w,
             \E a \in InbandAuth(s) : r \in IF a[1] THEN {<<w, WithFs(a[2], v)>>} ELSE {<<"ABORT", a[2]>>}
      PROVE  ParsedAs(s, r)
  <2>1. PICK a \in InbandAuth(s) : r \in IF a[1] THEN {<<w, WithFs(a[2], v)>>} ELSE {<<"ABORT", a[2]>>}
    BY <1>2
  <2>2. IsFtp(a[2])
    BY AuthIsFtp
  <2>3. v \notin Talking \union {"RENAME"}
    BY <1>2 DEF Talking
  <2>4. ParsedAs(a[2], r)
    <3>1. CASE r = <<w, WithFs(a[2], v)>>
      BY <2>2, <2>3, <3>1, ParsedFs
    <3>2. CASE r = <<"ABORT", a[2]>>
      BY <2>2, <3>2, ParsedSame
    <3> QED BY <2>1, <3>1, <3>2
  <2> QED BY <2>4, ParsedAuth
<1>3. CASE r = <<"ACCEPT", WithFs(s, "LOGIN_P")>>
  <2>1. "LOGIN_P" \notin Talking \union {"RENAME"}
    BY DEF Talking
  <2> QED BY <1>3, <2>1, ParsedFs
<1>4. CASE r \in {<<"ACCEPT", s>>, <<"ABORT", s>>}
  BY <1>4, ParsedSame
<1> QED
  <2>1. CASE s.fs = "PRECONNECT_LOGIN_U"
    <3>1. \/ r \in Rejected(s)
          \/ \E a \in InbandAuth(s) : r \in IF a[1] THEN {<<"NOOP", WithFs(a[2], "PRECONNECT_LOGIN_P")>>} ELSE {<<"ABORT", a[2]>>}
      BY <2>1 DEF ParsePASS, WithAuth, WithFs
    <3> QED BY <1>1, <1>2, <3>1
  <2>2. CASE s.fs = "LOGIN_U"
    <3>1. \/ r \in Rejected(s) \/ r = <<"ACCEPT", WithFs(s, "LOGIN_P")>>
          \/ \E a \in InbandAuth(s) : r \in IF a[1] THEN {<<"ACCEPT", WithFs(a[2], "LOGIN_P")>>} ELSE {<<"ABORT", a[2]>>}
      BY <2>2 DEF ParsePASS, WithAuth, WithFs
    <3> QED BY <1>1, <1>2, <1>3, <3>1
  <2>3. CASE s.fs \in {"PRECONNECT", "PRECONNECT_LOGIN_P", "LOGIN", "LOGIN_P", "LOGIN_A", "DATA"}
    BY <1>1, <2>3 DEF ParsePASS
  <2>4. CASE s.fs = "CONVERSATION"
    BY <1>4, <2>4 DEF ParsePASS
  <2>5. CASE s.fs \notin {"PRECONNECT_LOGIN_U", "LOGIN_U", "PRECONNECT", "PRECONNECT_LOGIN_P", "LOGIN", "LOGIN_P", "LOGIN_A", "DATA", "CONVERSATION"}
    BY <1>4, <2>5 DEF ParsePASS
  <2> QED BY <2>1, <2>2, <2>3, <2>4, <2>5

(* The parsers that only look at where the session is. *)
LEMMA ParsedPlain ==
    ASSUME NEW s, IsFtp(s), NEW r,
           \/ r \in ParseACCT(s) \/ r \in ParseString(s) \/ r \in ParseTYPE(s) \/ r \in ParseMODE(s) \/ r \in ParseSTRU(s)
           \/ r \in ParseALLO(s) \/ r \in ParseREST(s) \/ (\E states : r \in AllowedIn(s, states)) \/ r \in Rejected(s)
    PROVE  ParsedAs(s, r)
<1>1. \A states : AllowedIn(s, states) \subseteq {<<"ACCEPT", s>>, <<"REJECT", s>>}
  BY DEF AllowedIn, Rejected
<1>2. ParseACCT(s) \subseteq {<<"ACCEPT", s>>, <<"REJECT", s>>, <<"ABORT", s>>}
  <2>1. CASE s.fs \in {"LOGIN", "LOGIN_U", "LOGIN_P"}
    <3>1. s.fs \notin Talking \union {"LOGIN_A"}
      BY <2>1 DEF Talking
    <3> QED BY <2>1, <3>1 DEF ParseACCT, Rejected
  <2>2. CASE s.fs \in Talking \union {"LOGIN_A"}
    <3>1. s.fs \notin {"LOGIN", "LOGIN_U", "LOGIN_P"}
      BY <2>2 DEF Talking
    <3> QED BY <2>2, <3>1 DEF ParseACCT
  <2>3. CASE s.fs \notin {"LOGIN", "LOGIN_U", "LOGIN_P"} /\ s.fs \notin Talking \union {"LOGIN_A"}
    BY <2>3 DEF ParseACCT
  <2> QED BY <2>1, <2>2, <2>3
<1>3. \E v : r = <<v, s>>
  BY <1>1, <1>2 DEF ParseString, ParseTYPE, ParseMODE, ParseSTRU, ParseALLO, ParseREST, Rejected
<1> QED BY <1>3, ParsedSame

(* ftp_command_parse_path: in the middle of a set-up both sides are heard. *)
LEMMA ParsedPath ==
    ASSUME NEW s, IsFtp(s), NEW r \in ParsePath(s)
    PROVE  ParsedAs(s, r)
<1>1. CASE s.fs = "DATA" /\ NeedsData(s.cmd)
  <2> DEFINE both == {"C", "S"}
             u == [s EXCEPT !.watch = both, !.st = "BOTH_SIDE"]
  <2>1. r = <<"ACCEPT", u>>
    BY <1>1 DEF ParsePath
  <2>2. r[1] = "ACCEPT" /\ r[2] = u /\ r = <<r[1], r[2]>>
    BY <2>1
  <2> HIDE DEF both
  <2>3. IsFtp(u)
    BY DEF IsFtp, FtpFields
  <2>4. \A f \in FtpFields \ {"watch", "st"} : u[f] = s[f]
    BY DEF IsFtp, FtpFields
  <2>5. u.watch = both
    BY DEF IsFtp, FtpFields
  <2>6. u.st = "BOTH_SIDE"
    BY DEF IsFtp, FtpFields
  <2> HIDE DEF u
  <2>7. u.fs = s.fs /\ u.auth = s.auth /\ FtpKept(s, u, ParseFields)
    BY <2>3, <2>4 DEF FtpKept, FtpFields, ParseFields
  <2> QED BY <1>1, <2>2, <2>5, <2>6, <2>7 DEF ParsedAs, Talking, both
<1>2. CASE ~(s.fs = "DATA" /\ NeedsData(s.cmd))
  BY <1>2, ParsedPlain DEF ParsePath
<1> QED BY <1>1, <1>2

(* QUIT *)
LEMMA ParsedQUIT ==
    ASSUME NEW s, IsFtp(s), NEW r \in ParseQUIT(s)
    PROVE  ParsedAs(s, r)
<1>1. r \in Rejected(s) \/ r = <<"ABORT", WithFs(s, "PRECONNECT_QUIT")>> \/ r = <<"ACCEPT", WithFs(s, "QUIT")>>
  <2>1. CASE s.fs \in Preconnect
    <3>1. s.fs \notin Logins \union Talking
      BY <2>1 DEF Preconnect, Logins, Talking
    <3> QED BY <2>1, <3>1 DEF ParseQUIT, WithFs
  <2>2. CASE s.fs \in Logins \union Talking
    <3>1. s.fs \notin Preconnect
      BY <2>2 DEF Preconnect, Logins, Talking
    <3> QED BY <2>2, <3>1 DEF ParseQUIT, WithFs
  <2>3. CASE s.fs \notin Preconnect /\ s.fs \notin Logins \union Talking
    BY <2>3 DEF ParseQUIT
  <2> QED BY <2>1, <2>2, <2>3
<1>2. "PRECONNECT_QUIT" \notin Talking \union {"RENAME"} /\ "QUIT" \notin Talking \union {"RENAME"}
  BY DEF Talking
<1>3. CASE r \in Rejected(s)
  BY <1>3, ParsedPlain
<1>4. CASE r = <<"ABORT", WithFs(s, "PRECONNECT_QUIT")>>
  BY <1>2, <1>4, ParsedFs
<1>5. CASE r = <<"ACCEPT", WithFs(s, "QUIT")>>
  BY <1>2, <1>5, ParsedFs
<1> QED BY <1>1, <1>3, <1>4, <1>5

(* ABOR *)
LEMMA ParsedABOR ==
    ASSUME NEW s, IsFtp(s), NEW r \in ParseABOR(s)
    PROVE  ParsedAs(s, r)
<1>1. CASE s.fs \in Talking
  <2> DEFINE u == [s EXCEPT !.st = "SERVER_TO_CLIENT", !.fs = "CONVERSATION"]
  <2>1. r = <<"ACCEPT", u>>
    BY <1>1 DEF ParseABOR
  <2>2. r[1] = "ACCEPT" /\ r[2] = u /\ r = <<r[1], r[2]>>
    BY <2>1
  <2>3. IsFtp(u)
    BY DEF IsFtp, FtpFields
  <2>4. \A f \in FtpFields \ {"fs", "st"} : u[f] = s[f]
    BY DEF IsFtp, FtpFields
  <2>5. u.st = "SERVER_TO_CLIENT"
    BY DEF IsFtp, FtpFields
  <2> HIDE DEF u
  <2>6. u.watch = s.watch /\ u.auth = s.auth /\ FtpKept(s, u, ParseFields)
    BY <2>3, <2>4 DEF FtpKept, FtpFields, ParseFields
  <2> QED BY <1>1, <2>2, <2>5, <2>6 DEF ParsedAs
<1>2. CASE s.fs \notin Talking
  <2> DEFINE v == IF s.fs = "RENAME" THEN "CONVERSATION" ELSE s.fs
  <2>1. r = <<"REJECT", WithFs(s, v)>>
    BY <1>2 DEF ParseABOR, Rejected, WithFs
  <2>2. v \in Talking \union {"RENAME"} => s.fs \in Talking \union {"RENAME"}
    OBVIOUS
  <2> HIDE DEF v
  <2> QED BY <2>1, <2>2, ParsedFs
<1> QED BY <1>1, <1>2

(* RNTO *)
LEMMA ParsedRNTO ==
    ASSUME NEW s, IsFtp(s), NEW r \in ParseRNTO(s)
    PROVE  ParsedAs(s, r)
<1>1. CASE s.fs = "RENAME"
  <2> DEFINE u == WithFs(s, "CONVERSATION")
  <2>1. r \in ParsePath(u)
    BY <1>1 DEF ParseRNTO, WithFs
  <2>2. IsFtp(u) /\ u.fs = "CONVERSATION"
    BY WithFsIs DEF FtpKept
  <2> HIDE DEF u
  <2>3. \E v : r = <<v, u>>
    BY <2>1, <2>2 DEF ParsePath, AllowedIn, Rejected
  <2> QED BY <1>1, <2>3, ParsedFs DEF u
<1>2. CASE s.fs # "RENAME"
  BY <1>2, ParsedPlain DEF ParseRNTO
<1> QED BY <1>1, <1>2

(* FEAT *)
LEMMA ParsedFEAT ==
    ASSUME NEW s, IsFtp(s), NEW r \in ParseFEAT(s)
    PROVE  ParsedAs(s, r)
<1>1. CASE s.fs = "PRECONNECT"
  <2>1. r = <<"PROXY_ANS", WithFs(s, "PRECONNECT_FEAT")>> /\ "PRECONNECT_FEAT" \notin Talking \union {"RENAME"}
    BY <1>1 DEF ParseFEAT, WithFs, Talking
  <2> QED BY <2>1, ParsedFs
<1>2. CASE s.fs # "PRECONNECT"
  BY <1>2, ParsedPlain DEF ParseFEAT
<1> QED BY <1>1, <1>2

(* The client is to speak next. *)
LEMMA ToClientIs ==
    ASSUME NEW s, IsFtp(s), NEW t, t = ToClient(s)
    PROVE  /\ FtpKept(s, t, {"st", "watch"})
           /\ s.st = "SERVER_TO_CLIENT" => t.st = "CLIENT_TO_SERVER" /\ t.watch = {"C"}
           /\ s.st \notin {"SERVER_TO_CLIENT", "NT_SERVER_TO_PROXY"} => t = s
<1>1. ASSUME NEW v, t = [s EXCEPT !.st = v, !.watch = {"C"}]
      PROVE  FtpKept(s, t, {"st", "watch"}) /\ t.st = v /\ t.watch = {"C"}
  <2> DEFINE c == {"C"}
  <2>1. t = [s EXCEPT !.st = v, !.watch = c]
    BY <1>1
  <2> HIDE DEF c
  <2>2. IsFtp(t)
    BY <2>1 DEF IsFtp, FtpFields
  <2>3. \A f \in FtpFields \ {"st", "watch"} : t[f] = s[f]
    BY <2>1 DEF IsFtp, FtpFields
  <2>4. t.st = v
    BY <2>1 DEF IsFtp, FtpFields
  <2>5. t.watch = c
    BY <2>1 DEF IsFtp, FtpFields
  <2> QED BY <2>2, <2>3, <2>4, <2>5 DEF FtpKept, c
<1>2. CASE s.st = "SERVER_TO_CLIENT"
  <2>1. t = [s EXCEPT !.st = "CLIENT_TO_SERVER", !.watch = {"C"}]
    BY <1>2 DEF ToClient
  <2> QED BY <1>1, <1>2, <2>1
<1>3. CASE s.st = "NT_SERVER_TO_PROXY"
  <2>1. t = [s EXCEPT !.st = "NT_CLIENT_TO_PROXY", !.watch = {"C"}]
    BY <1>3 DEF ToClient
  <2> QED BY <1>1, <1>3, <2>1
<1>4. CASE s.st \notin {"SERVER_TO_CLIENT", "NT_SERVER_TO_PROXY"}
  <2>1. t = s
    BY <1>4 DEF ToClient
  <2> QED BY <1>4, <2>1 DEF FtpKept
<1> QED BY <1>2, <1>3, <1>4

(* An answer is written. *)
LEMMA RepliedKept ==
    ASSUME NEW s, IsFtp(s)
    PROVE  /\ FtpKept(s, Replied(s, TRUE), {"drop", "owed"}) /\ IsFtp(Replied(s, TRUE))
           /\ FtpKept(s, Replied(s, FALSE), {"drop", "owed"}) /\ IsFtp(Replied(s, FALSE))
<1> DEFINE e == TRUE
           no == FALSE
<1> HIDE DEF e, no
<1>1. FtpKept(s, Replied(s, e), {"drop", "owed"}) /\ FtpKept(s, Replied(s, no), {"drop", "owed"})
  BY RepliedIs
<1> QED BY <1>1 DEF e, no, FtpKept

(* AUTH *)
LEMMA ParsedAUTH ==
    ASSUME NEW s, IsFtp(s), s.st # "NT_SERVER_TO_PROXY", NEW r \in ParseAUTH(s)
    PROVE  ParsedAs(s, r)
<1> DEFINE before == s.fs \in {"PRECONNECT", "PRECONNECT_FEAT"}
           w == Replied(s, TRUE)
           T(ok) == [w EXCEPT !.tls = IF ok THEN @ \union {"C"} ELSE @ \ {"C"}, !.st = IF ok THEN @ ELSE "QUIT"]
           D(ok) == IF before THEN WithFs(T(ok), "PRECONNECT_AUTH") ELSE ToClient(T(ok))
<1>1. r \in Rejected(s) \/ r = <<"ACCEPT", s>> \/ \E ok \in BOOLEAN : r = <<"NOOP", D(ok)>>
  BY DEF ParseAUTH, WithFs
<1>2. CASE r \in Rejected(s)
  BY <1>2, ParsedPlain
<1>3. CASE r = <<"ACCEPT", s>>
  BY <1>3, ParsedSame
<1>4. ASSUME NEW ok \in BOOLEAN, r = <<"NOOP", D(ok)>>
      PROVE  ParsedAs(s, r)
  <2>1. IsFtp(w) /\ FtpKept(s, w, {"drop", "owed"})
    BY RepliedKept
  <2> DEFINE tls == IF ok THEN w.tls \union {"C"} ELSE w.tls \ {"C"}
             st == IF ok THEN w.st ELSE "QUIT"
             t == T(ok)
  <2>2. t = [w EXCEPT !.tls = tls, !.st = st]
    OBVIOUS
  <2>3. st = s.st \/ st = "QUIT"
    BY <2>1 DEF FtpKept, FtpFields
  <2>4. r[1] = "NOOP" /\ r[2] = (IF before THEN WithFs(t, "PRECONNECT_AUTH") ELSE ToClient(t)) /\ r = <<r[1], r[2]>>
    BY <1>4
  <2> HIDE DEF w, T, D, tls, st, before
  <2>5. IsFtp(t)
    BY <2>1, <2>2 DEF IsFtp, FtpFields
  <2>6. \A f \in FtpFields \ {"tls", "st"} : t[f] = w[f]
    BY <2>1, <2>2 DEF IsFtp, FtpFields
  <2>7. t.st = st
    BY <2>1, <2>2 DEF IsFtp, FtpFields
  <2> HIDE DEF t
  <2>8. FtpKept(s, t, {"drop", "owed", "tls", "st"}) /\ t.watch = s.watch /\ t.fs = s.fs /\ t.auth = s.auth
    BY <2>1, <2>5, <2>6 DEF FtpKept, FtpFields
  <2>9. CASE before
    <3>1. r[2] = WithFs(t, "PRECONNECT_AUTH")
      BY <2>4, <2>9
    <3>2. FtpKept(t, r[2], {"fs"}) /\ r[2].fs = "PRECONNECT_AUTH"
      BY <2>5, <3>1, WithFsIs
    <3>3. r[2].st = t.st /\ r[2].watch = t.watch /\ r[2].auth = t.auth /\ FtpKept(s, r[2], ParseFields)
      BY <2>8, <3>2 DEF FtpKept, FtpFields, ParseFields
    <3> QED BY <2>3, <2>4, <2>7, <2>8, <3>2, <3>3 DEF ParsedAs, Talking
  <2>10. CASE ~before
    <3>1. r[2] = ToClient(t)
      BY <2>4, <2>10
    <3>2. /\ FtpKept(t, r[2], {"st", "watch"})
          /\ t.st = "SERVER_TO_CLIENT" => r[2].st = "CLIENT_TO_SERVER" /\ r[2].watch = {"C"}
          /\ t.st \notin {"SERVER_TO_CLIENT", "NT_SERVER_TO_PROXY"} => r[2] = t
      BY <2>5, <3>1, ToClientIs
    <3>3. r[2].fs = t.fs /\ r[2].auth = t.auth /\ FtpKept(s, r[2], ParseFields)
      BY <2>8, <3>2 DEF FtpKept, FtpFields, ParseFields
    <3>4. t.st # "NT_SERVER_TO_PROXY"
      BY <2>3, <2>7
    <3> QED BY <2>3, <2>4, <2>7, <2>8, <3>2, <3>3, <3>4 DEF ParsedAs
  <2> QED BY <2>9, <2>10
<1> QED BY <1>1, <1>2, <1>3, <1>4

(* PBSZ and PROT *)
LEMMA ParsedLevel ==
    ASSUME NEW s, IsFtp(s), NEW r, r \in ParsePBSZ(s) \/ r \in ParsePROT(s)
    PROVE  ParsedAs(s, r)
<1>1. ASSUME NEW v, NEW u, FtpKept(s, u, {"pbsz", "prot", "fs"}), u.fs \in {s.fs, "PRECONNECT_PBSZ", "PRECONNECT_PROT"}, r = <<v, u>>
      PROVE  ParsedAs(s, r)
  <2>1. r[1] = v /\ r[2] = u /\ r = <<r[1], r[2]>>
    BY <1>1
  <2>2. u.st = s.st /\ u.watch = s.watch /\ u.auth = s.auth /\ FtpKept(s, u, ParseFields)
    BY <1>1 DEF FtpKept, FtpFields, ParseFields
  <2> QED BY <1>1, <2>1, <2>2 DEF ParsedAs, Talking
<1>2. ASSUME NEW p, NEW u, u = [s EXCEPT !.prot = p]
      PROVE  FtpKept(s, u, {"pbsz", "prot", "fs"}) /\ u.fs = s.fs
  <2>1. IsFtp(u)
    BY <1>2 DEF IsFtp, FtpFields
  <2>2. \A f \in FtpFields \ {"prot"} : u[f] = s[f]
    BY <1>2 DEF IsFtp, FtpFields
  <2> QED BY <2>1, <2>2 DEF FtpKept, FtpFields
<1>3. ASSUME NEW p, NEW u, u = [s EXCEPT !.prot = p, !.fs = "PRECONNECT_PROT"]
      PROVE  FtpKept(s, u, {"pbsz", "prot", "fs"}) /\ u.fs = "PRECONNECT_PROT"
  <2>1. IsFtp(u)
    BY <1>3 DEF IsFtp, FtpFields
  <2>2. \A f \in FtpFields \ {"prot", "fs"} : u[f] = s[f]
    BY <1>3 DEF IsFtp, FtpFields
  <2>3. u.fs = "PRECONNECT_PROT"
    BY <1>3 DEF IsFtp, FtpFields
  <2> QED BY <2>1, <2>2, <2>3 DEF FtpKept
<1>4. ASSUME NEW e, NEW u, u = [s EXCEPT !.pbsz = e, !.fs = "PRECONNECT_PBSZ"]
      PROVE  FtpKept(s, u, {"pbsz", "prot", "fs"}) /\ u.fs = "PRECONNECT_PBSZ"
  <2>1. IsFtp(u)
    BY <1>4 DEF IsFtp, FtpFields
  <2>2. \A f \in FtpFields \ {"pbsz", "fs"} : u[f] = s[f]
    BY <1>4 DEF IsFtp, FtpFields
  <2>3. u.fs = "PRECONNECT_PBSZ"
    BY <1>4 DEF IsFtp, FtpFields
  <2> QED BY <2>1, <2>2, <2>3 DEF FtpKept
<1>5. CASE r \in ParsePBSZ(s)
  <2> DEFINE e == TRUE
             u == [s EXCEPT !.pbsz = e, !.fs = "PRECONNECT_PBSZ"]
  <2>1. r \in Rejected(s) \/ r = <<"PROXY_ANS", u>> \/ r = <<"PROXY_ANS", s>> \/ r = <<"ACCEPT", s>>
    BY <1>5 DEF ParsePBSZ
  <2> HIDE DEF e
  <2>2. FtpKept(s, u, {"pbsz", "prot", "fs"}) /\ u.fs = "PRECONNECT_PBSZ"
    BY <1>4
  <2> HIDE DEF u
  <2>3. CASE r = <<"PROXY_ANS", u>>
    BY <1>1, <2>2, <2>3
  <2>4. CASE r # <<"PROXY_ANS", u>>
    BY <2>1, <2>4, ParsedPlain, ParsedSame
  <2> QED BY <2>3, <2>4
<1>6. CASE r \in ParsePROT(s)
  <2> DEFINE p == s.prot \union {"C"}
             q == s.prot \union (IF s.conf.client = "ACCEPT_STARTTLS" THEN {"C"} ELSE {})
                         \union (IF s.conf.server = "FORWARD_STARTTLS" THEN {"S"} ELSE {})
             u == [s EXCEPT !.prot = p, !.fs = "PRECONNECT_PROT"]
             v == [s EXCEPT !.prot = p]
             w == [s EXCEPT !.prot = q]
  <2>1. r \in Rejected(s) \/ r = <<"PROXY_ANS", u>> \/ r = <<"PROXY_ANS", v>> \/ r = <<"ACCEPT", w>>
    BY <1>6 DEF ParsePROT
  <2> HIDE DEF p, q
  <2>2. FtpKept(s, u, {"pbsz", "prot", "fs"}) /\ u.fs = "PRECONNECT_PROT"
    BY <1>3
  <2>3. FtpKept(s, v, {"pbsz", "prot", "fs"}) /\ v.fs = s.fs
    BY <1>2
  <2>4. FtpKept(s, w, {"pbsz", "prot", "fs"}) /\ w.fs = s.fs
    BY <1>2
  <2> HIDE DEF u, v, w
  <2>5. CASE r \in Rejected(s)
    BY <2>5, ParsedPlain
  <2>6. CASE r = <<"PROXY_ANS", u>>
    BY <1>1, <2>2, <2>6
  <2>7. CASE r = <<"PROXY_ANS", v>>
    BY <1>1, <2>3, <2>7
  <2>8. CASE r = <<"ACCEPT", w>>
    BY <1>1, <2>4, <2>8
  <2> QED BY <2>1, <2>5, <2>6, <2>7, <2>8
<1> QED BY <1>5, <1>6

DataCommands == {"PORT", "EPRT", "PASV", "EPSV"}
(* Every parser but those of PORT and PASV. *)
LEMMA CommandParsedIs ==
    ASSUME NEW s, IsFtp(s), s.st # "NT_SERVER_TO_PROXY", s.cmd \notin DataCommands, NEW r \in CommandParsed(s)
    PROVE  ParsedAs(s, r)
<1> DEFINE p == ParserOf(s.cmd)
<1>1. p \notin DataCommands
  <2>1. p \in {"path", "noarg", s.cmd}
    BY DEF ParserOf
  <2> QED BY <2>1 DEF DataCommands
<1> HIDE DEF p
<1>2. CASE p \in {"USER", "PASS", "path", "QUIT", "ABOR", "RNTO", "FEAT", "AUTH", "PBSZ", "PROT"}
  <2>1. CASE p = "USER"
    BY <2>1, ParsedUSER DEF CommandParsed, p
  <2>2. CASE p = "PASS"
    BY <2>2, ParsedPASS DEF CommandParsed, p
  <2>3. CASE p = "path"
    BY <2>3, ParsedPath DEF CommandParsed, p
  <2>4. CASE p = "QUIT"
    BY <2>4, ParsedQUIT DEF CommandParsed, p
  <2>5. CASE p = "ABOR"
    BY <2>5, ParsedABOR DEF CommandParsed, p
  <2>6. CASE p = "RNTO"
    BY <2>6, ParsedRNTO DEF CommandParsed, p
  <2>7. CASE p = "FEAT"
    BY <2>7, ParsedFEAT DEF CommandParsed, p
  <2>8. CASE p = "AUTH"
    BY <2>8, ParsedAUTH DEF CommandParsed, p
  <2>9. CASE p = "PBSZ"
    BY <2>9, ParsedLevel DEF CommandParsed, p
  <2>10. CASE p = "PROT"
    BY <2>10, ParsedLevel DEF CommandParsed, p
  <2> QED BY <1>2, <2>1, <2>2, <2>3, <2>4, <2>5, <2>6, <2>7, <2>8, <2>9, <2>10
<1>3. CASE p \in {"ACCT", "noarg", "TYPE", "MODE", "STRU", "ALLO", "REST", "SITE", "REIN", "HELP", "CCC"}
  <2>1. CASE p = "ACCT"
    BY <2>1, ParsedPlain DEF CommandParsed, p
  <2>2. CASE p = "noarg"
    BY <2>2, ParsedPlain DEF CommandParsed, p
  <2>3. CASE p = "TYPE"
    BY <2>3, ParsedPlain DEF CommandParsed, p
  <2>4. CASE p = "MODE"
    BY <2>4, ParsedPlain DEF CommandParsed, p
  <2>5. CASE p = "STRU"
    BY <2>5, ParsedPlain DEF CommandParsed, p
  <2>6. CASE p = "ALLO"
    BY <2>6, ParsedPlain DEF CommandParsed, p
  <2>7. CASE p = "REST"
    BY <2>7, ParsedPlain DEF CommandParsed, p
  <2>8. CASE p = "SITE"
    BY <2>8, ParsedPlain DEF CommandParsed, p
  <2>9. CASE p = "REIN"
    BY <2>9, ParsedPlain, ParsedSame DEF CommandParsed, p
  <2>10. CASE p = "HELP"
    BY <2>10, ParsedSame DEF CommandParsed, p
  <2>11. CASE p = "CCC"
    BY <2>11, ParsedPlain DEF CommandParsed, p
  <2> QED BY <1>3, <2>1, <2>2, <2>3, <2>4, <2>5, <2>6, <2>7, <2>8, <2>9, <2>10, <2>11
<1>4. CASE p \notin {"USER", "PASS", "path", "QUIT", "ABOR", "RNTO", "FEAT", "AUTH", "PBSZ", "PROT",
                     "ACCT", "noarg", "TYPE", "MODE", "STRU", "ALLO", "REST", "SITE", "REIN", "HELP", "CCC"}
  BY <1>1, <1>4, ParsedSame DEF CommandParsed, p, DataCommands
<1> QED BY <1>2, <1>3, <1>4

-----------------------------------------------------------------------------
(* The parsers of the data channel, in a session that talks. *)
LEMMA RenewedIs ==
    ASSUME NEW s, IsFtp(s), FtpEnds(s), FtpSettled(s), NEW t, t = Renewed(s), s.st = "SERVER_TO_CLIENT", s.watch = {"S"}
    PROVE  /\ FtpKept(s, t, DataFields \union {"fs"}) /\ FtpEnds(t) /\ FtpSettled(t)
           /\ t.st \in {"SERVER_TO_CLIENT", "CLIENT_TO_SERVER"} /\ t.watch \in {{"C"}, {"S"}}
           /\ t.xfer = s.xfer \/ (s.xfer = "runs" /\ t.xfer = "cancelled")
           /\ t = s \/ t.bits = {}
<1>1. CASE s.fs = "DATA"
  <2> DEFINE u == WithFs(s, "CONVERSATION")
  <2>1. t = DataReset(u)
    BY <1>1 DEF Renewed, WithFs
  <2>2. FtpKept(s, u, {"fs"})
    BY WithFsIs
  <2> HIDE DEF u
  <2>3. IsFtp(u) /\ u.st = s.st /\ u.watch = s.watch /\ u.xfer = s.xfer
    BY <2>2 DEF FtpKept, FtpFields
  <2>4. FtpKept(u, t, DataFields) /\ FtpEnds(t) /\ FtpSettled(t) /\ t.bits = {}
    BY <2>1, <2>3, ResetEnds
  <2>5. /\ t.xfer = (IF u.xfer = "runs" THEN "cancelled" ELSE u.xfer)
        /\ \/ t.st = u.st /\ t.watch = u.watch
           \/ u.st # "QUIT" /\ t.st \in {"SERVER_TO_CLIENT", "CLIENT_TO_SERVER"} /\ t.watch \in {{"C"}, {"S"}}
    BY <2>1, <2>3, DataResetIs
  <2>6. FtpKept(s, t, DataFields \union {"fs"})
    BY <2>2, <2>4 DEF FtpKept, DataFields
  <2> QED BY <2>3, <2>4, <2>5, <2>6
<1>2. CASE s.fs # "DATA"
  <2>1. t = s
    BY <1>2 DEF Renewed
  <2> QED BY <2>1 DEF FtpKept
<1> QED BY <1>1, <1>2

(* PORT and EPRT: a listener put in the place of another awaits the answer. *)
LEMMA ParsedPORT ==
    ASSUME NEW s, IsFtp(s), FtpEnds(s), FtpSettled(s), s.st = "SERVER_TO_CLIENT", s.watch = {"S"}, s.cmd \in {"PORT", "EPRT"},
           NEW r \in ParsePORT(s)
    PROVE  /\ r = <<r[1], r[2]>> /\ r[1] \in {"ACCEPT", "REJECT"} /\ FtpKept(s, r[2], DataFields \union {"fs"}) /\ FtpEnds(r[2])
           /\ r[2].st \in {"SERVER_TO_CLIENT", "CLIENT_TO_SERVER"} /\ r[2].watch \in {{"C"}, {"S"}}
           /\ r[2].xfer = s.xfer \/ (s.xfer = "runs" /\ r[2].xfer = "cancelled")
           /\ FtpSettled(r[2]) \/ (r[1] = "ACCEPT" /\ AwaitsPort(r[2]) /\ r[2].watch = {"S"})
<1> DEFINE t == Renewed(s)
<1>1. /\ FtpKept(s, t, DataFields \union {"fs"}) /\ FtpEnds(t) /\ FtpSettled(t)
      /\ t.st \in {"SERVER_TO_CLIENT", "CLIENT_TO_SERVER"} /\ t.watch \in {{"C"}, {"S"}}
      /\ t.xfer = s.xfer \/ (s.xfer = "runs" /\ t.xfer = "cancelled")
      /\ t = s \/ t.bits = {}
  BY RenewedIs
<1>2. \/ r = <<"REJECT", t>> \/ r = <<"ACCEPT", t>>
      \/ t.fs = "CONVERSATION" /\ t.conf.mode # "PASSIVE" /\ r \in ServerStartPort(t)
  BY DEF ParsePORT, Rejected
<1>3. IsFtp(t) /\ t.cmd = s.cmd
  BY <1>1 DEF FtpKept, FtpFields, DataFields
<1> HIDE DEF t
<1>4. CASE r = <<"REJECT", t>> \/ r = <<"ACCEPT", t>>
  <2>1. r[2] = t /\ r[1] \in {"ACCEPT", "REJECT"} /\ r = <<r[1], r[2]>>
    BY <1>4
  <2> QED BY <1>1, <2>1
<1>5. CASE t.fs = "CONVERSATION" /\ t.conf.mode # "PASSIVE" /\ r \in ServerStartPort(t)
  <2> DEFINE u == r[2]
  <2>1. /\ r = <<r[1], u>> /\ FtpKept(t, u, EndFields) /\ FtpEnds(u)
        /\ (r[1] = "ACCEPT" /\ u.bits = t.bits) \/ (r[1] = "REJECT" /\ u.bits = {})
    BY <1>1, <1>3, <1>5, ServerStartPortIs
  <2> HIDE DEF u
  <2>2. u.st = t.st /\ u.watch = t.watch /\ u.xfer = t.xfer /\ u.fs = t.fs /\ u.conf = t.conf /\ u.cmd = t.cmd
    BY <2>1 DEF FtpKept, FtpFields, EndFields
  <2>3. FtpKept(s, u, DataFields \union {"fs"})
    BY <1>1, <2>1 DEF FtpKept, DataFields, EndFields
  <2>4. FtpSettled(u) \/ (r[1] = "ACCEPT" /\ AwaitsPort(u) /\ u.watch = {"S"})
    <3>1. CASE u.bits = {}
      BY <3>1 DEF FtpSettled
    <3>2. CASE u.bits # {}
      <4>1. t = s /\ r[1] = "ACCEPT"
        BY <1>1, <2>1, <3>2
      <4> QED BY <1>3, <1>5, <2>2, <4>1 DEF AwaitsPort
    <3> QED BY <3>1, <3>2
  <2> QED BY <1>1, <2>1, <2>2, <2>3, <2>4 DEF u
<1> QED BY <1>2, <1>4, <1>5

(* PASV and EPSV: no set-up is left. *)
LEMMA ParsedPASV ==
    ASSUME NEW s, IsFtp(s), FtpEnds(s), FtpSettled(s), s.st = "SERVER_TO_CLIENT", s.watch = {"S"}, NEW r \in ParsePASV(s)
    PROVE  /\ r = <<r[1], r[2]>> /\ r[1] \in {"ACCEPT", "REJECT"} /\ FtpKept(s, r[2], DataFields \union {"fs"}) /\ FtpEnds(r[2])
           /\ r[2].st \in {"SERVER_TO_CLIENT", "CLIENT_TO_SERVER"} /\ r[2].watch \in {{"C"}, {"S"}}
           /\ r[2].xfer = s.xfer \/ (s.xfer = "runs" /\ r[2].xfer = "cancelled")
           /\ FtpSettled(r[2]) /\ (r[2].bits = {} \/ (r[1] = "REJECT" /\ r[2] = s))
<1> DEFINE t == Renewed(s)
           u == Cleared(t)
<1>1. /\ FtpKept(s, t, DataFields \union {"fs"}) /\ FtpEnds(t) /\ FtpSettled(t)
      /\ t.st \in {"SERVER_TO_CLIENT", "CLIENT_TO_SERVER"} /\ t.watch \in {{"C"}, {"S"}}
      /\ t.xfer = s.xfer \/ (s.xfer = "runs" /\ t.xfer = "cancelled")
      /\ t = s \/ t.bits = {}
  BY RenewedIs
<1>2. \/ r = <<"REJECT", t>> \/ r = <<"ACCEPT", u>> \/ r \in ServerStartPort(u)
  BY DEF ParsePASV, Rejected, Cleared
<1>3. IsFtp(t)
  BY <1>1 DEF FtpKept
<1> HIDE DEF t
<1>4. IsFtp(u)
  BY <1>3 DEF IsFtp, FtpFields, Cleared
<1>5. \A f \in FtpFields \ {"bits"} : u[f] = t[f]
  BY <1>3 DEF IsFtp, FtpFields, Cleared
<1>6. u.bits = {}
  BY <1>3 DEF IsFtp, FtpFields, Cleared
<1> HIDE DEF u
<1>7. u.st = t.st /\ u.watch = t.watch /\ u.xfer = t.xfer /\ u.how = t.how /\ u.strm = t.strm /\ u.approved = t.approved
  BY <1>5 DEF FtpFields
<1>8. FtpKept(s, u, DataFields \union {"fs"})
  BY <1>1, <1>4, <1>5 DEF FtpKept, DataFields
<1>9. FtpEnds(u) /\ FtpSettled(u)
  BY <1>1, <1>6, <1>7 DEF FtpEnds, FtpSettled
<1>10. CASE r = <<"REJECT", t>>
  <2>1. r[2] = t /\ r[1] = "REJECT" /\ r = <<r[1], r[2]>>
    BY <1>10
  <2> QED BY <1>1, <2>1
<1>11. CASE r = <<"ACCEPT", u>>
  <2>1. r[2] = u /\ r[1] = "ACCEPT" /\ r = <<r[1], r[2]>>
    BY <1>11
  <2> QED BY <1>1, <1>6, <1>7, <1>8, <1>9, <2>1
<1>12. CASE r \in ServerStartPort(u)
  <2> DEFINE v == r[2]
  <2>1. /\ r = <<r[1], v>> /\ FtpKept(u, v, EndFields) /\ FtpEnds(v)
        /\ (r[1] = "ACCEPT" /\ v.bits = u.bits) \/ (r[1] = "REJECT" /\ v.bits = {})
    BY <1>4, <1>9, <1>12, ServerStartPortIs
  <2> HIDE DEF v
  <2>2. v.st = u.st /\ v.watch = u.watch /\ v.xfer = u.xfer
    BY <2>1 DEF FtpKept, FtpFields, EndFields
  <2>3. FtpKept(s, v, DataFields \union {"fs"})
    BY <1>8, <2>1 DEF FtpKept, DataFields, EndFields
  <2>4. v.bits = {} /\ FtpSettled(v)
    BY <1>6, <2>1 DEF FtpSettled
  <2> QED BY <1>1, <1>7, <2>1, <2>2, <2>3, <2>4 DEF v
<1> QED BY <1>2, <1>10, <1>11, <1>12

-----------------------------------------------------------------------------
(* ftp_command_process *)
FtpOver(s) == IsFtp(s) /\ s.st = "QUIT" /\ s.watch \subseteq Sides /\ FtpEnds(s)
FtpDone(s, t) ==
    /\ t.conf = s.conf /\ (s.auth => t.auth)
    /\ t.xfer = s.xfer \/ (s.xfer = "runs" /\ t.xfer = "cancelled")
    /\ FtpReady(t) \/ FtpOver(t)

(* What is beside the data channel, but for auth. *)
Aside == {"drop", "owed", "wire", "peer", "n", "tls", "prot", "pbsz", "old", "pre", "hangup"}
(* The fields of the argument are kept. *)
LEMMA AsideSame ==
    ASSUME NEW s, NEW t, FtpKept(s, t, Aside)
    PROVE  /\ t.st = s.st /\ t.fs = s.fs /\ t.cmd = s.cmd /\ t.watch = s.watch /\ t.bits = s.bits /\ t.how = s.how
           /\ t.strm = s.strm /\ t.approved = s.approved /\ t.xfer = s.xfer /\ t.conf = s.conf /\ t.auth = s.auth /\ IsFtp(t)
BY DEF FtpKept, FtpFields, Aside

(* Whether a session goes on or is over does not depend on the others. *)
LEMMA AsideReady ==
    ASSUME NEW s, NEW t, FtpKept(s, t, Aside)
    PROVE  (FtpReady(s) => FtpReady(t)) /\ (FtpOver(s) => FtpOver(t))
<1>1. /\ t.st = s.st /\ t.fs = s.fs /\ t.cmd = s.cmd /\ t.watch = s.watch /\ t.bits = s.bits /\ t.how = s.how
      /\ t.strm = s.strm /\ t.approved = s.approved /\ t.xfer = s.xfer /\ t.conf = s.conf /\ t.auth = s.auth /\ IsFtp(t)
  BY AsideSame
<1>2. FtpEnds(s) => FtpEnds(t)
  BY <1>1, EndsSame
<1>3. FtpSettled(s) => FtpSettled(t)
  BY <1>1, SettledSame
<1> QED BY <1>1, <1>2, <1>3 DEF FtpReady, Unbegun, FtpOver, AwaitsPort

(* The same after a command. *)
LEMMA AsideDone ==
    ASSUME NEW s, NEW t, NEW u, FtpDone(s, t), FtpKept(t, u, Aside)
    PROVE  FtpDone(s, u)
BY AsideSame, AsideReady DEF FtpDone

(* ftp_command_write *)
LEMMA ToldIs ==
    ASSUME NEW s, IsFtp(s), NEW c, NEW t \in Told(s, c)
    PROVE  FtpKept(s, t, Aside)
<1>1. PICK a \in ServerSays(s, c) : t = [s EXCEPT !.wire = @ \o [i \in DOMAIN a[1] |-> <<s.n, a[1][i]>>], !.peer = a[2]]
  BY DEF Told
<1> DEFINE wire == s.wire \o [i \in DOMAIN a[1] |-> <<s.n, a[1][i]>>]
           peer == a[2]
<1>2. t = [s EXCEPT !.wire = wire, !.peer = peer]
  BY <1>1
<1> HIDE DEF wire, peer
<1>3. IsFtp(t)
  BY <1>2 DEF IsFtp, FtpFields
<1>4. \A f \in FtpFields \ {"wire", "peer"} : t[f] = s[f]
  BY <1>2 DEF IsFtp, FtpFields
<1> QED BY <1>3, <1>4 DEF FtpKept, Aside

WithSt(s, v) == [s EXCEPT !.st = v]
(* The state is assigned. *)
LEMMA WithStIs ==
    ASSUME NEW s, IsFtp(s), NEW v
    PROVE  FtpKept(s, WithSt(s, v), {"st"}) /\ WithSt(s, v).st = v
<1> DEFINE u == WithSt(s, v)
<1>1. IsFtp(u)
  BY DEF IsFtp, FtpFields, WithSt
<1>2. \A f \in FtpFields \ {"st"} : u[f] = s[f]
  BY DEF IsFtp, FtpFields, WithSt
<1>3. u.st = v
  BY DEF IsFtp, FtpFields, WithSt
<1> QED BY <1>1, <1>2, <1>3 DEF FtpKept

(* An answer is written beside the data channel. *)
LEMMA RepliedAside ==
    ASSUME NEW s, IsFtp(s)
    PROVE  /\ IsFtp(Replied(s, TRUE)) /\ FtpKept(s, Replied(s, TRUE), Aside)
           /\ IsFtp(Replied(s, FALSE)) /\ FtpKept(s, Replied(s, FALSE), Aside)
BY RepliedKept, KeptMore DEF Aside

(* A session that quits. *)
LEMMA QuitOver ==
    ASSUME NEW s, IsFtp(s), FtpEnds(s), s.watch \subseteq Sides, NEW t, t = WithSt(s, "QUIT")
    PROVE  FtpOver(t) /\ t.conf = s.conf /\ t.auth = s.auth /\ t.xfer = s.xfer /\ t.peer = s.peer /\ t.how = s.how
<1>1. FtpKept(s, t, {"st"}) /\ t.st = "QUIT"
  BY WithStIs
<1>2. /\ t.watch = s.watch /\ t.bits = s.bits /\ t.how = s.how /\ IsFtp(t) /\ t.peer = s.peer
      /\ t.strm = s.strm /\ t.approved = s.approved /\ t.xfer = s.xfer /\ t.conf = s.conf /\ t.auth = s.auth
  BY <1>1 DEF FtpKept, FtpFields
<1> QED BY <1>1, <1>2, EndsSame DEF FtpOver

(* What becomes of a result of the parsers. *)
Outcome(s, r) ==
    LET verdict == IF r[1] = "ACCEPT" /\ r[2].st = "NT_CLIENT_TO_PROXY" THEN "REJECT" ELSE r[1]
    IN CASE verdict = "ACCEPT" -> UNION {Told(t, SentAs(t)) : t \in IF NeedsData(s.cmd) THEN DataStart(r[2]) ELSE {r[2]}}
         [] verdict \in {"REJECT", "PROXY_ANS"} -> {ToClient(Replied(r[2], TRUE))}
         [] verdict = "ABORT" -> {WithSt(Replied(r[2], TRUE), "QUIT")}
         [] OTHER -> {r[2]}

(* A command is decided by the policy and its parser. *)
LEMMA CommandProcessIs ==
    ASSUME NEW s, s.conf \in FtpConfs, NEW t \in CommandProcess(s)
    PROVE  \E r : /\ t \in Outcome(s, r)
                  /\ r \in CommandParsed(s) \/ r \in {<<"REJECT", s>>, <<"ABORT", s>>}
<1> DEFINE parsed == UNION {IF v = "ACCEPT" THEN CommandParsed(s) ELSE {<<v, s>>} : v \in CommandHashDo(s)}
<1>1. PICK r \in parsed : t \in Outcome(s, r)
  BY Zenon DEF CommandProcess, Outcome, WithSt
<1>2. PICK v \in CommandHashDo(s) : r \in IF v = "ACCEPT" THEN CommandParsed(s) ELSE {<<v, s>>}
  BY <1>1
<1>3. v \in {"ACCEPT", "REJECT", "ABORT"}
  BY FtpVerdicts DEF CommandHashDo
<1> QED BY <1>1, <1>2, <1>3

(* The outcomes of a session that talks. *)
LEMMA OutcomeDone ==
    ASSUME NEW s, NEW r, NEW t \in Outcome(s, r), r[2].st # "NT_CLIENT_TO_PROXY",
           r[2].st # "NT_SERVER_TO_PROXY", IsFtp(r[2]), FtpEnds(r[2]), r[2].watch \subseteq Sides,
           r[1] = "ACCEPT" /\ NeedsData(s.cmd) => r[2].st # "QUIT" /\ r[2].cmd = s.cmd,
           r[2].st # "QUIT" => r[2].st \in {"SERVER_TO_CLIENT", "CLIENT_TO_SERVER", "BOTH_SIDE"},
           r[2].st # "QUIT" /\ r[1] = "ACCEPT" => FtpReady(r[2]) \/ (NeedsData(s.cmd) /\ FtpSettled(r[2])),
           r[2].st # "QUIT" /\ r[1] \notin {"ACCEPT", "ABORT"} =>
              /\ FtpSettled(r[2])
              /\ r[2].cmd \in {"PASV", "EPSV"} => r[1] = "REJECT" /\ (r[2].st = "SERVER_TO_CLIENT" \/ r[2].bits = {})
    PROVE  FtpDone(r[2], t)
<1> DEFINE u == r[2]
<1>1. CASE r[1] = "ACCEPT"
  <2>1. PICK v \in IF NeedsData(s.cmd) THEN DataStart(u) ELSE {u} : t \in Told(v, SentAs(v))
    BY <1>1 DEF Outcome
  <2>2. FtpDone(u, v) /\ IsFtp(v)
    <3>1. CASE NeedsData(s.cmd)
      <4>1. /\ FtpKept(u, v, DataFields) /\ FtpEnds(v) /\ FtpSettled(v)
            /\ v.st = u.st \/ v.st \in {"SERVER_TO_CLIENT", "CLIENT_TO_SERVER"}
            /\ v.watch \subseteq Sides
            /\ v.xfer = u.xfer \/ (u.xfer = "runs" /\ v.xfer = "cancelled")
        BY <2>1, <3>1, DataStartIs
      <4>2. v.conf = u.conf /\ v.auth = u.auth /\ v.cmd = u.cmd /\ IsFtp(v)
        BY <4>1 DEF FtpKept, FtpFields, DataFields
      <4>3. v.cmd \notin {"PASV", "EPSV"}
        BY <1>1, <3>1, <4>2 DEF NeedsData, Up, Down
      <4>4. v.st \in {"SERVER_TO_CLIENT", "CLIENT_TO_SERVER", "BOTH_SIDE"}
        BY <1>1, <3>1, <4>1
      <4> QED BY <4>1, <4>2, <4>3, <4>4 DEF Unbegun, FtpDone, FtpReady
    <3>2. CASE ~NeedsData(s.cmd)
      <4>1. v = u
        BY <2>1, <3>2
      <4> QED BY <1>1, <3>2, <4>1 DEF FtpDone, FtpOver
    <3> QED BY <3>1, <3>2
  <2>3. FtpKept(v, t, Aside)
    BY <2>1, <2>2, ToldIs
  <2> QED BY <2>2, <2>3, AsideDone
<1>2. CASE r[1] \in {"REJECT", "PROXY_ANS"}
  <2> DEFINE w == Replied(u, TRUE)
  <2>1. t = ToClient(w)
    BY <1>2 DEF Outcome
  <2>2. FtpKept(u, w, Aside) /\ IsFtp(w)
    BY RepliedAside
  <2> HIDE DEF w
  <2>3. /\ w.st = u.st /\ w.fs = u.fs /\ w.cmd = u.cmd /\ w.watch = u.watch /\ w.bits = u.bits /\ w.how = u.how
        /\ w.strm = u.strm /\ w.approved = u.approved /\ w.xfer = u.xfer /\ w.conf = u.conf /\ w.auth = u.auth
    BY <2>2, AsideSame
  <2>4. /\ FtpKept(w, t, {"st", "watch"})
        /\ w.st = "SERVER_TO_CLIENT" => t.st = "CLIENT_TO_SERVER" /\ t.watch = {"C"}
        /\ w.st \notin {"SERVER_TO_CLIENT", "NT_SERVER_TO_PROXY"} => t = w
    BY <2>1, <2>2, ToClientIs
  <2>5. /\ IsFtp(t) /\ t.cmd = u.cmd /\ t.bits = u.bits /\ t.how = u.how /\ t.strm = u.strm /\ t.approved = u.approved
        /\ t.xfer = u.xfer /\ t.conf = u.conf /\ t.auth = u.auth
    BY <2>3, <2>4 DEF FtpKept, FtpFields
  <2>6. FtpEnds(t) /\ (FtpSettled(u) => FtpSettled(t))
    BY <2>5, EndsSame, SettledSame
  <2>7. t.watch \subseteq Sides
    BY <2>3, <2>4 DEF Sides
  <2>8. CASE u.st = "QUIT"
    BY <2>3, <2>4, <2>5, <2>6, <2>7, <2>8 DEF FtpDone, FtpOver
  <2>9. CASE u.st # "QUIT"
    <3>1. FtpSettled(t)
      BY <1>2, <2>6, <2>9
    <3>2. t.st \in {"SERVER_TO_CLIENT", "CLIENT_TO_SERVER", "BOTH_SIDE"}
      BY <2>3, <2>4, <2>9
    <3>3. Unbegun(t) /\ "S" \in t.watch => "COMMAND_START" \notin t.bits
      BY <1>2, <2>3, <2>4, <2>5, <2>9 DEF Unbegun
    <3> QED BY <2>5, <2>6, <2>7, <3>1, <3>2, <3>3 DEF FtpDone, FtpReady
  <2> QED BY <2>8, <2>9
<1>3. CASE r[1] = "ABORT"
  <2> DEFINE w == Replied(u, TRUE)
  <2>1. t = WithSt(w, "QUIT")
    BY <1>3 DEF Outcome
  <2>2. FtpKept(u, w, Aside) /\ IsFtp(w)
    BY RepliedAside
  <2> HIDE DEF w
  <2>3. /\ w.watch = u.watch /\ w.bits = u.bits /\ w.how = u.how
        /\ w.strm = u.strm /\ w.approved = u.approved /\ w.xfer = u.xfer /\ w.conf = u.conf /\ w.auth = u.auth
    BY <2>2, AsideSame
  <2>4. FtpEnds(w)
    BY <2>3, EndsSame
  <2>5. FtpOver(t) /\ t.conf = w.conf /\ t.auth = w.auth /\ t.xfer = w.xfer
    BY <2>1, <2>2, <2>3, <2>4, QuitOver
  <2> QED BY <2>3, <2>5 DEF FtpDone
<1>4. CASE r[1] \notin {"ACCEPT", "REJECT", "PROXY_ANS", "ABORT"}
  <2>1. t = u
    BY <1>4 DEF Outcome
  <2> QED BY <1>4, <2>1 DEF Unbegun, FtpDone, FtpReady, FtpOver
<1> QED BY <1>1, <1>2, <1>3, <1>4

(* ftp_command_process in a session with a server. *)
LEMMA CommandProcessDone ==
    ASSUME NEW s, IsFtp(s), s.conf \in FtpConfs, FtpEnds(s), FtpSettled(s), s.st = "SERVER_TO_CLIENT", s.watch = {"S"},
           NEW t \in CommandProcess(s)
    PROVE  FtpDone(s, t)
<1>1. PICK r : t \in Outcome(s, r) /\ (r \in CommandParsed(s) \/ r \in {<<"REJECT", s>>, <<"ABORT", s>>})
  BY CommandProcessIs
<1> DEFINE u == r[2]
<1>2. CASE r \in {<<"REJECT", s>>, <<"ABORT", s>>}
  <2>1. r[2] = s /\ r[1] \in {"REJECT", "ABORT"} /\ s.watch \subseteq Sides
    BY <1>2 DEF Sides
  <2> QED BY <1>1, <2>1, OutcomeDone
<1>3. CASE r \in CommandParsed(s) /\ s.cmd \notin DataCommands
  <2>1. ParsedAs(s, r)
    BY <1>3, CommandParsedIs
  <2>2. /\ FtpKept(s, u, ParseFields) /\ (s.auth => u.auth)
        /\ \/ u.st = s.st /\ u.watch = s.watch
           \/ u.st = "QUIT" /\ u.watch = s.watch /\ r[1] # "ACCEPT"
           \/ s.fs \in Talking /\ u.st \in {"BOTH_SIDE", "SERVER_TO_CLIENT"} /\ u.watch \in {s.watch, {"C", "S"}}
           \/ s.st = "SERVER_TO_CLIENT" /\ u.st = "CLIENT_TO_SERVER" /\ u.watch = {"C"}
    BY <2>1 DEF ParsedAs
  <2>3. /\ IsFtp(u) /\ u.cmd = s.cmd /\ u.bits = s.bits /\ u.how = s.how /\ u.strm = s.strm /\ u.approved = s.approved
        /\ u.xfer = s.xfer /\ u.conf = s.conf
    BY <2>2 DEF FtpKept, FtpFields, ParseFields
  <2>4. FtpEnds(u) /\ FtpSettled(u)
    BY <2>3, EndsSame, SettledSame
  <2>5. u.watch \subseteq Sides
    BY <2>2 DEF Sides
  <2>6. /\ u.st \in {"SERVER_TO_CLIENT", "CLIENT_TO_SERVER", "BOTH_SIDE", "QUIT"}
        /\ u.st = "QUIT" => r[1] # "ACCEPT"
    BY <2>2
  <2>7. u.st # "QUIT" => FtpReady(u)
    BY <1>3, <2>3, <2>4, <2>5, <2>6 DEF FtpReady, Unbegun, DataCommands
  <2>8. FtpDone(u, t)
    BY <1>1, <1>3, <2>3, <2>4, <2>5, <2>6, <2>7, OutcomeDone DEF DataCommands
  <2> QED BY <2>2, <2>3, <2>8 DEF FtpDone
<1>4. CASE r \in CommandParsed(s) /\ s.cmd \in {"PORT", "EPRT"}
  <2>0. r \in ParsePORT(s) /\ ~NeedsData(s.cmd)
    <3>1. ParserOf(s.cmd) = s.cmd
      BY <1>4 DEF ParserOf, Up, Down
    <3> QED BY <1>4, <3>1 DEF CommandParsed, ParseEPRT, NeedsData, Up, Down
  <2>1. /\ r[1] \in {"ACCEPT", "REJECT"} /\ FtpKept(s, u, DataFields \union {"fs"}) /\ FtpEnds(u)
        /\ u.st \in {"SERVER_TO_CLIENT", "CLIENT_TO_SERVER"} /\ u.watch \in {{"C"}, {"S"}}
        /\ u.xfer = s.xfer \/ (s.xfer = "runs" /\ u.xfer = "cancelled")
        /\ FtpSettled(u) \/ (r[1] = "ACCEPT" /\ AwaitsPort(u) /\ u.watch = {"S"})
    BY <1>4, <2>0, ParsedPORT
  <2>2. IsFtp(u) /\ u.cmd = s.cmd /\ u.conf = s.conf /\ u.auth = s.auth
    BY <2>1 DEF FtpKept, FtpFields, DataFields
  <2>3. u.watch \subseteq Sides
    BY <2>1 DEF Sides
  <2>4. r[1] = "ACCEPT" => FtpReady(u)
    BY <1>4, <2>1, <2>2, <2>3 DEF FtpReady, Unbegun
  <2>5. FtpDone(u, t)
    BY <1>1, <1>4, <2>0, <2>1, <2>2, <2>3, <2>4, OutcomeDone
  <2> QED BY <2>1, <2>2, <2>5 DEF FtpDone
<1>5. CASE r \in CommandParsed(s) /\ s.cmd \in {"PASV", "EPSV"}
  <2>0. r \in ParsePASV(s) /\ ~NeedsData(s.cmd)
    <3>1. ParserOf(s.cmd) = s.cmd
      BY <1>5 DEF ParserOf, Up, Down
    <3> QED BY <1>5, <3>1 DEF CommandParsed, ParseEPSV, NeedsData, Up, Down
  <2>1. /\ r[1] \in {"ACCEPT", "REJECT"} /\ FtpKept(s, u, DataFields \union {"fs"}) /\ FtpEnds(u)
        /\ u.st \in {"SERVER_TO_CLIENT", "CLIENT_TO_SERVER"} /\ u.watch \in {{"C"}, {"S"}}
        /\ u.xfer = s.xfer \/ (s.xfer = "runs" /\ u.xfer = "cancelled")
        /\ FtpSettled(u) /\ (u.bits = {} \/ (r[1] = "REJECT" /\ u = s))
    BY <2>0, ParsedPASV
  <2>2. IsFtp(u) /\ u.cmd = s.cmd /\ u.conf = s.conf /\ u.auth = s.auth
    BY <2>1 DEF FtpKept, FtpFields, DataFields
  <2>3. u.watch \subseteq Sides
    BY <2>1 DEF Sides
  <2>4. r[1] = "ACCEPT" => FtpReady(u)
    BY <2>1, <2>2, <2>3 DEF FtpReady
  <2>5. FtpDone(u, t)
    BY <1>1, <2>0, <2>1, <2>2, <2>3, <2>4, OutcomeDone
  <2> QED BY <2>1, <2>2, <2>5 DEF FtpDone
<1> QED BY <1>1, <1>2, <1>3, <1>4, <1>5 DEF DataCommands

(* Before there is a server nothing goes to it. *)
LEMMA CommandProcessEarly ==
    ASSUME NEW s, IsFtp(s), s.conf \in FtpConfs, s.st = "NT_CLIENT_TO_PROXY", s.fs \notin Talking \union {"RENAME"},
           NEW t \in CommandProcess(s)
    PROVE  /\ FtpKept(s, t, ParseFields) /\ (s.auth => t.auth) /\ t.st \in {"NT_CLIENT_TO_PROXY", "QUIT"}
           /\ t.fs \notin Talking \union {"RENAME"} /\ t.watch = s.watch
<1>1. PICK r : t \in Outcome(s, r) /\ (r \in CommandParsed(s) \/ r \in {<<"REJECT", s>>, <<"ABORT", s>>})
  BY CommandProcessIs
<1> DEFINE u == r[2]
<1>2. ParsedAs(s, r)
  <2>1. CASE r \in {<<"REJECT", s>>, <<"ABORT", s>>}
    BY <2>1, ParsedSame
  <2>2. CASE r \in CommandParsed(s) /\ s.cmd \notin DataCommands
    BY <2>2, CommandParsedIs
  <2>3. CASE r \in CommandParsed(s) /\ s.cmd \in DataCommands
    <3>1. ParserOf(s.cmd) = s.cmd
      BY <2>3 DEF ParserOf, Up, Down, DataCommands
    <3>2. r \in ParsePORT(s) \/ r \in ParsePASV(s)
      BY <2>3, <3>1 DEF CommandParsed, ParseEPRT, ParseEPSV, DataCommands
    <3>3. r = <<"REJECT", s>>
      BY <3>2 DEF ParsePORT, ParsePASV, Renewed, Rejected, Talking
    <3> QED BY <3>3, ParsedSame
  <2> QED BY <1>1, <2>1, <2>2, <2>3
<1>3. /\ FtpKept(s, u, ParseFields) /\ (s.auth => u.auth) /\ u.fs \notin Talking \union {"RENAME"} /\ u.watch = s.watch
      /\ u.st = "NT_CLIENT_TO_PROXY" \/ (u.st = "QUIT" /\ r[1] # "ACCEPT")
  <2>1. s.fs \notin Talking /\ s.st # "SERVER_TO_CLIENT"
    OBVIOUS
  <2> QED BY <1>2, <2>1 DEF ParsedAs
<1>4. IsFtp(u)
  BY <1>3 DEF FtpKept
<1>5. t \in {ToClient(Replied(u, TRUE)), WithSt(Replied(u, TRUE), "QUIT"), u}
  <2>1. CASE u.st = "NT_CLIENT_TO_PROXY" /\ r[1] = "ACCEPT"
    BY <1>1, <2>1 DEF Outcome
  <2>2. CASE r[1] # "ACCEPT"
    <3>1. CASE r[1] \in {"REJECT", "PROXY_ANS"}
      BY <1>1, <3>1 DEF Outcome
    <3>2. CASE r[1] = "ABORT"
      BY <1>1, <3>2 DEF Outcome
    <3>3. CASE r[1] \notin {"ACCEPT", "REJECT", "PROXY_ANS", "ABORT"}
      BY <1>1, <3>3 DEF Outcome
    <3> QED BY <2>2, <3>1, <3>2, <3>3
  <2> QED BY <1>3, <2>1, <2>2
<1> DEFINE w == Replied(u, TRUE)
<1>6. FtpKept(u, w, {"drop", "owed"}) /\ IsFtp(w)
  BY <1>4, RepliedKept
<1>7. t \in {ToClient(w), WithSt(w, "QUIT"), u}
  BY <1>5
<1> HIDE DEF w, u
<1>8. w.st = u.st /\ w.fs = u.fs /\ w.watch = u.watch /\ w.auth = u.auth
  BY <1>6 DEF FtpKept, FtpFields
<1>9. ToClient(w) = w
  BY <1>3, <1>6, <1>8, ToClientIs
<1>10. CASE t = w \/ t = u
  <2>1. FtpKept(s, t, ParseFields)
    BY <1>3, <1>6, <1>10 DEF FtpKept, ParseFields
  <2> QED BY <1>3, <1>8, <1>10, <2>1
<1>11. CASE t = WithSt(w, "QUIT")
  <2>1. FtpKept(w, t, {"st"}) /\ t.st = "QUIT"
    BY <1>6, <1>11, WithStIs
  <2>2. FtpKept(s, t, ParseFields)
    BY <1>3, <1>6, <2>1 DEF FtpKept, ParseFields
  <2>3. t.fs = w.fs /\ t.watch = w.watch /\ t.auth = w.auth
    BY <2>1 DEF FtpKept, FtpFields
  <2> QED BY <1>3, <1>8, <2>1, <2>2, <2>3
<1> QED BY <1>7, <1>9, <1>10, <1>11

-----------------------------------------------------------------------------
(* The handlers of the server's answers: the client is to speak next. *)
Answering(s) ==
    /\ IsFtp(s) /\ FtpEnds(s) /\ s.st = "CLIENT_TO_SERVER" /\ s.watch = {"C"}
    /\ Unbegun(s) => "COMMAND_START" \notin s.bits

(* A handler that leaves the data channel alone. *)
LEMMA SettledDone ==
    ASSUME NEW s, Answering(s), FtpSettled(s), NEW t, FtpKept(s, t, Aside \union {"fs"})
    PROVE  FtpDone(s, t)
<1>1. /\ t.st = s.st /\ t.cmd = s.cmd /\ t.watch = s.watch /\ t.bits = s.bits /\ t.how = s.how /\ IsFtp(t)
      /\ t.strm = s.strm /\ t.approved = s.approved /\ t.xfer = s.xfer /\ t.conf = s.conf /\ t.auth = s.auth
  BY DEF FtpKept, FtpFields, Aside
<1>2. FtpEnds(t) /\ FtpSettled(t)
  BY <1>1, EndsSame, SettledSame DEF Answering
<1> QED BY <1>1, <1>2 DEF FtpDone, FtpReady, Answering, Sides

(* A handler that resets it. *)
LEMMA ResetDone ==
    ASSUME NEW s, Answering(s), NEW u, FtpKept(s, u, Aside \union EndFields \union {"fs"}), NEW t, t = DataReset(u)
    PROVE  FtpDone(s, t)
<1>1. IsFtp(u) /\ u.st = s.st /\ u.watch = s.watch /\ u.conf = s.conf /\ u.auth = s.auth /\ u.xfer = s.xfer
  BY DEF FtpKept, FtpFields, Aside, EndFields
<1>2. u.st \in {"SERVER_TO_CLIENT", "CLIENT_TO_SERVER", "BOTH_SIDE"} /\ u.watch \subseteq Sides
  BY <1>1 DEF Answering, Sides
<1>3. FtpReady(t) /\ FtpKept(u, t, DataFields)
  BY <1>1, <1>2, ResetReady
<1>4. t.xfer = (IF u.xfer = "runs" THEN "cancelled" ELSE u.xfer)
  BY <1>1, DataResetIs
<1>5. t.conf = u.conf /\ t.auth = u.auth
  BY <1>3 DEF FtpKept, FtpFields, DataFields
<1> QED BY <1>1, <1>3, <1>4, <1>5 DEF FtpDone

(* Ends that were renewed and are of no set-up, or that none can be joined to. *)
LEMMA RenewedDone ==
    ASSUME NEW s, Answering(s), NEW t, FtpKept(s, t, Aside \union EndFields \union {"fs"}), FtpEnds(t), FtpSettled(t),
           t.bits = s.bits \/ "COMMAND_START" \notin t.bits
    PROVE  FtpDone(s, t)
<1>1. /\ t.st = s.st /\ t.cmd = s.cmd /\ t.watch = s.watch /\ IsFtp(t) /\ t.xfer = s.xfer /\ t.conf = s.conf /\ t.auth = s.auth
  BY DEF FtpKept, FtpFields, Aside, EndFields
<1> QED BY <1>1 DEF FtpDone, FtpReady, Answering, Sides

(* The answers to USER, PASS, ACCT and RNFR. *)
LEMMA AnsweredLogin ==
    ASSUME NEW s, Answering(s), FtpSettled(s), NEW d, NEW r,
           r \in AnswerUSER(s, d) \/ r \in AnswerPASS(s, d) \/ r \in AnswerACCT(s, d) \/ r \in AnswerRNFR(s, d)
    PROVE  FtpDone(s, r[2])
<1>0. IsFtp(s)
  BY DEF Answering
<1>1. r[2] = s \/ \E v : r[2] = WithFs(s, v)
  <2>1. CASE r \in AnswerUSER(s, d)
    <3> DEFINE v == CASE Digit(d) = "2" -> "CONVERSATION" [] d = "332" -> "LOGIN_A" [] OTHER -> s.fs
    <3>1. r \in Passed(WithFs(s, v)) \/ r \in Passed(s) \/ r \in Refusal(s)
      BY <2>1 DEF AnswerUSER, WithFs
    <3> QED BY <3>1 DEF Passed, Refusal
  <2>2. CASE r \in AnswerPASS(s, d)
    <3> DEFINE v == CASE Digit(d) = "2" -> "CONVERSATION" [] d = "332" -> "LOGIN_A" [] OTHER -> s.fs
    <3>1. r \in Passed(WithFs(s, v)) \/ r \in Passed(s) \/ r \in Refusal(s)
      BY <2>2 DEF AnswerPASS, WithFs
    <3> QED BY <3>1 DEF Passed, Refusal
  <2>3. CASE r \in AnswerACCT(s, d)
    <3> DEFINE v == IF Digit(d) = "2" THEN "CONVERSATION" ELSE s.fs
    <3>1. r \in Passed(WithFs(s, v)) \/ r \in Refusal(s)
      BY <2>3 DEF AnswerACCT, WithFs
    <3> QED BY <3>1 DEF Passed, Refusal
  <2>4. CASE r \in AnswerRNFR(s, d)
    <3> DEFINE v == IF d = "350" THEN "RENAME" ELSE s.fs
    <3>1. r \in Passed(WithFs(s, v)) \/ r \in Refusal(s)
      BY <2>4 DEF AnswerRNFR, WithFs
    <3> QED BY <3>1 DEF Passed, Refusal
  <2> QED BY <2>1, <2>2, <2>3, <2>4
<1>2. FtpKept(s, r[2], {"fs"})
  BY <1>0, <1>1, WithFsIs DEF FtpKept
<1>3. FtpKept(s, r[2], Aside \union {"fs"})
  BY <1>2, KeptMore
<1> QED BY <1>3, SettledDone

(* The answer to QUIT. *)
LEMMA AnsweredQUIT ==
    ASSUME NEW s, Answering(s), FtpSettled(s), NEW r \in AnswerQUIT(s)
    PROVE  FtpDone(s, r[2])
<1>0. IsFtp(s) /\ FtpEnds(s) /\ s.watch \subseteq Sides
  BY DEF Answering, Sides
<1>1. r[2] = WithSt(s, "QUIT") \/ r[2] = s
  BY DEF AnswerQUIT, Passed, Refusal, WithSt
<1>2. CASE r[2] = WithSt(s, "QUIT")
  BY <1>0, <1>2, QuitOver DEF FtpDone
<1>3. CASE r[2] = s
  BY <1>0, <1>3, SettledDone DEF FtpKept
<1> QED BY <1>1, <1>2, <1>3

(* The answer to ABOR. *)
LEMMA AnsweredABOR ==
    ASSUME NEW s, Answering(s), FtpSettled(s), NEW d, NEW r \in AnswerABOR(s, d)
    PROVE  FtpDone(s, r[2])
<1> DEFINE u == [s EXCEPT !.fs = "CONVERSATION", !.old = "CLIENT_TO_SERVER"]
           no == {}
           w == [s EXCEPT !.old = "SERVER_TO_CLIENT", !.bits = no]
<1>1. r[2] = s \/ r[2] = u \/ r[2] = w
  <2>1. CASE s.fs \in Talking /\ Digit(d) = "2"
    BY <2>1 DEF AnswerABOR, Passed, Digit
  <2>2. CASE s.fs \in Talking /\ d = "4"
    BY <2>2 DEF AnswerABOR, Passed, Digit
  <2>3. CASE s.fs \notin Talking \/ (Digit(d) # "2" /\ d # "4")
    BY <2>3 DEF AnswerABOR, Passed
  <2> QED BY <2>1, <2>2, <2>3
<1>2. IsFtp(s) /\ no = {} /\ FtpEnds(s)
  BY DEF Answering
<1> HIDE DEF no
<1>3. IsFtp(u)
  BY <1>2 DEF IsFtp, FtpFields
<1>4. \A f \in FtpFields \ {"fs", "old"} : u[f] = s[f]
  BY <1>2 DEF IsFtp, FtpFields
<1>5. IsFtp(w)
  BY <1>2 DEF IsFtp, FtpFields
<1>6. \A f \in FtpFields \ {"old", "bits"} : w[f] = s[f]
  BY <1>2 DEF IsFtp, FtpFields
<1>7. w.bits = no
  BY <1>2 DEF IsFtp, FtpFields
<1> HIDE DEF u, w
<1>8. CASE r[2] = s \/ r[2] = u
  <2>1. FtpKept(s, r[2], Aside \union {"fs"})
    BY <1>2, <1>3, <1>4, <1>8 DEF FtpKept, Aside
  <2> QED BY <2>1, SettledDone
<1>9. CASE r[2] = w
  <2>1. FtpKept(s, w, Aside \union EndFields \union {"fs"})
    BY <1>5, <1>6 DEF FtpKept, Aside, EndFields
  <2>2. w.how = s.how /\ w.strm = s.strm /\ w.approved = s.approved
    BY <1>6 DEF FtpFields
  <2>3. FtpEnds(w) /\ FtpSettled(w) /\ "COMMAND_START" \notin w.bits
    BY <1>2, <1>7, <2>2 DEF FtpEnds, FtpSettled
  <2> QED BY <1>9, <2>1, <2>3, RenewedDone
<1> QED BY <1>1, <1>8, <1>9

(* The answers to AUTH and PROT. *)
LEMMA AnsweredSecurity ==
    ASSUME NEW s, Answering(s), FtpSettled(s), NEW d, NEW r, r \in AnswerAUTH(s, d) \/ r \in AnswerPROT(s, d)
    PROVE  FtpDone(s, r[2])
<1>0. IsFtp(s) /\ FtpEnds(s) /\ s.watch \subseteq Sides
  BY DEF Answering, Sides
<1>1. CASE r \in AnswerPROT(s, d)
  <2> DEFINE p == IF d = "2" THEN s.prot ELSE {}
             u == [s EXCEPT !.prot = p]
  <2>1. r[2] = u
    BY <1>1 DEF AnswerPROT, Passed
  <2> HIDE DEF p
  <2>2. IsFtp(u)
    BY <1>0 DEF IsFtp, FtpFields
  <2>3. \A f \in FtpFields \ {"prot"} : u[f] = s[f]
    BY <1>0 DEF IsFtp, FtpFields
  <2> HIDE DEF u
  <2>4. FtpKept(s, u, Aside \union {"fs"})
    BY <2>2, <2>3 DEF FtpKept, Aside
  <2> QED BY <2>1, <2>4, SettledDone
<1>2. CASE r \in AnswerAUTH(s, d)
  <2> DEFINE w == Replied(s, TRUE)
             p == {"C", "S"}
             u == [w EXCEPT !.tls = p]
  <2>0. r = <<"ACCEPT", s>> \/ r = <<"NOOP", u>> \/ r = <<"NOOP", WithSt(w, "QUIT")>>
    <3>1. AnswerAUTH(s, d) = IF d # "234" THEN {<<"ACCEPT", s>>} ELSE {<<"NOOP", u>>, <<"NOOP", WithSt(w, "QUIT")>>}
      BY Zenon DEF AnswerAUTH, Passed, WithSt
    <3> QED BY <1>2, <3>1
  <2>2. IsFtp(w) /\ FtpKept(s, w, Aside)
    BY <1>0, RepliedAside
  <2> HIDE DEF w, p
  <2>1. r[2] = s \/ r[2] = u \/ r[2] = WithSt(w, "QUIT")
    BY <2>0
  <2>3. IsFtp(u)
    BY <2>2 DEF IsFtp, FtpFields
  <2>4. \A f \in FtpFields \ {"tls"} : u[f] = w[f]
    BY <2>2 DEF IsFtp, FtpFields
  <2> HIDE DEF u
  <2>5. CASE r[2] = s \/ r[2] = u
    <3>1. FtpKept(s, r[2], Aside \union {"fs"})
      BY <1>0, <2>2, <2>3, <2>4, <2>5 DEF FtpKept, Aside
    <3> QED BY <3>1, SettledDone
  <2>6. CASE r[2] = WithSt(w, "QUIT")
    <3>1. /\ w.watch = s.watch /\ w.bits = s.bits /\ w.how = s.how
          /\ w.strm = s.strm /\ w.approved = s.approved /\ w.xfer = s.xfer /\ w.conf = s.conf /\ w.auth = s.auth
      BY <2>2, AsideSame
    <3>2. FtpEnds(w)
      BY <1>0, <3>1, EndsSame
    <3> QED BY <1>0, <2>2, <2>6, <3>1, <3>2, QuitOver DEF FtpDone
  <2> QED BY <2>1, <2>5, <2>6
<1> QED BY <1>1, <1>2

(* What a handler says is passed on or refused. *)
LEMMA PassedIs ==
    ASSUME NEW x, NEW r, r \in Passed(x) \/ r \in Refusal(x)
    PROVE  r[2] = x
BY DEF Passed, Refusal

(* The answers to a data command. *)
LEMMA AnsweredPath ==
    ASSUME NEW s, Answering(s), FtpSettled(s), NEW d, NEW r \in AnswerPath(s, d)
    PROVE  FtpDone(s, r[2])
<1> DEFINE e == IF s.bits # {} THEN [s EXCEPT !.old = "CLIENT_TO_SERVER", !.fs = "CONVERSATION"] ELSE [s EXCEPT !.fs = "CONVERSATION"]
           o == [s EXCEPT !.old = "CLIENT_TO_SERVER"]
           P(t) == [t EXCEPT !.old = "SERVER_TO_CLIENT", !.pre = s.cmd \in Down, !.drop = IF s.cmd \in Down THEN TRUE ELSE @]
<1>0. IsFtp(s) /\ FtpEnds(s)
  BY DEF Answering
<1>1. \/ r[2] = s \/ r[2] = e \/ r[2] = DataReset(e) \/ r[2] = DataReset(o)
      \/ \E t \in UnlockedOr(s, "SERVER_SAID") : r[2] = P(t)
  <2>1. CASE s.fs \notin Talking
    <3>1. r \in Refusal(s)
      BY <2>1 DEF AnswerPath
    <3> QED BY <3>1, PassedIs
  <2>0. d \in {"1", "4", "5"} => Digit(d) = d
    BY DEF Digit
  <2>2. CASE s.fs \in Talking /\ d = "1"
    <3>1. PICK t \in UnlockedOr(s, "SERVER_SAID") : r \in Passed(P(t))
      BY <2>0, <2>2 DEF AnswerPath
    <3> HIDE DEF e, o, P
    <3> QED BY <3>1, PassedIs
  <2>3. CASE s.fs \in Talking /\ Digit(d) = "2"
    <3>1. r \in Passed(IF "SERVER_SAID" \in s.bits THEN e ELSE DataReset(e))
      BY <2>0, <2>3 DEF AnswerPath
    <3> HIDE DEF e, o, P
    <3> QED BY <3>1, PassedIs
  <2>4. CASE s.fs \in Talking /\ d \in {"4", "5"}
    <3>1. r \in Passed(DataReset(e))
      BY <2>0, <2>4 DEF AnswerPath
    <3> HIDE DEF e, o, P
    <3> QED BY <3>1, PassedIs
  <2>5. CASE s.fs \in Talking /\ d \notin {"1", "4", "5"} /\ Digit(d) # "2"
    <3>1. r \in Passed(DataReset(o))
      BY <2>5 DEF AnswerPath
    <3> HIDE DEF e, o, P
    <3> QED BY <3>1, PassedIs
  <2> QED BY <2>1, <2>2, <2>3, <2>4, <2>5
<1>2. FtpKept(s, e, {"old", "fs"})
  <2>1. CASE s.bits # {}
    <3>1. e = [s EXCEPT !.old = "CLIENT_TO_SERVER", !.fs = "CONVERSATION"]
      BY <2>1
    <3> HIDE DEF e
    <3>2. IsFtp(e)
      BY <1>0, <3>1 DEF IsFtp, FtpFields
    <3>3. \A f \in FtpFields \ {"fs", "old"} : e[f] = s[f]
      BY <1>0, <3>1 DEF IsFtp, FtpFields
    <3> QED BY <3>2, <3>3 DEF FtpKept
  <2>2. CASE s.bits = {}
    <3>1. e = WithFs(s, "CONVERSATION")
      BY <2>2 DEF WithFs
    <3> HIDE DEF e
    <3> QED BY <1>0, <3>1, WithFsIs DEF FtpKept
  <2> QED BY <2>1, <2>2
<1>3. FtpKept(s, o, {"old"})
  <2>1. IsFtp(o)
    BY <1>0 DEF IsFtp, FtpFields
  <2>2. \A f \in FtpFields \ {"old"} : o[f] = s[f]
    BY <1>0 DEF IsFtp, FtpFields
  <2> QED BY <2>1, <2>2 DEF FtpKept
<1> HIDE DEF e, o
<1>4. /\ FtpKept(s, e, Aside \union {"fs"}) /\ FtpKept(s, s, Aside \union {"fs"})
      /\ FtpKept(s, e, Aside \union EndFields \union {"fs"}) /\ FtpKept(s, o, Aside \union EndFields \union {"fs"})
  BY <1>0, <1>2, <1>3 DEF FtpKept, Aside
<1>5. CASE r[2] = s \/ r[2] = e
  BY <1>4, <1>5, SettledDone
<1>6. CASE r[2] = DataReset(e) \/ r[2] = DataReset(o)
  BY <1>4, <1>6, ResetDone
<1>7. ASSUME NEW t \in UnlockedOr(s, "SERVER_SAID"), r[2] = P(t)
      PROVE  FtpDone(s, r[2])
  <2>1. /\ FtpKept(s, t, {"strm", "bits", "how"}) /\ FtpEnds(t) /\ FtpSettled(t)
        /\ "COMMAND_START" \in t.bits <=> "COMMAND_START" \in s.bits
    BY <1>0, UnlockedOrIs
  <2> DEFINE pre == s.cmd \in Down
             drop == IF s.cmd \in Down THEN TRUE ELSE t.drop
             u == [t EXCEPT !.old = "SERVER_TO_CLIENT", !.pre = pre, !.drop = drop]
  <2>2. r[2] = u
    BY <1>7
  <2>3. IsFtp(t)
    BY <2>1 DEF FtpKept
  <2> HIDE DEF P, pre, drop
  <2>4. IsFtp(u)
    BY <2>3 DEF IsFtp, FtpFields
  <2>5. \A f \in FtpFields \ {"old", "pre", "drop"} : u[f] = t[f]
    BY <2>3 DEF IsFtp, FtpFields
  <2> HIDE DEF u
  <2>6. FtpKept(s, u, Aside \union EndFields \union {"fs"})
    BY <2>1, <2>4, <2>5 DEF FtpKept, Aside, EndFields
  <2>7. u.how = t.how /\ u.strm = t.strm /\ u.approved = t.approved /\ u.bits = t.bits /\ u.conf = t.conf /\ u.xfer = t.xfer
    BY <2>5 DEF FtpFields
  <2>8. FtpEnds(u) /\ FtpSettled(u)
    BY <2>1, <2>7, EndsSame, SettledSame
  <2>9. "COMMAND_START" \in u.bits <=> "COMMAND_START" \in s.bits
    BY <2>1, <2>7
  <2>10. /\ u.st = s.st /\ u.cmd = s.cmd /\ u.watch = s.watch /\ IsFtp(u) /\ u.xfer = s.xfer /\ u.conf = s.conf /\ u.auth = s.auth
    BY <2>6 DEF FtpKept, FtpFields, Aside, EndFields
  <2>11. FtpReady(u)
    BY <2>8, <2>9, <2>10 DEF FtpReady, Answering, Sides, Unbegun
  <2> QED BY <2>2, <2>10, <2>11 DEF FtpDone
<1> QED BY <1>1, <1>5, <1>6, <1>7

(* What ftp_data_prepare_* leaves of the client's side. *)
LEMMA ClearedIs ==
    ASSUME NEW s, IsFtp(s)
    PROVE  IsFtp(Cleared(s)) /\ FtpKept(s, Cleared(s), {"bits"}) /\ Cleared(s).bits = {}
<1> DEFINE c == Cleared(s)
<1>1. IsFtp(c)
  BY DEF IsFtp, FtpFields, Cleared
<1>2. \A f \in FtpFields \ {"bits"} : c[f] = s[f]
  BY DEF IsFtp, FtpFields, Cleared
<1>3. c.bits = {}
  BY DEF IsFtp, FtpFields, Cleared
<1> QED BY <1>1, <1>2, <1>3 DEF FtpKept

(* A handler that clears data_state. *)
LEMMA ClearedDone ==
    ASSUME NEW s, Answering(s), NEW u, FtpKept(s, u, Aside \union EndFields \union {"fs"}), FtpEnds(Cleared(u))
    PROVE  FtpDone(s, Cleared(u))
<1>1. IsFtp(u)
  BY DEF FtpKept
<1>2. FtpKept(u, Cleared(u), {"bits"}) /\ Cleared(u).bits = {}
  BY <1>1, ClearedIs
<1>3. FtpKept(s, Cleared(u), Aside \union EndFields \union {"fs"})
  BY <1>2 DEF FtpKept, EndFields
<1>4. FtpSettled(Cleared(u)) /\ "COMMAND_START" \notin Cleared(u).bits
  BY <1>2 DEF FtpSettled
<1> QED BY <1>3, <1>4, RenewedDone

(* ClientSide of PORT and EPRT *)
LEMMA ClientConnects ==
    ASSUME NEW s, Answering(s), NEW u, FtpKept(s, u, EndFields), FtpEnds(u), u.bits \in {s.bits, {}},
           NEW q \in PrepareConnect(u, "C"), NEW r,
           r \in IF q[1] THEN Passed(WithFs(q[2], "DATA")) ELSE Refusal(Cleared(q[2]))
    PROVE  FtpDone(s, r[2])
<1>0. IsFtp(u)
  BY DEF FtpKept
<1>1. /\ q = <<q[1], q[2]>> /\ q[1] \in BOOLEAN /\ FtpKept(u, q[2], {"strm", "approved", "how"})
      /\ q[1] => q[2].how["C"] = "connect"
      /\ FtpEnds(q[2]) /\ FtpEnds(Cleared(q[2]))
  BY <1>0, PrepareConnectIs DEF Sides
<1>2. IsFtp(q[2]) /\ FtpKept(s, q[2], Aside \union EndFields \union {"fs"}) /\ q[2].bits = u.bits
  BY <1>1 DEF FtpKept, FtpFields, EndFields
<1>3. CASE q[1]
  <2> DEFINE w == WithFs(q[2], "DATA")
  <2>1. r[2] = w
    BY <1>3 DEF Passed
  <2>2. FtpKept(q[2], w, {"fs"})
    BY <1>2, WithFsIs
  <2> HIDE DEF w
  <2>3. w.how = q[2].how /\ w.strm = q[2].strm /\ w.approved = q[2].approved /\ w.bits = q[2].bits
    BY <2>2 DEF FtpKept, FtpFields
  <2>4. FtpEnds(w)
    BY <1>1, <2>3, EndsSame
  <2>5. FtpSettled(w)
    BY <1>1, <1>3, <2>3 DEF FtpSettled
  <2>6. FtpKept(s, w, Aside \union EndFields \union {"fs"})
    BY <1>2, <2>2 DEF FtpKept
  <2> QED BY <1>2, <2>1, <2>3, <2>4, <2>5, <2>6, RenewedDone
<1>4. CASE ~q[1]
  <2>1. r[2] = Cleared(q[2])
    BY <1>4 DEF Refusal
  <2> QED BY <1>1, <1>2, <2>1, ClearedDone
<1> QED BY <1>1, <1>3, <1>4

(* The answer to PORT or EPRT settles the listener it left. *)
LEMMA AnsweredPORT ==
    ASSUME NEW s, Answering(s), FtpSettled(s) \/ AwaitsPort(s), s.cmd \in {"PORT", "EPRT"}, NEW d, NEW r \in AnswerPORT(s, d)
    PROVE  FtpDone(s, r[2])
<1>0. IsFtp(s) /\ FtpEnds(s) /\ FtpKept(s, s, Aside \union EndFields \union {"fs"}) /\ FtpKept(s, s, EndFields)
  BY DEF Answering, FtpKept
<1>1. CASE s.fs # "CONVERSATION"
  <2>1. r[2] = s /\ FtpSettled(s)
    BY <1>1 DEF AnswerPORT, Refusal, AwaitsPort
  <2> QED BY <1>0, <2>1, SettledDone DEF FtpKept
<1>2. CASE s.fs = "CONVERSATION" /\ Digit(d) # "2"
  <2>1. r[2] = Cleared(s) \/ r[2] = DataReset(s)
    BY <1>2 DEF AnswerPORT, Refusal, Passed
  <2>2. FtpEnds(Cleared(s))
    <3>1. FtpKept(s, Cleared(s), {"bits"}) /\ Cleared(s).bits = {}
      BY <1>0, ClearedIs
    <3>2. Cleared(s).how = s.how /\ Cleared(s).strm = s.strm /\ Cleared(s).approved = s.approved
      BY <3>1 DEF FtpKept, FtpFields
    <3> QED BY <1>0, <3>1, <3>2 DEF FtpEnds
  <2> QED BY <1>0, <2>1, <2>2, ClearedDone, ResetDone
<1>3. CASE s.fs = "CONVERSATION" /\ Digit(d) = "2"
  <2> DEFINE served == IF s.conf.mode = "PASSIVE" THEN ServerStartPasv(s) ELSE {<<TRUE, s>>}
  <2>1. PICK p \in served : r \in IF p[1] THEN ClientSide(p[2], PrepareConnect, Cleared) ELSE Refusal(WithFs(p[2], "DATA"))
    BY <1>3 DEF AnswerPORT, WithFs
  <2>2. /\ p[1] \in BOOLEAN /\ FtpKept(s, p[2], EndFields) /\ FtpEnds(p[2]) /\ p[2].bits \in {s.bits, {}}
        /\ ~p[1] => s.conf.mode = "PASSIVE" /\ (p[2] = s \/ p[2].bits = {})
    <3>1. CASE s.conf.mode = "PASSIVE"
      <4>1. p \in ServerStartPasv(s)
        BY <2>1, <3>1
      <4> QED BY <1>0, <3>1, <4>1, ServerStartPasvIs
    <3>2. CASE s.conf.mode # "PASSIVE"
      <4>1. p = <<TRUE, s>>
        BY <2>1, <3>2
      <4> QED BY <1>0, <4>1
    <3> QED BY <3>1, <3>2
  <2>3. CASE p[1]
    <3>1. r \in ClientSide(p[2], PrepareConnect, Cleared)
      BY <2>1, <2>3
    <3>2. PICK q \in PrepareConnect(p[2], "C") : r \in IF q[1] THEN Passed(WithFs(q[2], "DATA")) ELSE Refusal(Cleared(q[2]))
      BY <3>1 DEF ClientSide, WithFs
    <3> QED BY <2>2, <3>2, ClientConnects
  <2>4. CASE ~p[1]
    <3> DEFINE w == WithFs(p[2], "DATA")
    <3>1. r[2] = w
      BY <2>1, <2>4 DEF Refusal
    <3>2. IsFtp(p[2])
      BY <2>2 DEF FtpKept
    <3>3. FtpKept(p[2], w, {"fs"})
      BY <3>2, WithFsIs
    <3> HIDE DEF w
    <3>4. /\ w.how = p[2].how /\ w.strm = p[2].strm /\ w.approved = p[2].approved /\ w.bits = p[2].bits
          /\ w.conf = p[2].conf /\ w.xfer = p[2].xfer
      BY <3>3 DEF FtpKept, FtpFields
    <3>5. FtpEnds(w)
      BY <2>2, <3>4, EndsSame
    <3>6. FtpSettled(w)
      <4>1. FtpSettled(s)
        BY <2>2, <2>4 DEF AwaitsPort
      <4>2. CASE p[2] = s
        BY <3>4, <4>1, <4>2, SettledSame
      <4>3. CASE p[2].bits = {}
        BY <3>4, <4>3 DEF FtpSettled
      <4> QED BY <2>2, <2>4, <4>2, <4>3
    <3>7. FtpKept(s, w, Aside \union EndFields \union {"fs"})
      BY <2>2, <3>3 DEF FtpKept
    <3> QED BY <2>2, <3>1, <3>4, <3>5, <3>6, <3>7, RenewedDone
  <2> QED BY <2>2, <2>3, <2>4
<1> QED BY <1>1, <1>2, <1>3

(* PASV and EPSV: no set-up is under way while they are answered in turn. *)
Open(s) == s.conf.urgent \/ "COMMAND_START" \notin s.bits
(* The ends are ready for a data command. *)
LEMMA WithFsDone ==
    ASSUME NEW s, Answering(s), NEW u, FtpKept(s, u, EndFields), FtpEnds(u), Open(u), u.bits \in {s.bits, {}}
    PROVE  FtpDone(s, WithFs(u, "DATA"))
<1> DEFINE w == WithFs(u, "DATA")
<1>0. IsFtp(u)
  BY DEF FtpKept
<1>1. FtpKept(u, w, {"fs"})
  BY <1>0, WithFsIs
<1> HIDE DEF w
<1>2. w.how = u.how /\ w.strm = u.strm /\ w.approved = u.approved /\ w.bits = u.bits /\ w.conf = u.conf
  BY <1>1 DEF FtpKept, FtpFields
<1>3. FtpEnds(w)
  BY <1>2, EndsSame
<1>4. FtpSettled(w) /\ (w.bits = s.bits \/ "COMMAND_START" \notin w.bits)
  BY <1>2 DEF FtpSettled, FtpEnds, Calm, Open
<1>5. FtpKept(s, w, Aside \union EndFields \union {"fs"})
  BY <1>1 DEF FtpKept
<1> QED BY <1>3, <1>4, <1>5, RenewedDone DEF w

(* The client's side of them. *)
LEMMA ClientListens ==
    ASSUME NEW s, Answering(s), NEW u, FtpKept(s, u, EndFields), FtpEnds(u), Open(u), u.bits \in {s.bits, {}},
           NEW q \in PrepareListen(u, "C"), NEW r,
           \/ q[1] /\ r \in Passed(WithFs(q[2], "DATA"))
           \/ ~q[1] /\ (r \in Refusal(Cleared(q[2])) \/ r \in Refusal(DataReset(q[2])))
    PROVE  FtpDone(s, r[2])
<1>0. IsFtp(u)
  BY DEF FtpKept
<1>1. /\ q = <<q[1], q[2]>> /\ q[1] \in BOOLEAN /\ FtpKept(u, q[2], {"strm", "approved", "how"})
      /\ q[1] => FtpEnds(q[2])
      /\ FtpEnds(Cleared(q[2]))
  BY <1>0, PrepareListenIs DEF Sides
<1>2. /\ IsFtp(q[2]) /\ FtpKept(s, q[2], EndFields) /\ FtpKept(s, q[2], Aside \union EndFields \union {"fs"})
      /\ q[2].bits = u.bits /\ q[2].conf = u.conf
  BY <1>1 DEF FtpKept, FtpFields, EndFields
<1>2a. Open(q[2])
  BY <1>2 DEF Open
<1>3. CASE q[1]
  <2>1. r[2] = WithFs(q[2], "DATA")
    BY <1>3, PassedIs
  <2> QED BY <1>1, <1>2, <1>2a, <1>3, <2>1, WithFsDone
<1>4. CASE ~q[1]
  <2>1. r[2] = Cleared(q[2]) \/ r[2] = DataReset(q[2])
    BY <1>4, PassedIs
  <2> QED BY <1>1, <1>2, <2>1, ClearedDone, ResetDone
<1> QED BY <1>1, <1>3, <1>4

(* The answer to PASV or EPSV. *)
LEMMA AnsweredPASV ==
    ASSUME NEW s, Answering(s), FtpSettled(s), s.cmd \in {"PASV", "EPSV"}, NEW d, NEW r \in AnswerPASV(s, d)
    PROVE  FtpDone(s, r[2])
<1>0. /\ IsFtp(s) /\ FtpEnds(s) /\ FtpKept(s, s, Aside \union EndFields \union {"fs"}) /\ FtpKept(s, s, EndFields)
      /\ FtpKept(s, s, Aside \union {"fs"}) /\ Open(s)
  BY DEF Answering, FtpKept, Open, Unbegun
<1> DEFINE failed(t) == IF s.cmd = "PASV" /\ s.conf.mode # "ACTIVE" THEN DataReset(t) ELSE Cleared(t)
           served == IF s.conf.mode = "ACTIVE" THEN {<<TRUE, s>>} ELSE ServerStartPasv(s)
           states == {"CONVERSATION"} \union (IF s.cmd = "PASV" THEN {"DATA"} ELSE {})
<1>1. CASE s.fs \notin states
  <2>1. r \in Refusal(s)
    BY <1>1 DEF AnswerPASV
  <2> QED BY <1>0, <2>1, PassedIs, SettledDone
<1>2. CASE s.fs \in states /\ Digit(d) # "2"
  <2>1. r \in Refusal(Cleared(s)) \/ r \in Passed(Cleared(s))
    BY <1>2 DEF AnswerPASV
  <2>2. FtpEnds(Cleared(s))
    <3>1. FtpKept(s, Cleared(s), {"bits"}) /\ Cleared(s).bits = {}
      BY <1>0, ClearedIs
    <3>2. Cleared(s).how = s.how /\ Cleared(s).strm = s.strm /\ Cleared(s).approved = s.approved
      BY <3>1 DEF FtpKept, FtpFields
    <3> QED BY <1>0, <3>1, <3>2 DEF FtpEnds
  <2>3. r[2] = Cleared(s)
    BY <2>1, PassedIs
  <2>4. FtpDone(s, Cleared(s))
    BY <1>0, <2>2, ClearedDone
  <2> QED BY <2>3, <2>4
<1>3. CASE s.fs \in states /\ Digit(d) = "2"
  <2>1. PICK p \in served : r \in IF p[1] THEN ClientSide(p[2], PrepareListen, failed) ELSE Refusal(WithFs(p[2], "DATA"))
    BY <1>3 DEF AnswerPASV, WithFs
  <2>2. p[1] \in BOOLEAN /\ FtpKept(s, p[2], EndFields) /\ FtpEnds(p[2]) /\ Open(p[2]) /\ p[2].bits \in {s.bits, {}}
    <3>1. CASE s.conf.mode # "ACTIVE"
      <4>1. p \in ServerStartPasv(s)
        BY <2>1, <3>1
      <4>2. p[1] \in BOOLEAN /\ FtpKept(s, p[2], EndFields) /\ FtpEnds(p[2]) /\ p[2].bits \in {s.bits, {}}
        BY <1>0, <4>1, ServerStartPasvIs
      <4>3. p[2].conf = s.conf
        BY <4>2 DEF FtpKept, FtpFields, EndFields
      <4> QED BY <1>0, <4>2, <4>3 DEF Open
    <3>2. CASE s.conf.mode = "ACTIVE"
      <4>1. p = <<TRUE, s>>
        BY <2>1, <3>2
      <4> QED BY <1>0, <4>1
    <3> QED BY <3>1, <3>2
  <2>3. CASE p[1]
    <3>1. r \in ClientSide(p[2], PrepareListen, failed)
      BY <2>1, <2>3
    <3>2. PICK q \in PrepareListen(p[2], "C") : r \in IF q[1] THEN Passed(WithFs(q[2], "DATA")) ELSE Refusal(failed(q[2]))
      BY <3>1 DEF ClientSide, WithFs
    <3>3. \/ q[1] /\ r \in Passed(WithFs(q[2], "DATA"))
          \/ ~q[1] /\ (r \in Refusal(Cleared(q[2])) \/ r \in Refusal(DataReset(q[2])))
      BY <3>2
    <3> QED BY <2>2, <3>2, <3>3, ClientListens
  <2>4. CASE ~p[1]
    <3>1. r \in Refusal(WithFs(p[2], "DATA"))
      BY <2>1, <2>4
    <3> QED BY <2>2, <3>1, PassedIs, WithFsDone
  <2> QED BY <2>2, <2>3, <2>4
<1> QED BY <1>1, <1>2, <1>3

(* ftp_answer_process: what a handler leaves, and the answer it writes. *)
LEMMA AnswerHandledDone ==
    ASSUME NEW s, Answering(s), FtpSettled(s) \/ AwaitsPort(s), NEW d, NEW r \in AnswerHandled(s, d)
    PROVE  FtpDone(s, r[2])
<1>1. CASE s.cmd \in {"PORT", "EPRT"}
  <2>1. r \in AnswerPORT(s, d)
    BY <1>1 DEF AnswerHandled, AnswerEPRT, NeedsData, Down, Up
  <2> QED BY <1>1, <2>1, AnsweredPORT
<1>2. CASE s.cmd \notin {"PORT", "EPRT"}
  <2>1. FtpSettled(s)
    BY <1>2 DEF AwaitsPort
  <2>2. CASE s.cmd \in {"PASV", "EPSV"}
    <3>1. r \in AnswerPASV(s, d)
      BY <2>2 DEF AnswerHandled, AnswerEPSV, NeedsData, Down, Up
    <3> QED BY <2>1, <2>2, <3>1, AnsweredPASV
  <2>3. CASE s.cmd \notin {"PASV", "EPSV"}
    <3>1. \/ r \in AnswerUSER(s, d) \/ r \in AnswerPASS(s, d) \/ r \in AnswerACCT(s, d) \/ r \in AnswerRNFR(s, d)
          \/ r \in AnswerQUIT(s) \/ r \in AnswerABOR(s, d) \/ r \in AnswerPath(s, d)
          \/ r \in AnswerAUTH(s, d) \/ r \in AnswerPROT(s, d) \/ r \in Passed(s)
      BY <1>2, <2>3 DEF AnswerHandled
    <3>2. CASE r \in Passed(s)
      <4>1. r[2] = s /\ FtpKept(s, s, Aside \union {"fs"})
        BY <3>2, PassedIs DEF Answering, FtpKept
      <4> QED BY <2>1, <4>1, SettledDone
    <3> QED BY <2>1, <3>1, <3>2, AnsweredLogin, AnsweredQUIT, AnsweredABOR, AnsweredPath, AnsweredSecurity
  <2> QED BY <2>2, <2>3
<1> QED BY <1>1, <1>2

(* The answer is written after the handler, which may end the session. *)
LEMMA RepliedDone ==
    ASSUME NEW s, NEW t, FtpDone(s, t), NEW b
    PROVE  FtpDone(s, Replied(t, b)) /\ FtpDone(s, Replied(WithSt(t, "QUIT"), b))
<1>1. IsFtp(t) /\ FtpEnds(t) /\ t.watch \subseteq Sides
  BY DEF FtpDone, FtpReady, FtpOver
<1>2. \A u : IsFtp(u) => FtpKept(u, Replied(u, b), Aside)
  BY RepliedIs, KeptMore DEF Aside
<1> DEFINE q == WithSt(t, "QUIT")
<1>3. FtpOver(q) /\ q.conf = t.conf /\ q.auth = t.auth /\ q.xfer = t.xfer
  BY <1>1, QuitOver
<1> HIDE DEF q
<1>4. FtpDone(s, q) /\ IsFtp(q)
  BY <1>3 DEF FtpDone, FtpOver
<1>5. FtpDone(s, Replied(q, b))
  BY <1>2, <1>4, AsideDone
<1>6. FtpDone(s, Replied(t, b))
  BY <1>1, <1>2, AsideDone
<1> QED BY <1>5, <1>6 DEF q

(* The whole of ftp_answer_process.  A policy that does not leave an answer  *)
(* to its handler is one of which nothing is claimed.                        *)
LEMMA AnswerProcessDone ==
    ASSUME NEW s, Answering(s), FtpSettled(s) \/ AwaitsPort(s), NEW d, NEW t \in AnswerProcess(s, d)
    PROVE  FtpDone(s, t)
<1> DEFINE rs(v) == IF v = "ACCEPT" THEN AnswerHandled(s, d) ELSE {<<v, s>>}
           b(r) == d # "1" \/ r[1] = "REJECT"
           out(v, r) == CASE r[1] = "NOOP" -> r[2]
                          [] r[1] = "ABORT" -> Replied(WithSt(r[2], "QUIT"), TRUE)
                          [] OTHER -> Replied(r[2], b(r))
<1>1. AnswerProcess(s, d) = UNION {{out(v, r) : r \in rs(v)} : v \in AnswerHashDo(s)}
  BY DEF AnswerProcess, WithSt
<1>2. PICK v \in AnswerHashDo(s) : t \in {out(v, r) : r \in rs(v)}
  <2> HIDE DEF rs, out
  <2> QED BY <1>1
<1>3. PICK r \in rs(v) : t = out(v, r)
  <2> HIDE DEF rs, out
  <2> QED BY <1>2
<1>4. FtpDone(s, r[2])
  <2>1. CASE v = "ACCEPT"
    <3>1. r \in AnswerHandled(s, d)
      BY <1>3, <2>1
    <3> QED BY <3>1, AnswerHandledDone
  <2>2. CASE v # "ACCEPT"
    <3>1. r = <<v, s>> /\ s.conf.answers # {"ACCEPT"}
      BY <1>2, <1>3, <2>2 DEF AnswerHashDo
    <3>2. FtpSettled(s) /\ FtpKept(s, s, Aside \union {"fs"}) /\ r[2] = s
      BY <3>1 DEF FtpSettled, Calm, Answering, FtpKept
    <3> QED BY <3>2, SettledDone
  <2> QED BY <2>1, <2>2
<1> DEFINE e == TRUE
           f == b(r)
<1>5. t = r[2] \/ t = Replied(WithSt(r[2], "QUIT"), e) \/ t = Replied(r[2], f)
  BY <1>3
<1> HIDE DEF e, f, b, out, rs
<1> QED BY <1>4, <1>5, RepliedDone

-----------------------------------------------------------------------------
(* FTP: one step of the session. *)
FtpStep(s, t) == FtpInv(t) /\ Approved(s, t)

(* A session on whose data channel nothing has happened. *)
LEMMA BlankInv ==
    ASSUME NEW t, IsFtp(t), t.conf \in FtpConfs, t.watch \subseteq Sides, t.approved \subseteq Sides, Blank(t),
           Starting(t) => t.fs \notin Talking \union {"RENAME"},
           FtpAuthed(t) \/ (t.st \in {"INIT", "NT_CLIENT_TO_PROXY", "QUIT", "ended"} /\ t.peer.login = "none")
    PROVE  FtpInv(t)
<1>1. t.bits = {} /\ t.how = [C |-> "none", S |-> "none"] /\ t.strm = {}
  BY DEF Blank
<1>2. t.how \in [Sides -> Hows]
  BY <1>1 DEF Sides, Hows
<1>3. FtpEnds(t)
  BY <1>1, <1>2 DEF FtpEnds, Hows, Sides
<1>4. FtpSettled(t) /\ "COMMAND_START" \notin t.bits
  BY <1>1 DEF FtpSettled
<1> QED BY <1>3, <1>4 DEF FtpInv

(* A session that goes on or is over, authenticated. *)
LEMMA ReadyInv ==
    ASSUME NEW t, FtpReady(t) \/ FtpOver(t), t.conf \in FtpConfs, FtpAuthed(t)
    PROVE  FtpInv(t)
BY DEF FtpReady, FtpOver, FtpInv, Alive, Starting

(* A session whose session is quit keeps its ends. *)
LEMMA QuitInv ==
    ASSUME NEW s, FtpInv(s), NEW t, t = WithSt(s, "QUIT")
    PROVE  FtpInv(t) /\ t.xfer = s.xfer
<1>1. IsFtp(s) /\ FtpEnds(s) /\ s.watch \subseteq Sides /\ s.conf \in FtpConfs
  BY DEF FtpInv
<1>2. FtpOver(t) /\ t.conf = s.conf /\ t.auth = s.auth /\ t.xfer = s.xfer /\ t.peer = s.peer /\ t.how = s.how
  BY <1>1, QuitOver
<1>3. CASE FtpAuthed(s)
  BY <1>1, <1>2, <1>3, ReadyInv DEF FtpAuthed
<1>4. CASE Blank(s) /\ s.peer.login = "none"
  <2>1. FtpKept(s, t, {"st"})
    BY <1>1, WithStIs
  <2>2. /\ t.bits = s.bits /\ t.strm = s.strm /\ t.approved = s.approved /\ t.watch = s.watch /\ t.st = "QUIT" /\ IsFtp(t)
    BY <1>2, <2>1 DEF FtpKept, FtpFields, FtpOver
  <2>3. Blank(t) /\ t.approved \subseteq Sides
    BY <1>1, <1>2, <1>4, <2>2 DEF Blank, FtpEnds
  <2> QED BY <1>1, <1>2, <1>4, <2>2, <2>3, BlankInv DEF Starting
<1> QED BY <1>2, <1>3, <1>4 DEF FtpInv

(* What is beside the data channel and the login may change. *)
LEMMA AsideInv ==
    ASSUME NEW s, FtpInv(s), NEW t, FtpKept(s, t, Aside \ {"peer"})
    PROVE  FtpInv(t) /\ t.xfer = s.xfer
<1>1. FtpKept(s, t, Aside) /\ t.peer = s.peer
  BY DEF FtpKept, FtpFields, Aside
<1>2. /\ t.st = s.st /\ t.fs = s.fs /\ t.cmd = s.cmd /\ t.watch = s.watch /\ t.bits = s.bits /\ t.how = s.how
      /\ t.strm = s.strm /\ t.approved = s.approved /\ t.xfer = s.xfer /\ t.conf = s.conf /\ t.auth = s.auth /\ IsFtp(t)
  BY <1>1, AsideSame
<1>3. FtpEnds(t) /\ (FtpSettled(s) => FtpSettled(t))
  BY <1>2, EndsSame, SettledSame DEF FtpInv
<1> QED BY <1>1, <1>2, <1>3 DEF Unbegun, FtpInv, Alive, Starting, Blank, AwaitsPort, FtpAuthed

(* An answer may be written. *)
LEMMA RepliedInv ==
    ASSUME NEW s, FtpInv(s), NEW b
    PROVE  FtpInv(Replied(s, b)) /\ Replied(s, b).xfer = s.xfer
<1>1. FtpKept(s, Replied(s, b), Aside \ {"peer"})
  BY RepliedIs, KeptMore DEF FtpInv, Aside
<1> QED BY <1>1, AsideInv

(* A session may quit at any time. *)
LEMMA QuitStep ==
    ASSUME NEW s, FtpInv(s), NEW t, t = Quit(s) \/ t = Quit(Replied(s, FALSE)) \/ t = Quit(Replied(s, TRUE))
    PROVE  FtpStep(s, t) /\ t.xfer = s.xfer
<1> DEFINE no == FALSE
           yes == TRUE
<1>1. t = WithSt(s, "QUIT") \/ t = WithSt(Replied(s, no), "QUIT") \/ t = WithSt(Replied(s, yes), "QUIT")
  BY DEF Quit, WithSt
<1> HIDE DEF no, yes
<1>2. FtpInv(t) /\ t.xfer = s.xfer
  BY <1>1, RepliedInv, QuitInv
<1> QED BY <1>2 DEF FtpStep, Approved

(* What is left after a command or an answer, polled once more. *)
LEMMA PollDone ==
    ASSUME NEW s, s.conf \in FtpConfs, FtpAuthed(s), NEW t, FtpDone(s, t), NEW u \in AfterPoll(t)
    PROVE  FtpStep(s, u)
<1>1. t.conf = s.conf /\ (s.auth => t.auth) /\ (t.xfer = s.xfer \/ (s.xfer = "runs" /\ t.xfer = "cancelled"))
  BY DEF FtpDone
<1>2. CASE FtpReady(t)
  <2>1. FtpReady(u) /\ FtpKept(t, u, DataFields) /\ Approved(t, u)
    BY <1>2, AfterPollReady
  <2>2. u.conf = t.conf /\ u.auth = t.auth
    BY <2>1 DEF FtpKept, FtpFields, DataFields
  <2>3. FtpInv(u)
    BY <1>1, <2>1, <2>2, ReadyInv DEF FtpAuthed
  <2>4. Approved(s, u)
    BY <1>1, <2>1 DEF Approved, Calm
  <2> QED BY <2>3, <2>4 DEF FtpStep
<1>3. CASE FtpOver(t)
  <2>1. IsFtp(t) /\ t.st = "QUIT" /\ FtpEnds(t) /\ t.watch \subseteq Sides
    BY <1>3 DEF FtpOver
  <2>2. FtpKept(t, u, {"xfer"}) /\ u.xfer \in {t.xfer, "cancelled"}
    BY <2>1, AfterPollQuit
  <2>3. /\ u.conf = t.conf /\ u.auth = t.auth /\ u.st = t.st /\ u.watch = t.watch /\ IsFtp(u)
        /\ u.how = t.how /\ u.strm = t.strm /\ u.approved = t.approved /\ u.bits = t.bits
    BY <2>2 DEF FtpKept, FtpFields
  <2>4. FtpEnds(u)
    BY <2>1, <2>3, EndsSame
  <2>5. FtpOver(u)
    BY <2>1, <2>3, <2>4 DEF FtpOver
  <2>6. FtpInv(u)
    BY <1>1, <2>3, <2>5, ReadyInv DEF FtpAuthed
  <2>7. Approved(s, u)
    BY <1>1, <2>2 DEF Approved
  <2> QED BY <2>6, <2>7 DEF FtpStep
<1> QED BY <1>2, <1>3 DEF FtpDone

(* The server is connected and greets. *)
LEMMA ServerConnectedIs ==
    ASSUME NEW s, IsFtp(s)
    PROVE  FtpKept(s, ServerConnected(s), {"wire", "peer"})
<1> DEFINE c == ServerConnected(s)
           p == [login |-> "out", prot |-> FALSE]
<1>1. c = [s EXCEPT !.wire = Greeting, !.peer = p]
  BY DEF ServerConnected
<1> HIDE DEF c, p
<1>2. IsFtp(c)
  BY <1>1 DEF IsFtp, FtpFields
<1>3. \A f \in FtpFields \ {"wire", "peer"} : c[f] = s[f]
  BY <1>1 DEF IsFtp, FtpFields
<1> QED BY <1>2, <1>3 DEF FtpKept, c

(* Where the session's mode begins or changes. *)
Mode(s, a, b, c) == [s EXCEPT !.st = a, !.watch = b, !.fs = c]
Phase(s, a, c) == [s EXCEPT !.st = a, !.fs = c]
(* Three assignments. *)
LEMMA ModeIs ==
    ASSUME NEW s, IsFtp(s), NEW a, NEW b, NEW c, NEW t, t = Mode(s, a, b, c)
    PROVE  FtpKept(s, t, {"st", "watch", "fs"}) /\ t.st = a /\ t.watch = b /\ t.fs = c
<1>1. IsFtp(t)
  BY DEF IsFtp, FtpFields, Mode
<1>2. \A f \in FtpFields \ {"st", "watch", "fs"} : t[f] = s[f]
  BY DEF IsFtp, FtpFields, Mode
<1>3. t.st = a
  BY DEF IsFtp, FtpFields, Mode
<1>4. t.watch = b
  BY DEF IsFtp, FtpFields, Mode
<1>5. t.fs = c
  BY DEF IsFtp, FtpFields, Mode
<1> QED BY <1>1, <1>2, <1>3, <1>4, <1>5 DEF FtpKept

(* Two assignments. *)
LEMMA PhaseIs ==
    ASSUME NEW s, IsFtp(s), NEW a, NEW c, NEW t, t = Phase(s, a, c)
    PROVE  FtpKept(s, t, {"st", "fs"}) /\ t.st = a /\ t.fs = c
<1>1. IsFtp(t)
  BY DEF IsFtp, FtpFields, Phase
<1>2. \A f \in FtpFields \ {"st", "fs"} : t[f] = s[f]
  BY DEF IsFtp, FtpFields, Phase
<1>3. t.st = a
  BY DEF IsFtp, FtpFields, Phase
<1>5. t.fs = c
  BY DEF IsFtp, FtpFields, Phase
<1> QED BY <1>1, <1>2, <1>3, <1>5 DEF FtpKept

(* A step that leaves the data channel blank. *)
EarlyFields == {"st", "fs", "cmd", "watch", "auth"} \union Aside
(* Such a step keeps the invariant. *)
LEMMA EarlyStep ==
    ASSUME NEW s, FtpInv(s), Blank(s), NEW t, FtpKept(s, t, EarlyFields), t.watch \subseteq Sides,
           Starting(t) => t.fs \notin Talking \union {"RENAME"},
           FtpAuthed(t) \/ (t.st \in {"INIT", "NT_CLIENT_TO_PROXY", "QUIT", "ended"} /\ t.peer.login = "none")
    PROVE  FtpStep(s, t)
<1>1. /\ IsFtp(t) /\ t.conf = s.conf /\ t.bits = s.bits /\ t.how = s.how /\ t.strm = s.strm /\ t.approved = s.approved
      /\ t.xfer = s.xfer
  BY DEF FtpKept, FtpFields, EarlyFields, Aside
<1>2. Blank(t) /\ t.conf \in FtpConfs /\ t.approved \subseteq Sides
  BY <1>1 DEF Blank, FtpInv, FtpEnds
<1>3. FtpInv(t)
  BY <1>1, <1>2, BlankInv
<1>4. Approved(s, t)
  BY <1>1 DEF Approved
<1> QED BY <1>3, <1>4 DEF FtpStep

(* FtpStart *)
LEMMA StartStep ==
    ASSUME NEW s, FtpInv(s), s.st = "INIT", NEW t,
           t \in IF s.conf.transparent
                 THEN {[ServerConnected(s) EXCEPT !.st = "SERVER_TO_CLIENT", !.watch = {"S"}, !.fs = "LOGIN"], Quit(s)}
                 ELSE {[Replied(s, TRUE) EXCEPT !.fs = "PRECONNECT", !.st = "NT_CLIENT_TO_PROXY"]}
    PROVE  FtpStep(s, t)
<1>0. Blank(s) /\ IsFtp(s)
  BY DEF FtpInv, Starting
<1>1. CASE t = Quit(s)
  BY <1>1, QuitStep
<1>2. CASE s.conf.transparent /\ t = [ServerConnected(s) EXCEPT !.st = "SERVER_TO_CLIENT", !.watch = {"S"}, !.fs = "LOGIN"]
  <2> DEFINE c == ServerConnected(s)
  <2>1. FtpKept(s, c, {"wire", "peer"}) /\ IsFtp(c)
    BY <1>0, ServerConnectedIs DEF FtpKept
  <2>2. t = Mode(c, "SERVER_TO_CLIENT", {"S"}, "LOGIN")
    BY <1>2 DEF Mode
  <2> HIDE DEF c
  <2>3. FtpKept(c, t, {"st", "watch", "fs"}) /\ t.st = "SERVER_TO_CLIENT" /\ t.watch = {"S"} /\ t.fs = "LOGIN"
    BY <2>1, <2>2, ModeIs
  <2>4. FtpKept(s, t, EarlyFields) /\ t.conf = s.conf
    BY <2>1, <2>3 DEF FtpKept, FtpFields, EarlyFields, Aside
  <2>5. FtpAuthed(t) /\ t.watch \subseteq Sides /\ ~Starting(t)
    BY <1>2, <2>3, <2>4 DEF FtpAuthed, Sides, Starting
  <2> QED BY <1>0, <2>4, <2>5, EarlyStep
<1>3. CASE t = [Replied(s, TRUE) EXCEPT !.fs = "PRECONNECT", !.st = "NT_CLIENT_TO_PROXY"]
  <2> DEFINE c == Replied(s, TRUE)
  <2>1. FtpKept(s, c, {"drop", "owed"}) /\ IsFtp(c)
    BY <1>0, RepliedKept
  <2>2. t = Phase(c, "NT_CLIENT_TO_PROXY", "PRECONNECT")
    BY <1>3 DEF Phase
  <2> HIDE DEF c
  <2>3. FtpKept(c, t, {"st", "fs"}) /\ t.st = "NT_CLIENT_TO_PROXY" /\ t.fs = "PRECONNECT"
    BY <2>1, <2>2, PhaseIs
  <2>4. FtpKept(s, t, EarlyFields) /\ t.conf = s.conf /\ t.peer = s.peer /\ t.auth = s.auth /\ t.watch = s.watch
    BY <2>1, <2>3 DEF FtpKept, FtpFields, EarlyFields, Aside
  <2>5. FtpAuthed(t) \/ t.peer.login = "none"
    BY <2>4 DEF FtpInv, FtpAuthed
  <2>6. t.watch \subseteq Sides /\ t.fs \notin Talking \union {"RENAME"}
    BY <2>3, <2>4 DEF FtpInv, Talking
  <2> QED BY <1>0, <2>3, <2>4, <2>5, <2>6, EarlyStep
<1> QED BY <1>1, <1>2, <1>3

(* A command that is read. *)
WithCommand(s, c) ==
    [s EXCEPT !.cmd = c, !.n = @ + 1, !.owed = Asked(s)]
(* It is counted. *)
LEMMA WithCommandIs ==
    ASSUME NEW s, IsFtp(s), NEW c
    PROVE  FtpKept(s, WithCommand(s, c), {"cmd", "n", "owed"})
<1> DEFINE t == WithCommand(s, c)
           m == s.n + 1
           o == Asked(s)
<1>1. t = [s EXCEPT !.cmd = c, !.n = m, !.owed = o]
  BY DEF WithCommand
<1> HIDE DEF t, m, o
<1>2. IsFtp(t)
  BY <1>1 DEF IsFtp, FtpFields
<1>3. \A f \in FtpFields \ {"cmd", "n", "owed"} : t[f] = s[f]
  BY <1>1 DEF IsFtp, FtpFields
<1> QED BY <1>2, <1>3 DEF FtpKept, t

(* A line of the client: read in vain or processed. *)
LEMMA CommandedIs ==
    ASSUME NEW s, NEW t \in Commanded(s)
    PROVE  \/ t = Quit(s) \/ t = Quit(Replied(s, FALSE))
           \/ \E c \in s.conf.sends : t \in CommandProcess(WithCommand(s, c))
BY DEF Commanded, CommandFetchFails, WithCommand

(* ftp_proto_nt_client_to_proxy up to the connection of the server. *)
LEMMA NtCommanded ==
    ASSUME NEW s, FtpInv(s), s.st = "NT_CLIENT_TO_PROXY", NEW x \in Commanded(s)
    PROVE  /\ FtpKept(s, x, EarlyFields \ {"peer"}) /\ (s.auth => x.auth) /\ x.st \in {"NT_CLIENT_TO_PROXY", "QUIT"}
           /\ x.fs \notin Talking \union {"RENAME"} /\ x.watch = s.watch
<1>0. IsFtp(s) /\ s.fs \notin Talking \union {"RENAME"} /\ s.conf \in FtpConfs
  BY DEF FtpInv, Starting
<1>1. CASE x = Quit(s) \/ x = Quit(Replied(s, FALSE))
  <2> DEFINE r == Replied(s, FALSE)
  <2>1. FtpKept(s, r, {"drop", "owed"}) /\ IsFtp(r) /\ FtpKept(s, s, {"drop", "owed"})
    BY <1>0, RepliedKept DEF FtpKept
  <2>2. x = WithSt(s, "QUIT") \/ x = WithSt(r, "QUIT")
    BY <1>1 DEF Quit, WithSt
  <2> HIDE DEF r
  <2>3. PICK y \in {s, r} : x = WithSt(y, "QUIT")
    BY <2>2
  <2>4. FtpKept(y, x, {"st"}) /\ x.st = "QUIT" /\ FtpKept(s, y, {"drop", "owed"})
    BY <1>0, <2>1, <2>3, WithStIs
  <2> QED BY <1>0, <2>4 DEF FtpKept, FtpFields, EarlyFields, Aside
<1>2. ASSUME NEW c, x \in CommandProcess(WithCommand(s, c))
      PROVE  /\ FtpKept(s, x, EarlyFields \ {"peer"}) /\ (s.auth => x.auth) /\ x.st \in {"NT_CLIENT_TO_PROXY", "QUIT"}
             /\ x.fs \notin Talking \union {"RENAME"} /\ x.watch = s.watch
  <2> DEFINE y == WithCommand(s, c)
  <2>1. FtpKept(s, y, {"cmd", "n", "owed"})
    BY <1>0, WithCommandIs
  <2> HIDE DEF y
  <2>2. IsFtp(y) /\ y.conf = s.conf /\ y.st = s.st /\ y.fs = s.fs /\ y.auth = s.auth /\ y.watch = s.watch
    BY <2>1 DEF FtpKept, FtpFields
  <2>3. x \in CommandProcess(y)
    BY <1>2 DEF y
  <2>4. /\ FtpKept(y, x, ParseFields) /\ (y.auth => x.auth) /\ x.st \in {"NT_CLIENT_TO_PROXY", "QUIT"}
        /\ x.fs \notin Talking \union {"RENAME"} /\ x.watch = y.watch
    BY <1>0, <2>2, <2>3, CommandProcessEarly
  <2>5. FtpKept(s, x, EarlyFields \ {"peer"})
    BY <2>1, <2>4 DEF FtpKept, FtpFields, EarlyFields, Aside, ParseFields
  <2> QED BY <2>2, <2>4, <2>5
<1> QED BY <1>1, <1>2, CommandedIs

(* ftp_proto_nt_client_to_proxy: the server is connected when the client is authenticated. *)
LEMMA NtClientStep ==
    ASSUME NEW s, FtpInv(s), s.st = "NT_CLIENT_TO_PROXY", NEW x \in Commanded(s), NEW t \in NtAfter(x)
    PROVE  FtpStep(s, t)
<1>0. /\ FtpKept(s, x, EarlyFields \ {"peer"}) /\ (s.auth => x.auth) /\ x.st \in {"NT_CLIENT_TO_PROXY", "QUIT"}
      /\ x.fs \notin Talking \union {"RENAME"} /\ x.watch = s.watch
  BY NtCommanded
<1>1. IsFtp(x) /\ FtpKept(s, x, EarlyFields) /\ x.conf = s.conf /\ x.peer = s.peer /\ Blank(s) /\ s.watch \subseteq Sides
  BY <1>0 DEF FtpKept, FtpFields, EarlyFields, Aside, FtpInv, Starting
<1>2. FtpAuthed(x) \/ x.peer.login = "none"
  BY <1>0, <1>1 DEF FtpInv, FtpAuthed
<1>3. \/ t = x \/ t = Quit(x)
      \/ /\ t = [ServerConnected(x) EXCEPT !.st = "NT_SERVER_TO_PROXY", !.fs = "PRECONNECT"]
         /\ ~(x.conf.auth /\ ~x.auth)
  BY DEF NtAfter
<1>4. CASE t = x
  BY <1>0, <1>1, <1>2, <1>4, EarlyStep
<1>5. CASE t = Quit(x)
  <2>1. t = WithSt(x, "QUIT")
    BY <1>5 DEF Quit, WithSt
  <2>2. FtpKept(x, t, {"st"}) /\ t.st = "QUIT"
    BY <1>1, <2>1, WithStIs
  <2>3. FtpKept(s, t, EarlyFields) /\ t.watch = s.watch /\ t.peer = x.peer /\ t.conf = x.conf /\ t.auth = x.auth
    BY <1>0, <1>1, <2>2 DEF FtpKept, FtpFields, EarlyFields, Aside
  <2>4. FtpAuthed(t) \/ t.peer.login = "none"
    BY <1>2, <2>3 DEF FtpAuthed
  <2>5. ~Starting(t)
    BY <2>2 DEF Starting
  <2> QED BY <1>1, <2>2, <2>3, <2>4, <2>5, EarlyStep
<1>6. CASE /\ t = [ServerConnected(x) EXCEPT !.st = "NT_SERVER_TO_PROXY", !.fs = "PRECONNECT"]
           /\ ~(x.conf.auth /\ ~x.auth)
  <2> DEFINE c == ServerConnected(x)
  <2>1. FtpKept(x, c, {"wire", "peer"}) /\ IsFtp(c)
    BY <1>1, ServerConnectedIs DEF FtpKept
  <2>2. t = Phase(c, "NT_SERVER_TO_PROXY", "PRECONNECT")
    BY <1>6 DEF Phase
  <2> HIDE DEF c
  <2>3. FtpKept(c, t, {"st", "fs"}) /\ t.st = "NT_SERVER_TO_PROXY" /\ t.fs = "PRECONNECT"
    BY <2>1, <2>2, PhaseIs
  <2>4. FtpKept(s, t, EarlyFields) /\ t.conf = x.conf /\ t.auth = x.auth /\ t.watch = s.watch
    BY <1>0, <1>1, <2>1, <2>3 DEF FtpKept, FtpFields, EarlyFields, Aside
  <2>5. FtpAuthed(t)
    BY <1>6, <2>4 DEF FtpAuthed
  <2>6. t.watch \subseteq Sides /\ t.fs \notin Talking \union {"RENAME"}
    BY <1>1, <2>3, <2>4 DEF Talking
  <2> QED BY <1>1, <2>4, <2>5, <2>6, EarlyStep
<1> QED BY <1>3, <1>4, <1>5, <1>6

(* ftp_proto_nt_server_to_proxy *)
WithWire(s, w, o) == [s EXCEPT !.wire = w, !.owed = o]
WithTls(s, w) == [s EXCEPT !.tls = w]
(* Two assignments. *)
LEMMA WithWireIs ==
    ASSUME NEW s, IsFtp(s), NEW w, NEW o
    PROVE  FtpKept(s, WithWire(s, w, o), {"wire", "owed"}) /\ FtpKept(s, WithTls(s, w), {"tls"})
<1> DEFINE t == WithWire(s, w, o)
           u == WithTls(s, w)
<1>1. IsFtp(t)
  BY DEF IsFtp, FtpFields, WithWire
<1>2. \A f \in FtpFields \ {"wire", "owed"} : t[f] = s[f]
  BY DEF IsFtp, FtpFields, WithWire
<1>3. IsFtp(u)
  BY DEF IsFtp, FtpFields, WithTls
<1>4. \A f \in FtpFields \ {"tls"} : u[f] = s[f]
  BY DEF IsFtp, FtpFields, WithTls
<1> QED BY <1>1, <1>2, <1>3, <1>4 DEF FtpKept

Replays == {"PRECONNECT_AUTH", "PRECONNECT_PBSZ", "PRECONNECT_PROT", "PRECONNECT_LOGIN_U"}
(* Each of the ways ftp_proto_nt_server_to_proxy goes on. *)
LEMMA NtReplayIs ==
    ASSUME NEW u, NEW d, NEW t \in NtReplay(u, d)
    PROVE  \/ t = u \/ t = Quit(u) \/ t = Quit(Replied(u, TRUE))
           \/ t = Mode(Replied(u, TRUE), "CLIENT_TO_SERVER", {"C"}, "CONVERSATION")
           \/ t \in Told(Mode(u, "SERVER_TO_CLIENT", {"S"}, "LOGIN_P"), "PASS")
           \/ \E f \in Replays, c \in {"AUTH", "USER", "PBSZ", "PROT"} :
                 t \in Told(WithFs(u, f), c) \/ t \in Told(WithFs(WithTls(u, u.tls \union {"S"}), f), c)
<1>1. CASE u.fs = "PRECONNECT"
  <2>1. t = u \/ t \in Told(WithFs(u, "PRECONNECT_AUTH"), "AUTH") \/ t \in Told(WithFs(u, "PRECONNECT_LOGIN_U"), "USER")
    BY <1>1 DEF NtReplay, SendUSER, WithFs
  <2> QED BY <2>1 DEF Replays
<1>2. CASE u.fs = "PRECONNECT_AUTH"
  <2> DEFINE v == WithTls(u, u.tls \union {"S"})
  <2>1. t = Quit(Replied(u, TRUE)) \/ t \in Told(WithFs(v, "PRECONNECT_PBSZ"), "PBSZ") \/ t \in Told(WithFs(v, "PRECONNECT_LOGIN_U"), "USER")
    BY <1>2 DEF NtReplay, SendUSER, WithFs, WithTls
  <2> QED BY <2>1 DEF Replays
<1>3. CASE u.fs = "PRECONNECT_PBSZ"
  <2>1. t = Quit(Replied(u, TRUE)) \/ t \in Told(WithFs(u, "PRECONNECT_PROT"), "PROT") \/ t \in Told(WithFs(u, "PRECONNECT_LOGIN_U"), "USER")
    BY <1>3 DEF NtReplay, SendUSER, WithFs
  <2> QED BY <2>1 DEF Replays
<1>4. CASE u.fs = "PRECONNECT_PROT"
  <2>1. t = Quit(Replied(u, TRUE)) \/ t \in Told(WithFs(u, "PRECONNECT_LOGIN_U"), "USER")
    BY <1>4 DEF NtReplay, SendUSER, WithFs
  <2> QED BY <2>1 DEF Replays
<1>5. CASE u.fs = "PRECONNECT_LOGIN_U"
  BY <1>5 DEF NtReplay, Mode
<1>6. CASE u.fs \notin Replays \union {"PRECONNECT"}
  BY <1>6 DEF NtReplay, Replays
<1> QED BY <1>1, <1>2, <1>3, <1>4, <1>5, <1>6 DEF Replays

(* None of them touches the data channel. *)
LEMMA NtServerStep ==
    ASSUME NEW s, FtpInv(s), s.st = "NT_SERVER_TO_PROXY", NEW d, NEW w, NEW o, NEW t \in NtReplay(WithWire(s, w, o), d)
    PROVE  FtpStep(s, t)
<1>0. IsFtp(s) /\ Blank(s) /\ s.fs \notin Talking \union {"RENAME"} /\ FtpAuthed(s) /\ s.watch \subseteq Sides
  BY DEF FtpInv, Starting
<1> DEFINE u == WithWire(s, w, o)
           r == Replied(u, TRUE)
           v == WithTls(u, u.tls \union {"S"})
<1>1. FtpKept(s, u, {"wire", "owed"})
  BY <1>0, WithWireIs
<1>1a. IsFtp(u)
  BY <1>1 DEF FtpKept
<1>2. FtpKept(u, r, Aside)
  BY <1>1a, RepliedAside
<1>3. FtpKept(u, v, {"tls"})
  BY <1>1a, WithWireIs
<1>4. /\ FtpKept(s, u, Aside) /\ FtpKept(s, r, Aside) /\ FtpKept(s, v, Aside)
  <2> HIDE DEF u, r, v
  <2> QED BY <1>1, <1>2, <1>3 DEF FtpKept, Aside
<1>5. ASSUME NEW y, FtpKept(s, y, Aside \union {"fs", "st", "watch"}), NEW z, FtpKept(y, z, Aside),
             y.watch \subseteq Sides, Starting(y) => y.fs \notin Talking \union {"RENAME"}
      PROVE  FtpStep(s, z)
  <2>1. FtpKept(s, z, EarlyFields) /\ z.auth = s.auth /\ z.conf = s.conf /\ z.st = y.st /\ z.fs = y.fs /\ z.watch = y.watch
    BY <1>5 DEF FtpKept, FtpFields, EarlyFields, Aside
  <2>2. FtpAuthed(z) /\ (Starting(z) <=> Starting(y))
    BY <1>0, <2>1 DEF FtpAuthed, Starting
  <2> QED BY <1>0, <1>5, <2>1, <2>2, EarlyStep
<1>6. ASSUME NEW y, FtpKept(s, y, Aside)
      PROVE  /\ FtpStep(s, y) /\ FtpStep(s, WithSt(y, "QUIT"))
             /\ FtpStep(s, Mode(y, "CLIENT_TO_SERVER", {"C"}, "CONVERSATION"))
             /\ \A z \in Told(Mode(y, "SERVER_TO_CLIENT", {"S"}, "LOGIN_P"), "PASS") : FtpStep(s, z)
             /\ \A f \in Replays : \A c : \A z \in Told(WithFs(y, f), c) : FtpStep(s, z)
  <2>0. IsFtp(y) /\ y.st = s.st /\ y.fs = s.fs /\ y.watch = s.watch
    BY <1>6 DEF FtpKept, FtpFields, Aside
  <2>1. FtpStep(s, y)
    <3>1. FtpKept(s, y, Aside \union {"fs", "st", "watch"}) /\ FtpKept(y, y, Aside)
      BY <1>6 DEF FtpKept
    <3> QED BY <1>0, <1>5, <2>0, <3>1
  <2>2. FtpStep(s, WithSt(y, "QUIT"))
    <3> DEFINE q == WithSt(y, "QUIT")
    <3>1. FtpKept(y, q, {"st"}) /\ q.st = "QUIT"
      BY <2>0, WithStIs
    <3> HIDE DEF q
    <3>2. FtpKept(s, q, Aside \union {"fs", "st", "watch"}) /\ FtpKept(q, q, Aside) /\ q.watch = s.watch /\ ~Starting(q)
      BY <1>6, <2>0, <3>1 DEF FtpKept, FtpFields, Starting, Aside
    <3>3. FtpStep(s, q)
      BY <1>0, <1>5, <3>2
    <3> QED BY <3>3 DEF q
  <2>3. ASSUME NEW a \in {"CLIENT_TO_SERVER", "SERVER_TO_CLIENT"}, NEW b \in {{"C"}, {"S"}}, NEW f, NEW z,
               z = Mode(y, a, b, f) \/ (\E c : z \in Told(Mode(y, a, b, f), c))
        PROVE  FtpStep(s, z)
    <3> DEFINE q == Mode(y, a, b, f)
    <3>1. FtpKept(y, q, {"st", "watch", "fs"}) /\ q.st = a /\ q.watch = b
      BY <2>0, ModeIs
    <3> HIDE DEF q
    <3>2. FtpKept(s, q, Aside \union {"fs", "st", "watch"}) /\ IsFtp(q) /\ FtpKept(q, q, Aside) /\ q.watch \subseteq Sides /\ ~Starting(q)
      BY <1>6, <2>0, <3>1 DEF FtpKept, FtpFields, Starting, Aside, Sides
    <3>3. z = q \/ \E c : z \in Told(q, c)
      BY <2>3 DEF q
    <3>4. FtpKept(q, z, Aside)
      BY <3>2, <3>3, ToldIs
    <3> QED BY <1>5, <3>2, <3>4
  <2>4. ASSUME NEW f \in Replays, NEW c, NEW z \in Told(WithFs(y, f), c)
        PROVE  FtpStep(s, z)
    <3> DEFINE q == WithFs(y, f)
    <3>1. FtpKept(y, q, {"fs"}) /\ q.fs = f
      BY <2>0, WithFsIs
    <3> HIDE DEF q
    <3>2. FtpKept(s, q, Aside \union {"fs", "st", "watch"}) /\ IsFtp(q) /\ q.watch = s.watch
      BY <1>6, <2>0, <3>1 DEF FtpKept, FtpFields, Aside
    <3>3. q.fs \notin Talking \union {"RENAME"}
      BY <3>1 DEF Replays, Talking
    <3>4. z \in Told(q, c)
      BY <2>4 DEF q
    <3>5. FtpKept(q, z, Aside)
      BY <3>2, <3>4, ToldIs
    <3> QED BY <1>0, <1>5, <3>2, <3>3, <3>5
  <2>5. FtpStep(s, Mode(y, "CLIENT_TO_SERVER", {"C"}, "CONVERSATION"))
    BY <2>3
  <2>6. \A z \in Told(Mode(y, "SERVER_TO_CLIENT", {"S"}, "LOGIN_P"), "PASS") : FtpStep(s, z)
    BY <2>3
  <2> QED BY <2>1, <2>2, <2>4, <2>5, <2>6
<1>7. \/ t = u \/ t = WithSt(u, "QUIT") \/ t = WithSt(r, "QUIT")
      \/ t = Mode(r, "CLIENT_TO_SERVER", {"C"}, "CONVERSATION")
      \/ t \in Told(Mode(u, "SERVER_TO_CLIENT", {"S"}, "LOGIN_P"), "PASS")
      \/ \E f \in Replays, c \in {"AUTH", "USER", "PBSZ", "PROT"} : t \in Told(WithFs(u, f), c) \/ t \in Told(WithFs(v, f), c)
  <2>1. Quit(u) = WithSt(u, "QUIT") /\ Quit(r) = WithSt(r, "QUIT")
    BY DEF Quit, WithSt
  <2> HIDE DEF u
  <2> QED BY <2>1, NtReplayIs DEF u
<1> HIDE DEF u, r, v
<1> QED BY <1>4, <1>6, <1>7

(* A session that polls, and what it then is. *)
PollStates == {"SERVER_TO_CLIENT", "CLIENT_TO_SERVER", "BOTH_SIDE"}
(* It has a server, so it is authenticated. *)
LEMMA PollingIs ==
    ASSUME NEW s, FtpInv(s), s.st \in PollStates
    PROVE  FtpReady(s) /\ FtpAuthed(s) /\ s.conf \in FtpConfs
BY DEF FtpInv, FtpReady, Alive, PollStates

Turned(s, a, w) == [s EXCEPT !.st = a, !.watch = w]
(* The turn is given to one side. *)
LEMMA TurnedIs ==
    ASSUME NEW s, IsFtp(s), NEW a, NEW w
    PROVE  FtpKept(s, Turned(s, a, w), {"st", "watch"}) /\ Turned(s, a, w).st = a /\ Turned(s, a, w).watch = w
<1> DEFINE t == Turned(s, a, w)
<1>1. IsFtp(t)
  BY DEF IsFtp, FtpFields, Turned
<1>2. \A f \in FtpFields \ {"st", "watch"} : t[f] = s[f]
  BY DEF IsFtp, FtpFields, Turned
<1>3. t.st = a
  BY DEF IsFtp, FtpFields, Turned
<1>4. t.watch = w
  BY DEF IsFtp, FtpFields, Turned
<1> QED BY <1>1, <1>2, <1>3, <1>4 DEF FtpKept

(* FtpClientData: a command. *)
LEMMA ClientStep ==
    ASSUME NEW s, FtpInv(s), s.st \in PollStates, "C" \in s.watch \/ s.conf.urgent,
           NEW x \in Commanded(Turned(s, "SERVER_TO_CLIENT", {"S"})), NEW t \in AfterPoll(x)
    PROVE  FtpStep(s, t)
<1>0. FtpReady(s) /\ FtpAuthed(s) /\ s.conf \in FtpConfs
  BY PollingIs
<1>1. IsFtp(s) /\ FtpEnds(s) /\ FtpSettled(s)
  BY <1>0 DEF FtpReady, FtpSettled, Calm
<1> DEFINE u == Turned(s, "SERVER_TO_CLIENT", {"S"})
<1>2. FtpKept(s, u, {"st", "watch"}) /\ u.st = "SERVER_TO_CLIENT" /\ u.watch = {"S"}
  BY <1>1, TurnedIs
<1>2a. x \in Commanded(u)
  OBVIOUS
<1> HIDE DEF u
<1>3. /\ IsFtp(u) /\ u.how = s.how /\ u.strm = s.strm /\ u.approved = s.approved /\ u.bits = s.bits /\ u.xfer = s.xfer
      /\ u.conf = s.conf /\ u.auth = s.auth
  BY <1>2 DEF FtpKept, FtpFields
<1>4. FtpEnds(u) /\ FtpSettled(u)
  BY <1>1, <1>3, EndsSame, SettledSame
<1>5. FtpDone(s, x)
  <2>1. CASE x = Quit(u) \/ x = Quit(Replied(u, FALSE))
    <3> DEFINE r == Replied(u, FALSE)
    <3>1. FtpKept(u, r, Aside)
      BY <1>3, RepliedAside
    <3>2. x = WithSt(u, "QUIT") \/ x = WithSt(r, "QUIT")
      BY <2>1 DEF Quit, WithSt
    <3> HIDE DEF r
    <3>3. /\ IsFtp(r) /\ r.how = u.how /\ r.strm = u.strm /\ r.approved = u.approved /\ r.bits = u.bits /\ r.xfer = u.xfer
          /\ r.conf = u.conf /\ r.auth = u.auth /\ r.watch = u.watch
      BY <3>1, AsideSame
    <3>4. FtpEnds(r) /\ r.watch \subseteq Sides /\ u.watch \subseteq Sides
      BY <1>2, <1>4, <3>3, EndsSame DEF Sides
    <3>5. PICK y \in {u, r} : x = WithSt(y, "QUIT")
      BY <3>2
    <3>6. FtpOver(x) /\ x.conf = y.conf /\ x.auth = y.auth /\ x.xfer = y.xfer
      BY <1>3, <1>4, <3>3, <3>4, <3>5, QuitOver
    <3> QED BY <1>3, <3>3, <3>5, <3>6 DEF FtpDone
  <2>2. ASSUME NEW c, x \in CommandProcess(WithCommand(u, c))
        PROVE  FtpDone(s, x)
    <3> DEFINE y == WithCommand(u, c)
    <3>1. FtpKept(u, y, {"cmd", "n", "owed"})
      BY <1>3, WithCommandIs
    <3> HIDE DEF y
    <3>2. /\ IsFtp(y) /\ y.how = u.how /\ y.strm = u.strm /\ y.approved = u.approved /\ y.bits = u.bits /\ y.xfer = u.xfer
          /\ y.conf = u.conf /\ y.auth = u.auth /\ y.st = u.st /\ y.watch = u.watch
      BY <3>1 DEF FtpKept, FtpFields
    <3>3. FtpEnds(y) /\ FtpSettled(y)
      BY <1>4, <3>2, EndsSame, SettledSame
    <3>4. x \in CommandProcess(y)
      BY <2>2 DEF y
    <3>5. FtpDone(y, x)
      BY <1>0, <1>2, <1>3, <3>2, <3>3, <3>4, CommandProcessDone
    <3> QED BY <1>3, <3>2, <3>5 DEF FtpDone
  <2> QED BY <1>2a, <2>1, <2>2, CommandedIs
<1> QED BY <1>0, <1>5, PollDone

(* FtpServerData: an answer. *)
LEMMA ServerStep ==
    ASSUME NEW s, FtpInv(s), s.st \in PollStates, "S" \in s.watch, NEW d, NEW w, NEW o, NEW x, NEW t \in AfterPoll(x),
           x = Quit(s) \/ x \in AnswerProcess(Turned(WithWire(s, w, o), "CLIENT_TO_SERVER", {"C"}), d)
    PROVE  FtpStep(s, t)
<1>0. FtpReady(s) /\ FtpAuthed(s) /\ s.conf \in FtpConfs
  BY PollingIs
<1>1. IsFtp(s) /\ FtpEnds(s) /\ s.watch \subseteq Sides /\ (FtpSettled(s) \/ AwaitsPort(s))
  BY <1>0 DEF FtpReady
<1>2. CASE x = Quit(s)
  <2>1. x = WithSt(s, "QUIT")
    BY <1>2 DEF Quit, WithSt
  <2>2. FtpOver(x) /\ x.conf = s.conf /\ x.auth = s.auth /\ x.xfer = s.xfer
    BY <1>1, <2>1, QuitOver
  <2>3. FtpDone(s, x)
    BY <2>2 DEF FtpDone
  <2> QED BY <1>0, <2>3, PollDone
<1>3. CASE x \in AnswerProcess(Turned(WithWire(s, w, o), "CLIENT_TO_SERVER", {"C"}), d)
  <2> DEFINE v == WithWire(s, w, o)
             u == Turned(v, "CLIENT_TO_SERVER", {"C"})
  <2>1. FtpKept(s, v, {"wire", "owed"}) /\ IsFtp(v)
    BY <1>1, WithWireIs DEF FtpKept
  <2>2. FtpKept(v, u, {"st", "watch"}) /\ u.st = "CLIENT_TO_SERVER" /\ u.watch = {"C"}
    <3> HIDE DEF v
    <3> QED BY <2>1, TurnedIs
  <2>3. x \in AnswerProcess(u, d)
    BY <1>3
  <2> HIDE DEF v, u
  <2>4. /\ IsFtp(u) /\ u.how = s.how /\ u.strm = s.strm /\ u.approved = s.approved /\ u.bits = s.bits /\ u.xfer = s.xfer
        /\ u.conf = s.conf /\ u.auth = s.auth /\ u.cmd = s.cmd /\ u.fs = s.fs
    BY <2>1, <2>2 DEF FtpKept, FtpFields
  <2>5. FtpEnds(u) /\ (FtpSettled(u) \/ AwaitsPort(u))
    BY <1>1, <2>4, EndsSame, SettledSame DEF AwaitsPort
  <2>6. Answering(u)
    BY <1>0, <2>2, <2>4, <2>5 DEF Answering, FtpReady, Unbegun
  <2>7. FtpDone(u, x)
    BY <2>3, <2>5, <2>6, AnswerProcessDone
  <2>8. FtpDone(s, x)
    BY <2>4, <2>7 DEF FtpDone
  <2> QED BY <1>0, <2>8, PollDone
<1> QED BY <1>2, <1>3

(* FtpWakeup: a callback has something for the thread. *)
LEMMA WakeupStep ==
    ASSUME NEW s, FtpInv(s), s.st \in PollStates, NEW t \in AfterPoll(s)
    PROVE  FtpStep(s, t)
<1>0. FtpReady(s) /\ FtpAuthed(s) /\ s.conf \in FtpConfs
  BY PollingIs
<1>1. FtpDone(s, s)
  BY <1>0 DEF FtpDone
<1> QED BY <1>0, <1>1, PollDone

(* The data channel is reset and the session stays alive. *)
LEMMA ResetStep ==
    ASSUME NEW s, FtpInv(s), FtpAuthed(s), ~Starting(s), NEW x, FtpKept(s, x, Aside \union {"xfer"}), x.xfer \in {"none", "cancelled"},
           NEW t, t = DataReset(x)
    PROVE  FtpInv(t) /\ t.xfer # "runs" /\ (x.xfer = "none" => t.xfer = "none")
<1>0. /\ IsFtp(x) /\ x.conf = s.conf /\ x.auth = s.auth /\ x.st = s.st /\ x.watch = s.watch /\ x.fs = s.fs
      /\ s.conf \in FtpConfs /\ s.watch \subseteq Sides
  BY DEF FtpKept, FtpFields, Aside, FtpInv
<1>1. FtpKept(x, t, DataFields) /\ FtpEnds(t) /\ FtpSettled(t) /\ t.bits = {}
  BY <1>0, ResetEnds
<1>2. /\ t.xfer = (IF x.xfer = "runs" THEN "cancelled" ELSE x.xfer)
      /\ \/ t.st = x.st /\ t.watch = x.watch
         \/ x.st # "QUIT" /\ t.st \in {"SERVER_TO_CLIENT", "CLIENT_TO_SERVER"} /\ t.watch \in {{"C"}, {"S"}}
  BY <1>0, DataResetIs
<1>3. t.conf = x.conf /\ t.auth = x.auth /\ IsFtp(t) /\ t.watch \subseteq Sides /\ ~Starting(t)
  BY <1>0, <1>1, <1>2 DEF FtpKept, FtpFields, DataFields, Sides, Starting
<1> QED BY <1>0, <1>1, <1>2, <1>3 DEF FtpInv, FtpAuthed

(* FtpTransferEnds *)
LEMMA BusyIs ==
    ASSUME NEW s, FtpInv(s), ~Blank(s)
    PROVE  FtpAuthed(s) /\ ~Starting(s)
BY DEF FtpInv

(* The announcement that was held back is written. *)
LEMMA PreambleIs ==
    ASSUME NEW s, IsFtp(s)
    PROVE  FtpKept(s, PreambleWritten(s), Aside)
<1> DEFINE r == Replied(s, FALSE)
           t == [r EXCEPT !.pre = FALSE]
<1>1. FtpKept(s, r, Aside) /\ IsFtp(r)
  BY RepliedAside
<1> HIDE DEF r
<1>2. IsFtp(t)
  BY <1>1 DEF IsFtp, FtpFields
<1>3. \A f \in FtpFields \ {"pre"} : t[f] = r[f]
  BY <1>1 DEF IsFtp, FtpFields
<1> HIDE DEF t
<1>4. FtpKept(s, t, Aside) /\ FtpKept(s, s, Aside)
  BY <1>1, <1>2, <1>3 DEF FtpKept, Aside
<1>5. PreambleWritten(s) = t \/ PreambleWritten(s) = s
  BY DEF PreambleWritten, t, r
<1> QED BY <1>4, <1>5

WithXfer(s, v) == [s EXCEPT !.xfer = v]
(* The transfer's state is assigned. *)
LEMMA WithXferIs ==
    ASSUME NEW s, IsFtp(s), NEW v
    PROVE  FtpKept(s, WithXfer(s, v), {"xfer"}) /\ WithXfer(s, v).xfer = v
<1> DEFINE t == WithXfer(s, v)
<1>1. IsFtp(t)
  BY DEF IsFtp, FtpFields, WithXfer
<1>2. \A f \in FtpFields \ {"xfer"} : t[f] = s[f]
  BY DEF IsFtp, FtpFields, WithXfer
<1>3. t.xfer = v
  BY DEF IsFtp, FtpFields, WithXfer
<1> QED BY <1>1, <1>2, <1>3 DEF FtpKept

(* A transfer that is called failed. *)
Blamed(s) == [s EXCEPT !.owed.line = s.owed.job]
FailedAs(s) == [Replied(Blamed(s), TRUE) EXCEPT !.drop = TRUE, !.owed.crossed = @ \/ s.n # s.owed.job]
(* Only answers are affected. *)
LEMMA FailedAsIs ==
    ASSUME NEW s, IsFtp(s)
    PROVE  FtpKept(s, FailedAs(s), Aside)
<1> DEFINE b == Blamed(s)
           o == [s.owed EXCEPT !.line = s.owed.job]
           r == Replied(b, TRUE)
           q == [r.owed EXCEPT !.crossed = @ \/ s.n # s.owed.job]
           yes == TRUE
           t == FailedAs(s)
<1>1. b = [s EXCEPT !.owed = o]
  BY DEF Blamed
<1>2. t = [r EXCEPT !.drop = yes, !.owed = q]
  BY DEF FailedAs
<1> HIDE DEF b, o
<1>3. IsFtp(b)
  BY <1>1 DEF IsFtp, FtpFields
<1>4. \A f \in FtpFields \ {"owed"} : b[f] = s[f]
  BY <1>1 DEF IsFtp, FtpFields
<1>5. FtpKept(b, r, Aside) /\ IsFtp(r)
  BY <1>3, RepliedAside
<1> HIDE DEF r, q, yes, t
<1>6. IsFtp(t)
  BY <1>2, <1>5 DEF IsFtp, FtpFields
<1>7. \A f \in FtpFields \ {"drop", "owed"} : t[f] = r[f]
  BY <1>2, <1>5 DEF IsFtp, FtpFields
<1> QED BY <1>4, <1>5, <1>6, <1>7 DEF FtpKept, Aside, t

(* The end of a transfer, as it was announced or not and failed or not. *)
LEMMA TransferEndStep ==
    ASSUME NEW s, FtpInv(s), s.xfer \in {"runs", "cancelled"}, NEW a \in {s, PreambleWritten(s)}, NEW x,
           x = a \/ x = FailedAs(a), NEW t, t = DataReset(WithXfer(x, "none"))
    PROVE  FtpStep(s, t)
<1>0. IsFtp(s) /\ FtpAuthed(s) /\ ~Starting(s)
  BY BusyIs DEF Blank, FtpInv
<1>1. FtpKept(s, a, Aside) /\ IsFtp(a)
  BY <1>0, PreambleIs DEF FtpKept
<1>2. FtpKept(s, x, Aside) /\ IsFtp(x)
  <2>1. FtpKept(a, FailedAs(a), Aside)
    BY <1>1, FailedAsIs
  <2>2. FtpKept(s, FailedAs(a), Aside)
    BY <1>1, <2>1, KeptTwice
  <2> QED BY <1>1, <2>2 DEF FtpKept
<1> DEFINE y == WithXfer(x, "none")
<1>3. FtpKept(x, y, {"xfer"}) /\ y.xfer = "none"
  BY <1>2, WithXferIs
<1>3a. t = DataReset(y)
  OBVIOUS
<1> HIDE DEF y
<1>4. FtpKept(s, y, Aside \union {"xfer"})
  BY <1>2, <1>3 DEF FtpKept
<1>5. FtpInv(t) /\ t.xfer # "runs"
  BY <1>0, <1>3, <1>3a, <1>4, ResetStep
<1> QED BY <1>5 DEF FtpStep, Approved

(* FtpMainEnds *)
LEMMA MainEndsStep ==
    ASSUME NEW s, FtpInv(s), s.st = "QUIT", s.xfer = "none", NEW t, t = WithSt(DataReset(s), "ended")
    PROVE  FtpStep(s, t)
<1>0. IsFtp(s) /\ s.watch \subseteq Sides /\ s.conf \in FtpConfs
  BY DEF FtpInv
<1> DEFINE r == DataReset(s)
<1>1. /\ FtpKept(s, r, DataFields) /\ r.how = [C |-> "none", S |-> "none"] /\ r.strm = {} /\ r.approved = {} /\ r.bits = {}
      /\ r.xfer = "none" /\ r.watch = s.watch
  BY <1>0, DataResetIs, ResetEnds
<1>2. t = WithSt(r, "ended")
  OBVIOUS
<1> HIDE DEF r
<1>3. IsFtp(r) /\ r.conf = s.conf /\ r.auth = s.auth /\ r.peer = s.peer
  BY <1>1 DEF FtpKept, FtpFields, DataFields
<1>4. FtpKept(r, t, {"st"}) /\ t.st = "ended"
  BY <1>2, <1>3, WithStIs
<1>5. /\ IsFtp(t) /\ t.conf = s.conf /\ t.auth = s.auth /\ t.peer = s.peer /\ t.watch = s.watch /\ t.approved = {}
      /\ t.how = [C |-> "none", S |-> "none"] /\ t.strm = {} /\ t.bits = {} /\ t.xfer = "none"
  BY <1>1, <1>3, <1>4 DEF FtpKept, FtpFields
<1>6. Blank(t) /\ t.approved \subseteq Sides /\ ~Starting(t)
  BY <1>4, <1>5 DEF Blank, Starting
<1>7. FtpAuthed(t) \/ t.peer.login = "none"
  BY <1>5 DEF FtpInv, FtpAuthed
<1>8. FtpInv(t)
  BY <1>0, <1>4, <1>5, <1>6, <1>7, BlankInv
<1> QED BY <1>5, <1>8 DEF FtpStep, Approved

(* The callbacks: a stream is there. *)
LEMMA ArrivedStep ==
    ASSUME NEW s, FtpInv(s), NEW side \in Sides, s.how[side] \in {"listen", "trying"}, NEW t, t = Arrived(s, side)
    PROVE  FtpStep(s, t)
<1>0. /\ IsFtp(s) /\ FtpEnds(s) /\ s.how \in [Sides -> Hows] /\ s.how # [C |-> "none", S |-> "none"]
  BY DEF FtpInv, FtpEnds, Hows, Sides
<1>1. FtpAuthed(s) /\ ~Starting(s)
  BY <1>0, BusyIs DEF Blank
<1> DEFINE strm == s.strm \union {side}
           bits == s.bits \union {Ready[side]}
           how == [s.how EXCEPT ![side] = IF @ = "trying" THEN "joined" ELSE @]
<1>2. t = [s EXCEPT !.strm = strm, !.bits = bits, !.how = how]
  BY <1>0 DEF Arrived, IsFtp, FtpFields
<1>3. /\ how \in [Sides -> Hows] /\ how[side] = (IF s.how[side] = "trying" THEN "joined" ELSE s.how[side])
      /\ \A x \in Sides : x # side => how[x] = s.how[x]
  BY <1>0 DEF Hows
<1>3a. Ready[side] \in {"CLIENT_READY", "SERVER_READY"}
  BY DEF Ready, Sides
<1>3b. bits \ {"CLIENT_READY", "SERVER_READY"} = s.bits \ {"CLIENT_READY", "SERVER_READY"}
  BY <1>3a
<1>3c. strm = s.strm \union {side}
  OBVIOUS
<1> HIDE DEF strm, bits, how
<1>4. IsFtp(t)
  BY <1>0, <1>2 DEF IsFtp, FtpFields
<1>5. \A f \in FtpFields \ {"strm", "bits", "how"} : t[f] = s[f]
  BY <1>0, <1>2 DEF IsFtp, FtpFields
<1>6. t.strm = strm
  BY <1>0, <1>2 DEF IsFtp, FtpFields
<1>7. t.bits = bits
  BY <1>0, <1>2 DEF IsFtp, FtpFields
<1>8. t.how = how
  BY <1>0, <1>2 DEF IsFtp, FtpFields
<1>9. /\ t.conf = s.conf /\ t.st = s.st /\ t.fs = s.fs /\ t.cmd = s.cmd /\ t.watch = s.watch /\ t.approved = s.approved
      /\ t.xfer = s.xfer /\ t.auth = s.auth
  BY <1>5 DEF FtpFields
<1>10. \A b \in {"COMMAND_START", "SERVER_START", "CLIENT_START"} : b \in t.bits <=> b \in s.bits
  BY <1>3b, <1>7
<1>11. FtpEnds(t)
  <2>1. t.how \in [Sides -> Hows] /\ t.strm \subseteq Sides /\ t.approved \subseteq Sides
    BY <1>0, <1>3, <1>3c, <1>6, <1>8, <1>9 DEF FtpEnds
  <2>2. ASSUME NEW x \in t.strm PROVE t.how[x] \in {"listen", "trying", "joined"}
    <3>1. CASE x = side
      BY <1>3, <1>8, <3>1
    <3>2. CASE x # side
      <4>1. x \in s.strm /\ x \in Sides
        BY <1>0, <1>3c, <1>6, <2>2, <3>2 DEF FtpEnds
      <4> QED BY <1>0, <1>3, <1>8, <3>2, <4>1 DEF FtpEnds
    <3> QED BY <3>1, <3>2
  <2>3. \A x \in Sides : t.how[x] \in {"trying", "joined"} => s.how[x] \in {"trying", "joined"}
    BY <1>3, <1>8
  <2>4. "C" \in Sides /\ "S" \in Sides
    BY DEF Sides
  <2> QED BY <1>0, <1>9, <1>10, <2>1, <2>2, <2>3, <2>4 DEF FtpEnds, Hows
<1>12. FtpSettled(s) => FtpSettled(t)
  <2>1. "C" \in Sides /\ "S" \in Sides
    BY DEF Sides
  <2> QED BY <1>3, <1>8, <1>9, <1>10, <2>1 DEF FtpSettled, Calm
<1>13. FtpInv(t)
  BY <1>1, <1>4, <1>9, <1>10, <1>11, <1>12 DEF Unbegun, FtpInv, Alive, Starting, AwaitsPort, FtpAuthed
<1> QED BY <1>9, <1>13 DEF FtpStep, Approved

(* ... or there is none. *)
LEMMA FailedStep ==
    ASSUME NEW s, FtpInv(s), NEW side \in Sides, s.how[side] \in {"listen", "trying"}, NEW bit \in {"CANCEL", "DESTROY"}, NEW t,
           \/ t = [s EXCEPT !.bits = {bit}, !.st = "QUIT", !.hangup = TRUE]
           \/ t = [s EXCEPT !.bits = {bit}, !.st = "SERVER_TO_CLIENT"]
    PROVE  FtpStep(s, t)
<1>0. /\ IsFtp(s) /\ FtpEnds(s) /\ s.how \in [Sides -> Hows] /\ s.how # [C |-> "none", S |-> "none"]
  BY DEF FtpInv, FtpEnds, Hows, Sides
<1>1. FtpAuthed(s) /\ ~Starting(s)
  BY <1>0, BusyIs DEF Blank
<1> DEFINE b == {bit}
<1>2. /\ IsFtp(t) /\ \A f \in FtpFields \ {"bits", "st", "hangup"} : t[f] = s[f]
      /\ t.bits = b /\ t.st \in {"QUIT", "SERVER_TO_CLIENT"}
  <2>1. CASE t = [s EXCEPT !.bits = {bit}, !.st = "QUIT", !.hangup = TRUE]
    <3>1. t = [s EXCEPT !.bits = b, !.st = "QUIT", !.hangup = TRUE]
      BY <2>1
    <3> HIDE DEF b
    <3>2. IsFtp(t)
      BY <1>0, <3>1 DEF IsFtp, FtpFields
    <3>3. \A f \in FtpFields \ {"bits", "st", "hangup"} : t[f] = s[f]
      BY <1>0, <3>1 DEF IsFtp, FtpFields
    <3>4. t.bits = b
      BY <1>0, <3>1 DEF IsFtp, FtpFields
    <3>5. t.st = "QUIT"
      BY <1>0, <3>1 DEF IsFtp, FtpFields
    <3> QED BY <3>2, <3>3, <3>4, <3>5
  <2>2. CASE t = [s EXCEPT !.bits = {bit}, !.st = "SERVER_TO_CLIENT"]
    <3>1. t = [s EXCEPT !.bits = b, !.st = "SERVER_TO_CLIENT"]
      BY <2>2
    <3> HIDE DEF b
    <3>2. IsFtp(t)
      BY <1>0, <3>1 DEF IsFtp, FtpFields
    <3>3. \A f \in FtpFields \ {"bits", "st", "hangup"} : t[f] = s[f]
      BY <1>0, <3>1 DEF IsFtp, FtpFields
    <3>4. t.bits = b
      BY <1>0, <3>1 DEF IsFtp, FtpFields
    <3>5. t.st = "SERVER_TO_CLIENT"
      BY <1>0, <3>1 DEF IsFtp, FtpFields
    <3> QED BY <3>2, <3>3, <3>4, <3>5
  <2> QED BY <2>1, <2>2
<1>3. /\ t.conf = s.conf /\ t.how = s.how /\ t.strm = s.strm /\ t.watch = s.watch /\ t.approved = s.approved
      /\ t.xfer = s.xfer /\ t.auth = s.auth
  BY <1>2 DEF FtpFields
<1>4. {"COMMAND_START", "SERVER_START", "CLIENT_START"} \cap t.bits = {}
  BY <1>2
<1>5. FtpEnds(t)
  BY <1>0, <1>3, <1>4 DEF FtpEnds
<1>6. FtpSettled(t) /\ "COMMAND_START" \notin t.bits /\ ~Starting(t)
  BY <1>2, <1>4 DEF FtpSettled, Starting
<1>7. FtpInv(t)
  BY <1>1, <1>2, <1>3, <1>5, <1>6 DEF FtpInv, FtpAuthed
<1> QED BY <1>3, <1>7 DEF FtpStep, Approved

(* A session at its start. *)
LEMMA FtpStarts ==
    ASSUME NEW t \in FtpInits
    PROVE  FtpInv(t)
<1> DEFINE I(c) == [conf |-> c, st |-> "INIT", fs |-> "CONNECT", cmd |-> "none", watch |-> {}, bits |-> {},
      how |-> [C |-> "none", S |-> "none"], strm |-> {}, approved |-> {}, old |-> "none", pre |-> FALSE,
      drop |-> FALSE, hangup |-> FALSE, xfer |-> "none", tls |-> {}, prot |-> {}, pbsz |-> FALSE,
      auth |-> FALSE, wire |-> <<>>, peer |-> NobodyThere, pri |-> FALSE,
      owed |-> [open |-> {0}, line |-> 0, job |-> 0, crossed |-> FALSE, odd |-> FALSE], n |-> 0]
<1>1. PICK c \in FtpConfs : t = I(c)
  BY DEF FtpInits
<1>2. IsFtp(t)
  BY <1>1 DEF IsFtp, FtpFields
<1>3. /\ t.conf = c /\ t.watch = {} /\ t.approved = {} /\ t.st = "INIT" /\ t.fs = "CONNECT" /\ t.peer = NobodyThere
  BY <1>1
<1>4. Blank(t)
  BY <1>1 DEF Blank
<1>5. t.peer.login = "none"
  BY <1>3 DEF NobodyThere
<1> QED BY <1>2, <1>3, <1>4, <1>5, BlankInv DEF Talking

(* Every step keeps the invariant and starts no copy that is not approved. *)
LEMMA FtpSteps ==
    ASSUME FtpInv(ftp), FtpNext
    PROVE  FtpStep(ftp, ftp')
<1>1. CASE FtpStart
  BY <1>1, StartStep DEF FtpStart
<1>2. CASE NtClientToProxy
  <2>1. PICK x \in Commanded(ftp) : ftp' \in NtAfter(x)
    BY <1>2 DEF NtClientToProxy
  <2> QED BY <1>2, <2>1, NtClientStep DEF NtClientToProxy
<1>3. CASE NtServerToProxy
  <2> DEFINE o == [ftp.owed EXCEPT !.line = ftp.n]
  <2>1. ftp' = Quit(ftp) \/ ftp' \in NtReplay(WithWire(ftp, Tail(ftp.wire), o), Head(ftp.wire)[2])
    BY <1>3 DEF NtServerToProxy, AnswerFetchFails, WithWire
  <2>2. ftp.st = "NT_SERVER_TO_PROXY"
    BY <1>3 DEF NtServerToProxy
  <2> QED BY <2>1, <2>2, QuitStep, NtServerStep
<1>4. CASE FtpClientData
  <2>1. PICK x \in Commanded(Turned(ftp, "SERVER_TO_CLIENT", {"S"})) : ftp' \in AfterPoll(x)
    BY <1>4 DEF FtpClientData, Turned
  <2>2. ftp.st \in PollStates /\ ("C" \in ftp.watch \/ ftp.conf.urgent)
    BY <1>4 DEF FtpClientData, Polls, PollStates
  <2> QED BY <2>1, <2>2, ClientStep
<1>5. CASE FtpServerData
  <2> DEFINE w == Tail(ftp.wire)
             d == Head(ftp.wire)[2]
             o == [ftp.owed EXCEPT !.line = Head(ftp.wire)[1]]
             u == [ftp EXCEPT !.wire = Tail(@), !.owed.line = Head(ftp.wire)[1], !.st = "CLIENT_TO_SERVER", !.watch = {"C"}]
  <2>1. PICK x \in AnswerFetchFails(ftp) \union AnswerProcess(u, d) : ftp' \in AfterPoll(x)
    BY <1>5 DEF FtpServerData
  <2>2. u = Turned(WithWire(ftp, w, o), "CLIENT_TO_SERVER", {"C"})
    BY DEF Turned, WithWire
  <2>3. x = Quit(ftp) \/ x \in AnswerProcess(Turned(WithWire(ftp, w, o), "CLIENT_TO_SERVER", {"C"}), d)
    <3> HIDE DEF u, w, d, o
    <3> QED BY <2>1, <2>2 DEF AnswerFetchFails
  <2>4. ftp.st \in PollStates /\ "S" \in ftp.watch
    BY <1>5 DEF FtpServerData, Polls, PollStates
  <2> HIDE DEF u, w, d, o
  <2> QED BY <2>1, <2>3, <2>4, ServerStep
<1>6. CASE FtpWakeup
  BY <1>6, WakeupStep DEF FtpWakeup, Polls, PollStates
<1>7. CASE FtpTimeout
  BY <1>7, QuitStep DEF FtpTimeout
<1>8. CASE FtpTransferEnds
  <2> DEFINE p == PreambleWritten(ftp)
  <2>1. ftp.xfer \in {"runs", "cancelled"} /\ \E x \in {FailedAs(ftp), FailedAs(p), p} : ftp' = DataReset(WithXfer(x, "none"))
    BY <1>8 DEF FtpTransferEnds, FailedAs, Blamed, WithXfer
  <2>2. PICK x \in {FailedAs(ftp), FailedAs(p), p} : ftp' = DataReset(WithXfer(x, "none"))
    BY <2>1
  <2>3. \E a \in {ftp, PreambleWritten(ftp)} : x = a \/ x = FailedAs(a)
    BY <2>2
  <2> QED BY <2>1, <2>2, <2>3, TransferEndStep
<1>9. CASE FtpStopped
  BY <1>9, QuitStep DEF FtpStopped
<1>10. CASE FtpMainEnds
  <2>1. ftp.st = "QUIT" /\ ftp.xfer = "none" /\ ftp' = WithSt(DataReset(ftp), "ended")
    BY <1>10 DEF FtpMainEnds, WithSt
  <2> QED BY <2>1, MainEndsStep
<1>11. ASSUME NEW side \in Sides, DataAccepted(side) PROVE FtpStep(ftp, ftp')
  <2>1. ftp.how[side] = "listen"
    BY <1>11 DEF DataAccepted
  <2>2. ftp' = Arrived(ftp, side) \/ ftp' = [ftp EXCEPT !.bits = {"CANCEL"}, !.st = "QUIT", !.hangup = TRUE]
    BY <1>11 DEF DataAccepted
  <2> QED BY <2>1, <2>2, ArrivedStep, FailedStep
<1>12. ASSUME NEW side \in Sides, DataConnected(side) PROVE FtpStep(ftp, ftp')
  <2>1. ftp.how[side] = "trying"
    BY <1>12 DEF DataConnected
  <2>2. \/ ftp' = Arrived(ftp, side) \/ ftp' = [ftp EXCEPT !.bits = {"DESTROY"}, !.st = "QUIT", !.hangup = TRUE]
        \/ ftp' = [ftp EXCEPT !.bits = {"DESTROY"}, !.st = "SERVER_TO_CLIENT"]
    BY <1>12 DEF DataConnected
  <2> QED BY <2>1, <2>2, ArrivedStep, FailedStep
<1> QED BY <1>1, <1>2, <1>3, <1>4, <1>5, <1>6, <1>7, <1>8, <1>9, <1>10, <1>11, <1>12 DEF FtpNext, Sides

(* The invariant holds throughout. *)
THEOREM FtpInvariant == FtpSpec => []FtpInv(ftp)
<1>1. FtpInit => FtpInv(ftp)
  BY FtpStarts DEF FtpInit
<1>2. FtpInv(ftp) /\ [FtpNext]_ftp => FtpInv(ftp)'
  BY FtpSteps DEF FtpStep
<1> QED BY <1>1, <1>2, PTL DEF FtpSpec

(* No bytes flow on a data connection before the policy's bounceCheck has    *)
(* approved both of its ends, for any number of commands, in every data mode *)
(* and under every interleaving with the callbacks, where the answer to a    *)
(* PORT is left to its handler and the client sends nothing as urgent data.  *)
THEOREM FtpBounce == FtpSpec => FtpBounceChecked
<1>1. FtpInv(ftp) /\ [FtpNext]_ftp => [AnswersPass /\ ~ftp.conf.urgent /\ ftp.xfer = "none" /\ ftp'.xfer = "runs" => ftp'.approved = {"C", "S"}]_ftp
  BY FtpSteps DEF FtpStep, Approved, Calm, AnswersPass
<1> QED BY <1>1, FtpInvariant, PTL DEF FtpSpec, FtpBounceChecked

(* In non-transparent mode no server is connected for a client that has not  *)
(* passed the authentication the policy asks for.                            *)
THEOREM FtpAuth == FtpSpec => []FtpAuthFirst
<1>1. FtpInv(ftp) => FtpAuthFirst
  BY DEF FtpInv, FtpAuthFirst, FtpAuthed
<1> QED BY <1>1, FtpInvariant, PTL

(****************************************************************************)
(* Telnet.  A session is a record with these fields.  Options, suboptions   *)
(* and TLS leave alone what the authentication is about (TnKeeps).          *)
(****************************************************************************)
TnFields ==
    {"conf", "state", "opt", "asked", "tls", "done", "pending", "line", "env", "user", "pass", "passenv", "host", "fails",
     "authed", "srv", "to", "from", "peer", "n"}
IsTn(s) == s = [f \in TnFields |-> s[f]]
TnKeeps(s, t) ==
    /\ IsTn(t) /\ t.conf = s.conf /\ t.srv = s.srv /\ t.authed = s.authed
    /\ t.state \in {s.state, "QUIT"}

(* Where the gateway authenticates, a session that has a server, is about to *)
(* relay to one or asks the user for one has an authenticated user.          *)
TnInv(s) ==
    /\ IsTn(s)
    /\ s.conf.gwauth /\ (s.srv \/ s.state \in {"PROMPT_SERVER", "RELAYING"}) => s.authed

(* What is kept is kept by two steps, and keeps the invariant. *)
LEMMA TnKeepsTwice ==
    ASSUME NEW s, NEW t, NEW u, TnKeeps(s, t), TnKeeps(t, u) PROVE TnKeeps(s, u)
BY DEF TnKeeps

(* A step that keeps these fields keeps the invariant. *)
LEMMA TnKeepsInv ==
    ASSUME NEW s, NEW t, TnInv(s), TnKeeps(s, t) PROVE TnInv(t)
BY DEF TnKeeps, TnInv

(* Nothing happens, or the session ends. *)
LEMMA TnStays ==
    ASSUME NEW s, IsTn(s) PROVE TnKeeps(s, s) /\ TnKeeps(s, TnQuit(s))
<1>1. TnKeeps(s, s)
  BY DEF TnKeeps
<1>2. TnKeeps(s, TnQuit(s))
  BY DEF TnKeeps, TnQuit, IsTn, TnFields
<1> QED BY <1>1, <1>2

(* The tables of options and what is sent. *)
LEMMA TnSends ==
    ASSUME NEW s, IsTn(s), NEW ep, NEW c, NEW o, NEW m
    PROVE  /\ TnKeeps(s, CommandReceived(s, ep, c, o)) /\ TnKeeps(s, CommandSent(s, ep, c, o))
           /\ TnKeeps(s, TnWrite(s, ep, m)) /\ TnKeeps(s, SendOpneg(s, ep, c, o))
           /\ TnKeeps(s, PeerSend(s, ep, m))
<1>0. ASSUME NEW v PROVE TnKeeps(s, [s EXCEPT !.opt[ep][o] = v])
  BY DEF TnKeeps, IsTn, TnFields
<1>1. TnKeeps(s, CommandReceived(s, ep, c, o))
  <2>1. \E v : CommandReceived(s, ep, c, o) = [s EXCEPT !.opt[ep][o] = v]
    BY DEF CommandReceived
  <2> QED BY <1>0, <2>1
<1>2. TnKeeps(s, CommandSent(s, ep, c, o))
  <2>1. \E v : CommandSent(s, ep, c, o) = [s EXCEPT !.opt[ep][o] = v]
    BY DEF CommandSent
  <2> QED BY <1>0, <2>1
<1>3. ASSUME NEW r, IsTn(r), NEW x PROVE TnKeeps(r, TnWrite(r, ep, x))
  BY <1>3 DEF TnKeeps, TnWrite, IsTn, TnFields
<1>4. TnKeeps(s, SendOpneg(s, ep, c, o))
  <2>1. IsTn(CommandSent(s, ep, c, o))
    BY <1>2 DEF TnKeeps
  <2>2. TnKeeps(CommandSent(s, ep, c, o), TnWrite(CommandSent(s, ep, c, o), ep, Opneg(c, o)))
    BY <1>3, <2>1
  <2> QED BY <1>2, <2>2, TnKeepsTwice DEF SendOpneg
<1>5. TnKeeps(s, PeerSend(s, ep, m))
  BY DEF TnKeeps, PeerSend, IsTn, TnFields
<1> QED BY <1>1, <1>2, <1>3, <1>4, <1>5

(* TLS: the state machines and what starts them. *)
LEMMA TnSwitches ==
    ASSUME NEW s, IsTn(s), NEW ep, NEW t \in SwitchToSsl(s, ep) PROVE TnKeeps(s, t)
<1> DEFINE started == [s EXCEPT !.tls[ep] = "HANDSHAKE_STARTED"]
<1>1. TnKeeps(s, started)
  BY DEF TnKeeps, IsTn, TnFields
<1>2. \/ t = TnQuit(started)
      \/ \E d : t = [started EXCEPT !.done = d, !.pending = {}]
      \/ \E p : t = [started EXCEPT !.pending = p]
  BY DEF SwitchToSsl
<1>3. IsTn(started)
  BY <1>1 DEF TnKeeps
<1> HIDE DEF started
<1>4. TnKeeps(started, TnQuit(started))
  BY <1>3, TnStays
<1>5. ASSUME NEW d PROVE TnKeeps(started, [started EXCEPT !.done = d, !.pending = {}])
  BY <1>3 DEF TnKeeps, IsTn, TnFields
<1>6. ASSUME NEW p PROVE TnKeeps(started, [started EXCEPT !.pending = p])
  BY <1>3 DEF TnKeeps, IsTn, TnFields
<1>7. TnKeeps(started, t)
  BY <1>2, <1>4, <1>5, <1>6
<1> QED BY <1>1, <1>7, TnKeepsTwice

(* Each message of a negotiation, with the state it leads to. *)
LEMMA TnNegotiates ==
    ASSUME NEW s, IsTn(s)
    PROVE  /\ TnKeeps(s, ClientNegotiationStart(s)) /\ TnKeeps(s, ServerNegotiateContinue(s))
           /\ TnKeeps(s, [SendOpneg(CommandReceived(s, "S", "DO", "TLS"), "S", "WILL", "TLS") EXCEPT !.tls["S"] = "CLIENT_REQUESTED"])
<1>1. ASSUME NEW r, IsTn(r), NEW ep, NEW v PROVE TnKeeps(r, [r EXCEPT !.tls[ep] = v])
  BY <1>1 DEF TnKeeps, IsTn, TnFields
<1>2. ASSUME NEW ep, NEW c, NEW d
      PROVE  /\ TnKeeps(s, SendOpneg(CommandReceived(s, ep, c, "TLS"), ep, d, "TLS"))
             /\ IsTn(SendOpneg(CommandReceived(s, ep, c, "TLS"), ep, d, "TLS"))
  <2> DEFINE r == CommandReceived(s, ep, c, "TLS")
  <2>1. TnKeeps(s, r)
    BY TnSends
  <2>2. IsTn(r)
    BY <2>1 DEF TnKeeps
  <2> HIDE DEF r
  <2>3. TnKeeps(r, SendOpneg(r, ep, d, "TLS"))
    BY <2>2, TnSends
  <2>4. TnKeeps(s, SendOpneg(r, ep, d, "TLS"))
    BY <2>1, <2>3, TnKeepsTwice
  <2>5. IsTn(SendOpneg(r, ep, d, "TLS"))
    BY <2>3 DEF TnKeeps
  <2> QED BY <2>4, <2>5 DEF r
<1>3. TnKeeps(s, ClientNegotiationStart(s))
  <2> DEFINE r == SendOpneg(CommandReceived(s, "C", "WILL", "TLS"), "C", "DO", "TLS")
  <2>1. TnKeeps(s, r) /\ IsTn(r)
    BY <1>2
  <2>2. ClientNegotiationStart(s) = [r EXCEPT !.tls["C"] = "SERVER_REQUESTED"]
    BY DEF ClientNegotiationStart
  <2> HIDE DEF r
  <2> QED BY <1>1, <2>1, <2>2, TnKeepsTwice
<1> DEFINE w == SendOpneg(CommandReceived(s, "S", "DO", "TLS"), "S", "WILL", "TLS")
           x == TnWrite(w, "S", Sub("TLS", "FOLLOWS", <<>>))
<1>4. TnKeeps(s, w) /\ IsTn(w)
  BY <1>2
<1>5. ServerNegotiateContinue(s) = [x EXCEPT !.tls["S"] = "FOLLOWS"]
  BY DEF ServerNegotiateContinue
<1>6. TnKeeps(s, [w EXCEPT !.tls["S"] = "CLIENT_REQUESTED"])
  <2> HIDE DEF w
  <2> QED BY <1>1, <1>4, TnKeepsTwice
<1>7. TnKeeps(s, x) /\ IsTn(x)
  <2> HIDE DEF w
  <2>1. TnKeeps(w, x)
    BY <1>4, TnSends
  <2> QED BY <1>4, <2>1, TnKeepsTwice DEF TnKeeps
<1>8. TnKeeps(s, ServerNegotiateContinue(s))
  <2> HIDE DEF w, x
  <2> QED BY <1>1, <1>5, <1>7, TnKeepsTwice
<1> QED BY <1>3, <1>6, <1>8

(* telnet_tls_client_sm *)
LEMMA TnClientSm ==
    ASSUME NEW s, IsTn(s), NEW c, NEW entry, NEW t \in TlsClientSm(s, c, entry) PROVE TnKeeps(s, t)
<1> DEFINE w == TnWrite(s, "C", Sub("TLS", "FOLLOWS", <<>>))
<1>1. \/ t = ClientNegotiationStart(s) \/ t = SendOpneg(s, "C", "DONT", "TLS") \/ t = [s EXCEPT !.tls["C"] = "CLIENT_STARTING"]
      \/ t = s \/ t \in SwitchToSsl(w, "C") \/ t = TnQuit(s)
  BY DEF TlsClientSm
<1>2. TnKeeps(s, w) /\ IsTn(w)
  BY TnSends DEF TnKeeps
<1> HIDE DEF w
<1>3. CASE t = ClientNegotiationStart(s)
  BY <1>3, TnNegotiates
<1>4. CASE t = SendOpneg(s, "C", "DONT", "TLS")
  BY <1>4, TnSends
<1>5. CASE t = [s EXCEPT !.tls["C"] = "CLIENT_STARTING"]
  BY <1>5 DEF TnKeeps, IsTn, TnFields
<1>6. CASE t = s \/ t = TnQuit(s)
  BY <1>6, TnStays
<1>7. CASE t \in SwitchToSsl(w, "C")
  BY <1>2, <1>7, TnSwitches, TnKeepsTwice
<1> QED BY <1>1, <1>3, <1>4, <1>5, <1>6, <1>7

(* telnet_tls_server_sm *)
LEMMA TnServerSm ==
    ASSUME NEW s, IsTn(s), NEW c, NEW entry, NEW t \in TlsServerSm(s, c, entry) PROVE TnKeeps(s, t)
<1>1. \/ t = [SendOpneg(CommandReceived(s, "S", "DO", "TLS"), "S", "WILL", "TLS") EXCEPT !.tls["S"] = "CLIENT_REQUESTED"]
      \/ t = ServerNegotiateContinue(s) \/ t = SendOpneg(s, "S", "WONT", "TLS") \/ t = s \/ t = TnQuit(s) \/ t \in SwitchToSsl(s, "S")
  BY DEF TlsServerSm
<1>2. CASE t = SendOpneg(s, "S", "WONT", "TLS")
  BY <1>2, TnSends
<1>3. CASE t = s \/ t = TnQuit(s)
  BY <1>3, TnStays
<1>4. CASE t \in SwitchToSsl(s, "S")
  BY <1>4, TnSwitches
<1>5. CASE \/ t = [SendOpneg(CommandReceived(s, "S", "DO", "TLS"), "S", "WILL", "TLS") EXCEPT !.tls["S"] = "CLIENT_REQUESTED"]
           \/ t = ServerNegotiateContinue(s)
  BY <1>5, TnNegotiates
<1> QED BY <1>1, <1>2, <1>3, <1>4, <1>5

(* A state machine is entered, and started where TLS is required. *)
LEMMA TnTls ==
    ASSUME NEW s, IsTn(s), NEW ep, NEW c, NEW entry
    PROVE  /\ \A t \in TlsSm(s, ep, c, entry) : TnKeeps(s, t)
           /\ \A t \in StartNegotiate(s, ep) : TnKeeps(s, t)
<1>1. ASSUME NEW x, NEW e, NEW t \in TlsSm(s, ep, x, e) PROVE TnKeeps(s, t)
  BY <1>1, TnClientSm, TnServerSm DEF TlsSm
<1>2. ASSUME NEW t \in StartNegotiate(s, ep) PROVE TnKeeps(s, t)
  BY <1>1, <1>2, TnStays DEF StartNegotiate
<1> QED BY <1>1, <1>2

(* ... on both sides. *)
LEMMA TnTlsBoth ==
    ASSUME NEW s, IsTn(s), NEW t \in StartNegotiateBoth(s) PROVE TnKeeps(s, t)
<1>1. CASE t = s
  BY <1>1, TnStays
<1>2. CASE \E r \in StartNegotiate(s, "C") : t \in StartNegotiate(r, "S")
  <2>1. PICK r \in StartNegotiate(s, "C") : t \in StartNegotiate(r, "S")
    BY <1>2
  <2>2. TnKeeps(s, r) /\ IsTn(r)
    BY TnTls DEF TnKeeps
  <2>3. TnKeeps(r, t)
    BY <2>1, <2>2, TnTls
  <2> QED BY <2>2, <2>3, TnKeepsTwice
<1> QED BY <1>1, <1>2 DEF StartNegotiateBoth

-----------------------------------------------------------------------------
(* An option that is accepted, rejected or answered by the proxy itself. *)
LEMMA TnAnswersOption ==
    ASSUME NEW s, IsTn(s), NEW ep, NEW c, NEW o
    PROVE  /\ TnKeeps(s, OpnegOk(s, ep, c, o)) /\ TnKeeps(s, OpnegReject(s, ep, c, o)) /\ TnKeeps(s, OpnegNonTransparent(s, ep, c, o))
<1>1. ASSUME NEW e, NEW d, NEW f, NEW b PROVE TnKeeps(s, SendOpneg(CommandReceived(s, e, d, o), f, b, o))
  <2> DEFINE r == CommandReceived(s, e, d, o)
  <2>1. TnKeeps(s, r) /\ IsTn(r)
    BY TnSends DEF TnKeeps
  <2> HIDE DEF r
  <2>2. TnKeeps(r, SendOpneg(r, f, b, o))
    BY <2>1, TnSends
  <2>3. TnKeeps(s, SendOpneg(r, f, b, o))
    BY <2>1, <2>2, TnKeepsTwice
  <2> QED BY <2>3 DEF r
<1>2. TnKeeps(s, OpnegOk(s, ep, c, o)) /\ TnKeeps(s, OpnegReject(s, ep, c, o))
  BY <1>1 DEF OpnegOk, OpnegReject
<1>3. TnKeeps(s, OpnegNonTransparent(s, ep, c, o))
  <2> DEFINE r == CommandReceived(s, ep, c, o)
  <2>1. \/ \E k : OpnegNonTransparent(s, ep, c, o) = [r EXCEPT !.asked[k][o] = @ - 1]
        \/ \E b : OpnegNonTransparent(s, ep, c, o) = SendOpneg(r, ep, b, o)
    BY DEF OpnegNonTransparent
  <2>2. TnKeeps(s, r) /\ IsTn(r)
    BY TnSends DEF TnKeeps
  <2>3. ASSUME NEW b PROVE TnKeeps(s, SendOpneg(r, ep, b, o))
    BY <1>1
  <2> HIDE DEF r
  <2>4. ASSUME NEW k PROVE TnKeeps(r, [r EXCEPT !.asked[k][o] = @ - 1])
    BY <2>2 DEF TnKeeps, IsTn, TnFields
  <2> QED BY <2>1, <2>2, <2>3, <2>4, TnKeepsTwice
<1> QED BY <1>2, <1>3

(* What the policy makes of an option. *)
LEMMA TnPolicy ==
    ASSUME NEW s, IsTn(s), NEW ep, NEW c, NEW o, NEW t \in OpnegPolicy(s, ep, c, o) PROVE TnKeeps(s, t)
<1>1. CASE o = "TLS"
  <2>1. PICK r \in TlsSm(s, ep, c, "option") : t \in (IF r.state = "QUIT" THEN {r} ELSE StartNegotiateBoth(r))
    BY <1>1 DEF OpnegPolicy
  <2>2. TnKeeps(s, r) /\ IsTn(r)
    BY TnTls DEF TnKeeps
  <2>3. TnKeeps(r, t)
    BY <2>1, <2>2, TnStays, TnTlsBoth
  <2> QED BY <2>2, <2>3, TnKeepsTwice
<1>2. CASE o # "TLS"
  <2>1. \E v \in s.conf.verdicts[o] : \E r \in StartNegotiateBoth(s) :
           t = CASE v = "ACCEPT" -> OpnegOk(r, ep, c, o)
                 [] v = "REJECT" -> OpnegReject(r, ep, c, o)
                 [] v = "DROP" -> r
                 [] OTHER -> TnQuit(r)
    BY <1>2 DEF OpnegPolicy
  <2>2. PICK r \in StartNegotiateBoth(s) : t \in {OpnegOk(r, ep, c, o), OpnegReject(r, ep, c, o), r, TnQuit(r)}
    BY <2>1
  <2>3. TnKeeps(s, r) /\ IsTn(r)
    BY TnTlsBoth DEF TnKeeps
  <2>4. TnKeeps(r, t)
    BY <2>2, <2>3, TnStays, TnAnswersOption
  <2> QED BY <2>3, <2>4, TnKeepsTwice
<1> QED BY <1>1, <1>2

(* process_opneg *)
LEMMA TnOption ==
    ASSUME NEW s, IsTn(s), NEW ep, NEW c, NEW o, NEW t \in ProcessOpneg(s, ep, c, o) PROVE TnKeeps(s, t)
<1> DEFINE seen == CommandReceived(s, "S", c, o)
           again == SendOpneg(seen, "S", "WILL", o)
<1>1. \/ t = OpnegNonTransparent(s, ep, c, o) \/ t \in OpnegPolicy(s, ep, c, o) \/ t \in OpnegPolicy(seen, ep, c, o)
      \/ t \in OpnegPolicy(again, ep, c, o) \/ \E b : t = SendOpneg(seen, "S", b, o)
  BY DEF ProcessOpneg
<1>2. TnKeeps(s, seen) /\ IsTn(seen)
  BY TnSends DEF TnKeeps
<1> HIDE DEF seen
<1>3. ASSUME NEW b PROVE TnKeeps(s, SendOpneg(seen, "S", b, o))
  <2>1. TnKeeps(seen, SendOpneg(seen, "S", b, o))
    BY <1>2, TnSends
  <2> QED BY <1>2, <2>1, TnKeepsTwice
<1>4. TnKeeps(s, again) /\ IsTn(again)
  BY <1>3 DEF TnKeeps
<1> HIDE DEF again
<1>5. CASE t = OpnegNonTransparent(s, ep, c, o)
  BY <1>5, TnAnswersOption
<1>6. CASE t \in OpnegPolicy(s, ep, c, o)
  BY <1>6, TnPolicy
<1>7. CASE t \in OpnegPolicy(seen, ep, c, o)
  BY <1>2, <1>7, TnPolicy, TnKeepsTwice
<1>8. CASE t \in OpnegPolicy(again, ep, c, o)
  BY <1>4, <1>8, TnPolicy, TnKeepsTwice
<1> QED BY <1>1, <1>3, <1>5, <1>6, <1>7, <1>8

(* process_suboption: the environment may name the server and the user. *)
LEMMA TnEnvironment ==
    ASSUME NEW s, IsTn(s), NEW vars PROVE TnKeeps(s, EnvironmentIs(s, vars)[1])
<1> DEFINE read == ReadVariables(s, vars)
           env == s.env \/ ~TnConnected(s)
           r == [s EXCEPT !.env = env, !.host = read.host, !.user = read.user, !.pass = read.pass, !.passenv = read.passenv]
<1>1. EnvironmentIs(s, vars)[1] = [r EXCEPT !.state = IF read.bad THEN "QUIT" ELSE s.state]
  BY DEF EnvironmentIs, IsTn, TnFields
<1> HIDE DEF read, env
<1>2. IsTn(r) /\ r.conf = s.conf /\ r.srv = s.srv /\ r.authed = s.authed
  BY DEF IsTn, TnFields
<1> HIDE DEF r
<1>3. CASE read.bad
  BY <1>1, <1>2, <1>3 DEF TnKeeps, IsTn, TnFields
<1>4. CASE ~read.bad
  BY <1>1, <1>2, <1>4 DEF TnKeeps, IsTn, TnFields
<1> QED BY <1>3, <1>4

(* ... and is passed on as the policy says. *)
LEMMA TnSuboption ==
    ASSUME NEW s, IsTn(s), NEW ep, NEW m, NEW t \in ProcessSub(s, ep, m) PROVE TnKeeps(s, t)
<1> DEFINE read == IF m.o = "ENV" /\ m.cmd = "IS" THEN EnvironmentIs(s, m.body) ELSE <<s, m.body>>
           r == read[1]
<1>1. \/ t = s \/ t = r \/ t = TnQuit(r) \/ t \in TlsSm(s, ep, "none", "sub")
      \/ \E x : t = TnWrite(r, TnOther(ep), x)
  BY DEF ProcessSub
<1>2. TnKeeps(s, r)
  <2>1. CASE m.o = "ENV" /\ m.cmd = "IS"
    BY <2>1, TnEnvironment
  <2>2. CASE ~(m.o = "ENV" /\ m.cmd = "IS")
    BY <2>2, TnStays
  <2> QED BY <2>1, <2>2
<1>3. IsTn(r)
  BY <1>2 DEF TnKeeps
<1> HIDE DEF r, read
<1>4. CASE t = s
  BY <1>4, TnStays
<1>5. CASE t = r \/ t = TnQuit(r)
  BY <1>2, <1>3, <1>5, TnStays, TnKeepsTwice
<1>6. CASE t \in TlsSm(s, ep, "none", "sub")
  BY <1>6, TnTls
<1>7. CASE \E x : t = TnWrite(r, TnOther(ep), x)
  BY <1>2, <1>3, <1>7, TnSends, TnKeepsTwice
<1> QED BY <1>1, <1>4, <1>5, <1>6, <1>7

(* process_data: passed on, or a line typed at a prompt. *)
LEMMA TnData ==
    ASSUME NEW s, IsTn(s), NEW ep, NEW m PROVE TnKeeps(s, ProcessData(s, ep, m))
<1>1. TnKeeps(s, TnWrite(s, TnOther(ep), m)) /\ TnKeeps(s, s)
  BY TnSends, TnStays
<1>2. TnKeeps(s, [s EXCEPT !.line = m.body])
  BY DEF TnKeeps, IsTn, TnFields
<1> QED BY <1>1, <1>2 DEF ProcessData

-----------------------------------------------------------------------------
(* The dialogue.  A session that may be given a server. *)
TnFree(s) == IsTn(s) /\ (s.conf.gwauth => s.authed)

(* telnet_event_connect_server *)
LEMMA TnConnects ==
    ASSUME NEW s, TnFree(s), NEW t \in TnConnect(s) PROVE TnInv(t)
<1> DEFINE r == [s EXCEPT !.state = "RELAYING", !.srv = TRUE, !.line = <<>>]
<1>1. t = TnQuit(s) \/ t \in StartNegotiate(r, "S")
  BY DEF TnConnect
<1>2. IsTn(r) /\ r.conf = s.conf /\ r.authed = s.authed
  BY DEF TnFree, IsTn, TnFields
<1> HIDE DEF r
<1>3. CASE t = TnQuit(s)
  <2>1. TnKeeps(s, t)
    BY <1>3, TnStays DEF TnFree
  <2> QED BY <2>1 DEF TnFree, TnKeeps, TnInv
<1>4. CASE t \in StartNegotiate(r, "S")
  <2>1. TnKeeps(r, t)
    BY <1>2, <1>4, TnTls
  <2> QED BY <1>2, <2>1 DEF TnFree, TnKeeps, TnInv
<1> QED BY <1>1, <1>3, <1>4

(* The client is asked. *)
LEMMA TnPrompts ==
    ASSUME NEW s, IsTn(s), NEW state
    PROVE  LET t == Prompt(s, state)
           IN IsTn(t) /\ t.conf = s.conf /\ t.srv = s.srv /\ t.authed = s.authed /\ t.state \in {state, "QUIT"}
<1> DEFINE r == [s EXCEPT !.state = state, !.line = <<>>]
           m == [t |-> "data", cmd |-> "", o |-> "", body |-> <<>>]
<1>1. IsTn(r) /\ r.conf = s.conf /\ r.srv = s.srv /\ r.authed = s.authed /\ r.state = state
  BY DEF IsTn, TnFields
<1>2. Prompt(s, state) = TnWrite(r, "C", m)
  BY DEF Prompt
<1> HIDE DEF r, m
<1>3. TnKeeps(r, TnWrite(r, "C", m))
  BY <1>1, TnSends
<1> QED BY <1>1, <1>2, <1>3 DEF TnKeeps

(* start_server_selection *)
LEMMA TnSelects ==
    ASSUME NEW s, TnFree(s), NEW t \in ServerSelection(s) PROVE TnInv(t)
<1>1. TnInv(Prompt(s, "PROMPT_SERVER"))
  BY TnPrompts DEF TnFree, TnInv
<1> QED BY <1>1, TnConnects DEF ServerSelection

(* start_inband_authentication *)
LEMMA TnAuthenticates ==
    ASSUME NEW s, TnInv(s), NEW t \in InbandAuthentication(s) PROVE TnInv(t)
<1> DEFINE known == [s EXCEPT !.authed = TRUE]
           failed == [s EXCEPT !.fails = @ + 1]
<1>1. TnFree(known)
  BY DEF TnInv, TnFree, IsTn, TnFields
<1>2. TnKeeps(s, failed)
  BY DEF TnInv, TnKeeps, IsTn, TnFields
<1>3. \/ t = Prompt(s, "PROMPT_USER") \/ t = Prompt(s, "PROMPT_PASSWORD") \/ t \in ServerSelection(known)
      \/ t = TnQuit(s) \/ t = Prompt(failed, "PROMPT_PASSWORD")
  BY DEF InbandAuthentication, AuthenticationFailed
<1>4. TnInv(failed)
  BY <1>2, TnKeepsInv
<1> HIDE DEF known, failed
<1>5. ASSUME NEW r, TnInv(r), NEW state \in {"PROMPT_USER", "PROMPT_PASSWORD"} PROVE TnInv(Prompt(r, state))
  BY <1>5, TnPrompts DEF TnInv
<1>6. TnInv(TnQuit(s))
  BY TnStays, TnKeepsInv DEF TnInv
<1>7. CASE t \in ServerSelection(known)
  BY <1>1, <1>7, TnSelects
<1> QED BY <1>3, <1>4, <1>5, <1>6, <1>7

(* The session starts once what is needed is known. *)
LEMMA TnStartsSession ==
    ASSUME NEW s, TnInv(s), NEW t \in StartSession(s) PROVE TnInv(t)
<1>1. CASE s.conf.gwauth
  BY <1>1, TnAuthenticates DEF StartSession
<1>2. CASE ~s.conf.gwauth
  BY <1>2, TnSelects DEF StartSession, TnFree, TnInv
<1> QED BY <1>1, <1>2

(* telnet_state_nt_wait_opneg *)
LEMMA TnWaits ==
    ASSUME NEW s, TnInv(s), NEW t \in WaitOpneg(s) PROVE TnInv(t)
<1>1. CASE t = TnQuit(s)
  BY <1>1, TnStays, TnKeepsInv DEF TnInv
<1>2. CASE \E r \in StartNegotiate(s, "C") :
              \/ t = r \/ t = [TnWrite(r, "C", Sub("ENV", "SEND", <<>>)) EXCEPT !.state = "WAIT_ENVIRONMENT"] \/ t \in StartSession(r)
  <2>1. PICK r \in StartNegotiate(s, "C") :
              \/ t = r \/ t = [TnWrite(r, "C", Sub("ENV", "SEND", <<>>)) EXCEPT !.state = "WAIT_ENVIRONMENT"] \/ t \in StartSession(r)
    BY <1>2
  <2>2. TnInv(r)
    BY TnTls, TnKeepsInv DEF TnInv
  <2> DEFINE w == TnWrite(r, "C", Sub("ENV", "SEND", <<>>))
  <2>3. TnInv(w)
    BY <2>2, TnSends, TnKeepsInv DEF TnInv
  <2> HIDE DEF w
  <2>4. TnInv([w EXCEPT !.state = "WAIT_ENVIRONMENT"])
    BY <2>3 DEF TnInv, IsTn, TnFields
  <2>5. t = r \/ t = [w EXCEPT !.state = "WAIT_ENVIRONMENT"] \/ t \in StartSession(r)
    BY <2>1 DEF w
  <2> QED BY <2>2, <2>4, <2>5, TnStartsSession
<1>3. t = TnQuit(s) \/ \E r \in StartNegotiate(s, "C") :
              \/ t = r \/ t = [TnWrite(r, "C", Sub("ENV", "SEND", <<>>)) EXCEPT !.state = "WAIT_ENVIRONMENT"] \/ t \in StartSession(r)
  BY DEF WaitOpneg
<1> QED BY <1>1, <1>2, <1>3

(* A line was typed at a prompt. *)
LEMMA TnPrompted ==
    ASSUME NEW s, TnInv(s), NEW t
    PROVE  /\ s.state = "PROMPT_SERVER" /\ t \in PromptedServer(s) => TnInv(t)
           /\ t \in PromptedUser(s) => TnInv(t)
           /\ t \in PromptedPassword(s) => TnInv(t)
<1>1. ASSUME s.state = "PROMPT_SERVER", t \in PromptedServer(s) PROVE TnInv(t)
  <2> DEFINE named == [s EXCEPT !.host = "good"]
  <2>1. TnFree(s)
    BY <1>1 DEF TnInv, TnFree
  <2>2. TnFree(named)
    BY <2>1 DEF TnFree, IsTn, TnFields
  <2>3. t \in TnConnect(named) \/ t = Prompt(s, "PROMPT_SERVER")
    BY <1>1 DEF PromptedServer
  <2>4. TnInv(Prompt(s, "PROMPT_SERVER"))
    BY <2>1, TnPrompts DEF TnFree, TnInv
  <2> HIDE DEF named
  <2> QED BY <2>2, <2>3, <2>4, TnConnects
<1>2. ASSUME t \in PromptedUser(s) PROVE TnInv(t)
  <2> DEFINE typed == [s EXCEPT !.user = s.line[1], !.line = <<>>]
  <2>1. TnInv(typed)
    BY DEF TnInv, IsTn, TnFields
  <2>2. t \in InbandAuthentication(typed)
    BY <1>2 DEF PromptedUser
  <2> HIDE DEF typed
  <2> QED BY <2>1, <2>2, TnAuthenticates
<1>3. ASSUME t \in PromptedPassword(s) PROVE TnInv(t)
  <2> DEFINE typed == [s EXCEPT !.pass = s.line[1], !.line = <<>>]
             known == [typed EXCEPT !.authed = TRUE]
  <2>1. TnInv(typed)
    BY DEF TnInv, IsTn, TnFields
  <2>2. t \in ServerSelection(known) \/ t \in InbandAuthentication(typed)
    BY <1>3 DEF PromptedPassword
  <2> HIDE DEF typed
  <2>3. TnFree(known)
    BY <2>1 DEF TnInv, TnFree, IsTn, TnFields
  <2> HIDE DEF known
  <2> QED BY <2>1, <2>2, <2>3, TnAuthenticates, TnSelects
<1> QED BY <1>1, <1>2, <1>3

(* The peers and what they send are no concern of the authentication. *)
LEMMA TnPeers ==
    ASSUME NEW s, IsTn(s), NEW ep, NEW m
    PROVE  /\ \A t \in PeerAnswers(s, ep, m) : TnKeeps(s, t)
           /\ \A t \in PeerSub(s, ep, m) : TnKeeps(s, t)
<1>1. ASSUME NEW d, NEW v PROVE LET r == [s EXCEPT !.peer[ep][m.o][d] = v] IN TnKeeps(s, r) /\ IsTn(r)
  BY DEF TnKeeps, IsTn, TnFields
<1>2. ASSUME NEW d, NEW v, NEW x PROVE TnKeeps(s, PeerSend([s EXCEPT !.peer[ep][m.o][d] = v], ep, x))
  <2> DEFINE r == [s EXCEPT !.peer[ep][m.o][d] = v]
  <2>1. TnKeeps(s, r) /\ IsTn(r)
    BY <1>1
  <2> HIDE DEF r
  <2>2. TnKeeps(s, PeerSend(r, ep, x))
    BY <2>1, TnSends, TnKeepsTwice
  <2> QED BY <2>2 DEF r
<1>3. ASSUME NEW x PROVE TnKeeps(s, PeerSend(s, ep, x))
  BY TnSends
<1>4. TnKeeps(s, s)
  BY TnStays
<1>5. ASSUME NEW t \in PeerAnswers(s, ep, m) PROVE TnKeeps(s, t)
  <2> DEFINE Set(v) == [s EXCEPT !.peer[ep][m.o][Direction(m.cmd)] = v]
             yes == Opneg(AcceptResponse(m.cmd), m.o)
             no == Opneg(DenyResponse(m.cmd), m.o)
  <2>1. t \in {s, Set("YES"), Set("NO"), PeerSend(s, ep, no), PeerSend(Set("YES"), ep, yes), PeerSend(Set("NO"), ep, no)}
    BY <1>5 DEF PeerAnswers
  <2>2. ASSUME NEW v PROVE TnKeeps(s, Set(v))
    BY <1>1
  <2>3. ASSUME NEW v, NEW x PROVE TnKeeps(s, PeerSend(Set(v), ep, x))
    BY <1>2
  <2> HIDE DEF Set, yes, no
  <2> QED BY <1>3, <1>4, <2>1, <2>2, <2>3
<1>6. ASSUME NEW t \in PeerSub(s, ep, m) PROVE TnKeeps(s, t)
  BY <1>3, <1>4, <1>6 DEF PeerSub
<1> QED BY <1>5, <1>6

(* A session begins without a server. *)
LEMMA TnBegins ==
    ASSUME NEW s \in TnInits PROVE TnInv(s)
<1>1. PICK c \in TelnetConfs : s = TnBegin(c)
  BY DEF TnInits
<1>2. s.state = "START" /\ s.srv = FALSE
  BY <1>1 DEF TnBegin
<1>3. IsTn(s)
  BY <1>1 DEF TnBegin, IsTn, TnFields
<1> QED BY <1>2, <1>3 DEF TnInv

(* telnet_main connects at once only where nobody authenticates. *)
LEMMA TnMainKeeps ==
    ASSUME NEW s, TnInv(s), s.state = "START", NEW t \in TnStart(s) PROVE TnInv(t)
<1>0. IsTn(s)
  BY DEF TnInv
<1>1. CASE TnTransparent(s)
  <2> DEFINE r == [s EXCEPT !.state = "RELAYING", !.srv = TRUE]
  <2>1. t = TnQuit(s) \/ t \in StartNegotiateBoth(r)
    BY <1>1 DEF TnStart
  <2>2. IsTn(r) /\ r.conf = s.conf
    BY <1>0 DEF IsTn, TnFields
  <2>3. ~s.conf.gwauth
    BY <1>1 DEF TnTransparent
  <2> HIDE DEF r
  <2>4. CASE t = TnQuit(s)
    BY <1>0, <2>4, TnStays, TnKeepsInv
  <2>5. CASE t \in StartNegotiateBoth(r)
    <3>1. TnKeeps(r, t)
      BY <2>2, <2>5, TnTlsBoth
    <3> QED BY <2>2, <2>3, <3>1 DEF TnKeeps, TnInv
  <2> QED BY <2>1, <2>4, <2>5
<1>2. CASE ~TnTransparent(s)
  <2>1. ASSUME NEW r, IsTn(r), NEW c, NEW o PROVE TnKeeps(r, Asking(r, c, o)) /\ IsTn(Asking(r, c, o))
    <3> DEFINE w == SendOpneg(r, "C", c, o)
    <3>1. TnKeeps(r, w) /\ IsTn(w)
      BY <2>1, TnSends DEF TnKeeps
    <3>2. Asking(r, c, o) = [w EXCEPT !.asked[c][o] = w.asked[c][o] + 1]
      BY DEF Asking
    <3> HIDE DEF w
    <3>3. TnKeeps(w, [w EXCEPT !.asked[c][o] = w.asked[c][o] + 1])
      BY <3>1 DEF TnKeeps, IsTn, TnFields
    <3> QED BY <3>1, <3>2, <3>3, TnKeepsTwice DEF TnKeeps
  <2> DEFINE a == Asking(s, "WILL", "ECHO")
             b == Asking(a, "WILL", "SGA")
             d == Asking(b, "DO", "ENV")
  <2>2. TnKeeps(s, a) /\ IsTn(a)
    BY <1>0, <2>1
  <2>3. t = [d EXCEPT !.state = "WAIT_OPNEG"]
    BY <1>2 DEF TnStart
  <2> HIDE DEF a
  <2>4. TnKeeps(a, b) /\ IsTn(b)
    BY <2>1, <2>2
  <2> HIDE DEF b
  <2>5. TnKeeps(b, d) /\ IsTn(d)
    BY <2>1, <2>4
  <2> HIDE DEF d
  <2>6. TnInv(d)
    BY <2>2, <2>4, <2>5, TnKeepsInv
  <2> QED BY <2>3, <2>6 DEF TnInv, IsTn, TnFields
<1> QED BY <1>1, <1>2

(* The loop of telnet_main: each state's handler. *)
LEMMA TnLoops ==
    ASSUME NEW s, TnInv(s), NEW t \in TnHandler(s) PROVE TnInv(t)
<1>1. \/ t \in WaitOpneg(s) \/ t \in StartSession(s) \/ t \in PromptedUser(s) \/ t \in PromptedPassword(s)
      \/ s.state = "PROMPT_SERVER" /\ t \in PromptedServer(s)
  BY DEF TnHandler
<1> QED BY <1>1, TnWaits, TnStartsSession, TnPrompted

(* Every step keeps the invariant. *)
LEMMA TnStep ==
    ASSUME TnInv(tn), [TnNext]_tn PROVE TnInv(tn')
<1>0. IsTn(tn)
  BY DEF TnInv
<1>1. ASSUME NEW ep, NEW x PROVE LET s == [tn EXCEPT !.from[ep] = x] IN TnKeeps(tn, s) /\ IsTn(s)
  BY <1>0 DEF TnKeeps, IsTn, TnFields
<1>2. ASSUME NEW ep, NEW x PROVE LET s == [tn EXCEPT !.to[ep] = x] IN TnKeeps(tn, s) /\ IsTn(s)
  BY <1>0 DEF TnKeeps, IsTn, TnFields
<1>3. CASE TnMain
  BY <1>3, TnMainKeeps DEF TnMain
<1>4. CASE TnLoop
  BY <1>4, TnLoops DEF TnLoop
<1>5. CASE TnEnd
  BY <1>0, <1>5, TnStays, TnKeepsInv DEF TnEnd
<1>6. CASE TnTypes
  <2>1. PICK m : tn' = PeerSend(tn, "C", m)
    BY <1>6 DEF TnTypes
  <2> QED BY <1>0, <2>1, TnSends, TnKeepsInv
<1>7. ASSUME NEW ep \in Sides, TnRead(ep) PROVE TnInv(tn')
  <2> DEFINE m == Head(tn.from[ep])
             s == [tn EXCEPT !.from[ep] = Tail(tn.from[ep])]
  <2>1. tn' \in ProcessOpneg(s, ep, m.cmd, m.o) \/ tn' \in ProcessSub(s, ep, m) \/ tn' = ProcessData(s, ep, m)
    BY <1>7 DEF TnRead
  <2>2. TnKeeps(tn, s) /\ IsTn(s)
    BY <1>1
  <2> HIDE DEF m, s
  <2>3. TnKeeps(s, tn')
    BY <2>1, <2>2, TnOption, TnSuboption, TnData
  <2> QED BY <2>2, <2>3, TnKeepsTwice, TnKeepsInv
<1>8. ASSUME NEW ep \in Sides, TnPeerReads(ep) PROVE TnInv(tn')
  <2> DEFINE m == Head(tn.to[ep])
             s == [tn EXCEPT !.to[ep] = Tail(tn.to[ep])]
  <2>1. tn' \in PeerAnswers(s, ep, m) \/ tn' \in PeerSub(s, ep, m) \/ tn' = s
    BY <1>8 DEF TnPeerReads
  <2>2. TnKeeps(tn, s) /\ IsTn(s)
    BY <1>2
  <2> HIDE DEF m, s
  <2>3. TnKeeps(s, tn')
    BY <2>1, <2>2, TnPeers, TnStays
  <2> QED BY <2>2, <2>3, TnKeepsTwice, TnKeepsInv
<1>9. ASSUME NEW ep \in Sides, NEW o \in TelnetOptions, NEW d \in {"us", "him"}, TnPeerBegins(ep, o, d) PROVE TnInv(tn')
  <2> DEFINE s == [tn EXCEPT !.n = tn.n + 1]
  <2>1. \/ \E v, x : tn' = PeerSend([s EXCEPT !.peer[ep][o][d] = v], ep, x)
        \/ \E x : tn' = PeerSend(s, ep, x)
    BY <1>9 DEF TnPeerBegins
  <2>2. TnKeeps(tn, s) /\ IsTn(s)
    BY <1>0 DEF TnKeeps, IsTn, TnFields
  <2> HIDE DEF s
  <2>3. ASSUME NEW v PROVE LET r == [s EXCEPT !.peer[ep][o][d] = v] IN TnKeeps(s, r) /\ IsTn(r)
    BY <2>2 DEF TnKeeps, IsTn, TnFields
  <2>4. ASSUME NEW r, TnKeeps(s, r), IsTn(r), NEW x PROVE TnKeeps(s, PeerSend(r, ep, x))
    BY <2>4, TnSends, TnKeepsTwice
  <2>5. TnKeeps(s, s)
    BY <2>2, TnStays
  <2>6. TnKeeps(s, tn')
    BY <2>1, <2>2, <2>3, <2>4, <2>5
  <2> QED BY <2>2, <2>6, TnKeepsTwice, TnKeepsInv
<1>10. CASE UNCHANGED tn
  BY <1>10
<1> QED BY <1>3, <1>4, <1>5, <1>6, <1>7, <1>8, <1>9, <1>10 DEF TnNext

(* For every set of configurations, any environment and lines of the client, *)
(* any number of messages and every order of them: where gateway             *)
(* authentication is required the telnet proxy connects no server before the *)
(* user was authenticated.  The client may name the server and the user in   *)
(* its environment, at the prompts or both, while options and TLS are        *)
(* negotiated (telnet_event_connect_server, telnet_do_gateway_auth).         *)
THEOREM TelnetAuthentication == TnSpec => []TelnetAuthFirst
<1>1. TnInit => TnInv(tn)
  BY TnBegins DEF TnInit
<1>2. TnInv(tn) /\ [TnNext]_tn => TnInv(tn)'
  BY TnStep
<1>3. TnInv(tn) => TelnetAuthFirst
  BY DEF TnInv, TelnetAuthFirst
<1> QED BY <1>1, <1>2, <1>3, PTL DEF TnSpec
=============================================================================
