---------------------------- MODULE HttpHeaders ----------------------------
(* The headers of one HTTP message (modules/http/httphdr.cc and the filters  *)
(* of http.cc): lines are read into a list with a hash over it, filtered by  *)
(* the proxy and by the policy, completed with the policy's own, and written *)
(* out again.                                                                *)
EXTENDS Integers, Sequences, FiniteSets

CONSTANTS
    HeaderInputs,  \* [side: "C"/"S", type: "SERVER"/"PROXY", parent, auth, forward, strict, unfit:
                   \*  strict_header_checking_action, known: the names of the side's table, lines, policy: name ->
                   \*  [verdict, name, value]]; a line is [kind: "header"/"folded"/"bad", name, value, exact]
    MaxHeaderLines \* max_header_lines

VARIABLE
    hdr   \* [in, pc, list: [name, value, exact, present, key], i: the line or header at hand, last: last_hdr,
          \*  todo: the names of the policy that http_insert_headers has not seen]

(* Headers that must not occur twice; the table's spelling is compared exactly. *)
Smuggle == {"Content-Length", "Transfer-Encoding", "Content-Type", "Host", "Connection", "Proxy-Connection",
            "Authorization", "Proxy-Authorization"}

(* http_lookup_header: the hash knows the first header of a name, for as     *)
(* long as it is not renamed.                                                *)
LookupHeader(list, name) ==
    LET of == {i \in 1 .. Len(list) : list[i].key = name}
    IN {i \in of : (\A j \in of : i <= j) /\ list[i].name = name}

(* http_add_header *)
AddHeader(list, name, value, exact) ==
    LET known == LookupHeader(list, name) # {}
        h == [name |-> name, value |-> value, exact |-> exact, present |-> TRUE,
              key |-> IF known THEN "none" ELSE name]
    IN IF known /\ exact /\ name \in Smuggle THEN list ELSE Append(list, h)

(* http_fetch_headers: one line *)
FetchLine(s) ==
    LET line == s.in.lines[s.i]
        next == [s EXCEPT !.i = @ + 1]
        list == AddHeader(s.list, line.name, line.value, line.exact)
        over == s.i > MaxHeaderLines
    IN IF line.kind = "folded"
       THEN IF s.last = 0 \/ over THEN [s EXCEPT !.pc = "failed"]
            ELSE [next EXCEPT !.list[s.last].value = "folded"]
       ELSE IF line.kind = "bad"
       THEN IF s.in.strict \/ over THEN [s EXCEPT !.pc = "failed"] ELSE next
       ELSE IF over THEN [s EXCEPT !.pc = "failed"]
       ELSE [next EXCEPT !.list = list, !.last = IF Len(list) > Len(s.list) THEN Len(list) ELSE 0]

(* http_request_filter_headers: the proxy's own changes. *)
OwnFilter(s, h) ==
    LET mine == IF s.in.type = "SERVER" THEN [conn |-> "Connection", auth |-> "Authorization"]
                ELSE [conn |-> "Proxy-Connection", auth |-> "Proxy-Authorization"]
        sent == IF s.in.parent THEN [conn |-> "Proxy-Connection", auth |-> "Proxy-Authorization"]
                ELSE [conn |-> "Connection", auth |-> "Authorization"]
    IN IF s.in.side = "S" THEN [h |-> h, action |-> "ACCEPT"]
       ELSE IF h.name = mine.conn THEN [h |-> [h EXCEPT !.name = sent.conn, !.value = "mode"], action |-> "ACCEPT"]
       ELSE IF h.name = mine.auth /\ s.in.auth
       THEN IF s.in.forward THEN [h |-> [h EXCEPT !.name = sent.auth], action |-> "ACCEPT"]
            ELSE [h |-> h, action |-> "DROP"]
       ELSE [h |-> h, action |-> "ACCEPT"]

PolicyOf(s, name) ==
    LET p == s.in.policy IN
    IF name \in DOMAIN p THEN {p[name]} ELSE IF "*" \in DOMAIN p THEN {p["*"]} ELSE {}

(* Mutant of Judge: REPLACE leaves the header in place. *)
JudgeOnce(own, p) ==
    CASE p.verdict = "POLICY" -> {[h |-> own.h, action |-> a] : a \in {"ACCEPT", "DROP", "ABORT"}}
                                 \union {[h |-> [own.h EXCEPT !.name = p.name, !.value = p.value], action |-> "ACCEPT"]}
      [] p.verdict = "INSERT" -> {[own EXCEPT !.action = "ACCEPT"]}
      [] p.verdict \in {"REPLACE", "ACCEPT"} -> {own}
      [] p.verdict = "DROP" -> {[own EXCEPT !.action = "DROP"]}
      [] p.verdict = "CHANGE_NAME" -> {[h |-> [own.h EXCEPT !.name = p.name], action |-> "ACCEPT"]}
      [] p.verdict = "CHANGE_VALUE" -> {[h |-> [own.h EXCEPT !.value = p.value], action |-> "ACCEPT"]}
      [] p.verdict = "CHANGE_BOTH" -> {[h |-> [own.h EXCEPT !.name = p.name, !.value = p.value], action |-> "ACCEPT"]}
      [] OTHER -> {[own EXCEPT !.action = "ABORT"]}
(* The policy's verdict on one header in http_filter_headers.  A handler may *)
(* return any verdict and change the header.                                 *)
Judge(own, p) ==
    CASE p.verdict = "POLICY" -> {[h |-> own.h, action |-> a] : a \in {"ACCEPT", "DROP", "ABORT"}}
                                 \union {[h |-> [own.h EXCEPT !.name = p.name, !.value = p.value], action |-> "ACCEPT"]}
      [] p.verdict = "INSERT" -> {[own EXCEPT !.action = "ACCEPT"]}
      [] p.verdict = "ACCEPT" -> {own}
      [] p.verdict \in {"REPLACE", "DROP"} -> {[own EXCEPT !.action = "DROP"]}
      [] p.verdict = "CHANGE_NAME" -> {[h |-> [own.h EXCEPT !.name = p.name], action |-> "ACCEPT"]}
      [] p.verdict = "CHANGE_VALUE" -> {[h |-> [own.h EXCEPT !.value = p.value], action |-> "ACCEPT"]}
      [] p.verdict = "CHANGE_BOTH" -> {[h |-> [own.h EXCEPT !.name = p.name, !.value = p.value], action |-> "ACCEPT"]}
      [] OTHER -> {[own EXCEPT !.action = "ABORT"]}

(* http_check_header_charset and max_len: a value that is too long or has a  *)
(* wrong character is "odd".                                                 *)
Unfit(h) == h.value = "odd"
(* strict_header_checking: a name that is not in the side's table is unfit too. *)
StrictCheck(s, r) ==
    IF r.action = "ACCEPT" /\ s.in.strict /\ (r.h.name \notin s.in.known \/ Unfit(r.h))
    THEN [r EXCEPT !.action = s.in.unfit] ELSE r

FilterHeader(s) ==
    LET own == OwnFilter(s, s.list[s.i])
        judged == UNION ({Judge(own, p) : p \in PolicyOf(s, own.h.name)}
                         \union IF PolicyOf(s, own.h.name) = {} THEN {{own}} ELSE {})
    IN {CASE r.action = "ACCEPT" -> [s EXCEPT !.i = @ - 1, !.list[s.i] = r.h]
          [] r.action = "DROP" -> [s EXCEPT !.i = @ - 1, !.list[s.i] = [r.h EXCEPT !.present = FALSE]]
          [] OTHER -> [s EXCEPT !.pc = "failed"] : r \in {StrictCheck(s, x) : x \in judged}}

(* http_insert_headers, which g_hash_table_foreach calls for every entry of  *)
(* the policy in some order.                                                 *)
Inserting(s) == {n \in DOMAIN s.in.policy : s.in.policy[n].verdict \in {"INSERT", "REPLACE"}}
InsertHeaders(s, n) ==
    LET list == IF n \in Inserting(s) THEN AddHeader(s.list, n, s.in.policy[n].value, TRUE) ELSE s.list
        todo == s.todo \ {n}
    IN [s EXCEPT !.list = list, !.todo = todo, !.pc = IF todo = {} THEN "done" ELSE "insert"]

(* http_flat_headers_into: the headers that are written *)
Flat(s) == {s.list[i] : i \in {j \in 1 .. Len(s.list) : s.list[j].present}}

-----------------------------------------------------------------------------
HdrInits == {[in |-> in, pc |-> "fetch", list |-> <<>>, i |-> 1, last |-> 0, todo |-> {}] : in \in HeaderInputs}
HdrInit == hdr \in HdrInits

HdrFetch ==
    /\ hdr.pc = "fetch" /\ hdr.i <= Len(hdr.in.lines)
    /\ hdr' = FetchLine(hdr)
HdrFetched ==
    /\ hdr.pc = "fetch" /\ hdr.i > Len(hdr.in.lines)
    /\ hdr' = [hdr EXCEPT !.pc = "filter", !.i = Len(hdr.list)]
HdrFilter ==
    /\ hdr.pc = "filter" /\ hdr.i > 0
    /\ hdr' \in FilterHeader(hdr)
HdrFiltered ==
    /\ hdr.pc = "filter" /\ hdr.i = 0
    /\ LET todo == DOMAIN hdr.in.policy
       IN hdr' = [hdr EXCEPT !.todo = todo, !.pc = IF todo = {} THEN "done" ELSE "insert"]
HdrInsert ==
    /\ hdr.pc = "insert"
    /\ \E n \in hdr.todo : hdr' = InsertHeaders(hdr, n)

HdrNext == HdrFetch \/ HdrFetched \/ HdrFilter \/ HdrFiltered \/ HdrInsert

HdrSpec == HdrInit /\ [][HdrNext]_hdr

-----------------------------------------------------------------------------
(* What the policy drops or replaces does not go on, however often it was    *)
(* sent; credentials meant for the proxy go on only with auth_forward; and   *)
(* of what the policy inserts nothing is lost, but for the headers that may  *)
(* occur only once.                                                          *)
HttpHeadersFiltered ==
    hdr.pc = "done" =>
        LET of(n) == {h \in Flat(hdr) : h.name = n}
            dropped == {n \in DOMAIN hdr.in.policy : hdr.in.policy[n].verdict \in {"DROP", "REPLACE"}}
            renamed == {hdr.in.policy[n].name : n \in DOMAIN hdr.in.policy}
            creds == IF hdr.in.type = "SERVER" THEN "Authorization" ELSE "Proxy-Authorization"
        IN /\ \A n \in dropped \ renamed : \A h \in of(n) : h.value = hdr.in.policy[n].value
           /\ \A n \in Inserting(hdr) \ Smuggle : \E h \in of(n) : h.value = hdr.in.policy[n].value
           /\ hdr.in.side = "C" /\ hdr.in.auth /\ ~hdr.in.forward /\ DOMAIN hdr.in.policy = {} => of(creds) = {}

(* Http.py on HTTP_HDR_REPLACE: "Remove all existing occurrences of a header *)
(* and replace them with the one specified in the second argument."          *)
HttpHeadersReplaced ==
    hdr.pc = "done" =>
        \A n \in DOMAIN hdr.in.policy :
            hdr.in.policy[n].verdict = "REPLACE" =>
                \E h \in Flat(hdr) : h.name = n /\ h.value = hdr.in.policy[n].value

=============================================================================
