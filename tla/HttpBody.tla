------------------------------ MODULE HttpBody ------------------------------
(* HttpTransfer (modules/http/httpfltr.cc): how the body of one HTTP message *)
(* is read off its source, possibly shown to a stacked proxy, framed again   *)
(* and written.  ZTransfer2's loop is reduced to: read when the buffer is    *)
(* empty, write when it is not; module Transfer2 has the rest of it.         *)
(* A stream is a sequence of <<kind, number>>: ("byte", i) is the i-th byte  *)
(* of the body, ("len", n) a chunk's length line, ("end", 0) the empty line  *)
(* behind a chunk; what is written has its lines in two halves.              *)
EXTENDS Integers, Sequences

CONSTANTS
    Messages,      \* [from: "C"/"S", framing, chunks, client, server: versions 9, 10, 11, stacked, mime, hint,
                   \*  keep: keep_persistent, max: max_body_length, kind: transfer_type, expect, suppress]
    WritesSplit,   \* lines and data a destination may take in parts: of {"preamble", "length", "data", "footer", "shutdown"}
    BufferBytes,   \* buffer_size
    UIntSpan       \* the values of a guint32, 2^32 in the program

VARIABLE
    hb   \* [msg, pc, wire: the rest of the source, dies: the source ends early, src: src_read_state,
         \*  left: src_chunk_left, whole: src_whole_length, last, trunc: src_last_chunk, src_chunk_truncated,
         \*  clen: content_length, srcch, dstch: src_chunked, dst_chunked, force: force_nonpersistent_mode,
         \*  hintonly: persistent_with_cl_hint_only, head: framing announced, mode, smode: connection_mode and
         \*  server_connection_mode, down: at the stacked proxy, buf, eof: of what is copied to the destination,
         \*  dst: dst_write_state, eols, pofs, lofs, fofs: offsets in preamble, length line, footer, size,
         \*  dleft: dst_chunk_left, verdict: stack_decision, out: written, status, error: error_code,
         \*  deof: the stacked proxy has closed, cut: history, a line was taken in parts and its rest is not written]

LENGTH_NONE == -2
LENGTH_UNKNOWN == -1

-----------------------------------------------------------------------------
(* The message at the source. *)
Body(n) == [i \in 1 .. n |-> <<"byte", i>>]
Total(chunks) ==
    LET sum[k \in 0 .. Len(chunks)] == IF k = 0 THEN 0 ELSE sum[k - 1] + chunks[k]
    IN sum[Len(chunks)]
Chunks(chunks) ==
    LET upto[k \in 0 .. Len(chunks)] ==
            IF k = 0 THEN <<>>
            ELSE upto[k - 1] \o << <<"len", chunks[k]>> >>
                 \o SubSeq(Body(Total(chunks)), Total(SubSeq(chunks, 1, k - 1)) + 1, Total(SubSeq(chunks, 1, k)))
                 \o << <<"end", 0>> >>
    IN upto[Len(chunks)] \o << <<"len", 0>>, <<"end", 0>> >>
WireOf(m) ==
    CASE m.framing = "chunked" /\ ~m.suppress -> Chunks(m.chunks)
      [] m.framing = "none" \/ m.suppress -> <<>>
      [] OTHER -> Body(Total(m.chunks))
ClosedAfter(m) == m.framing = "eof"

-----------------------------------------------------------------------------
(* http_transfer_setup *)
ContentLength(m) ==
    IF m.framing = "length" THEN Total(m.chunks)
    ELSE IF m.expect \/ m.framing = "chunked" THEN LENGTH_UNKNOWN ELSE LENGTH_NONE

(* The (guint) casts: a length is compared with max_body_length modulo 2^32. *)
UInt(n) == n % UIntSpan

Limited(s) ==
    IF s.msg.max # 0 /\ s.clen # LENGTH_UNKNOWN /\ UInt(s.clen) > s.msg.max
    THEN [s EXCEPT !.clen = s.msg.max, !.force = TRUE] ELSE s

StackedFraming(s) ==
    LET m == s.msg
        l == Limited(s)
        toServer == m.from = "C"
    IN IF m.framing = "chunked" /\ (toServer \/ m.client > 10) THEN [s EXCEPT !.srcch = TRUE, !.dstch = TRUE]
       ELSE IF ~toServer /\ m.expect
       THEN IF m.client > 10 /\ m.server >= 10 THEN [l EXCEPT !.dstch = TRUE]
            ELSE IF m.server >= 10 THEN [l EXCEPT !.hintonly = TRUE] ELSE [l EXCEPT !.force = TRUE]
       ELSE IF s.clen > 0 \/ (m.expect /\ s.clen = LENGTH_UNKNOWN) THEN [s EXCEPT !.dstch = TRUE]
       ELSE IF s.clen # 0 THEN [s EXCEPT !.clen = LENGTH_NONE] ELSE s

PlainFraming(s) ==
    LET m == s.msg IN
    CASE m.framing = "chunked" -> [s EXCEPT !.srcch = TRUE, !.dstch = TRUE]
      [] m.framing # "chunked" /\ s.clen >= 0 -> Limited(s)
      [] m.framing # "chunked" /\ s.clen = LENGTH_UNKNOWN ->
            IF m.keep /\ m.client > 10 /\ m.server >= 10
            THEN [s EXCEPT !.dstch = TRUE, !.smode = "CLOSE"]
            ELSE [s EXCEPT !.mode = "CLOSE"]
      [] OTHER -> s

Announced(s) == [te |-> s.dstch, cl |-> IF s.dstch THEN LENGTH_UNKNOWN ELSE s.clen]

TransferSetup(s) ==
    LET m == s.msg
        sized == [s EXCEPT !.clen = IF m.suppress THEN LENGTH_NONE ELSE ContentLength(m)]
        framed == CASE m.suppress -> sized
                    [] ~m.suppress /\ m.kind = "TO_BLOB" -> [sized EXCEPT !.srcch = m.framing = "chunked"]
                    [] ~m.suppress /\ m.kind = "FROM_BLOB" -> [sized EXCEPT !.clen = Total(m.chunks)]
                    [] ~m.suppress /\ m.kind = "NORMAL" /\ m.stacked -> StackedFraming(sized)
                    [] OTHER -> PlainFraming(sized)
    IN [framed EXCEPT !.head = Announced(framed), !.pc = "copy",
                      !.src = IF m.mime THEN "PUSH_HEADERS" ELSE "READ"]

(* http_transfer_has_content, http_transfer_run: without content both ends are shut down at once. *)
HasContent(s) == (s.clen # LENGTH_NONE \/ s.msg.mime) /\ s.clen # 0

-----------------------------------------------------------------------------
(* http_transfer_src_read: the outcomes, each with the next state, what was  *)
(* read and the status.                                                      *)
Read(s, got, status) == [s |-> s, got |-> got, status |-> status]
Mime == << <<"text", 1>>, <<"eol", 1>>, <<"eol", 2>> >>
Least(a, b) == IF a < b THEN a ELSE b

(* At most n bytes off the stream, whatever they are: z_stream_read. *)
StreamRead(s, n, atEnd) ==
    LET bytes == 1 .. Least(n, Len(s.wire))
        took(k) == [s EXCEPT !.wire = SubSeq(@, k + 1, Len(@)), !.whole = @ + k, !.left = @ - k]
    IN {Read(took(k), SubSeq(s.wire, 1, k), "NORMAL") : k \in bytes}
       \union {Read(s, <<>>, st) : st \in IF s.wire = <<>> /\ (s.dies \/ ClosedAfter(s.msg)) THEN atEnd ELSE {}}

ReadChunk(s) ==
    {[r EXCEPT !.s.src = IF r.status = "NORMAL" /\ r.s.left = 0 THEN "FOOTER" ELSE @]
        : r \in StreamRead(s, Least(s.left, BufferBytes), {"ERROR"})}

ReadFooter(s) ==
    IF s.trunc THEN {Read(s, <<>>, "EOF")}
    ELSE IF s.wire = <<>> THEN {Read(s, <<>>, "EOF") : d \in {1} \ (IF s.dies THEN {} ELSE {1})}
    ELSE IF Head(s.wire)[1] # "end" THEN {Read(s, <<>>, "ERROR")}
    ELSE LET next == [s EXCEPT !.wire = Tail(@)]
         IN IF s.last THEN {Read(next, <<>>, "EOF")} ELSE {Read([next EXCEPT !.src = "READ"], <<>>, "AGAIN")}

(* The length is a guint32, and one with the top bit set (or above           *)
(* max_chunk_length) is an error.                                            *)
ReadLength(s) ==
    IF s.wire = <<>> THEN {Read(s, <<>>, "EOF") : d \in {1} \ (IF s.dies THEN {} ELSE {1})}
    ELSE IF Head(s.wire)[1] # "len" THEN {Read(s, <<>>, "ERROR")}
    ELSE LET n == UInt(Head(s.wire)[2])
             over == s.msg.max # 0 /\ UInt(UInt(s.whole) + n) > s.msg.max
             size == IF over THEN UInt(s.msg.max - s.whole) ELSE n
             next == [s EXCEPT !.wire = Tail(@), !.left = size, !.last = size = 0, !.src = IF size = 0 THEN "FOOTER" ELSE "CHUNK",
                               !.trunc = @ \/ over, !.force = @ \/ over]
         IN IF n >= UIntSpan \div 2 THEN {Read([s EXCEPT !.wire = Tail(@)], <<>>, "ERROR")}
            ELSE IF size = 0 THEN ReadFooter(next) ELSE ReadChunk(next)

ReadEntity(s) ==
    LET count == IF s.clen # LENGTH_UNKNOWN THEN Least(BufferBytes, s.clen - s.whole)
                 ELSE IF s.msg.max # 0 THEN Least(BufferBytes, s.msg.max - s.whole) ELSE BufferBytes
    IN IF s.clen = LENGTH_NONE THEN {Read(s, <<>>, "EOF")}
       ELSE IF count = 0
       THEN {Read([s EXCEPT !.force = @ \/ s.clen = LENGTH_UNKNOWN], <<>>, "EOF")}
       ELSE StreamRead(s, count, {"EOF"})

PushHeaders(s) == {Read([s EXCEPT !.src = "READ"], Mime, "NORMAL")}

SrcRead(s) ==
    CASE s.src = "PUSH_HEADERS" -> PushHeaders(s)
      [] s.src = "READ" -> IF s.srcch THEN ReadLength(s) ELSE ReadEntity(s)
      [] s.src = "CHUNK" -> ReadChunk(s)
      [] s.src = "FOOTER" -> ReadFooter(s)

-----------------------------------------------------------------------------
(* http_transfer_dst_write *)
Parts(kind, n) == IF kind \in WritesSplit THEN 1 .. n ELSE {n}

(* The headers a MIME stacked proxy hands back are skipped up to the empty line. *)
PopHeaders(s) ==
    LET skips[i \in 0 .. Len(s.buf)] ==
            IF i = 0 THEN [n |-> 0, eols |-> s.eols]
            ELSE IF skips[i - 1].eols = 2 THEN skips[i - 1]
            ELSE [n |-> i, eols |-> IF s.buf[i][1] = "eol" THEN skips[i - 1].eols + 1 ELSE 0]
        end == skips[Len(s.buf)]
    IN [s EXCEPT !.buf = SubSeq(@, end.n + 1, Len(@)), !.eols = end.eols,
                 !.dst = IF end.eols = 2 THEN "PREAMBLE" ELSE "POP_HEADERS"]

(* The preamble is formatted again when the child repeats the length hint it was given, or the *)
(* connection cannot be kept.                                                                  *)
Reframed(s) ==
    LET hinted == s.msg.stacked /\ s.msg.hint /\ s.clen >= 0
        unkept == s.force \/ (~hinted /\ s.hintonly)
        closes == unkept /\ s.mode = "KEEPALIVE"
    IN [s EXCEPT !.dst = "PREAMBLE",
                 !.force = unkept,
                 !.dstch = IF hinted THEN FALSE ELSE @,
                 !.head = IF hinted THEN [te |-> FALSE, cl |-> s.clen]
                          ELSE IF s.hintonly THEN [te |-> s.dstch, cl |-> LENGTH_UNKNOWN] ELSE @,
                 !.mode = IF closes THEN "CLOSE" ELSE @,
                 !.smode = IF closes THEN "CLOSE" ELSE @]

WritePreamble(s) ==
    {[s EXCEPT !.pofs = @ + k, !.out = @ \o [i \in 1 .. k |-> <<"head", s.pofs + i>>],
               !.dst = IF s.pofs + k = 2 THEN "FORMAT" ELSE @] : k \in Parts("preamble", 2 - s.pofs)}

LengthLine(n) == << <<"lenA", n>>, <<"lenB", n>> >>
LineEnd == << <<"cr", 0>>, <<"lf", 0>> >>

WriteLength(s) ==
    {[s EXCEPT !.out = @ \o SubSeq(LengthLine(s.size), s.lofs + 1, s.lofs + k), !.lofs = @ + k,
               !.dst = IF s.lofs + k = 2 THEN "CHUNK" ELSE @] : k \in Parts("length", 2 - s.lofs)}

WriteData(s) ==
    {[s EXCEPT !.out = @ \o SubSeq(s.buf, Len(s.buf) - s.dleft + 1, Len(s.buf) - s.dleft + k), !.dleft = @ - k,
               !.dst = IF k = s.dleft THEN "FOOTER" ELSE @, !.fofs = IF k = s.dleft THEN 0 ELSE @, !.cut = @ \/ s.dst = "LENGTH"]
        : k \in Parts("data", s.dleft)}

WriteFooter(s) ==
    {[s EXCEPT !.out = @ \o SubSeq(LineEnd, s.fofs + 1, s.fofs + k), !.fofs = @ + k,
               !.buf = IF s.fofs + k = 2 THEN <<>> ELSE @, !.dst = IF s.fofs + k = 2 THEN "FORMAT" ELSE @]
        : k \in Parts("footer", 2 - s.fofs)}

(* One call: the cases fall through, even when the length line was not taken whole. *)
WriteChunked(s) ==
    LET begun == IF s.dst = "FORMAT"
                 THEN [s EXCEPT !.dst = "LENGTH", !.lofs = 0, !.size = Len(s.buf), !.dleft = Len(s.buf)] ELSE s
        sized == IF begun.dst = "LENGTH" THEN WriteLength(begun) ELSE {begun}
        data == UNION {IF x.dst \in {"LENGTH", "CHUNK"} THEN WriteData(x) ELSE {x} : x \in sized}
    IN UNION {IF y.dst = "FOOTER" THEN WriteFooter(y) ELSE {y} : y \in data}

(* Mutant of WritePlain: after a short write the buffer is written again. *)
WritePlainAgain(s) ==
    {[s EXCEPT !.out = @ \o SubSeq(s.buf, 1, k), !.buf = IF k = Len(@) THEN <<>> ELSE @] : k \in Parts("data", Len(s.buf))}
WritePlain(s) ==
    {[s EXCEPT !.out = @ \o SubSeq(s.buf, 1, k), !.buf = SubSeq(@, k + 1, Len(@))] : k \in Parts("data", Len(s.buf))}

WriteBody(s) == IF s.dstch THEN WriteChunked(s) ELSE WritePlain(s)

HttpDstWrite(s) ==
    IF s.dst \in {"INITIAL", "POP_HEADERS"} /\ s.msg.mime THEN {PopHeaders(s)}
    ELSE LET headed == IF s.dst = "INITIAL" \/ s.dst = "PREAMBLE" THEN WritePreamble(Reframed(s)) ELSE {s}
         IN UNION {IF x.dst = "PREAMBLE" THEN {x} ELSE WriteBody(x) : x \in headed}

(* http_transfer_dst_shutdown: nothing is written when an error page can     *)
(* still take its place.  With a stacked proxy the destination stays         *)
(* non-blocking, and z_transfer2_eof does not look at what the call returns. *)
ShutdownParts(s, n) == IF s.msg.stacked /\ "shutdown" \in WritesSplit THEN 0 .. n ELSE {n}
ShutdownPreamble(s) ==
    {[s EXCEPT !.dst = "PREAMBLE", !.pofs = @ + k, !.out = @ \o [i \in 1 .. k |-> <<"head", s.pofs + i>>], !.cut = @ \/ s.pofs + k < 2]
        : k \in ShutdownParts(s, 2 - s.pofs)}
LastChunk == LengthLine(0) \o LineEnd
HttpDstShutdown(s) ==
    LET delays == /\ s.dst = "INITIAL" /\ (s.status # {} \/ s.verdict # "ACCEPT")
                  /\ ~s.msg.suppress /\ (s.msg.expect \/ s.clen # LENGTH_NONE)
        headed == IF s.dst \in {"INITIAL", "PREAMBLE"} THEN ShutdownPreamble(s) ELSE {s}
        closed(x) == IF ~(x.dst = "PREAMBLE" /\ x.pofs < 2) /\ x.clen # LENGTH_NONE /\ x.dstch
                     THEN {[x EXCEPT !.out = @ \o SubSeq(LastChunk, 1, k), !.cut = @ \/ k < 4] : k \in ShutdownParts(x, 4)}
                     ELSE {x}
    IN IF delays THEN {s} ELSE UNION {closed(x) : x \in headed}

(* http_data_transfer, when the loop is over. *)
DataTransferEnds(s) ==
    [s EXCEPT !.pc = "done",
              !.error = IF s.dst = "INITIAL" THEN IF s.verdict = "ACCEPT" THEN "IO_ERROR" ELSE "BAD_CONTENT"
                        ELSE IF s.status # {} THEN "silent" ELSE "none"]

-----------------------------------------------------------------------------
HbStart(m, dies, wire) ==
    [msg |-> m, pc |-> "setup", wire |-> wire, dies |-> dies, src |-> "INITIAL", left |-> 0, whole |-> 0,
     last |-> FALSE, trunc |-> FALSE, clen |-> LENGTH_NONE, srcch |-> FALSE, dstch |-> FALSE, force |-> FALSE,
     hintonly |-> FALSE, head |-> [te |-> FALSE, cl |-> LENGTH_NONE], mode |-> "KEEPALIVE", smode |-> "KEEPALIVE",
     down |-> <<>>, buf |-> <<>>, eof |-> FALSE, dst |-> "INITIAL", eols |-> 0, pofs |-> 0, lofs |-> 0, fofs |-> 0,
     size |-> 0, dleft |-> 0, verdict |-> "ACCEPT", out |-> <<>>, status |-> {}, error |-> "none",
     deof |-> FALSE, cut |-> FALSE]

(* A source may break or close anywhere. *)
HbInits ==
    {HbStart(m, FALSE, WireOf(m)) : m \in Messages}
        \union UNION {{HbStart(m, TRUE, SubSeq(WireOf(m), 1, n)) : n \in 0 .. Len(WireOf(m))} : m \in Messages}
HbInit == hb \in HbInits

HbSetup ==
    /\ hb.pc = "setup"
    /\ LET s == TransferSetup(hb)
       IN hb' \in IF HasContent(s) THEN {s} ELSE {DataTransferEnds(x) : x \in HttpDstShutdown(s)}

(* The end of what is copied to the destination. *)
Ended(s) == {DataTransferEnds(x) : x \in HttpDstShutdown(s)}

HbRead ==
    /\ hb.pc = "copy" /\ ~hb.eof
    /\ IF hb.msg.stacked THEN hb.down = <<>> ELSE hb.buf = <<>>
    /\ \E r \in SrcRead(hb) :
           hb' \in CASE r.status = "NORMAL" /\ hb.msg.stacked -> {[r.s EXCEPT !.down = r.got]}
                     [] r.status = "NORMAL" /\ ~hb.msg.stacked -> {[r.s EXCEPT !.buf = r.got]}
                     [] r.status = "AGAIN" -> {r.s}
                     [] r.status = "EOF" /\ hb.msg.stacked -> {IF hb.deof THEN DataTransferEnds(r.s) ELSE [r.s EXCEPT !.eof = TRUE]}
                     [] r.status = "EOF" /\ ~hb.msg.stacked -> Ended(r.s)
                     [] r.status = "ERROR" /\ hb.msg.stacked -> {DataTransferEnds([r.s EXCEPT !.status = {"ABORTED"}])}
                     [] r.status = "ERROR" /\ ~hb.msg.stacked -> Ended([r.s EXCEPT !.status = {"ABORTED"}])

(* The stacked proxy hands everything on, and may refuse instead. *)
HbChildCopies ==
    /\ hb.pc = "copy" /\ hb.down # <<>> /\ hb.buf = <<>> /\ ~hb.deof
    /\ hb' = [hb EXCEPT !.buf = hb.down, !.down = <<>>]

HbChildEnds ==
    /\ hb.pc = "copy" /\ hb.msg.stacked /\ hb.eof /\ ~hb.deof /\ hb.down = <<>> /\ hb.buf = <<>>
    /\ hb' \in Ended(hb)

(* It refuses and closes: the destination is shut down, and the transfer     *)
(* goes on until the source has ended too (z_transfer2_eof).                 *)
HbChildRefuses ==
    /\ hb.pc = "copy" /\ hb.msg.stacked /\ hb.buf = <<>> /\ ~hb.deof
    /\ \E s \in HttpDstShutdown([hb EXCEPT !.verdict = "REJECT"]) :
          hb' = IF hb.eof THEN DataTransferEnds(s) ELSE [s EXCEPT !.deof = TRUE]

HbChildDrops ==
    /\ hb.pc = "copy" /\ hb.deof /\ hb.down # <<>>
    /\ hb' = [hb EXCEPT !.down = <<>>]

HbWrite ==
    /\ hb.pc = "copy" /\ hb.buf # <<>>
    /\ hb' \in HttpDstWrite(hb)

(* The destination breaks, or the transfer times out. *)
HbFails ==
    /\ hb.pc = "copy"
    /\ hb' = DataTransferEnds([hb EXCEPT !.status = {"FAILED"}])

HbNext == HbSetup \/ HbRead \/ HbChildCopies \/ HbChildEnds \/ HbChildRefuses \/ HbChildDrops \/ HbWrite \/ HbFails

HbSpec == HbInit /\ [][HbNext]_hb

-----------------------------------------------------------------------------
(* What a reader of the destination makes of the bytes: a chunked message is *)
(* parsed line by line.                                                      *)
Parsed(o) ==
    LET step(p, t) ==
            CASE p.at = "head" /\ t = <<"head", 2>> -> [p EXCEPT !.at = "lenA"]
              [] p.at = "head" /\ t = <<"head", 1>> -> p
              [] p.at = "lenA" /\ t[1] = "lenA" -> [p EXCEPT !.at = "lenB", !.need = t[2], !.fin = t[2] = 0]
              [] p.at = "lenB" /\ t = <<"lenB", p.need>> -> [p EXCEPT !.at = IF p.fin THEN "cr" ELSE "byte"]
              [] p.at = "byte" /\ t[1] = "byte" ->
                    [p EXCEPT !.body = Append(@, t), !.need = @ - 1, !.at = IF p.need = 1 THEN "cr" ELSE "byte"]
              [] p.at = "cr" /\ t[1] = "cr" -> [p EXCEPT !.at = "lf"]
              [] p.at = "lf" /\ t[1] = "lf" -> [p EXCEPT !.at = IF p.fin THEN "end" ELSE "lenA"]
              [] OTHER -> [p EXCEPT !.at = "garbled"]
        upto[i \in 0 .. Len(o)] ==
            IF i = 0 THEN [at |-> "head", need |-> 0, fin |-> FALSE, body |-> <<>>] ELSE step(upto[i - 1], o[i])
    IN upto[Len(o)]

Delivered(s) ==
    IF s.head.te THEN Parsed(s.out).body ELSE SelectSeq(s.out, LAMBDA t : t[1] = "byte")

(* http_transfer_setup does not take the chunks of an answer apart that goes *)
(* through a stacked proxy to a client of HTTP/1.0.                          *)
Raw(m) == m.stacked /\ m.from = "S" /\ m.framing = "chunked" /\ m.client <= 10

Bytes(o) == SelectSeq(o, LAMBDA t : t[1] = "byte")

(* A message of an unbroken source that was copied to its end is at the      *)
(* destination byte for byte, and only max_body_length may shorten it.  It   *)
(* is in the framing its headers announce, unless a line was taken in parts  *)
(* whose rest the code forgets, or the chunks went to the stacked proxy raw. *)
HttpBodyIntact ==
    hb.pc = "done" /\ hb.error = "none" /\ ~hb.dies /\ hb.verdict = "ACCEPT" =>
        LET n == IF hb.msg.suppress \/ hb.msg.framing = "none" THEN 0 ELSE Total(hb.msg.chunks)
            got == Delivered(hb)
            bytes == Bytes(hb.out)
        IN /\ bytes = Body(Len(bytes))
           /\ Raw(hb.msg) \/ Len(bytes) = n \/ (hb.msg.max # 0 /\ Len(bytes) = hb.msg.max /\ hb.msg.max < n)
           /\ ~hb.cut /\ ~Raw(hb.msg) =>
                 /\ hb.head.te => Parsed(hb.out).at = "end"
                 /\ ~hb.head.te /\ hb.head.cl >= 0 /\ ~hb.msg.suppress => Len(got) = hb.head.cl
                 /\ got = bytes

(* An error page takes the place of a message: the proxy writes one only     *)
(* when no byte of the message has reached the destination.                  *)
HttpErrorPageAlone == hb.error \in {"IO_ERROR", "BAD_CONTENT"} => hb.out = <<>>

(* What the destination gets of a message is the message, or an error page.  *)
HttpBodyFramed == HttpBodyIntact /\ HttpErrorPageAlone

(* httpfltr.h: force_nonpersistent_mode is "whether to force the end of the  *)
(* connection".  A message that was cut short leaves its rest on the source; *)
(* the connection is not used for another one.                               *)
HttpInSync == hb.pc = "done" /\ hb.error = "none" /\ hb.wire # <<>> => hb.mode = "CLOSE" \/ hb.smode = "CLOSE"

=============================================================================
