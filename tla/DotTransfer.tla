---------------------------- MODULE DotTransfer ----------------------------
(****************************************************************************)
(* ZDotTransfer (libproxy/dottransfer.cc): the '.'-terminated bulk transfer *)
(* POP3 uses.  Its src_read takes lines off the source and removes the dot  *)
(* stuffing; its dst_write puts the stuffing back on the way out.           *)
(*                                                                          *)
(* A payload is a sequence of characters: Dot, Other (any character that is *)
(* neither a dot nor part of a line end) and Eol, which stands for CR LF.   *)
(* Every z_stream_write is one step and accepts a prefix of what it is      *)
(* given; a call of dst_write is a sequence of such steps.                  *)
(****************************************************************************)
EXTENDS Naturals, Sequences, FiniteSets, SequencesExt

CONSTANTS
    BufferSize,   \* characters the transfer buffer holds
    Lines,        \* the lines a message may be made of, without stuffing
    MaxLines,     \* bound: lines per message
    MaxChild,     \* bound: characters a stacked child sends; 0: no child
    LongLine,     \* subset of BOOLEAN: what policy_enable_longline may be
    MaxShort      \* bound: writes that accept less than they are given

Dot == "."
Other == "x"
Eol == "eol"

Chars == {Dot, Other, Eol}

ASSUME DotConstants ==
    /\ BufferSize \in Nat /\ MaxLines \in Nat /\ MaxChild \in Nat
    /\ LongLine \subseteq BOOLEAN /\ MaxShort \in Nat
    /\ \A l \in Lines : l \in Seq({Dot, Other}) /\ Len(l) + 2 <= BufferSize

VARIABLES
    wire,     \* lines still to come from the source, stuffed, the last one is "."
    child,    \* characters still to come from the stacked child
    pieces,   \* policy_enable_longline: lines that do not fit come in pieces
    split,    \* self->previous_line_split
    body,     \* the payload, as the source meant it
    buf,      \* the transfer buffer between ofs and end
    phase,    \* "read", "write", "eof" or "done": copy_data's turn
    dws,      \* self->dst_write_state
    step,     \* where dst_write is: "entry", "data" or "dot"
    bw,       \* *bytes_written of the call in progress
    out,      \* what the destination has received after the preamble
    shorts,   \* writes that were short so far
    resend    \* history: a call wrote something and returned AGAIN

vars == <<wire, child, pieces, split, body, buf, phase, dws, step, bw, out, shorts, resend>>

States == {"PREAMBLE", "DATA", "DATA_LF", "DATA_DOT"}

(****************************************************************************)
(* What stuffing means: a dot at the start of a line is doubled.            *)
(****************************************************************************)
AtLineStart(s, i) == i = 1 \/ s[i - 1] = Eol

Stuffed(s) ==
    FlattenSeq([i \in 1 .. Len(s) |->
                  IF s[i] = Dot /\ AtLineStart(s, i) THEN <<Dot, Dot>> ELSE <<s[i]>>])

Joined(ls) == FlattenSeq([i \in 1 .. Len(ls) |-> ls[i] \o <<Eol>>])

StuffLine(l) == IF l # <<>> /\ l[1] = Dot THEN <<Dot>> \o l ELSE l

(* The payload is a message read off the wire, or what a child sends. *)
Init ==
    /\ \/ /\ child = <<>>
          /\ \E n \in 0 .. MaxLines : \E ls \in [1 .. n -> Lines] :
                /\ wire = [i \in 1 .. n |-> StuffLine(ls[i])] \o << <<Dot>> >>
                /\ body = Joined(ls)
       \/ /\ MaxChild > 0 /\ wire = <<>>
          /\ \E n \in 1 .. MaxChild : child \in [1 .. n -> Chars]
          /\ body = child
    /\ pieces \in LongLine /\ split = FALSE /\ buf = <<>> /\ phase = "read"
    /\ dws = "PREAMBLE" /\ step = "entry" /\ bw = 0 /\ out = <<>> /\ shorts = 0 /\ resend = FALSE

(****************************************************************************)
(* z_dot_transfer_src_read, with z_stream_line_get_copy: a line that does   *)
(* not fit is returned in pieces, without its line end.  Room is kept for   *)
(* the line end.                                                            *)
(****************************************************************************)
Room == BufferSize - Len(buf)

IsEnd(l) == ~split /\ l = <<Dot>>
Unstuffed(l) == IF ~split /\ l # <<>> /\ l[1] = Dot THEN Tail(l) ELSE l

Reading == phase = "read" /\ wire # <<>>

SrcReadLine ==
    /\ Reading
    /\ Len(Head(wire)) + 1 <= Room /\ ~IsEnd(Head(wire))
    /\ buf' = buf \o Unstuffed(Head(wire)) \o <<Eol>>
    /\ wire' = Tail(wire)
    /\ split' = FALSE
    /\ UNCHANGED <<child, pieces, body, phase, dws, step, bw, out, shorts, resend>>

SrcReadPiece ==
    /\ Reading /\ pieces
    /\ Room >= 2 /\ Len(Head(wire)) + 1 > Room
    /\ buf' = buf \o SubSeq(Head(wire), 1, Room - 1)
    /\ wire' = <<SubSeq(Head(wire), Room, Len(Head(wire)))>> \o Tail(wire)
    /\ split' = TRUE
    /\ UNCHANGED <<child, pieces, body, phase, dws, step, bw, out, shorts, resend>>

(* The end of the payload; with data in the buffer it is seen again later. *)
SrcReadEof ==
    /\ phase = "read"
    /\ IF wire = <<>> THEN child = <<>> ELSE IsEnd(Head(wire)) /\ Room >= 2
    /\ phase' = IF buf = <<>> THEN "eof" ELSE "write"
    /\ UNCHANGED <<wire, child, pieces, split, body, buf, dws, step, bw, out, shorts, resend>>

(* With a stacked child the buffer is filled by a plain z_stream_read. *)
DownRead ==
    /\ phase = "read" /\ child # <<>>
    /\ \E n \in 1 .. Len(child) :
          /\ n <= Room
          /\ buf' = buf \o SubSeq(child, 1, n)
          /\ child' = SubSeq(child, n + 1, Len(child))
    /\ UNCHANGED <<wire, pieces, split, body, phase, dws, step, bw, out, shorts, resend>>

(* Nothing to read for now (or no room): the buffer is flushed first. *)
SrcReadAgain ==
    /\ phase = "read" /\ buf # <<>>
    /\ phase' = "write"
    /\ UNCHANGED <<wire, child, pieces, split, body, buf, dws, step, bw, out, shorts, resend>>

(****************************************************************************)
(* z_dot_transfer_dst_write.                                                *)
(****************************************************************************)
(* The position of the first dot, after the first bw characters, that the   *)
(* scan wants to escape; Len(buf) + 1 when there is none.                   *)
NeedsEscape(i) ==
    /\ buf[i] = Dot
    /\ IF i = bw + 1 THEN dws = "DATA_LF" ELSE buf[i - 1] = Eol

Escapes == {i \in bw + 1 .. Len(buf) : NeedsEscape(i)}

NextEscape == IF Escapes = {} THEN Len(buf) + 1
              ELSE CHOOSE i \in Escapes : \A j \in Escapes : i <= j

(* One z_stream_write of n characters accepts k of them; it is AGAIN when   *)
(* it takes none of what it is given.                                       *)
Accepts(n, k) ==
    /\ k = n \/ shorts < MaxShort
    /\ shorts' = IF k = n THEN shorts ELSE shorts + 1

Again(n, k) == k = 0 /\ n > 0

(* dst_write returns NORMAL having taken n characters, in state s:          *)
(* z_transfer2_write_dest moves ofs past them, and copy_data calls again    *)
(* until the buffer is empty.                                               *)
ReturnWritten(n, s) ==
    /\ buf' = SubSeq(buf, n + 1, Len(buf))
    /\ phase' = IF n = Len(buf) THEN "read" ELSE "write"
    /\ dws' = s /\ step' = "entry" /\ bw' = 0
    /\ UNCHANGED resend

(* dst_write returns AGAIN, in state s: bytes_written is not looked at and  *)
(* ofs stays, so what this call has written is still in the buffer.         *)
ReturnAgain(s) ==
    /\ dws' = s /\ step' = "entry" /\ bw' = 0
    /\ resend' = (resend \/ bw > 0)
    /\ UNCHANGED <<buf, phase>>

(* ... by what its last write, of n characters of which k were taken, gave. *)
Return(n, k, s) == IF Again(n, k) THEN ReturnAgain(s) ELSE ReturnWritten(bw + k, s)

(* The switch of dst_write.  A preamble that does not go out at once only   *)
(* postpones the call.                                                      *)
DstWrite ==
    /\ phase = "write" /\ step = "entry" /\ buf # <<>>
    /\ step' = IF dws = "DATA_DOT" THEN "dot" ELSE "data"
    /\ dws' = IF dws = "PREAMBLE" THEN "DATA_LF" ELSE dws
    /\ UNCHANGED <<wire, child, pieces, split, body, buf, phase, bw, out, shorts, resend>>

(* Write up to the dot that has to be escaped.  The test compares the       *)
(* number of characters this write took with the dot's offset in the whole  *)
(* buffer.                                                                  *)
EscapeReached(i, n) == i - 1 = n

DstWriteUpToDot ==
    /\ phase = "write" /\ step = "data" /\ Escapes # {}
    /\ \E n \in 0 .. NextEscape - 1 - bw :
          /\ Accepts(NextEscape - 1 - bw, n)
          /\ out' = out \o SubSeq(buf, bw + 1, bw + n)
          /\ IF EscapeReached(NextEscape, n)
               THEN /\ bw' = bw + n /\ dws' = "DATA_DOT" /\ step' = "dot"
                    /\ UNCHANGED <<buf, phase, resend>>
               ELSE Return(NextEscape - 1 - bw, n, "DATA")
    /\ UNCHANGED <<wire, child, pieces, split, body>>

(* Mutant of DstWriteRest: the number of characters taken is not looked at. *)
DstWriteRestAll ==
    /\ phase = "write" /\ step = "data" /\ Escapes = {}
    /\ \E n \in 0 .. Len(buf) - bw :
          /\ Accepts(Len(buf) - bw, n)
          /\ out' = out \o SubSeq(buf, bw + 1, bw + n)
          /\ ReturnWritten(Len(buf), IF Last(buf) = Eol THEN "DATA_LF" ELSE "DATA")
    /\ UNCHANGED <<wire, child, pieces, split, body>>

(* No dot to escape: the rest goes out as it is. *)
DstWriteRest ==
    /\ phase = "write" /\ step = "data" /\ Escapes = {}
    /\ \E n \in 0 .. Len(buf) - bw :
          /\ Accepts(Len(buf) - bw, n)
          /\ out' = out \o SubSeq(buf, bw + 1, bw + n)
          /\ Return(Len(buf) - bw, n, IF Last(buf) = Eol THEN "DATA_LF" ELSE "DATA")
    /\ UNCHANGED <<wire, child, pieces, split, body>>

DstWriteDot ==
    /\ phase = "write" /\ step = "dot"
    /\ \/ /\ Accepts(1, 1)
          /\ out' = Append(out, Dot) /\ dws' = "DATA" /\ step' = "data"
          /\ UNCHANGED <<buf, phase, bw, resend>>
       \/ /\ Accepts(1, 0)
          /\ Return(1, 0, "DATA_DOT") /\ UNCHANGED out
    /\ UNCHANGED <<wire, child, pieces, split, body>>

(* z_dot_transfer_dst_shutdown: a payload that does not end in a line end   *)
(* gets one.                                                                *)
DstShutdown ==
    /\ phase = "eof"
    /\ out' = IF dws = "DATA" THEN Append(out, Eol) ELSE out
    /\ phase' = "done"
    /\ UNCHANGED <<wire, child, pieces, split, body, buf, dws, step, bw, shorts, resend>>

Next ==
    \/ SrcReadLine \/ SrcReadPiece \/ SrcReadEof \/ DownRead \/ SrcReadAgain
    \/ DstWrite \/ DstWriteUpToDot \/ DstWriteRest \/ DstWriteDot
    \/ DstShutdown

Spec == Init /\ [][Next]_vars

-----------------------------------------------------------------------------
NoDots(s) == SelectSeq(s, LAMBDA c : c # Dot)

(* The payload as it must arrive: it ends with a line end, unless nothing   *)
(* was sent at all.                                                         *)
Closed(s) == IF s = <<>> \/ Last(s) = Eol THEN s ELSE Append(s, Eol)

(* Type invariant; the buffer is never overrun. *)
DotTypeOK ==
    /\ phase \in {"read", "write", "eof", "done"} /\ dws \in States
    /\ step \in {"entry", "data", "dot"} /\ bw \in 0 .. Len(buf)
    /\ Len(buf) <= BufferSize /\ out \in Seq(Chars) /\ buf \in Seq(Chars)

(* How much of s is found in t, in order *)
Found(s, t) == FoldLeft(LAMBDA k, c : IF k < Len(s) /\ c = s[k + 1] THEN k + 1 ELSE k, 0, t)

(* However reads are cut into pieces and writes cut short, every character  *)
(* of the payload but dots reaches the destination, in order; and exactly   *)
(* once as long as no call of dst_write returned AGAIN after it had written *)
(* part of the buffer.  Stuffing only ever adds or fails to add dots.       *)
NothingLost ==
    /\ phase = "done" => Found(NoDots(Closed(body)), NoDots(out)) = Len(NoDots(Closed(body)))
    /\ ~resend => /\ IsPrefix(NoDots(out), NoDots(Closed(body)))
                  /\ phase = "done" => NoDots(out) = NoDots(Closed(body))

(* "send the contents of @buf to @stream, escaping '.' characters when      *)
(* encountered as the first character in a line": at the end the            *)
(* destination has exactly the stuffed payload, closed by a line end.       *)
DotStuffed == phase = "done" => out = Stuffed(Closed(body))

DotLines(s) == {i \in 1 .. Len(s) : s[i] = Dot /\ AtLineStart(s, i)}

(* With whole writes, unsplit lines and one dot to escape that promise is   *)
(* kept, wherever the payload is cut into buffers.                          *)
OneDotStuffed ==
    phase = "done" /\ shorts = 0 /\ ~pieces /\ Cardinality(DotLines(body)) <= 1 =>
        out = Stuffed(Closed(body))

(* The buffer keeps its bounds, nothing but dots is lost, nothing is         *)
(* repeated unless a call wrote and returned AGAIN, and with a single dot to *)
(* escape and whole writes the stuffing is right.                            *)
DotTransferred == DotTypeOK /\ NothingLost /\ OneDotStuffed
=============================================================================
