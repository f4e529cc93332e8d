----------------------------- MODULE TelnetWire -----------------------------
(* The byte level of the telnet proxy: the parser of one side's stream       *)
(* (telnetprotocol.cc), the escaping of what is sent on (telnet.cc), and     *)
(* the line editor of the prompts (telnetlineedit.cc).  A byte is "x" (any   *)
(* data), "IAC", a command, an option, "SB", "SE", or one of "cr", "lf",     *)
(* "bs", "kill".  "NOP" stands for the commands of RFC 854 (240 and above),  *)
(* "ext" for one below, which needs a negotiated option.                     *)
EXTENDS Integers, Sequences, SequencesExt

CONSTANTS
    WireInputs,   \* what a peer means to say: sequences of [k: "data"/"cmd"/"opneg"/"sub", b: bytes]
    SubBytes      \* TELNET_BUFFER_SIZE: bytes of a suboption

VARIABLE
    tw   \* [says, in: bytes not read yet, relay: connected or at a prompt, nego: commands with their option on, state, command, data, sub: the buffers,
           \*  out: bytes sent to the other side, line: line_editor's data_buffer, eol]

-----------------------------------------------------------------------------
(* telnet_protocol_escape_data, and what is written for each event. *)
Escape(bytes) == FlattenSeq([i \in 1..Len(bytes) |-> IF bytes[i] = "IAC" THEN <<"IAC", "IAC">> ELSE <<bytes[i]>>])
Emit(e) ==
    CASE e.k = "data" -> Escape(e.b)
      [] e.k = "sub" -> <<"IAC", "SB">> \o Escape(e.b) \o <<"IAC", "SE">>
      [] OTHER -> <<"IAC">> \o e.b
WireOfAll(says) == FlattenSeq([i \in 1..Len(says) |-> Emit(says[i])])

(* telnet_lineedit_process_data: one call for the bytes of a data event; the *)
(* carriage return is remembered within the call.                            *)
LineByte(acc, byte) ==
    LET le == IF byte \in {"lf", "nul"} THEN acc ELSE [acc EXCEPT !.cr = FALSE]
    IN CASE byte = "bs" -> [le EXCEPT !.buf = IF @ = <<>> THEN @ ELSE Front(@)]
         [] byte = "kill" -> [le EXCEPT !.buf = <<>>]
         [] byte = "cr" -> [le EXCEPT !.cr = TRUE]
         [] byte \in {"lf", "nul"} -> [le EXCEPT !.eol = @ \/ acc.cr, !.cr = FALSE]
         [] OTHER -> [le EXCEPT !.buf = Append(@, byte)]
LineEdit(w, bytes) ==
    LET r == FoldLeft(LineByte, [buf |-> IF w.eol THEN <<>> ELSE w.line, cr |-> FALSE, eol |-> FALSE], bytes)
    IN [w EXCEPT !.line = r.buf, !.eol = r.eol]

-----------------------------------------------------------------------------
(* process_command_transparent: a built-in command is accepted and goes no   *)
(* further; another one is sent on if its option was negotiated.             *)
BuiltIn == {"SE", "NOP"}
Forwards(w, command) == command \notin BuiltIn /\ command \in w.nego

(* An event of the parser: process_data, process_command, process_opneg and  *)
(* process_suboption, of which the policy accepts every option.              *)
Event(w, k, bytes) ==
    IF k = "cmd" /\ ~Forwards(w, bytes[1]) THEN w
    ELSE IF w.relay THEN [w EXCEPT !.out = @ \o Emit([k |-> k, b |-> bytes])]
    ELSE IF k = "data" THEN LineEdit(w, bytes) ELSE w
CallData(w) ==
    IF w.state = "QUIT" \/ w.data = <<>> THEN w ELSE [Event(w, "data", w.data) EXCEPT !.data = <<>>]
CallSub(w) == IF w.sub = <<>> THEN w ELSE [Event(w, "sub", w.sub) EXCEPT !.sub = <<>>]

(* append_byte for the suboption; the data of one read always fits. *)
AppendSub(w, byte) == IF Len(w.sub) >= SubBytes THEN [w EXCEPT !.state = "QUIT"] ELSE [w EXCEPT !.sub = Append(@, byte)]

HandleData(w, byte) == IF byte = "IAC" THEN [w EXCEPT !.state = "ESCAPED"] ELSE [w EXCEPT !.data = Append(@, byte)]

HandleEscaped(w, byte) ==
    LET c == [w EXCEPT !.command = byte]
    IN CASE byte = "IAC" -> CallData([c EXCEPT !.state = "DATA", !.data = Append(@, byte)])
         [] byte = "SB" -> [c EXCEPT !.state = "SUBNEG", !.sub = <<>>]
         [] byte \in {"WILL", "WONT", "DO", "DONT"} -> [c EXCEPT !.state = "OPNEG"]
         [] OTHER -> Event(CallData([c EXCEPT !.state = "DATA"]), "cmd", <<byte>>)

HandleOpneg(w, byte) == Event(CallData([w EXCEPT !.state = "DATA"]), "opneg", <<w.command, byte>>)
HandleSubneg(w, byte) == IF byte = "IAC" THEN [w EXCEPT !.state = "SUBNEG_ESCAPED"] ELSE AppendSub(w, byte)
(* Mutant of HandleSubnegEscaped: an escaped byte of a suboption is lost. *)
HandleSubnegUnescaped(w, byte) ==
    IF byte = "SE" THEN CallSub(CallData([w EXCEPT !.state = "DATA"])) ELSE [w EXCEPT !.state = "SUBNEG"]
HandleSubnegEscaped(w, byte) ==
    IF byte = "SE" THEN CallSub(CallData([w EXCEPT !.state = "DATA"]))
    ELSE AppendSub([w EXCEPT !.state = "SUBNEG"], byte)

ProcessByte(w, byte) ==
    CASE w.state = "DATA" -> HandleData(w, byte)
      [] w.state = "ESCAPED" -> HandleEscaped(w, byte)
      [] w.state = "OPNEG" -> HandleOpneg(w, byte)
      [] w.state = "SUBNEG" -> HandleSubneg(w, byte)
      [] w.state = "SUBNEG_ESCAPED" -> HandleSubnegEscaped(w, byte)
      [] w.state = "QUIT" -> w

(* telnet_read and telnet_protocol_process_data: a packet of any size. *)
ReadPacket(w, n) == CallData(FoldLeft(ProcessByte, [w EXCEPT !.in = SubSeq(@, n + 1, Len(@))], SubSeq(w.in, 1, n)))

-----------------------------------------------------------------------------
WireInits ==
    {[says |-> says, in |-> WireOfAll(says), relay |-> relay, nego |-> nego, state |-> "DATA", command |-> "",
      data |-> <<>>, sub |-> <<>>, out |-> <<>>, line |-> <<>>, eol |-> FALSE] : says \in WireInputs, relay \in BOOLEAN, nego \in SUBSET {"ext"}}
WireInit == tw \in WireInits
WireRead == tw.state # "QUIT" /\ \E n \in 1..Len(tw.in) : tw' = ReadPacket(tw, n)
WireNext == WireRead
WireSpec == WireInit /\ [][WireNext]_tw

-----------------------------------------------------------------------------
(* What a peer says that is for the other side *)
Meant(w) == SelectSeq(w.says, LAMBDA e : e.k = "cmd" => e.b[1] \in w.nego)

(* Whatever packets the bytes come in, what is sent on says the same in the  *)
(* same order, but for the commands of RFC 854, which the proxy keeps, and   *)
(* those whose option is off: all of it is sent once it was read, unless a   *)
(* suboption was too long, and then nothing follows that one.                *)
TelnetRelayed ==
    tw.relay =>
        /\ IsPrefix(tw.out, WireOfAll(Meant(tw)))
        /\ tw.in = <<>> /\ tw.state # "QUIT" => tw.out = WireOfAll(Meant(tw))

(* A line that ends in CR LF is a line for the prompt, however the bytes are *)
(* split into packets.                                                       *)
TelnetLineEnds ==
    LET typed == WireOfAll(tw.says)
    IN ~tw.relay /\ tw.in = <<>> /\ Len(typed) >= 2 /\ SubSeq(typed, Len(typed) - 1, Len(typed)) = <<"cr", "lf">> =>
           tw.eol

=============================================================================
