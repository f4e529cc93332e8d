------------------------------ MODULE Transfer2 ------------------------------
(****************************************************************************)
(* ZTransfer2 (libproxy/transfer2.cc): the copy loop every protocol proxy   *)
(* uses to move a bulk payload from one endpoint to the other, directly or  *)
(* through a stacked proxy.                                                 *)
(*                                                                          *)
(* A "leg" is one of the two entries of self->buffers:                      *)
(*    plain    leg 0: SOURCE    -> DEST                                     *)
(*    stacked  leg 0: SOURCE    -> DOWN_SOURCE   (into the child proxy)     *)
(*             leg 1: DOWN_DEST -> DEST          (out of the child proxy)   *)
(*                                                                          *)
(* The i-th byte that enters a leg is the number i, so that order, loss and *)
(* duplication are visible in what comes out of it.  copy_data is split at  *)
(* its I/O calls: everything between two calls is one step, and the peers,  *)
(* the child proxy and the thread that asks the proxy to stop move between  *)
(* any two of them.                                                         *)
(****************************************************************************)
EXTENDS Naturals, Sequences, FiniteSets

CONSTANTS
    StackModes,       \* subset of BOOLEAN: what the stack_proxy callback may decide
    CompleteCopy,     \* TRUE iff ZT2F_COMPLETE_COPY is among the flags
    Timers,           \* subset of {"timeout", "progress"}: the timers that are set
    BufferSize,       \* self->buffer_size
    MaxReadAtATime,   \* MAX_READ_AT_A_TIME
    Preamble,         \* bytes the proxy itself pushes first (ZT2S_PROXY_OUT)
    MaxBytes,         \* bound: bytes a peer ever sends on one leg
    MaxRoom,          \* bound: bytes the sink of a leg accepts before it blocks
    Faults            \* what may go wrong, a subset of FaultKinds

FaultKinds == {"read_error", "write_error", "stop", "cancel", "suspend",
               "stack_fails", "setup_fails", "progress_fails"}

StatusBits == {"FINISHED", "SUSPENDED", "FAILED", "TIMEDOUT", "ABORTED", "STARTED",
               "COPYING_TAIL", "EOF_SOURCE", "EOF_DEST", "SOFT_EOF_SOURCE",
               "SOFT_EOF_DEST", "PROXY_OUT"}

Results == {"none", "FINISHED", "SUSPENDED", "FAILED", "ABORTED"}

Legs == {0, 1}

ASSUME ConstantsAssumption ==
    /\ StackModes \subseteq BOOLEAN /\ StackModes # {}
    /\ CompleteCopy \in BOOLEAN
    /\ Timers \subseteq {"timeout", "progress"}
    /\ BufferSize \in Nat \ {0}
    /\ MaxReadAtATime \in Nat \ {0}
    /\ Preamble \in Nat /\ MaxBytes \in Nat /\ Preamble <= MaxBytes
    /\ MaxRoom \in Nat \ {0}
    /\ Faults \subseteq FaultKinds

VARIABLES
    pc,        \* where the owner's thread is, see PCs
    stacked,   \* self->stacked # NULL
    status,    \* self->status, as the set of its bits
    buf,       \* self->buffers: [mem, ofs, end] per leg
    cond,      \* the <<leg, "IN" or "OUT">> conditions that are polled
    pending,   \* legs whose callback the current poll iteration still has to run
    due,       \* likewise, the timers and the owner's own callbacks
    cur, pkt,  \* copy_data's leg and pkt_count
    dwInitial, \* the proxy's dst_write has not been called yet
    result,    \* what the last z_transfer2_run returned
    sent,      \* bytes the peer has put on each leg
    peer,      \* the reading side of each leg: "open", "closed" or "error"
    room,      \* bytes the sink of each leg accepts now
    broken,    \* the sink of each leg fails
    nread,     \* bytes taken from each leg's source so far
    got,       \* bytes each leg's sink has received
    shut,      \* per leg: was its sink shut down, and with which status bits
    stop       \* another thread asked the proxy to stop

code == <<pc, stacked, status, buf, cond, pending, due, cur, pkt, dwInitial, result, nread, got, shut>>
world == <<sent, peer, room, broken, stop>>
vars == <<code, world>>

PCs == {"new", "owner", "poll", "dispatch", "write", "read", "freed"}

(****************************************************************************)
(* Buffers.                                                                 *)
(****************************************************************************)
Buffers == [mem : [1 .. BufferSize -> Nat], ofs : 0 .. BufferSize, end : 0 .. BufferSize]

BufferInit == [mem |-> [i \in 1 .. BufferSize |-> 0], ofs |-> 0, end |-> 0]

Empty(b) == b.ofs = b.end
Full(b) == b.end = BufferSize

(* buf->ofs = buf->end = 0 *)
Reset(b) == [mem |-> b.mem, ofs |-> 0, end |-> 0]

(* k bytes of the leg's stream, the ones after the first n, stored at end. *)
Store(b, n, k) ==
    [mem |-> [i \in 1 .. BufferSize |->
                IF i > b.end /\ i <= b.end + k THEN n + (i - b.end) ELSE b.mem[i]],
     ofs |-> b.ofs,
     end |-> b.end + k]

(* The first k bytes are out. *)
Consume(b, k) == [mem |-> b.mem, ofs |-> b.ofs + k, end |-> b.end]

(* Mutant of Chunk: a short write is continued from the start of the buffer. *)
ChunkFromStart(b, k) == SubSeq(b.mem, 1, k)

(* The k bytes at ofs. *)
Chunk(b, k) == SubSeq(b.mem, b.ofs + 1, b.ofs + k)

Smaller(a, b) == IF a < b THEN a ELSE b

SoftEof(l) == IF l = 0 THEN "SOFT_EOF_SOURCE" ELSE "SOFT_EOF_DEST"

ActiveLegs == IF stacked THEN Legs ELSE {0}

(* Mutant of UpdateCond: wait for more input while the buffer has room. *)
UpdateCondFillFirst(st, s, b) ==
    LET Want(l) == IF b[l].end < BufferSize /\ "PROXY_OUT" \notin s THEN <<l, "IN">> ELSE <<l, "OUT">>
    IN (IF "EOF_SOURCE" \in s THEN {} ELSE {Want(0)})
       \union (IF ~st \/ "EOF_DEST" \in s THEN {} ELSE {Want(1)})

(****************************************************************************)
(* z_transfer2_update_cond: the conditions polled in status s with buffers  *)
(* b, where st tells whether a proxy is stacked.                            *)
(****************************************************************************)
UpdateCond(st, s, b) ==
    LET leg0 == IF "EOF_SOURCE" \in s THEN {}
                ELSE IF /\ Empty(b[0]) \/ (~st /\ "EOF_DEST" \in s)
                        /\ "PROXY_OUT" \notin s
                     THEN {<<0, "IN">>}
                     ELSE {<<0, "OUT">>}
        leg1 == IF ~st \/ "EOF_DEST" \in s THEN {}
                ELSE IF Empty(b[1]) THEN {<<1, "IN">>} ELSE {<<1, "OUT">>}
    IN leg0 \union leg1

(****************************************************************************)
(* z_transfer2_eof: the bits it leaves when status is s on entry.           *)
(****************************************************************************)
(* Mutant of EofBits: a plain transfer forgets the destination's bit. *)
EofBitsSourceOnly(l) == IF l = 0 THEN {"EOF_SOURCE"} ELSE {"EOF_DEST"}

EofBits(l) == IF ~stacked THEN {"EOF_SOURCE", "EOF_DEST"}
              ELSE IF l = 0 THEN {"EOF_SOURCE"} ELSE {"EOF_DEST"}

EofStatus(l, s) ==
    LET t == s \union EofBits(l)
    IN IF {"EOF_SOURCE", "EOF_DEST"} \subseteq t THEN t \union {"FINISHED"} ELSE t

(* The shutdown calls of z_transfer2_eof: skipped when the bit is set. *)
EofShutdown(l, s) ==
    IF (IF l = 0 THEN "EOF_SOURCE" ELSE "EOF_DEST") \in s THEN shut
    ELSE [shut EXCEPT ![l] = [done |-> TRUE, seen |-> s]]

Init ==
    /\ pc = "new" /\ stacked = FALSE /\ status = {}
    /\ buf = [l \in Legs |-> BufferInit]
    /\ cond = {} /\ pending = {} /\ due = {} /\ cur = 0 /\ pkt = 0
    /\ dwInitial = TRUE /\ result = "none"
    /\ sent = [l \in Legs |-> 0]
    /\ peer = [l \in Legs |-> "open"]
    /\ room = [l \in Legs |-> 0]
    /\ broken = [l \in Legs |-> FALSE]
    /\ nread = [l \in Legs |-> 0]
    /\ got = [l \in Legs |-> <<>>]
    /\ shut = [l \in Legs |-> [done |-> FALSE, seen |-> {}]]
    /\ stop = FALSE

(****************************************************************************)
(* z_transfer2_start.  The stack_proxy callback decides whether a child is  *)
(* stacked; the setup callback of a stacking proxy may announce a preamble. *)
(* A caller whose start fails frees the object.                             *)
(****************************************************************************)
Start ==
    /\ pc = "new"
    /\ \E st \in StackModes :
          /\ stacked' = st
          /\ cond' = IF st THEN {<<0, "IN">>, <<1, "IN">>} ELSE {<<0, "IN">>}
          /\ \/ status' = {} /\ UNCHANGED sent
             \/ /\ st /\ Preamble > 0
                /\ status' = {"PROXY_OUT"}
                /\ sent' = [sent EXCEPT ![0] = @ + Preamble]
          /\ pc' \in {"owner"} \union (IF "setup_fails" \in Faults THEN {"freed"} ELSE {})
    /\ UNCHANGED <<buf, pending, due, cur, pkt, dwInitial, result, nread, got, shut,
                   peer, room, broken, stop>>

StartFails ==
    /\ pc = "new" /\ "stack_fails" \in Faults
    /\ pc' = "freed"
    /\ UNCHANGED <<stacked, status, buf, cond, pending, due, cur, pkt, dwInitial, result,
                   nread, got, shut, world>>

(****************************************************************************)
(* z_transfer2_run_method up to its loop.                                   *)
(****************************************************************************)
EnterRun(s) ==
    /\ status' = (s \union {"STARTED"}) \ {"SUSPENDED"}
    /\ cond' = UpdateCond(stacked, s, buf)
    /\ pc' = "poll"
    /\ UNCHANGED <<stacked, buf, pending, due, cur, pkt, dwInitial, result, nread, got, shut, world>>

Run ==
    /\ pc = "owner" /\ result \in {"none", "SUSPENDED"}
    /\ EnterRun(status)

(* z_transfer2_rollback; its loop over a suspended run is Run. *)
Rollback ==
    /\ pc = "owner" /\ result \in {"SUSPENDED", "FAILED"}
    /\ "STARTED" \in status /\ "FINISHED" \notin status
    /\ EnterRun(status \union {"COPYING_TAIL"})

Free ==
    /\ pc = "owner" /\ result \notin {"none", "SUSPENDED"}
    /\ pc' = "freed"
    /\ UNCHANGED <<stacked, status, buf, cond, pending, due, cur, pkt, dwInitial, result,
                   nread, got, shut, world>>

(****************************************************************************)
(* One z_poll_iter_timeout: every ready stream is dispatched, and with them *)
(* the timers that expired and the owner's own callbacks (which may cancel  *)
(* the transfer).  A stop request wakes the poll with nothing to dispatch.  *)
(****************************************************************************)
Available(l) == sent[l] - nread[l]

(* The preamble is the proxy's own: the stream behind it may still be silent. *)
StreamAvailable(l) ==
    IF l = 0 /\ "PROXY_OUT" \in status /\ nread[0] < Preamble
      THEN sent[0] > Preamble
      ELSE sent[l] > nread[l]

Ready(l) ==
    \/ <<l, "IN">> \in cond /\ (StreamAvailable(l) \/ peer[l] # "open")
    \/ <<l, "OUT">> \in cond /\ (room[l] > 0 \/ broken[l])

Iterate(other) ==
    /\ pc = "poll" /\ status \intersect {"FINISHED", "SUSPENDED"} = {}
    /\ pending' = {l \in ActiveLegs : Ready(l)}
    /\ due' = other
    /\ pending' # {} \/ due' # {} \/ stop
    /\ pc' = "dispatch"
    /\ UNCHANGED <<stacked, status, buf, cond, cur, pkt, dwInitial, result, nread, got, shut, world>>

OtherSources == Timers \union (IF "cancel" \in Faults THEN {"cancel"} ELSE {})

PollIter == \E other \in SUBSET OtherSources : Iterate(other)

Dispatch(src, s) ==
    /\ pc = "dispatch" /\ src \in due
    /\ due' = due \ {src}
    /\ status' = s
    /\ UNCHANGED <<pc, stacked, buf, cond, pending, cur, pkt, dwInitial, result, nread, got,
                   shut, world>>

(* z_transfer2_timeout *)
Timeout == Dispatch("timeout", status \union {"TIMEDOUT", "FAILED", "FINISHED"})

(* z_transfer2_timed_progress: the proxy's progress callback may give up, or *)
(* (SMTP, until its first write) ask for a suspension.                       *)
TimedProgress ==
    \/ Dispatch("progress", status)
    \/ "progress_fails" \in Faults
       /\ Dispatch("progress", status \union {"FAILED", "FINISHED"})
    \/ "suspend" \in Faults /\ dwInitial
       /\ Dispatch("progress", status \union {"SUSPENDED"})

(* z_transfer2_cancel *)
Cancel == Dispatch("cancel", IF "FINISHED" \in status THEN status
                             ELSE status \union {"FINISHED", "ABORTED"})

(* Mutant of LoopIteration: a stopped transfer is not marked as aborted. *)
LoopIterationNotAborted ==
    /\ pc = "dispatch" /\ pending = {} /\ due = {}
    /\ status' = IF stop THEN status \union {"FINISHED"} ELSE status
    /\ pc' = "poll"
    /\ UNCHANGED <<stacked, buf, cond, pending, due, cur, pkt, dwInitial, result, nread, got,
                   shut, world>>

(* z_proxy_loop_iteration after the callbacks of one iteration. *)
LoopIteration ==
    /\ pc = "dispatch" /\ pending = {} /\ due = {}
    /\ status' = IF stop THEN status \union {"ABORTED", "FINISHED"} ELSE status
    /\ pc' = "poll"
    /\ UNCHANGED <<stacked, buf, cond, pending, due, cur, pkt, dwInitial, result, nread, got,
                   shut, world>>

RunResult(s) ==
    CASE "SUSPENDED" \in s -> "SUSPENDED"
      [] "SUSPENDED" \notin s /\ "FAILED" \in s -> "FAILED"
      [] s \intersect {"SUSPENDED", "FAILED"} = {} /\ "ABORTED" \in s -> "ABORTED"
      [] OTHER -> "FINISHED"

Return ==
    /\ pc = "poll" /\ status \intersect {"FINISHED", "SUSPENDED"} # {}
    /\ result' = RunResult(status)
    /\ pc' = "owner"
    /\ UNCHANGED <<stacked, status, buf, cond, pending, due, cur, pkt, dwInitial, nread, got,
                   shut, world>>

(****************************************************************************)
(* z_transfer2_copy_data.                                                   *)
(****************************************************************************)
CopyData(l) ==
    /\ pc = "dispatch" /\ l \in pending
    /\ pending' = pending \ {l}
    /\ cur' = l /\ pkt' = 0 /\ pc' = "write"
    /\ UNCHANGED <<stacked, status, buf, cond, due, dwInitial, result, nread, got, shut, world>>

(* Leave the loop with status s and buffers b. *)
Leave(s, b) ==
    /\ status' = s /\ buf' = b
    /\ cond' = UpdateCond(stacked, s, b)
    /\ pc' = "dispatch"

(* What a failed write does to the status. *)
WriteFailed(s) == s \union {"FAILED", IF CompleteCopy THEN "COPYING_TAIL" ELSE "FINISHED"}

(* Only a leg whose sink is DEST goes through the proxy's dst_write. *)
SinkIsDest(l) == l = 1 \/ ~stacked

(* Nothing to write, or the tail is being thrown away: the buffer is reset. *)
WriteNothing ==
    /\ pc = "write"
    /\ Empty(buf[cur]) \/ "COPYING_TAIL" \in status
    /\ buf' = [buf EXCEPT ![cur] = Reset(@)]
    /\ pc' = "read"
    /\ UNCHANGED <<stacked, status, cond, pending, due, cur, pkt, dwInitial, result, nread, got,
                   shut, world>>

FirstWriteSuspends == "suspend" \in Faults /\ dwInitial /\ SinkIsDest(cur)

Writing == pc = "write" /\ ~Empty(buf[cur]) /\ "COPYING_TAIL" \notin status

(* k bytes are accepted; only a flushed buffer lets the loop go on. *)
WriteDest(k) ==
    /\ Writing /\ ~broken[cur]
    /\ ~FirstWriteSuspends
    /\ k \in 1 .. Smaller(room[cur], buf[cur].end - buf[cur].ofs)
    /\ got' = [got EXCEPT ![cur] = @ \o Chunk(buf[cur], k)]
    /\ room' = [room EXCEPT ![cur] = @ - k]
    /\ dwInitial' = (dwInitial /\ ~SinkIsDest(cur))
    /\ LET b == [buf EXCEPT ![cur] = Consume(@, k)]
       IN IF Empty(b[cur])
            THEN /\ buf' = [b EXCEPT ![cur] = Reset(@)]
                 /\ pc' = "read"
                 /\ UNCHANGED <<status, cond>>
            ELSE Leave(status, b)
    /\ UNCHANGED <<stacked, pending, due, cur, pkt, result, nread, shut, sent, peer, broken, stop>>

(* G_IO_STATUS_AGAIN: the sink is full, or the proxy's first dst_write      *)
(* suspends the transfer (SMTP sends DATA before the body).                 *)
WriteAgain ==
    /\ Writing
    /\ \/ /\ FirstWriteSuspends
          /\ dwInitial' = FALSE
          /\ Leave(status \union {"SUSPENDED"}, buf)
       \/ /\ ~broken[cur] /\ room[cur] = 0
          /\ ~FirstWriteSuspends
          /\ dwInitial' = (dwInitial /\ ~SinkIsDest(cur))
          /\ Leave(status, buf)
    /\ UNCHANGED <<stacked, pending, due, cur, pkt, result, nread, got, shut, world>>

WriteError ==
    /\ Writing /\ broken[cur]
    /\ ~FirstWriteSuspends
    /\ dwInitial' = (dwInitial /\ ~SinkIsDest(cur))
    /\ Leave(WriteFailed(status), buf)
    /\ UNCHANGED <<stacked, pending, due, cur, pkt, result, nread, got, shut, world>>

(****************************************************************************)
(* The reading half of the loop.                                            *)
(****************************************************************************)
Reading == pc = "read" /\ SoftEof(cur) \notin status

(* The preamble is out once its last byte was handed over. *)
AfterPreamble(s, n) == IF cur = 0 /\ n >= Preamble THEN s \ {"PROXY_OUT"} ELSE s

ReadSource(k) ==
    /\ Reading
    /\ k \in 1 .. Smaller(Available(cur), BufferSize - buf[cur].end)
    /\ nread' = [nread EXCEPT ![cur] = @ + k]
    /\ pkt' = pkt + 1
    /\ LET b == [buf EXCEPT ![cur] = Store(@, nread[cur], k)]
           s == AfterPreamble(status, nread[cur] + k)
       IN IF pkt + 1 = MaxReadAtATime
            THEN Leave(s, b)
            ELSE /\ buf' = b /\ status' = s /\ UNCHANGED cond
                 /\ pc' = IF Full(b[cur]) THEN "write" ELSE "read"
    /\ UNCHANGED <<stacked, pending, due, cur, dwInitial, result, got, shut, world>>

ReadAgain ==
    /\ Reading /\ Available(cur) = 0 /\ peer[cur] = "open"
    /\ Leave(status, buf)
    /\ UNCHANGED <<stacked, pending, due, cur, pkt, dwInitial, result, nread, got, shut, world>>

(* Mutant of ReadEof: no soft EOF, the buffered bytes are forgotten. *)
ReadEofAtOnce ==
    /\ Reading /\ Available(cur) = 0 /\ peer[cur] = "closed"
    /\ shut' = EofShutdown(cur, status)
    /\ Leave(EofStatus(cur, status), buf)
    /\ UNCHANGED <<stacked, pending, due, cur, pkt, dwInitial, result, nread, got, world>>

(* EOF with data still in the buffer is remembered as a soft EOF. *)
ReadEof ==
    /\ Reading /\ Available(cur) = 0 /\ peer[cur] = "closed"
    /\ IF Empty(buf[cur])
         THEN /\ shut' = EofShutdown(cur, status)
              /\ Leave(EofStatus(cur, status), buf)
         ELSE /\ status' = status \union {SoftEof(cur)}
              /\ pc' = "write"
              /\ UNCHANGED <<buf, cond, shut>>
    /\ UNCHANGED <<stacked, pending, due, cur, pkt, dwInitial, result, nread, got, world>>

(* The buffer of a soft EOF was flushed (or not: then write again). *)
SoftEofSeen ==
    /\ pc = "read" /\ SoftEof(cur) \in status
    /\ IF Empty(buf[cur])
         THEN /\ shut' = EofShutdown(cur, status)
              /\ Leave(EofStatus(cur, status), buf)
         ELSE /\ pc' = "write"
              /\ UNCHANGED <<status, buf, cond, shut>>
    /\ UNCHANGED <<stacked, pending, due, cur, pkt, dwInitial, result, nread, got, world>>

(* Mutant of ReadError: the sink is shut down before the bits are set. *)
ReadErrorShutFirst ==
    /\ Reading /\ Available(cur) = 0 /\ peer[cur] = "error"
    /\ shut' = EofShutdown(cur, status)
    /\ Leave(EofStatus(cur, status) \union {"FINISHED", "ABORTED"}, buf)
    /\ UNCHANGED <<stacked, pending, due, cur, pkt, dwInitial, result, nread, got, world>>

ReadError ==
    /\ Reading /\ Available(cur) = 0 /\ peer[cur] = "error"
    /\ LET s == status \union {"FINISHED", "ABORTED"}
       IN /\ shut' = EofShutdown(cur, s)
          /\ Leave(EofStatus(cur, s), buf)
    /\ UNCHANGED <<stacked, pending, due, cur, pkt, dwInitial, result, nread, got, world>>

(****************************************************************************)
(* The world: peers, child proxy, sinks and the thread that stops proxies.  *)
(****************************************************************************)
PeerSends(l) ==
    /\ peer[l] = "open" /\ sent[l] < MaxBytes
    /\ sent' = [sent EXCEPT ![l] = @ + 1]
    /\ UNCHANGED <<code, peer, room, broken, stop>>

PeerCloses(l) ==
    /\ peer[l] = "open"
    /\ peer' = [peer EXCEPT ![l] = "closed"]
    /\ UNCHANGED <<code, sent, room, broken, stop>>

PeerFails(l) ==
    /\ "read_error" \in Faults /\ peer[l] = "open"
    /\ peer' = [peer EXCEPT ![l] = "error"]
    /\ UNCHANGED <<code, sent, room, broken, stop>>

SinkDrains(l) ==
    /\ room[l] < MaxRoom
    /\ room' = [room EXCEPT ![l] = @ + 1]
    /\ UNCHANGED <<code, sent, peer, broken, stop>>

SinkBreaks(l) ==
    /\ "write_error" \in Faults /\ ~broken[l]
    /\ broken' = [broken EXCEPT ![l] = TRUE]
    /\ UNCHANGED <<code, sent, peer, room, stop>>

StopRequest ==
    /\ "stop" \in Faults /\ ~stop
    /\ stop' = TRUE
    /\ UNCHANGED <<code, sent, peer, room, broken>>

World ==
    /\ pc # "freed"
    /\ \/ \E l \in ActiveLegs : \/ PeerSends(l) \/ PeerCloses(l) \/ PeerFails(l)
                               \/ SinkDrains(l) \/ SinkBreaks(l)
       \/ StopRequest

Code == \/ Start \/ StartFails \/ Run \/ Rollback \/ Free
        \/ PollIter \/ Timeout \/ TimedProgress \/ Cancel \/ LoopIteration \/ Return
        \/ \E l \in Legs : CopyData(l)
        \/ WriteNothing \/ (\E k \in 1 .. BufferSize : WriteDest(k)) \/ WriteAgain \/ WriteError
        \/ (\E k \in 1 .. BufferSize : ReadSource(k)) \/ ReadAgain \/ ReadEof
        \/ SoftEofSeen \/ ReadError

Next == Code \/ World

Spec == Init /\ [][Next]_vars

(****************************************************************************)
(* Fairness: the proxy's thread keeps running its loop.  When the timer     *)
(* expires and what the peers do is left to the properties.                 *)
(****************************************************************************)
Unprompted ==
    \/ Start \/ Run \/ Rollback \/ Free \/ Iterate({})
    \/ Timeout \/ TimedProgress \/ Cancel \/ LoopIteration \/ Return
    \/ \E l \in Legs : CopyData(l)
    \/ WriteNothing \/ (\E k \in 1 .. BufferSize : WriteDest(k)) \/ WriteAgain \/ WriteError
    \/ (\E k \in 1 .. BufferSize : ReadSource(k)) \/ ReadAgain \/ ReadEof
    \/ SoftEofSeen \/ ReadError

FairSpec == Spec /\ WF_vars(Unprompted)

(* The inactivity timer expires when nothing re-arms it any more. *)
TimerExpires == \E other \in SUBSET OtherSources : "timeout" \in other /\ Iterate(other)

(* Sinks accept more in the end, and peers close in the end. *)
SinkAlive(l) == pc # "freed" /\ l \in ActiveLegs /\ SinkDrains(l)
PeerEnds(l) == pc # "freed" /\ l \in ActiveLegs /\ PeerCloses(l)

SinksDrain == \A l \in Legs : WF_vars(SinkAlive(l))
PeersEnd == \A l \in Legs : WF_vars(PeerEnds(l))

(* The bits by which a transfer shows that it does not deliver everything. *)
Troubled(s) == s \intersect {"FAILED", "ABORTED", "COPYING_TAIL"} # {}

(* No timeout, failing peer, failing sink, stop request or rollback. *)
Untroubled == []~Troubled(status)

-----------------------------------------------------------------------------
(* Type invariant of the transfer object and of its surroundings. *)
TypeOK ==
    /\ pc \in PCs /\ stacked \in BOOLEAN /\ status \subseteq StatusBits
    /\ buf \in [Legs -> Buffers]
    /\ \A l \in Legs : buf[l].ofs <= buf[l].end
    /\ cond \subseteq Legs \X {"IN", "OUT"}
    /\ pending \subseteq Legs /\ due \subseteq OtherSources
    /\ cur \in Legs /\ pkt \in 0 .. MaxReadAtATime
    /\ dwInitial \in BOOLEAN /\ result \in Results
    /\ sent \in [Legs -> Nat] /\ nread \in [Legs -> Nat]
    /\ peer \in [Legs -> {"open", "closed", "error"}]
    /\ room \in [Legs -> Nat] /\ broken \in [Legs -> BOOLEAN]
    /\ got \in [Legs -> Seq(Nat)]
    /\ shut \in [Legs -> [done : BOOLEAN, seen : SUBSET StatusBits]]
    /\ stop \in BOOLEAN

(* Whatever the reads and writes return (short reads, short writes, a full  *)
(* sink in the middle of a flush, a callback dispatched twice in a row), a  *)
(* sink receives the bytes of its leg in order, without gap or repetition.  *)
InOrder ==
    \A l \in Legs : \A i \in 1 .. Len(got[l]) : got[l][i] = i

(* The transfer object keeps its type, its buffers never run past their end, *)
(* and what a sink has is in order.                                          *)
TransferSound == TypeOK /\ InOrder

(* The shutdown callbacks look at self->status to tell a complete payload   *)
(* from a truncated one (the closing CRLF of a mail, the last HTTP chunk):  *)
(* a sink that is shut down while the status shows no trouble has received  *)
(* all that its source ever sent.                                           *)
CleanShutdown ==
    \A l \in Legs : shut[l].done /\ ~Troubled(shut[l].seen) =>
                       peer[l] = "closed" /\ Len(got[l]) = sent[l]

(* A run that returns ZT2_RESULT_FINISHED ("success") has delivered all the *)
(* data of every leg and has propagated the end of file; only a transfer    *)
(* that the proxy itself rolled back may have thrown data away.             *)
FinishedMeansDelivered ==
    result = "FINISHED" /\ "COPYING_TAIL" \notin status =>
        \A l \in ActiveLegs : shut[l].done /\ peer[l] = "closed" /\ Len(got[l]) = sent[l]

(* Every transfer is an ordered channel per leg that ends once, and cleanly *)
(* only when it is complete.                                                *)
Channel == INSTANCE ReliableCopy WITH
    Burst <- Preamble + 1,
    closed <- [l \in Legs |-> peer[l] = "closed"],
    end <- [l \in Legs |-> IF ~shut[l].done THEN "open"
                            ELSE IF Troubled(shut[l].seen) THEN "broken" ELSE "clean"]

ImplementsChannel == Channel!ASpec

(* With an inactivity timeout every run ends, however silent the peers are  *)
(* and however often the proxy suspends it.                                 *)
RunsEnd == SF_vars(TimerExpires) => ((pc = "poll") ~> (pc = "freed"))

(* What was read is written, even when the source then falls silent: bytes  *)
(* never wait in the buffer for more bytes to come.                         *)
NoHoldback ==
    SinksDrain /\ Untroubled =>
        \A l \in Legs : \A n \in 1 .. MaxBytes :
            (nread[l] >= n) ~> (Len(got[l]) >= n)

(* A preamble the proxy announces with ZT2S_PROXY_OUT reaches the child     *)
(* without the source having to say anything.                               *)
PreamblePushed ==
    SinksDrain /\ Untroubled =>
        (("PROXY_OUT" \in status /\ pc = "poll") ~> ("PROXY_OUT" \notin status))

(* Nothing the proxy holds waits for the source: neither what was read, nor  *)
(* what the proxy itself has to say first.                                   *)
NothingHeldBack == NoHoldback /\ PreamblePushed

(* With peers that close and drain no wake-up is ever lost: the poll        *)
(* conditions left by update_cond let the transfer reach its successful     *)
(* end, unless something fails on the way.                                  *)
Completes ==
    SinksDrain /\ PeersEnd /\ Untroubled => ((pc = "poll") ~> (result = "FINISHED"))

(* A transfer ends: by its timeout, and without one when its peers do.       *)
TransferEnds == RunsEnd /\ Completes
=============================================================================
