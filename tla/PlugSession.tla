----------------------------- MODULE PlugSession -----------------------------
(****************************************************************************)
(* ZPlugSession (lib/plugsession.cc): the two-way copy loop of the plug     *)
(* proxy, direct or through a stacked child, and the part of the plug proxy *)
(* (modules/plug/plug.cc) that drives it.                                   *)
(*                                                                          *)
(* A leg is one direction between two streams, with a buffer of its own:    *)
(*    plain    cs, sc               (client to server and back)             *)
(*    stacked  cd, dc, sd, ds       (d: the child's stream on that side)    *)
(* The i-th byte of a leg is the number i.  copy_data is split at its I/O   *)
(* calls; the peers and the child move between any two of them.             *)
(****************************************************************************)
EXTENDS Naturals, Sequences, FiniteSets

CONSTANTS
    Sessions,        \* the sessions to look at, a subset of SessionData
    BufferSize,
    MaxReadAtATime,  \* MAX_READ_AT_A_TIME
    MaxBytes,        \* bound: bytes sent on each leg
    MaxRoom,         \* bound: bytes a sink takes before it blocks
    Faults           \* subset of {"read_error", "write_error", "stats_rejects", "init_fails"}

PlainLegs == {"cs", "sc"}
StackedLegs == {"cd", "dc", "sd", "ds"}
Legs == PlainLegs \union StackedLegs

EofAll == {"CLIENT_R", "CLIENT_W", "SERVER_R", "SERVER_W"}
EofMask == EofAll \union {"CLIENT_REMOVED", "SERVER_REMOVED", "DESTROYED"}

(* ZPlugSessionData: what the policy sets (interval: packet_stats_interval_ *)
(* packet, 0: off), whether requestStack gives it a child, and which timers *)
(* are set.                                                                 *)
SessionData == [stack : BOOLEAN, shutdown_soft : BOOLEAN, copy_to_server : BOOLEAN,
                copy_to_client : BOOLEAN, interval : Nat, timers : SUBSET {"timeout", "stats"}]

ASSUME PlugConstants ==
    /\ Sessions \subseteq SessionData
    /\ BufferSize \in Nat \ {0} /\ MaxReadAtATime \in Nat \ {0}
    /\ MaxBytes \in [Legs -> Nat] /\ MaxRoom \in Nat \ {0}
    /\ Faults \subseteq {"read_error", "write_error", "stats_rejects", "init_fails"}

VARIABLES
    data,      \* self->session_data
    pc,        \* "new", "poll", "dispatch", "write", "read", "eof" or "ended"
    stacked,   \* a child was stacked when the session started
    eofmask,   \* self->eofmask, as a set of bits
    buf,       \* per leg: the bytes between ofs and end
    cond,      \* the <<leg, "IN" or "OUT">> conditions that are polled
    pending,   \* legs whose callback this poll iteration still has to run
    due,       \* timers this poll iteration still has to run
    cur, pkt,  \* copy_data's leg and pkt_count
    packets,   \* self->global_packet_count, modulo the interval
    finishes,  \* calls of session_data->finish
    touched,   \* self was used after session_data->finish had been called
    reason,    \* what ended the session: "none", "eof", "error", "timeout" or "stats"
    sent, peer, room, broken,   \* the world, per leg, as in Transfer2
    nread, got, shut            \* per leg: bytes read, bytes delivered, sink shut down

code == <<data, pc, stacked, eofmask, buf, cond, pending, due, cur, pkt, packets, finishes,
          touched, reason, nread, got, shut>>
world == <<sent, peer, room, broken>>
vars == <<code, world>>

SessionLegs == IF stacked THEN StackedLegs ELSE PlainLegs

(* z_plug_copy_*: with copy_to_* off the data has no destination (to = NULL). *)
HasSink(l) ==
    CASE l \in {"cs", "cd"} -> data.copy_to_server
      [] l \in {"sc", "sd"} -> data.copy_to_client
      [] OTHER -> TRUE

(* Stacking a child forces soft shutdown (plug_request_stack_event). *)
Soft == data.shutdown_soft \/ stacked

EofBits(l) ==
    CASE l = "cs" -> {"CLIENT_R", "SERVER_W"}
      [] l = "sc" -> {"SERVER_R", "CLIENT_W"}
      [] l = "cd" -> {"CLIENT_R"}
      [] l = "dc" -> {"CLIENT_W"}
      [] l = "sd" -> {"SERVER_R"}
      [] l = "ds" -> {"SERVER_W"}

Init ==
    /\ data \in Sessions
    /\ pc = "new" /\ stacked = FALSE /\ eofmask = {}
    /\ buf = [l \in Legs |-> <<>>]
    /\ cond = {} /\ pending = {} /\ due = {} /\ cur = "cs" /\ pkt = 0 /\ packets = 0
    /\ finishes = 0 /\ touched = FALSE /\ reason = "none"
    /\ sent = [l \in Legs |-> 0] /\ peer = [l \in Legs |-> "open"]
    /\ room = [l \in Legs |-> 0] /\ broken = [l \in Legs |-> FALSE]
    /\ nread = [l \in Legs |-> 0] /\ got = [l \in Legs |-> <<>>]
    /\ shut = [l \in Legs |-> FALSE]

(****************************************************************************)
(* plug_nonblocking_init: connect, ask for a child, start the session, which *)
(* polls every stream for input.                                            *)
(****************************************************************************)
Start ==
    /\ pc = "new"
    /\ stacked' = data.stack
    /\ cond' = {<<l, "IN">> : l \in IF stacked' THEN StackedLegs ELSE PlainLegs}
    /\ pc' = "poll"
    /\ UNCHANGED <<data, eofmask, buf, pending, due, cur, pkt, packets, finishes, touched, reason,
                   nread, got, shut, world>>

InitFails ==
    /\ pc = "new" /\ "init_fails" \in Faults
    /\ pc' = "ended"
    /\ UNCHANGED <<data, stacked, eofmask, buf, cond, pending, due, cur, pkt, packets, finishes,
                   touched, reason, nread, got, shut, world>>

(* Mutant of NewMask: a session is over when one of its streams is. *)
NewMaskEither(add) ==
    LET m == eofmask \union add
    IN IF {"CLIENT_R", "CLIENT_W"} \subseteq m \/ {"SERVER_R", "SERVER_W"} \subseteq m
         THEN m \union {"CLIENT_REMOVED", "SERVER_REMOVED", "DESTROYED"} ELSE m

(* The bits after z_plug_update_eof_mask: a stream that ended both ways is  *)
(* removed, and with both of them the session is cancelled.                 *)
NewMask(add) ==
    LET m == eofmask \union add
        c == IF {"CLIENT_R", "CLIENT_W"} \subseteq m THEN {"CLIENT_REMOVED"} ELSE {}
        s == IF {"SERVER_R", "SERVER_W"} \subseteq m THEN {"SERVER_REMOVED"} ELSE {}
        d == IF c \union s = {"CLIENT_REMOVED", "SERVER_REMOVED"} THEN {"DESTROYED"} ELSE {}
    IN m \union c \union s \union d

(* Mutant of UpdateEofMask: finish is called whenever the bit is set. *)
UpdateEofMaskAgain(add, why, c, goto) ==
    /\ eofmask' = NewMask(add)
    /\ IF "DESTROYED" \in eofmask'
         THEN /\ finishes' = finishes + 1
              /\ reason' = IF reason = "none" THEN why ELSE reason
              /\ cond' = {} /\ pending' = {} /\ due' = {}
         ELSE /\ cond' = c
              /\ UNCHANGED <<finishes, reason, pending, due>>
    /\ pc' = IF "DESTROYED" \in eofmask' /\ goto # "eof" THEN "ended" ELSE goto

(****************************************************************************)
(* z_plug_update_eof_mask, with z_plug_session_cancel and plug_finish: the  *)
(* streams and timers leave the poll, so nothing of this iteration is       *)
(* dispatched any more.  c are the conditions a session that goes on polls. *)
(****************************************************************************)
UpdateEofMask(add, why, c, goto) ==
    /\ eofmask' = NewMask(add)
    /\ IF "DESTROYED" \in eofmask' \ eofmask
         THEN /\ finishes' = finishes + 1 /\ reason' = why
              /\ cond' = {} /\ pending' = {} /\ due' = {}
         ELSE /\ cond' = c
              /\ UNCHANGED <<finishes, reason, pending, due>>
    /\ pc' = IF "DESTROYED" \in eofmask' /\ goto # "eof" THEN "ended" ELSE goto

(****************************************************************************)
(* One poll iteration.                                                      *)
(****************************************************************************)
Available(l) == sent[l] - nread[l]

Ready(l) ==
    \/ <<l, "IN">> \in cond /\ (Available(l) > 0 \/ peer[l] # "open")
    \/ <<l, "OUT">> \in cond /\ (room[l] > 0 \/ broken[l])

Iterate(timers) ==
    /\ pc = "poll"
    /\ pending' = {l \in SessionLegs : Ready(l)}
    /\ due' = timers
    /\ pending' # {} \/ due' # {}
    /\ pc' = "dispatch"
    /\ UNCHANGED <<data, stacked, eofmask, buf, cond, cur, pkt, packets, finishes, touched, reason,
                   nread, got, shut, world>>

PollIter == \E timers \in SUBSET data.timers : Iterate(timers)

PollAgain ==
    /\ pc = "dispatch" /\ pending = {} /\ due = {}
    /\ pc' = "poll"
    /\ UNCHANGED <<data, stacked, eofmask, buf, cond, pending, due, cur, pkt, packets, finishes,
                   touched, reason, nread, got, shut, world>>

(* z_plug_timeout *)
Timeout ==
    /\ pc = "dispatch" /\ "timeout" \in due
    /\ UpdateEofMask(EofAll, "timeout", cond, "dispatch")
    /\ UNCHANGED <<data, stacked, buf, cur, pkt, packets, touched, nread, got, shut, world>>

(* z_plug_session_stats_timeout *)
StatsTimeout ==
    /\ pc = "dispatch" /\ "stats" \in due
    /\ \/ /\ "stats_rejects" \in Faults
          /\ UpdateEofMask(EofAll, "stats", cond, "dispatch")
       \/ /\ due' = due \ {"stats"}
          /\ UNCHANGED <<pc, eofmask, cond, pending, finishes, reason>>
    /\ UNCHANGED <<data, stacked, buf, cur, pkt, packets, touched, nread, got, shut, world>>

(****************************************************************************)
(* z_plug_copy_data.                                                        *)
(****************************************************************************)
CopyData(l) ==
    /\ pc = "dispatch" /\ l \in pending
    /\ pending' = pending \ {l}
    /\ cond' = cond \ ({<<l, "IN">>} \union (IF HasSink(l) THEN {<<l, "OUT">>} ELSE {}))
    /\ cur' = l /\ pkt' = 0 /\ pc' = "write"
    /\ UNCHANGED <<data, stacked, eofmask, buf, due, packets, finishes, touched, reason, nread,
                   got, shut, world>>

(* The end of copy_data: input is polled again once the buffer is empty. *)
Leave(b) ==
    /\ cond' = IF b[cur] = <<>> THEN cond \union {<<cur, "IN">>} ELSE cond
    /\ pc' = "dispatch"

(* z_plug_write_output has nothing to write, or there is no sink. *)
WriteNothing ==
    /\ pc = "write" /\ (buf[cur] = <<>> \/ ~HasSink(cur))
    /\ IF pkt = MaxReadAtATime THEN Leave(buf)
       ELSE pc' = "read" /\ UNCHANGED cond
    /\ UNCHANGED <<data, stacked, eofmask, buf, pending, due, cur, pkt, packets, finishes, touched,
                   reason, nread, got, shut, world>>

Writing == pc = "write" /\ buf[cur] # <<>> /\ HasSink(cur)

(* Mutant of AfterWrite: output is not polled when data is left. *)
AfterWriteNoOut(b) ==
    IF b[cur] # <<>> THEN pc' = "dispatch" /\ UNCHANGED cond
    ELSE pc' = "write" /\ UNCHANGED cond

(* The tail of z_plug_write_output: what is left waits for output. *)
AfterWrite(b) ==
    IF b[cur] # <<>> THEN pc' = "dispatch" /\ cond' = cond \union {<<cur, "OUT">>}
    ELSE pc' = "write" /\ UNCHANGED cond

(* Mutant of WriteOutput: what a short write leaves is forgotten. *)
WriteOutputForgets(k) ==
    /\ Writing /\ ~broken[cur]
    /\ k <= room[cur] /\ k <= Len(buf[cur]) /\ (k = 0 => room[cur] = 0)
    /\ got' = [got EXCEPT ![cur] = @ \o SubSeq(buf[cur], 1, k)]
    /\ room' = [room EXCEPT ![cur] = @ - k]
    /\ buf' = [buf EXCEPT ![cur] = <<>>]
    /\ AfterWrite(buf')
    /\ UNCHANGED <<data, stacked, eofmask, pending, due, cur, pkt, packets, finishes, touched,
                   reason, nread, shut, sent, peer, broken>>

WriteOutput(k) ==
    /\ Writing /\ ~broken[cur]
    /\ k <= room[cur] /\ k <= Len(buf[cur]) /\ (k = 0 => room[cur] = 0)
    /\ got' = [got EXCEPT ![cur] = @ \o SubSeq(buf[cur], 1, k)]
    /\ room' = [room EXCEPT ![cur] = @ - k]
    /\ buf' = [buf EXCEPT ![cur] = SubSeq(@, k + 1, Len(@))]
    /\ AfterWrite(buf')
    /\ UNCHANGED <<data, stacked, eofmask, pending, due, cur, pkt, packets, finishes, touched,
                   reason, nread, shut, sent, peer, broken>>

WriteError ==
    /\ Writing /\ broken[cur]
    /\ UpdateEofMask(EofAll, "error", cond, "dispatch")
    /\ UNCHANGED <<data, stacked, buf, cur, pkt, packets, touched, nread, got, shut, world>>

(* z_plug_read_input; every data.interval packets packetStats may end the   *)
(* session, and the callback goes on with an EOF.                           *)
StatsAsked == data.interval > 0 /\ (packets + 1) % data.interval = 0

(* The bytes of the next read. *)
Chunk(k) == [i \in 1 .. k |-> nread[cur] + i]

ReadInput(k) ==
    /\ pc = "read" /\ k <= Available(cur)
    /\ buf' = [buf EXCEPT ![cur] = Chunk(k)]
    /\ nread' = [nread EXCEPT ![cur] = @ + k]
    /\ packets' = IF data.interval > 0 THEN (packets + 1) % data.interval ELSE 0
    /\ \/ /\ pkt' = pkt + 1 /\ pc' = "write"
          /\ UNCHANGED <<eofmask, cond, pending, due, finishes, reason>>
       \/ /\ StatsAsked /\ "stats_rejects" \in Faults
          /\ UpdateEofMask(EofAll, "stats", cond, "eof")
          /\ UNCHANGED pkt
    /\ UNCHANGED <<data, stacked, cur, touched, got, shut, world>>

ReadAgain ==
    /\ pc = "read" /\ Available(cur) = 0 /\ peer[cur] = "open"
    /\ buf' = [buf EXCEPT ![cur] = <<>>]
    /\ Leave(buf')
    /\ UNCHANGED <<data, stacked, eofmask, pending, due, cur, pkt, packets, finishes, touched,
                   reason, nread, got, shut, world>>

ReadEof ==
    /\ pc = "read" /\ Available(cur) = 0 /\ peer[cur] = "closed"
    /\ buf' = [buf EXCEPT ![cur] = <<>>]
    /\ pc' = "eof"
    /\ UNCHANGED <<data, stacked, eofmask, cond, pending, due, cur, pkt, packets, finishes, touched,
                   reason, nread, got, shut, world>>

ReadError ==
    /\ pc = "read" /\ Available(cur) = 0 /\ peer[cur] = "error"
    /\ UpdateEofMask(EofAll, "error", cond, "dispatch")
    /\ UNCHANGED <<data, stacked, buf, cur, pkt, packets, touched, nread, got, shut, world>>

(* Mutant of CallbackEof: soft shutdown does not wait for the other direction. *)
CallbackEofHard ==
    /\ pc = "eof"
    /\ touched' = (touched \/ finishes > 0)
    /\ shut' = [shut EXCEPT ![cur] = Soft]
    /\ UpdateEofMask(EofAll, "eof", cond, "dispatch")
    /\ UNCHANGED <<data, stacked, buf, cur, pkt, packets, nread, got, world>>

(* The EOF branch of the z_plug_copy_* callbacks. *)
CallbackEof ==
    /\ pc = "eof"
    /\ touched' = (touched \/ finishes > 0)
    /\ IF Soft THEN /\ shut' = [shut EXCEPT ![cur] = TRUE]
                    /\ UpdateEofMask(EofBits(cur), "eof", cond, "dispatch")
               ELSE /\ UpdateEofMask(EofAll, "eof", cond, "dispatch")
                    /\ UNCHANGED shut
    /\ UNCHANGED <<data, stacked, buf, cur, pkt, packets, nread, got, world>>

(****************************************************************************)
(* The world.                                                               *)
(****************************************************************************)
PeerSends(l) ==
    /\ peer[l] = "open" /\ sent[l] < MaxBytes[l]
    /\ sent' = [sent EXCEPT ![l] = @ + 1]
    /\ UNCHANGED <<code, peer, room, broken>>

PeerEnds(l, how) ==
    /\ peer[l] = "open" /\ (how = "error" => "read_error" \in Faults)
    /\ peer' = [peer EXCEPT ![l] = how]
    /\ UNCHANGED <<code, sent, room, broken>>

SinkDrains(l) ==
    /\ room[l] < MaxRoom
    /\ room' = [room EXCEPT ![l] = @ + 1]
    /\ UNCHANGED <<code, sent, peer, broken>>

SinkBreaks(l) ==
    /\ "write_error" \in Faults /\ ~broken[l]
    /\ broken' = [broken EXCEPT ![l] = TRUE]
    /\ UNCHANGED <<code, sent, peer, room>>

(* Events on a leg commute with the steps of the other legs' callbacks, so  *)
(* they happen while the session polls or while it copies this very leg.    *)
MayMove(l) == l \in SessionLegs /\ (pc = "poll" \/ (pc \in {"write", "read"} /\ cur = l))

World ==
    \E l \in Legs :
       /\ MayMove(l)
       /\ \/ PeerSends(l) \/ (\E how \in {"closed", "error"} : PeerEnds(l, how))
          \/ SinkDrains(l) \/ SinkBreaks(l)

Code == \/ Start \/ InitFails \/ PollIter \/ PollAgain \/ Timeout \/ StatsTimeout
        \/ (\E l \in Legs : CopyData(l))
        \/ WriteNothing \/ (\E k \in 0 .. BufferSize : WriteOutput(k)) \/ WriteError
        \/ (\E k \in 1 .. BufferSize : ReadInput(k)) \/ ReadAgain \/ ReadEof \/ ReadError
        \/ CallbackEof

Next == Code \/ World

Spec == Init /\ [][Next]_vars

(****************************************************************************)
(* Fairness: the group's thread keeps polling.  When the timer expires and  *)
(* what the peers do is left to the properties.                             *)
(****************************************************************************)
Unprompted ==
    \/ Start \/ Iterate({}) \/ PollAgain \/ Timeout \/ StatsTimeout
    \/ (\E l \in Legs : CopyData(l))
    \/ WriteNothing \/ (\E k \in 0 .. BufferSize : WriteOutput(k)) \/ WriteError
    \/ (\E k \in 1 .. BufferSize : ReadInput(k)) \/ ReadAgain \/ ReadEof \/ ReadError
    \/ CallbackEof

FairSpec == Spec /\ WF_vars(Unprompted)

TimerExpires ==
    \E timers \in SUBSET data.timers : "timeout" \in timers /\ Iterate(timers)

SinkAlive(l) == MayMove(l) /\ SinkDrains(l)
PeerDone(l) == MayMove(l) /\ PeerEnds(l, "closed")

(* Both sides close and drain in the end. *)
Cooperative == \A l \in Legs : WF_vars(SinkAlive(l)) /\ WF_vars(PeerDone(l))

-----------------------------------------------------------------------------
(* Type invariant of the session. *)
PlugTypeOK ==
    /\ pc \in {"new", "poll", "dispatch", "write", "read", "eof", "ended"}
    /\ data \in SessionData /\ stacked \in BOOLEAN /\ eofmask \subseteq EofMask
    /\ buf \in [Legs -> Seq(Nat)] /\ \A l \in Legs : Len(buf[l]) <= BufferSize
    /\ cond \subseteq Legs \X {"IN", "OUT"} /\ pending \subseteq Legs /\ due \subseteq data.timers
    /\ cur \in Legs /\ pkt \in 0 .. MaxReadAtATime /\ packets \in Nat
    /\ finishes \in Nat /\ touched \in BOOLEAN
    /\ reason \in {"none", "eof", "error", "timeout", "stats"}
    /\ sent \in [Legs -> Nat] /\ nread \in [Legs -> Nat] /\ room \in [Legs -> Nat]
    /\ peer \in [Legs -> {"open", "closed", "error"}] /\ broken \in [Legs -> BOOLEAN]
    /\ got \in [Legs -> Seq(Nat)] /\ shut \in [Legs -> BOOLEAN]

(* session_data->finish stops the proxy and drops its session count, so it  *)
(* must be called exactly once, whichever of the callbacks, timers and      *)
(* statistics ends the session, and however many of them are due at once.   *)
FinishedOnce == finishes <= 1 /\ (finishes = 1 <=> "DESTROYED" \in eofmask)

(* The session keeps its type, its buffers their bounds, and it is finished  *)
(* once, whatever ends it.                                                   *)
PlugSound == PlugTypeOK /\ FinishedOnce

(* Between two poll iterations every live direction waits for exactly the   *)
(* event that lets it go on: input with an empty buffer, output with a full *)
(* one.  A direction that waits for neither is stuck until the timeout.     *)
NothingStuck ==
    pc = "poll" =>
        \A l \in SessionLegs :
            HasSink(l) /\ EofBits(l) \intersect eofmask = {} =>
               IF buf[l] = <<>> THEN <<l, "IN">> \in cond /\ <<l, "OUT">> \notin cond
                                ELSE <<l, "OUT">> \in cond /\ <<l, "IN">> \notin cond

(* A session with soft shutdown that ended by EOF has delivered everything  *)
(* in every direction, whichever side closed first.                         *)
SoftEndDelivers ==
    reason = "eof" /\ Soft =>
        \A l \in SessionLegs :
            shut[l] /\ peer[l] = "closed" /\ (HasSink(l) => Len(got[l]) = sent[l])

(* Each direction is an ordered channel that ends cleanly only when         *)
(* complete; a direction without a sink is never a clean one.               *)
Channel == INSTANCE ReliableCopy WITH
    Burst <- 1,
    closed <- [l \in Legs |-> peer[l] = "closed"],
    end <- [l \in Legs |-> IF shut[l] /\ HasSink(l) THEN "clean"
                           ELSE IF shut[l] \/ (l \in SessionLegs /\ finishes > 0) THEN "broken"
                           ELSE "open"]

PlugImplementsChannel == Channel!ASpec

(* "It's forbidden to touch self after this call!", says the warning before *)
(* finish in z_plug_update_eof_mask.                                        *)
NoTouchAfterFinish == ~touched

(* With an inactivity timeout every session ends, however silent its peers  *)
(* are.                                                                     *)
SessionEnds ==
    SF_vars(TimerExpires) => ((pc = "poll" /\ "timeout" \in data.timers) ~> (pc = "ended"))

(* With peers that close and drain no wake-up is lost: a session that        *)
(* copies both ways calls finish, with or without a timeout.                *)
SessionFinishes ==
    Cooperative =>
        ((pc = "poll" /\ data.copy_to_server /\ data.copy_to_client) ~> (finishes = 1))

(* A session ends: by its timeout, and without one when its peers do.        *)
SessionSettles == SessionEnds /\ SessionFinishes
=============================================================================
