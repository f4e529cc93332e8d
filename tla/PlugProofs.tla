----------------------------- MODULE PlugProofs -----------------------------
(****************************************************************************)
(* PlugSession's safety, proved for every set of sessions, buffer size,     *)
(* read limit and fault set, and for streams of any length.                 *)
(****************************************************************************)
EXTENDS PlugSession, SequenceTheorems, TLAPS

Copying == pc \in {"write", "read", "eof"}

(* A sink that received the first bytes of its leg in order, and a buffer    *)
(* that holds the bytes after the first n.                                  *)
Ordered(g) == \A i \in 1 .. Len(g) : g[i] = i
Follows(b, n) == \A i \in 1 .. Len(b) : b[i] = n + i

(****************************************************************************)
(* The strengthening.  Flow says where every byte read is: with the sink,   *)
(* or in the leg's buffer, in order.                                        *)
(****************************************************************************)
Flow ==
    \A l \in Legs :
        /\ nread[l] <= sent[l]
        /\ Ordered(got[l])
        /\ HasSink(l) => nread[l] = Len(got[l]) + Len(buf[l]) /\ Follows(buf[l], Len(got[l]))

(* A session that has not started, one that was finished, and the callback  *)
(* that runs: the leg it copies is polled by nobody else, may still read,   *)
(* and reads only into an empty buffer.                                     *)
Control ==
    /\ pc = "new" => ~stacked /\ eofmask = {} /\ finishes = 0
                  /\ \A l \in Legs : ~shut[l] /\ buf[l] = <<>>
    /\ pc \in {"new", "poll"} => pending = {} /\ due = {}
    /\ \A l \in Legs : l \in pending \/ <<l, "IN">> \in cond \/ <<l, "OUT">> \in cond \/ shut[l]
                       => l \in SessionLegs
    /\ \A l \in Legs : <<l, "OUT">> \in cond => HasSink(l)
    /\ Copying => /\ cur \in SessionLegs /\ cur \notin pending
                  /\ <<cur, "IN">> \notin cond /\ <<cur, "OUT">> \notin cond
    /\ pc = "read" => pkt # MaxReadAtATime
    /\ pc \in {"read", "eof"} /\ finishes = 0 =>
          \A l \in Legs : cur = l /\ HasSink(l) => buf[l] = <<>>
    /\ pc = "eof" /\ finishes = 0 => peer[cur] = "closed" /\ nread[cur] = sent[cur]

(* How the end of the session is recorded; only packet statistics finish it *)
(* in the middle of a callback.                                             *)
Ending ==
    /\ "DESTROYED" \in eofmask <=> EofAll \subseteq eofmask
    /\ finishes = 0 => reason = "none"
    /\ finishes > 0 => /\ pc \in {"eof", "ended"}
                       /\ cond = {} /\ pending = {} /\ due = {}
    /\ pc = "eof" /\ finishes > 0 =>
          reason = "stats" /\ "stats_rejects" \in Faults /\ data.interval > 0

(* While the session lives, a direction's bits are set when its sink was    *)
(* shut down, that is after its source ended and its buffer was emptied;    *)
(* a leg that was shut down is neither polled nor served again.             *)
ShutLegs ==
    finishes = 0 =>
       /\ \A l \in SessionLegs : \A b \in EofBits(l) : b \in eofmask <=> shut[l]
       /\ \A l \in Legs : shut[l] =>
             /\ peer[l] = "closed" /\ nread[l] = sent[l] /\ (HasSink(l) => buf[l] = <<>>)
             /\ l \notin pending /\ <<l, "IN">> \notin cond /\ <<l, "OUT">> \notin cond
             /\ ~(Copying /\ cur = l)

(* A leg that is alive and not being copied waits for what lets it go on. *)
Waits(l) ==
    IF buf[l] = <<>> THEN <<l, "IN">> \in cond /\ <<l, "OUT">> \notin cond
                     ELSE <<l, "OUT">> \in cond /\ <<l, "IN">> \notin cond

LegsWait ==
    finishes = 0 /\ pc \notin {"new", "ended"} =>
       \A l \in SessionLegs : HasSink(l) /\ ~shut[l] => (Copying /\ cur = l) \/ Waits(l)

IInv == /\ PlugTypeOK /\ FinishedOnce /\ Flow /\ Control /\ Ending /\ ShutLegs /\ LegsWait
        /\ SoftEndDelivers

-----------------------------------------------------------------------------

(* The bits of a leg: a live mask holds nothing else, and the legs of a     *)
(* session share none.                                                      *)
LEMMA LegBits ==
    /\ SessionLegs \subseteq Legs
    /\ \A l \in Legs : EofBits(l) \subseteq EofAll /\ EofBits(l) # {}
    /\ \A l, m \in SessionLegs : l # m => EofBits(l) \intersect EofBits(m) = {}
    /\ \A b \in EofAll : \E l \in SessionLegs : b \in EofBits(l)
BY DEF SessionLegs, Legs, PlainLegs, StackedLegs, EofBits, EofAll

(* What the session is does not change while it runs. *)
LEMMA SessionKept ==
    ASSUME UNCHANGED <<data, stacked>>
    PROVE  /\ SessionLegs' = SessionLegs /\ SessionLegs \subseteq Legs /\ (Soft' <=> Soft)
           /\ \A l \in Legs : HasSink(l)' <=> HasSink(l)
BY LegBits DEF SessionLegs, Soft, HasSink

(* z_plug_update_eof_mask only adds bits, and DESTROYED comes with the last. *)
LEMMA MaskGrows ==
    ASSUME NEW add \in SUBSET EofAll, eofmask \subseteq EofMask,
           "DESTROYED" \in eofmask <=> EofAll \subseteq eofmask
    PROVE  /\ NewMask(add) \subseteq EofMask
           /\ \A b \in EofAll : b \in NewMask(add) <=> b \in eofmask \union add
           /\ "DESTROYED" \in NewMask(add) <=> EofAll \subseteq NewMask(add)
           /\ "DESTROYED" \in eofmask => "DESTROYED" \in NewMask(add)
BY DEF NewMask, EofMask, EofAll

(* What EOF_ALL does to a live session: it is cancelled and finished. *)
LEMMA AllEnds ==
    ASSUME IInv, finishes = 0, NEW why, NEW goto, UpdateEofMask(EofAll, why, cond, goto)
    PROVE  /\ eofmask' \subseteq EofMask /\ EofAll \subseteq eofmask' /\ "DESTROYED" \in eofmask'
           /\ finishes' = 1 /\ reason' = why /\ cond' = {} /\ pending' = {} /\ due' = {}
           /\ pc' = IF goto # "eof" THEN "ended" ELSE goto
<1>1. eofmask \subseteq EofMask /\ "DESTROYED" \notin eofmask /\ ("DESTROYED" \in eofmask <=> EofAll \subseteq eofmask)
  BY DEF IInv, PlugTypeOK, FinishedOnce, Ending
<1>2. eofmask' = NewMask(EofAll)
  BY DEF UpdateEofMask
<1>3. eofmask' \subseteq EofMask /\ EofAll \subseteq eofmask' /\ "DESTROYED" \in eofmask'
  BY <1>1, <1>2, MaskGrows
<1> QED BY <1>1, <1>3 DEF UpdateEofMask

(* A leg whose buffer and conditions stay waits on. *)
LEMMA StillWaits ==
    ASSUME NEW l \in Legs, buf'[l] = buf[l], Waits(l),
           <<l, "IN">> \in cond' <=> <<l, "IN">> \in cond,
           <<l, "OUT">> \in cond' <=> <<l, "OUT">> \in cond
    PROVE  Waits(l)'
BY DEF Waits

(* The initial states. *)
LEMMA InitIInv == Init => IInv
<1> SUFFICES ASSUME Init PROVE IInv OBVIOUS
<1> USE PlugConstants
<1>1. PlugTypeOK
  <2>1. data \in SessionData /\ cur \in Legs
    BY DEF Init, Legs, PlainLegs
  <2>2. <<>> \in Seq(Nat) /\ Len(<<>>) = 0
    OBVIOUS
  <2>3. buf \in [Legs -> Seq(Nat)] /\ (\A l \in Legs : Len(buf[l]) <= BufferSize) /\ got \in [Legs -> Seq(Nat)]
    BY <2>2 DEF Init
  <2>4. sent \in [Legs -> Nat] /\ nread \in [Legs -> Nat] /\ room \in [Legs -> Nat]
    BY DEF Init
  <2>5. peer \in [Legs -> {"open", "closed", "error"}] /\ broken \in [Legs -> BOOLEAN] /\ shut \in [Legs -> BOOLEAN]
    BY DEF Init
  <2>6. pkt \in 0 .. MaxReadAtATime
    BY DEF Init
  <2> QED BY <2>1, <2>3, <2>4, <2>5, <2>6 DEF Init, PlugTypeOK
<1>2. FinishedOnce /\ Flow
  BY DEF Init, FinishedOnce, Flow, Ordered, Follows
<1>3. Control
  BY DEF Init, Control, Copying
<1>4. Ending /\ ShutLegs /\ LegsWait /\ SoftEndDelivers
  BY LegBits DEF Init, Ending, ShutLegs, LegsWait, SoftEndDelivers, EofAll, Copying
<1> QED BY <1>1, <1>2, <1>3, <1>4 DEF IInv

(* plug_nonblocking_init. *)
LEMMA StartStep == ASSUME IInv, Start \/ InitFails PROVE IInv'
<1> USE PlugConstants
<1>1. FinishedOnce' /\ Flow'
  BY DEF IInv, FinishedOnce, Flow, Start, InitFails, HasSink, world
<1>2. CASE Start
  <2>0. stacked' \in BOOLEAN /\ cond' = {<<l, "IN">> : l \in SessionLegs'} /\ SessionLegs' \subseteq Legs
    BY <1>2 DEF IInv, PlugTypeOK, SessionData, Start, SessionLegs, Legs
  <2>5. PlugTypeOK'
    BY <1>2, <2>0 DEF IInv, PlugTypeOK, Start, world
  <2>1. Control'
    <3>1. pc' = "poll" /\ pending' = {} /\ due' = {} /\ \A l \in Legs : ~shut'[l]
      BY <1>2 DEF IInv, Control, Start
    <3>2. \A l \in Legs : (<<l, "IN">> \in cond' => l \in SessionLegs') /\ <<l, "OUT">> \notin cond'
      BY <2>0
    <3> QED BY <3>1, <3>2 DEF Control, Copying
  <2>2. Ending'
    BY <1>2 DEF IInv, Control, Start, Ending
  <2>3. ShutLegs'
    BY <1>2, <2>0 DEF IInv, Control, Start, ShutLegs, Copying
  <2>4. LegsWait' /\ SoftEndDelivers'
    <3>1. reason' = "none" /\ \A l \in SessionLegs' : buf'[l] = <<>>
      BY <1>2, <2>0 DEF IInv, Control, Start, Ending
    <3>2. \A l \in SessionLegs' : <<l, "IN">> \in cond' /\ <<l, "OUT">> \notin cond'
      BY <2>0
    <3> QED BY <3>1, <3>2 DEF LegsWait, Waits, SoftEndDelivers
  <2> QED BY <1>1, <2>1, <2>2, <2>3, <2>4, <2>5 DEF IInv
<1>3. CASE InitFails
  <2>1. PlugTypeOK'
    BY <1>3 DEF IInv, PlugTypeOK, InitFails, world
  <2> QED BY <1>1, <1>3, <2>1 DEF IInv, Control, Copying, InitFails, SessionLegs, Ending, ShutLegs, LegsWait, SoftEndDelivers, HasSink, Soft, world
<1> QED BY <1>2, <1>3

(* The poll loop. *)
LEMMA PollStep == ASSUME IInv, PollIter \/ PollAgain PROVE IInv'
<1> USE PlugConstants
<1>1. /\ pc \in {"poll", "dispatch"} /\ pc' \in {"poll", "dispatch"}
      /\ \A l \in pending' : l \in SessionLegs /\ (l \in pending \/ <<l, "IN">> \in cond \/ <<l, "OUT">> \in cond)
      /\ due' \subseteq data.timers /\ (pc' = "poll" => pending' = {} /\ due' = {})
      /\ UNCHANGED <<data, stacked, eofmask, buf, cond, cur, pkt, packets, finishes, touched, reason,
                     nread, got, shut, sent, peer, room, broken>>
  BY DEF PollIter, Iterate, PollAgain, Ready, IInv, Control, world
<1>k. SessionLegs' = SessionLegs /\ SessionLegs \subseteq Legs /\ (Soft' <=> Soft) /\ \A l \in Legs : HasSink(l)' <=> HasSink(l)
  BY <1>1, SessionKept
<1>2. SessionLegs \subseteq Legs
  BY LegBits
<1>3. PlugTypeOK' /\ FinishedOnce' /\ Flow'
  <2>0. pkt' \in 0 .. MaxReadAtATime /\ cond' \subseteq Legs \X {"IN", "OUT"} /\ pending' \subseteq Legs
    BY <1>1, <1>2 DEF IInv, PlugTypeOK
  <2>1. PlugTypeOK'
    BY <1>1, <2>0 DEF IInv, PlugTypeOK
  <2>2. FinishedOnce' /\ Flow'
    BY <1>1, <1>k DEF IInv, FinishedOnce, Flow
  <2> QED BY <2>1, <2>2
<1>4. Control'
  BY <1>1, <1>k DEF IInv, Control, Copying
<1>5. Ending' /\ SoftEndDelivers'
  BY <1>1, <1>k DEF IInv, Ending, SoftEndDelivers
<1>6. ShutLegs'
  BY <1>1, <1>2, <1>k DEF IInv, ShutLegs, Copying
<1>7. LegsWait'
  BY <1>1, <1>k DEF IInv, LegsWait, Waits, Copying
<1> QED BY <1>3, <1>4, <1>5, <1>6, <1>7 DEF IInv

(* A step that ends a session for another reason than an EOF, with what is  *)
(* left in the buffers untouched: the timer, the statistics timer, an error. *)
LEMMA AbruptEnd ==
    ASSUME IInv, finishes = 0, NEW why \in {"error", "timeout", "stats"},
           UpdateEofMask(EofAll, why, cond, "dispatch"),
           UNCHANGED <<data, stacked, buf, cur, pkt, packets, touched, nread, got, shut,
                       sent, peer, room, broken>>
    PROVE  IInv'
<1>1. /\ eofmask' \subseteq EofMask /\ EofAll \subseteq eofmask' /\ "DESTROYED" \in eofmask'
      /\ finishes' = 1 /\ reason' = why /\ cond' = {} /\ pending' = {} /\ due' = {} /\ pc' = "ended"
  BY AllEnds
<1>k. SessionLegs' = SessionLegs /\ SessionLegs \subseteq Legs /\ (Soft' <=> Soft) /\ \A l \in Legs : HasSink(l)' <=> HasSink(l)
  BY SessionKept
<1>2. PlugTypeOK' /\ FinishedOnce'
  BY <1>1, <1>k DEF IInv, PlugTypeOK, FinishedOnce
<1>3. Flow'
  BY <1>k DEF IInv, Flow
<1>4. Control'
  BY <1>1, <1>k DEF IInv, Control, Copying
<1>6. Ending'
  BY <1>1 DEF Ending
<1>5. ShutLegs' /\ LegsWait' /\ SoftEndDelivers'
  BY <1>1 DEF ShutLegs, LegsWait, SoftEndDelivers
<1> QED BY <1>2, <1>3, <1>4, <1>5, <1>6 DEF IInv

(* z_plug_timeout and z_plug_session_stats_timeout. *)
LEMMA TimerStep == ASSUME IInv, Timeout \/ StatsTimeout PROVE IInv'
<1>1. finishes = 0
  BY DEF IInv, Ending, PlugTypeOK, Timeout, StatsTimeout
<1>2. CASE Timeout
  BY <1>1, <1>2, AbruptEnd DEF Timeout, world
<1>3. CASE StatsTimeout /\ UpdateEofMask(EofAll, "stats", cond, "dispatch")
  BY <1>1, <1>3, AbruptEnd DEF StatsTimeout, world
<1>4. CASE due' = due \ {"stats"} /\ pc = "dispatch"
           /\ UNCHANGED <<pc, eofmask, cond, pending, finishes, reason, data, stacked, buf, cur, pkt, packets,
                          touched, nread, got, shut, sent, peer, room, broken>>
  <2>k. SessionLegs' = SessionLegs /\ SessionLegs \subseteq Legs /\ (Soft' <=> Soft) /\ \A l \in Legs : HasSink(l)' <=> HasSink(l)
    BY <1>4, SessionKept
  <2>1. PlugTypeOK' /\ FinishedOnce' /\ Flow'
    BY <1>4, <2>k DEF IInv, PlugTypeOK, FinishedOnce, Flow
  <2> QED BY <1>1, <1>4, <2>1, <2>k
          DEF IInv, Control, Copying, Ending, ShutLegs, LegsWait, Waits, SoftEndDelivers
<1> QED BY <1>2, <1>3, <1>4 DEF StatsTimeout, world

(* The callback of a leg begins: its conditions are taken off the poll. *)
LEMMA CopyDataStep == ASSUME IInv, NEW l \in Legs, CopyData(l) PROVE IInv'
<1> USE PlugConstants
<1>0. finishes = 0
  BY DEF IInv, Ending, PlugTypeOK, CopyData
<1>1. /\ pc = "dispatch" /\ pc' = "write" /\ cur' = l /\ pkt' = 0 /\ l \in pending /\ pending' = pending \ {l}
      /\ UNCHANGED <<data, stacked, eofmask, buf, due, packets, finishes, touched, reason, nread,
                   got, shut, sent, peer, room, broken>>
  BY DEF CopyData, world
<1>k. SessionLegs' = SessionLegs /\ SessionLegs \subseteq Legs /\ (Soft' <=> Soft) /\ \A m \in Legs : HasSink(m)' <=> HasSink(m)
  BY <1>1, SessionKept
<1>2. /\ cond' \subseteq cond /\ <<l, "IN">> \notin cond'
      /\ HasSink(l) => <<l, "OUT">> \notin cond'
      /\ \A m \in Legs : m # l => /\ <<m, "IN">> \in cond' <=> <<m, "IN">> \in cond
                                  /\ <<m, "OUT">> \in cond' <=> <<m, "OUT">> \in cond
  BY DEF CopyData
<1>3. PlugTypeOK' /\ FinishedOnce' /\ Flow'
  <2>0. pkt' \in 0 .. MaxReadAtATime /\ cond' \subseteq Legs \X {"IN", "OUT"} /\ pending' \subseteq Legs
    BY <1>1, <1>2 DEF IInv, PlugTypeOK
  <2>1. PlugTypeOK'
    BY <1>1, <2>0 DEF IInv, PlugTypeOK
  <2>2. FinishedOnce' /\ Flow'
    BY <1>1, <1>k DEF IInv, FinishedOnce, Flow
  <2> QED BY <2>1, <2>2
<1>4. Control'
  BY <1>0, <1>1, <1>2, <1>k DEF IInv, Control, Copying
<1>5. Ending' /\ SoftEndDelivers'
  BY <1>0, <1>1, <1>k DEF IInv, Ending, SoftEndDelivers
<1>6. ShutLegs'
  BY <1>0, <1>1, <1>2, <1>k DEF IInv, ShutLegs, Copying
<1>7. LegsWait'
  <2>1. \A m \in SessionLegs : m # l /\ HasSink(m) /\ ~shut[m] => Waits(m)
    BY <1>0, <1>1 DEF IInv, LegsWait, Copying
  <2>2. \A m \in SessionLegs : m # l /\ Waits(m) => Waits(m)'
    BY <1>1, <1>2, <1>k, StillWaits
  <2> QED BY <1>1, <1>k, <2>1, <2>2 DEF LegsWait, Copying
<1> QED BY <1>3, <1>4, <1>5, <1>6, <1>7 DEF IInv

(* A step of the callback that changes no more than its own leg's buffer    *)
(* and conditions, and goes on.                                             *)
LEMMA CallbackLegs ==
    ASSUME IInv, finishes = 0, Copying, pc' \in {"write", "read", "eof", "dispatch"},
           UNCHANGED <<data, stacked, eofmask, pending, due, cur, finishes, reason, shut, sent, peer>>,
           \A m \in Legs : m # cur => /\ buf'[m] = buf[m] /\ nread'[m] = nread[m]
                                      /\ <<m, "IN">> \in cond' <=> <<m, "IN">> \in cond
                                      /\ <<m, "OUT">> \in cond' <=> <<m, "OUT">> \in cond,
           pc' = "dispatch" => \A m \in Legs : m = cur /\ HasSink(m) => Waits(m)',
           pc' # "dispatch" => cond' = cond,
           <<cur, "OUT">> \in cond' => \A m \in Legs : m = cur => HasSink(m),
           pc' = "read" => pkt' # MaxReadAtATime,
           pc' \in {"read", "eof"} => \A m \in Legs : cur = m /\ HasSink(m) => buf'[m] = <<>>,
           pc' = "eof" => peer[cur] = "closed" /\ nread'[cur] = sent[cur]
    PROVE  Control' /\ Ending' /\ ShutLegs' /\ LegsWait' /\ SoftEndDelivers'
<1>k. SessionLegs' = SessionLegs /\ SessionLegs \subseteq Legs /\ (Soft' <=> Soft) /\ \A l \in Legs : HasSink(l)' <=> HasSink(l)
  BY SessionKept
<1>0. cur \in Legs /\ cur \in SessionLegs /\ pc # "new" /\ pc # "poll" /\ cur \notin pending /\ ~shut[cur]
  BY <1>k DEF IInv, Control, Copying, ShutLegs
<1>1. Control'
  <2>1. \A l \in Legs : <<l, "OUT">> \in cond' => HasSink(l)'
    BY <1>k DEF IInv, Control
  <2>2. \A l \in Legs : l \in pending' \/ <<l, "IN">> \in cond' \/ <<l, "OUT">> \in cond' \/ shut'[l]
                        => l \in SessionLegs'
    BY <1>0, <1>k DEF IInv, Control
  <2>3. Copying' => /\ cur' \in SessionLegs' /\ cur' \notin pending'
                    /\ <<cur', "IN">> \notin cond' /\ <<cur', "OUT">> \notin cond'
    BY <1>0, <1>k DEF IInv, Control, Copying
  <2>4. pc' \in {"read", "eof"} /\ finishes' = 0 => \A l \in Legs : cur' = l /\ HasSink(l)' => buf'[l] = <<>>
    BY <1>k
  <2> QED BY <1>0, <2>1, <2>2, <2>3, <2>4 DEF Control
<1>2. Ending' /\ SoftEndDelivers'
  BY DEF IInv, Ending, SoftEndDelivers
<1>3. ShutLegs'
  <2>1. \A l \in SessionLegs' : \A b \in EofBits(l) : b \in eofmask' <=> shut'[l]
    BY <1>k DEF IInv, ShutLegs
  <2>2. ASSUME NEW l \in Legs, shut'[l]
        PROVE  /\ peer'[l] = "closed" /\ nread'[l] = sent'[l] /\ (HasSink(l)' => buf'[l] = <<>>)
               /\ l \notin pending' /\ <<l, "IN">> \notin cond' /\ <<l, "OUT">> \notin cond'
               /\ cur' # l
    BY <1>0, <1>k, <2>2 DEF IInv, ShutLegs
  <2> QED BY <2>1, <2>2 DEF ShutLegs
<1>4. LegsWait'
  <2>1. \A m \in SessionLegs : m # cur /\ HasSink(m) /\ ~shut[m] => Waits(m)
    BY <1>0 DEF IInv, LegsWait, Copying
  <2>2. \A m \in SessionLegs : m # cur /\ Waits(m) => Waits(m)'
    BY <1>k, StillWaits
  <2>3. \A m \in SessionLegs : HasSink(m) /\ ~shut[m] => (Copying' /\ cur = m) \/ Waits(m)'
    BY <1>k, <2>1, <2>2 DEF Copying
  <2> QED BY <1>k, <2>3 DEF LegsWait
<1> QED BY <1>1, <1>2, <1>3, <1>4

(* z_plug_write_output has nothing to do. *)
LEMMA WriteNothingStep == ASSUME IInv, WriteNothing PROVE IInv'
<1>1. /\ finishes = 0 /\ Copying /\ cur \in Legs /\ pc' \in {"read", "dispatch"}
      /\ UNCHANGED <<data, stacked, eofmask, buf, pending, due, cur, pkt, packets, finishes, touched,
                   reason, nread, got, shut, sent, peer, room, broken>>
  BY DEF IInv, Ending, PlugTypeOK, WriteNothing, Copying, Leave, world
<1>2. /\ cond' = cond \/ (cond' = cond \union {<<cur, "IN">>} /\ buf[cur] = <<>> /\ pc' = "dispatch")
      /\ pc' = "dispatch" /\ buf[cur] = <<>> => <<cur, "IN">> \in cond'
      /\ pc' = "read" => cond' = cond /\ pkt # MaxReadAtATime
  BY <1>1 DEF WriteNothing, Leave
<1>3. <<cur, "OUT">> \notin cond
  BY <1>1 DEF IInv, Control
<1>4. \A m \in Legs : m = cur => buf[m] = <<>> \/ ~HasSink(m)
  BY DEF WriteNothing
<1>k. \A l \in Legs : HasSink(l)' <=> HasSink(l)
  BY <1>1, SessionKept
<1>5. PlugTypeOK' /\ FinishedOnce' /\ Flow'
  BY <1>1, <1>2, <1>k DEF IInv, PlugTypeOK, FinishedOnce, Flow
<1>6. Control' /\ Ending' /\ ShutLegs' /\ LegsWait' /\ SoftEndDelivers'
  <2>1. \A m \in Legs : m # cur => /\ <<m, "IN">> \in cond' <=> <<m, "IN">> \in cond
                                   /\ <<m, "OUT">> \in cond' <=> <<m, "OUT">> \in cond
    BY <1>2
  <2>2. <<cur, "OUT">> \notin cond'
    BY <1>2, <1>3
  <2>3. pc' = "dispatch" => \A m \in Legs : m = cur /\ HasSink(m) => Waits(m)'
    BY <1>1, <1>2, <1>4, <2>2 DEF Waits
  <2> QED BY <1>1, <1>2, <1>4, <2>1, <2>2, <2>3, CallbackLegs
<1> QED BY <1>5, <1>6 DEF IInv

(* The first k bytes of a buffer that continues an in-order sequence extend *)
(* it in order, and the rest continues the result.                          *)
LEMMA MoveBytes ==
    ASSUME NEW g \in Seq(Nat), NEW b \in Seq(Nat), NEW k \in Nat, k <= Len(b),
           Ordered(g), Follows(b, Len(g))
    PROVE  /\ g \o SubSeq(b, 1, k) \in Seq(Nat) /\ Len(g \o SubSeq(b, 1, k)) = Len(g) + k
           /\ Ordered(g \o SubSeq(b, 1, k))
           /\ SubSeq(b, k + 1, Len(b)) \in Seq(Nat) /\ Len(SubSeq(b, k + 1, Len(b))) = Len(b) - k
           /\ Follows(SubSeq(b, k + 1, Len(b)), Len(g) + k)
<1> DEFINE c == SubSeq(b, 1, k)
           r == SubSeq(b, k + 1, Len(b))
<1>0. Len(g) \in Nat /\ Len(b) \in Nat
  OBVIOUS
<1>1. c \in Seq(Nat) /\ Len(c) = k /\ \A i \in 1 .. k : c[i] = b[i]
  BY <1>0
<1>2. r \in Seq(Nat) /\ Len(r) = Len(b) - k /\ \A i \in 1 .. Len(b) - k : r[i] = b[k + i]
  BY <1>0
<1>3. \A i \in 1 .. Len(b) - k : r[i] = Len(g) + k + i
  <2> SUFFICES ASSUME NEW i \in 1 .. Len(b) - k PROVE r[i] = Len(g) + k + i OBVIOUS
  <2>1. k + i \in 1 .. Len(b) /\ r[i] = b[k + i]
    BY <1>0, <1>2
  <2>2. b[k + i] = Len(g) + (k + i)
    BY <2>1 DEF Follows
  <2> HIDE DEF r
  <2> QED BY <1>0, <2>1, <2>2
<1>4. \A i \in 1 .. k : c[i] = Len(g) + i
  BY <1>0, <1>1 DEF Follows
<1> HIDE DEF c, r
<1>5. g \o c \in Seq(Nat) /\ Len(g \o c) = Len(g) + k
  BY <1>1, ConcatProperties
<1>6. ASSUME NEW i \in 1 .. Len(g) + k PROVE (g \o c)[i] = i
  <2>1. CASE i <= Len(g)
    <3>1. (g \o c)[i] = g[i]
      BY <1>0, <1>1, <2>1
    <3> QED BY <1>0, <2>1, <3>1 DEF Ordered
  <2>2. CASE i > Len(g)
    <3>1. i - Len(g) \in 1 .. k /\ Len(g) + (i - Len(g)) = i
      BY <1>0, <2>2
    <3>2. (g \o c)[i] = c[i - Len(g)]
      BY <1>0, <1>1, <2>2
    <3> QED BY <1>4, <3>1, <3>2
  <2>3. i <= Len(g) \/ i > Len(g)
    BY <1>0
  <2> QED BY <2>1, <2>2, <2>3
<1>7. Ordered(g \o c) /\ Follows(r, Len(g) + k)
  BY <1>2, <1>3, <1>5, <1>6 DEF Ordered, Follows
<1> QED BY <1>2, <1>5, <1>7 DEF c, r

(* z_stream_write takes k bytes of the buffer. *)
LEMMA WriteOutputStep == ASSUME IInv, NEW k \in 0 .. BufferSize, WriteOutput(k) PROVE IInv'
<1> USE PlugConstants
<1> DEFINE g == got[cur]
           b == buf[cur]
<1>1. /\ finishes = 0 /\ Copying /\ cur \in Legs /\ pc' \in {"write", "dispatch"} /\ cur \in SessionLegs
      /\ <<cur, "IN">> \notin cond
      /\ UNCHANGED <<data, stacked, eofmask, pending, due, cur, pkt, packets, finishes, touched,
                   reason, nread, shut, sent, peer, broken>>
  BY DEF IInv, Ending, PlugTypeOK, WriteOutput, Writing, AfterWrite, Copying, Control
<1>2. PICK c \in Legs : c = cur /\ HasSink(c)
  BY <1>1 DEF WriteOutput, Writing
<1>3. /\ g \in Seq(Nat) /\ b \in Seq(Nat) /\ k \in Nat /\ k <= Len(b) /\ k <= room[cur] /\ room[cur] \in Nat
      /\ Ordered(g) /\ Follows(b, Len(g))
      /\ nread[cur] = Len(g) + Len(b) /\ Len(b) <= BufferSize
  BY <1>1, <1>2 DEF IInv, PlugTypeOK, Flow, WriteOutput
<1>4. /\ got' = [got EXCEPT ![cur] = g \o SubSeq(b, 1, k)]
      /\ buf' = [buf EXCEPT ![cur] = SubSeq(b, k + 1, Len(b))]
      /\ room' = [room EXCEPT ![cur] = @ - k]
  BY DEF WriteOutput
<1>5. /\ got \in [Legs -> Seq(Nat)] /\ buf \in [Legs -> Seq(Nat)] /\ room \in [Legs -> Nat]
  BY DEF IInv, PlugTypeOK
<1> HIDE DEF g, b
<1>6. /\ got'[cur] \in Seq(Nat) /\ Len(got'[cur]) = Len(g) + k /\ Ordered(got'[cur])
      /\ buf'[cur] \in Seq(Nat) /\ Len(buf'[cur]) = Len(b) - k /\ Follows(buf'[cur], Len(g) + k)
  <2>1. got'[cur] = g \o SubSeq(b, 1, k) /\ buf'[cur] = SubSeq(b, k + 1, Len(b))
    BY <1>1, <1>4, <1>5
  <2> QED BY <1>3, <2>1, MoveBytes
<1>7. \A m \in Legs : m # cur => got'[m] = got[m] /\ buf'[m] = buf[m] /\ room'[m] = room[m]
  BY <1>4, <1>5
<1>8. cond' = cond \/ cond' = cond \union {<<cur, "OUT">>}
  BY DEF WriteOutput, AfterWrite
<1>k. \A l \in Legs : HasSink(l)' <=> HasSink(l)
  BY <1>1, SessionKept
<1>9. PlugTypeOK'
  <2>1. got' \in [Legs -> Seq(Nat)] /\ buf' \in [Legs -> Seq(Nat)]
    <3>1. \A l \in Legs : got'[l] \in Seq(Nat) /\ buf'[l] \in Seq(Nat)
      BY <1>5, <1>6, <1>7
    <3> QED BY <1>4, <1>5, <3>1
  <2>4. room' \in [Legs -> Nat]
    <3>1. room[cur] - k \in Nat
      BY <1>3
    <3> QED BY <1>4, <1>5, <3>1
  <2>2. \A l \in Legs : Len(buf'[l]) <= BufferSize
    <3>1. Len(buf'[cur]) <= BufferSize
      BY <1>3, <1>6
    <3> QED BY <1>7, <3>1 DEF IInv, PlugTypeOK
  <2>3. cond' \subseteq Legs \X {"IN", "OUT"}
    BY <1>1, <1>8 DEF IInv, PlugTypeOK
  <2> QED BY <1>1, <2>1, <2>2, <2>3, <2>4 DEF IInv, PlugTypeOK
<1>10. FinishedOnce'
  BY <1>1 DEF IInv, FinishedOnce
<1>11. Flow'
  <2>1. ASSUME NEW l \in Legs
        PROVE  /\ nread'[l] <= sent'[l]
               /\ Ordered(got'[l])
               /\ HasSink(l)' => /\ nread'[l] = Len(got'[l]) + Len(buf'[l])
                                 /\ Follows(buf'[l], Len(got'[l]))
    <3>1. CASE l # cur
      BY <1>1, <1>7, <1>k, <3>1 DEF IInv, Flow
    <3>2. CASE l = cur
      <4>1. nread'[l] <= sent'[l]
        BY <1>1 DEF IInv, Flow
      <4>2. nread'[cur] = Len(got'[cur]) + Len(buf'[cur])
        <5>1. Len(g) \in Nat /\ Len(b) \in Nat /\ nread'[cur] = nread[cur]
          BY <1>1, <1>3
        <5> QED BY <1>3, <1>6, <5>1
      <4> QED BY <1>6, <3>2, <4>1, <4>2
    <3> QED BY <3>1, <3>2
  <2> QED BY <2>1 DEF Flow
<1>12. Control' /\ Ending' /\ ShutLegs' /\ LegsWait' /\ SoftEndDelivers'
  <2>1. \A m \in Legs : m # cur => /\ <<m, "IN">> \in cond' <=> <<m, "IN">> \in cond
                                   /\ <<m, "OUT">> \in cond' <=> <<m, "OUT">> \in cond
    BY <1>8
  <2>2. <<cur, "IN">> \notin cond'
    BY <1>1, <1>8
  <2>3. pc' = "dispatch" => buf'[cur] # <<>> /\ <<cur, "OUT">> \in cond'
    BY DEF WriteOutput, AfterWrite
  <2>4. pc' = "dispatch" => \A m \in Legs : m = cur /\ HasSink(m) => Waits(m)'
    BY <2>2, <2>3 DEF Waits
  <2>5. pc' # "dispatch" => cond' = cond
    BY DEF WriteOutput, AfterWrite
  <2> QED BY <1>1, <1>2, <1>7, <2>1, <2>4, <2>5, CallbackLegs
<1> QED BY <1>9, <1>10, <1>11, <1>12 DEF IInv

(* An error of the sink or of the source ends the session. *)
LEMMA ErrorStep == ASSUME IInv, WriteError \/ ReadError PROVE IInv'
<1>1. finishes = 0
  BY DEF IInv, Ending, PlugTypeOK, WriteError, ReadError, Writing
<1> QED BY <1>1, AbruptEnd DEF WriteError, ReadError, world

(* What a read puts into the buffer continues what was read before. *)
LEMMA ChunkFollows ==
    ASSUME NEW k \in Nat, NEW n \in Nat, nread[cur] = n
    PROVE  Chunk(k) \in Seq(Nat) /\ Len(Chunk(k)) = k /\ Follows(Chunk(k), n)
<1>1. Chunk(k) = [i \in 1 .. k |-> n + i]
  BY DEF Chunk
<1>2. [i \in 1 .. k |-> n + i] \in Seq(Nat) /\ Len([i \in 1 .. k |-> n + i]) = k
  OBVIOUS
<1> QED BY <1>1, <1>2 DEF Follows

(* The buffers after a read. *)
LEMMA ReadFlow ==
    ASSUME IInv, NEW k \in 1 .. BufferSize, ReadInput(k)
    PROVE  /\ buf' \in [Legs -> Seq(Nat)] /\ (\A l \in Legs : Len(buf'[l]) <= BufferSize)
           /\ nread' \in [Legs -> Nat] /\ Flow'
           /\ \A m \in Legs : m # cur => buf'[m] = buf[m] /\ nread'[m] = nread[m]
<1> USE PlugConstants
<1>1. /\ finishes = 0 /\ cur \in Legs /\ pc = "read" /\ UNCHANGED <<data, stacked, got, sent>>
      /\ buf' = [buf EXCEPT ![cur] = Chunk(k)] /\ nread' = [nread EXCEPT ![cur] = @ + k]
      /\ k <= sent[cur] - nread[cur] /\ k \in Nat /\ k <= BufferSize
  BY DEF IInv, Ending, PlugTypeOK, ReadInput, Available, world
<1>2. /\ buf \in [Legs -> Seq(Nat)] /\ nread \in [Legs -> Nat] /\ sent \in [Legs -> Nat] /\ got \in [Legs -> Seq(Nat)]
  BY DEF IInv, PlugTypeOK
<1>3. Chunk(k) \in Seq(Nat) /\ Len(Chunk(k)) = k /\ Follows(Chunk(k), nread[cur])
  BY <1>1, <1>2, ChunkFollows
<1>4. /\ buf'[cur] = Chunk(k) /\ nread'[cur] = nread[cur] + k
      /\ \A m \in Legs : m # cur => buf'[m] = buf[m] /\ nread'[m] = nread[m]
  BY <1>1, <1>2
<1>5. buf' \in [Legs -> Seq(Nat)] /\ nread' \in [Legs -> Nat]
  BY <1>1, <1>2, <1>3
<1>6. \A l \in Legs : Len(buf'[l]) <= BufferSize
  BY <1>1, <1>3, <1>4 DEF IInv, PlugTypeOK
<1>7. \A l \in Legs : HasSink(l)' <=> HasSink(l)
  BY <1>1, SessionKept
<1>8. ASSUME NEW l \in Legs
      PROVE  /\ nread'[l] <= sent'[l] /\ Ordered(got'[l])
             /\ HasSink(l)' => nread'[l] = Len(got'[l]) + Len(buf'[l]) /\ Follows(buf'[l], Len(got'[l]))
  <2>1. CASE l # cur
    BY <1>1, <1>4, <1>7, <2>1 DEF IInv, Flow
  <2>2. CASE l = cur
    <3>1. nread'[l] <= sent'[l]
      BY <1>1, <1>2, <1>4, <2>2
    <3>2. HasSink(l) => nread[l] = Len(got[l])
      <4>1. HasSink(l) => buf[l] = <<>> /\ nread[l] = Len(got[l]) + Len(buf[l])
        BY <1>1, <2>2 DEF IInv, Control, Flow
      <4> QED BY <1>2, <4>1
    <3> QED BY <1>1, <1>3, <1>4, <1>7, <2>2, <3>1, <3>2 DEF IInv, Flow
  <2> QED BY <2>1, <2>2
<1> QED BY <1>4, <1>5, <1>6, <1>8 DEF Flow

(* z_plug_read_input, with the packet statistics. *)
LEMMA ReadInputStep == ASSUME IInv, NEW k \in 1 .. BufferSize, ReadInput(k) PROVE IInv'
<1> USE PlugConstants
<1>1. /\ finishes = 0 /\ cur \in Legs /\ pc = "read" /\ pkt # MaxReadAtATime /\ Copying
      /\ UNCHANGED <<data, stacked, cur, touched, got, shut, sent, peer, room, broken>>
  BY DEF IInv, Ending, Control, PlugTypeOK, ReadInput, Copying, world
<1>2. /\ buf' \in [Legs -> Seq(Nat)] /\ (\A l \in Legs : Len(buf'[l]) <= BufferSize)
      /\ nread' \in [Legs -> Nat] /\ Flow'
      /\ \A m \in Legs : m # cur => buf'[m] = buf[m] /\ nread'[m] = nread[m]
  BY ReadFlow
<1>3. packets' \in Nat
  <2>1. packets \in Nat /\ data.interval \in Nat
    BY DEF IInv, PlugTypeOK, SessionData
  <2>2. packets' = IF data.interval > 0 THEN (packets + 1) % data.interval ELSE 0
    BY DEF ReadInput
  <2>3. data.interval > 0 => (packets + 1) % data.interval \in Nat
    BY <2>1
  <2> QED BY <2>2, <2>3
<1>4. CASE pkt' = pkt + 1 /\ pc' = "write" /\ UNCHANGED <<eofmask, cond, pending, due, finishes, reason>>
  <2>1. pkt' \in 0 .. MaxReadAtATime
    BY <1>1, <1>4 DEF IInv, PlugTypeOK
  <2>2. PlugTypeOK' /\ FinishedOnce'
    BY <1>1, <1>2, <1>3, <1>4, <2>1 DEF IInv, PlugTypeOK, FinishedOnce
  <2>3. <<cur, "OUT">> \notin cond
    BY <1>1 DEF IInv, Control
  <2>4. Control' /\ Ending' /\ ShutLegs' /\ LegsWait' /\ SoftEndDelivers'
    BY <1>1, <1>2, <1>4, <2>3, CallbackLegs
  <2> QED BY <1>2, <2>2, <2>4 DEF IInv
<1>5. CASE /\ StatsAsked /\ "stats_rejects" \in Faults
           /\ UpdateEofMask(EofAll, "stats", cond, "eof") /\ UNCHANGED pkt
  <2>1. /\ eofmask' \subseteq EofMask /\ EofAll \subseteq eofmask' /\ "DESTROYED" \in eofmask'
        /\ finishes' = 1 /\ reason' = "stats" /\ cond' = {} /\ pending' = {} /\ due' = {} /\ pc' = "eof"
    BY <1>1, <1>5, AllEnds
  <2>2. PlugTypeOK' /\ FinishedOnce'
    BY <1>1, <1>2, <1>3, <1>5, <2>1 DEF IInv, PlugTypeOK, FinishedOnce
  <2>k. SessionLegs' = SessionLegs /\ \A l \in Legs : HasSink(l)' <=> HasSink(l)
    BY <1>1, SessionKept
  <2>3. Control'
    <3>1. cur \in SessionLegs /\ \A l \in Legs : shut[l] => l \in SessionLegs
      BY <1>1 DEF IInv, Control
    <3> QED BY <1>1, <2>1, <2>k, <3>1 DEF Control, Copying
  <2>4. Ending'
    BY <1>1, <1>5, <2>1 DEF Ending, StatsAsked
  <2>5. ShutLegs' /\ LegsWait' /\ SoftEndDelivers'
    BY <2>1 DEF ShutLegs, LegsWait, SoftEndDelivers
  <2> QED BY <1>2, <2>2, <2>3, <2>4, <2>5 DEF IInv
<1> QED BY <1>4, <1>5 DEF ReadInput

(* The source has nothing, or has ended. *)
LEMMA ReadNothingStep == ASSUME IInv, ReadAgain \/ ReadEof PROVE IInv'
<1> USE PlugConstants
<1>1. /\ finishes = 0 /\ cur \in Legs /\ pc = "read" /\ Copying /\ pc' \in {"eof", "dispatch"}
      /\ UNCHANGED <<data, stacked, eofmask, pending, due, cur, pkt, packets, finishes, touched, reason,
                     nread, got, shut, sent, peer, room, broken>>
      /\ buf' = [buf EXCEPT ![cur] = <<>>]
  BY DEF IInv, Ending, PlugTypeOK, ReadAgain, ReadEof, Leave, Copying, world
<1>2. /\ buf \in [Legs -> Seq(Nat)] /\ <<>> \in Seq(Nat) /\ Len(<<>>) = 0
  BY DEF IInv, PlugTypeOK
<1>3. /\ buf' \in [Legs -> Seq(Nat)] /\ buf'[cur] = <<>> /\ \A m \in Legs : m # cur => buf'[m] = buf[m]
      /\ \A m \in Legs : HasSink(m) => buf'[m] = buf[m]
  BY <1>1, <1>2 DEF IInv, Control
<1>4. /\ cond' = cond \/ cond' = cond \union {<<cur, "IN">>}
      /\ pc' = "dispatch" => <<cur, "IN">> \in cond'
      /\ pc' # "dispatch" => cond' = cond
      /\ <<cur, "OUT">> \notin cond
  <2>1. <<cur, "OUT">> \notin cond
    BY <1>1 DEF IInv, Control
  <2>2. CASE ReadEof
    BY <2>1, <2>2 DEF ReadEof
  <2>3. CASE ReadAgain
    BY <1>3, <2>1, <2>3 DEF ReadAgain, Leave
  <2> QED BY <2>2, <2>3
<1>5. PlugTypeOK' /\ FinishedOnce'
  <2>1. cond' \subseteq Legs \X {"IN", "OUT"} /\ \A l \in Legs : Len(buf'[l]) <= BufferSize
    BY <1>1, <1>2, <1>3, <1>4 DEF IInv, PlugTypeOK
  <2> QED BY <1>1, <1>3, <2>1 DEF IInv, PlugTypeOK, FinishedOnce
<1>6. Flow'
  <2>1. \A l \in Legs : HasSink(l)' <=> HasSink(l)
    BY <1>1, SessionKept
  <2> QED BY <1>1, <1>3, <2>1 DEF IInv, Flow
<1>7. Control' /\ Ending' /\ ShutLegs' /\ LegsWait' /\ SoftEndDelivers'
  <2>1. \A m \in Legs : m # cur => /\ <<m, "IN">> \in cond' <=> <<m, "IN">> \in cond
                                   /\ <<m, "OUT">> \in cond' <=> <<m, "OUT">> \in cond
    BY <1>4
  <2>2. <<cur, "OUT">> \notin cond'
    BY <1>4
  <2>3. pc' = "dispatch" => \A m \in Legs : m = cur /\ HasSink(m) => Waits(m)'
    BY <1>3, <1>4, <2>2 DEF Waits
  <2>4. pc' = "eof" => peer[cur] = "closed" /\ nread'[cur] = sent[cur]
    <3>1. pc' = "eof" => peer[cur] = "closed" /\ sent[cur] - nread[cur] = 0
      BY DEF ReadAgain, ReadEof, Leave, Available
    <3>2. sent[cur] \in Nat /\ nread[cur] \in Nat
      BY <1>1 DEF IInv, PlugTypeOK
    <3> QED BY <1>1, <3>1, <3>2
  <2> QED BY <1>1, <1>3, <1>4, <2>1, <2>2, <2>3, <2>4, CallbackLegs
<1> QED BY <1>5, <1>6, <1>7 DEF IInv

(* An EOF that comes after packet statistics finished the session. *)
LEMMA LateEofStep == ASSUME IInv, CallbackEof, finishes > 0 PROVE IInv'
<1>1. /\ pc = "eof" /\ reason = "stats" /\ cond = {} /\ pending = {} /\ due = {} /\ cur \in Legs /\ cur \in SessionLegs
      /\ "DESTROYED" \in eofmask /\ finishes = 1 /\ eofmask \subseteq EofMask
      /\ ("DESTROYED" \in eofmask <=> EofAll \subseteq eofmask)
  <2>1. finishes = 1
    BY DEF IInv, FinishedOnce, PlugTypeOK
  <2> QED BY <2>1 DEF IInv, Ending, Control, Copying, CallbackEof, FinishedOnce, PlugTypeOK
<1>2. PICK add \in SUBSET EofAll : UpdateEofMask(add, "eof", cond, "dispatch")
  BY <1>1, LegBits DEF CallbackEof
<1>3. eofmask' \subseteq EofMask /\ EofAll \subseteq eofmask' /\ "DESTROYED" \in eofmask'
  BY <1>1, <1>2, MaskGrows DEF UpdateEofMask
<1>4. /\ UNCHANGED <<finishes, reason, pending, due, cond, data, stacked, buf, cur, pkt, packets, nread, got,
                     sent, peer, room, broken>> /\ pc' = "ended"
  BY <1>1, <1>2, <1>3 DEF UpdateEofMask, CallbackEof, world
<1>5. shut' = shut \/ shut' = [shut EXCEPT ![cur] = TRUE]
  BY DEF CallbackEof
<1>k. SessionLegs' = SessionLegs /\ SessionLegs \subseteq Legs /\ (Soft' <=> Soft) /\ \A l \in Legs : HasSink(l)' <=> HasSink(l)
  BY <1>4, SessionKept
<1>6. PlugTypeOK' /\ FinishedOnce'
  <2>1. touched' \in BOOLEAN
    BY DEF CallbackEof
  <2>2. shut' \in [Legs -> BOOLEAN]
    BY <1>1, <1>5 DEF IInv, PlugTypeOK
  <2> QED BY <1>1, <1>3, <1>4, <2>1, <2>2 DEF IInv, PlugTypeOK, FinishedOnce
<1>7. Flow'
  BY <1>4, <1>k DEF IInv, Flow
<1>8. Control'
  <2>1. \A l \in Legs : shut'[l] => l \in SessionLegs
    BY <1>1, <1>5 DEF IInv, Control, PlugTypeOK
  <2> QED BY <1>1, <1>4, <1>k, <2>1 DEF Control, Copying
<1>9. Ending' /\ ShutLegs' /\ LegsWait' /\ SoftEndDelivers'
  BY <1>1, <1>3, <1>4 DEF Ending, ShutLegs, LegsWait, SoftEndDelivers
<1> QED BY <1>6, <1>7, <1>8, <1>9 DEF IInv

(* The EOF of a live session with soft shutdown: the direction's sink is    *)
(* shut down, and the last one finishes the session.                        *)
LEMMA SoftEofStep == ASSUME IInv, CallbackEof, finishes = 0, Soft PROVE IInv'
<1>1. /\ pc = "eof" /\ cur \in Legs /\ cur \in SessionLegs /\ cur \notin pending /\ Copying
      /\ <<cur, "IN">> \notin cond /\ <<cur, "OUT">> \notin cond
      /\ peer[cur] = "closed" /\ nread[cur] = sent[cur] /\ ~shut[cur]
      /\ "DESTROYED" \notin eofmask /\ eofmask \subseteq EofMask
      /\ ("DESTROYED" \in eofmask <=> EofAll \subseteq eofmask)
  BY DEF IInv, Ending, Control, Copying, CallbackEof, FinishedOnce, PlugTypeOK, ShutLegs
<1>2. UpdateEofMask(EofBits(cur), "eof", cond, "dispatch") /\ shut' = [shut EXCEPT ![cur] = TRUE]
      /\ UNCHANGED <<data, stacked, buf, cur, pkt, packets, nread, got, sent, peer, room, broken>>
  BY DEF CallbackEof, world
<1>k. SessionLegs' = SessionLegs /\ SessionLegs \subseteq Legs /\ (Soft' <=> Soft) /\ \A l \in Legs : HasSink(l)' <=> HasSink(l)
  BY <1>2, SessionKept
<1>3. /\ eofmask' \subseteq EofMask /\ ("DESTROYED" \in eofmask' <=> EofAll \subseteq eofmask')
      /\ \A b \in EofAll : b \in eofmask' <=> b \in eofmask \union EofBits(cur)
  <2>1. EofBits(cur) \in SUBSET EofAll
    BY <1>1, LegBits
  <2> QED BY <1>1, <1>2, <2>1, MaskGrows DEF UpdateEofMask
<1>4. shut' \in [Legs -> BOOLEAN] /\ shut'[cur] /\ \A l \in Legs : l # cur => (shut'[l] <=> shut[l])
  BY <1>1, <1>2 DEF IInv, PlugTypeOK
<1>5. \A l \in SessionLegs : \A b \in EofBits(l) : b \in eofmask' <=> shut'[l]
  <2>1. \A l \in SessionLegs : EofBits(l) \subseteq EofAll /\ (l # cur => EofBits(l) \intersect EofBits(cur) = {})
    BY <1>1, <1>k, LegBits
  <2>2. ASSUME NEW l \in SessionLegs, NEW b \in EofBits(l) PROVE b \in eofmask' <=> shut'[l]
    <3>1. b \in eofmask <=> shut[l]
      BY DEF IInv, ShutLegs
    <3> QED BY <1>3, <1>4, <1>k, <2>1, <3>1
  <2> QED BY <2>2
<1>6. \A l \in Legs : shut'[l] =>
          /\ l \in SessionLegs /\ peer[l] = "closed" /\ nread[l] = sent[l] /\ (HasSink(l) => buf[l] = <<>>)
          /\ l \notin pending /\ <<l, "IN">> \notin cond /\ <<l, "OUT">> \notin cond
  BY <1>1, <1>4 DEF IInv, Control, ShutLegs
<1>7. touched' \in BOOLEAN
  BY DEF CallbackEof
<1>8. Flow'
  BY <1>2, <1>k DEF IInv, Flow
<1>9. CASE "DESTROYED" \notin eofmask'
  <2>1. UNCHANGED <<finishes, reason, pending, due, cond>> /\ pc' = "dispatch"
    BY <1>2, <1>9 DEF UpdateEofMask
  <2>2. PlugTypeOK' /\ FinishedOnce'
    BY <1>2, <1>3, <1>4, <1>7, <1>9, <2>1, SMTT(60) DEF IInv, PlugTypeOK, FinishedOnce
  <2>3. Control'
    BY <1>1, <1>6, <1>k, <2>1 DEF IInv, Control, Copying
  <2>4. Ending'
    BY <1>3, <2>1 DEF IInv, Ending
  <2>5. ShutLegs'
    BY <1>2, <1>5, <1>6, <1>k, <2>1 DEF ShutLegs, Copying
  <2>6. LegsWait'
    <3>1. \A m \in SessionLegs : HasSink(m) /\ ~shut'[m] => Waits(m)
      BY <1>1, <1>4, <1>k DEF IInv, LegsWait
    <3>2. \A m \in SessionLegs : Waits(m) => Waits(m)'
      BY <1>2, <1>k, <2>1 DEF Waits
    <3> QED BY <1>k, <3>1, <3>2 DEF LegsWait
  <2>7. SoftEndDelivers'
    BY <2>1 DEF IInv, Ending, SoftEndDelivers
  <2> QED BY <1>8, <2>2, <2>3, <2>4, <2>5, <2>6, <2>7 DEF IInv
<1>10. CASE "DESTROYED" \in eofmask'
  <2>1. finishes' = 1 /\ reason' = "eof" /\ cond' = {} /\ pending' = {} /\ due' = {} /\ pc' = "ended"
    BY <1>1, <1>2, <1>10 DEF UpdateEofMask
  <2>2. PlugTypeOK' /\ FinishedOnce'
    BY <1>2, <1>3, <1>4, <1>7, <1>10, <2>1 DEF IInv, PlugTypeOK, FinishedOnce
  <2>3. Control'
    BY <1>6, <1>k, <2>1 DEF Control, Copying
  <2>4. Ending' /\ ShutLegs' /\ LegsWait'
    BY <1>3, <2>1 DEF Ending, ShutLegs, LegsWait
  <2>5. \A l \in SessionLegs : shut'[l]
    <3>1. \A l \in SessionLegs : EofBits(l) \subseteq eofmask' /\ EofBits(l) # {}
      BY <1>3, <1>10, <1>k, LegBits
    <3> QED BY <1>5, <3>1
  <2>6. ASSUME NEW l \in SessionLegs
        PROVE  shut'[l] /\ peer'[l] = "closed" /\ (HasSink(l)' => Len(got'[l]) = sent'[l])
    <3>1. l \in Legs /\ shut'[l] /\ peer[l] = "closed" /\ nread[l] = sent[l] /\ (HasSink(l) => buf[l] = <<>>)
      BY <1>6, <1>k, <2>5
    <3>2. HasSink(l) => nread[l] = Len(got[l]) + Len(buf[l])
      BY <3>1 DEF IInv, Flow
    <3>3. got[l] \in Seq(Nat)
      BY <3>1 DEF IInv, PlugTypeOK
    <3>4. HasSink(l) => Len(got[l]) = sent[l]
      <4> SUFFICES ASSUME HasSink(l) PROVE Len(got[l]) = sent[l] OBVIOUS
      <4>1. Len(buf[l]) = 0 /\ Len(got[l]) \in Nat
        <5>1. Len(<<>>) = 0
          OBVIOUS
        <5> QED BY <3>1, <3>3, <5>1
      <4>2. nread[l] = Len(got[l])
        BY <3>2, <4>1
      <4> QED BY <3>1, <4>2
    <3> QED BY <1>2, <1>k, <3>1, <3>4
  <2>7. SoftEndDelivers'
    BY <1>k, <2>6 DEF SoftEndDelivers
  <2> QED BY <1>8, <2>2, <2>3, <2>4, <2>7 DEF IInv
<1> QED BY <1>9, <1>10

(* The EOF of a live session without it ends both directions. *)
LEMMA HardEofStep == ASSUME IInv, CallbackEof, finishes = 0, ~Soft PROVE IInv'
<1>1. UpdateEofMask(EofAll, "eof", cond, "dispatch") /\ touched' \in BOOLEAN
      /\ UNCHANGED <<data, stacked, buf, cur, pkt, packets, nread, got, shut, sent, peer, room, broken>>
  BY DEF CallbackEof, world
<1>2. /\ eofmask' \subseteq EofMask /\ EofAll \subseteq eofmask' /\ "DESTROYED" \in eofmask'
      /\ finishes' = 1 /\ reason' = "eof" /\ cond' = {} /\ pending' = {} /\ due' = {} /\ pc' = "ended"
  BY <1>1, AllEnds
<1>k. SessionLegs' = SessionLegs /\ (Soft' <=> Soft) /\ \A l \in Legs : HasSink(l)' <=> HasSink(l)
  BY <1>1, SessionKept
<1>3. PlugTypeOK' /\ FinishedOnce'
  BY <1>1, <1>2 DEF IInv, PlugTypeOK, FinishedOnce
<1>4. Flow' /\ Control'
  BY <1>1, <1>2, <1>k DEF IInv, Flow, Control, Copying
<1>5. Ending' /\ ShutLegs' /\ LegsWait' /\ SoftEndDelivers'
  BY <1>2, <1>k DEF Ending, ShutLegs, LegsWait, SoftEndDelivers
<1> QED BY <1>3, <1>4, <1>5 DEF IInv

(* The peers and the sinks: they move only legs that nobody shut down. *)
LEMMA WorldStep == ASSUME IInv, World PROVE IInv'
<1> USE PlugConstants
<1>1. PICK l \in Legs : MayMove(l) /\ (PeerSends(l) \/ (\E how \in {"closed", "error"} : PeerEnds(l, how))
                                       \/ SinkDrains(l) \/ SinkBreaks(l))
  BY DEF World
<1>2. UNCHANGED code /\ finishes = 0
  BY <1>1 DEF PeerSends, PeerEnds, SinkDrains, SinkBreaks, MayMove, IInv, Ending, PlugTypeOK
<1>3. /\ \A m \in Legs : peer[m] # "open" => peer'[m] = peer[m] /\ sent'[m] = sent[m]
      /\ \A m \in Legs : sent'[m] >= sent[m]
      /\ sent' \in [Legs -> Nat] /\ peer' \in [Legs -> {"open", "closed", "error"}]
      /\ room' \in [Legs -> Nat] /\ broken' \in [Legs -> BOOLEAN]
  <2>0. /\ sent \in [Legs -> Nat] /\ peer \in [Legs -> {"open", "closed", "error"}]
        /\ room \in [Legs -> Nat] /\ broken \in [Legs -> BOOLEAN]
    BY DEF IInv, PlugTypeOK
  <2>1. CASE PeerSends(l)
    BY <2>0, <2>1 DEF PeerSends
  <2>2. CASE \E how \in {"closed", "error"} : PeerEnds(l, how)
    BY <2>0, <2>2 DEF PeerEnds
  <2>3. CASE SinkDrains(l)
    BY <2>0, <2>3 DEF SinkDrains
  <2>4. CASE SinkBreaks(l)
    BY <2>0, <2>4 DEF SinkBreaks
  <2> QED BY <1>1, <2>1, <2>2, <2>3, <2>4
<1>k. SessionLegs' = SessionLegs /\ SessionLegs \subseteq Legs /\ (Soft' <=> Soft) /\ \A m \in Legs : HasSink(m)' <=> HasSink(m)
  BY <1>2, SessionKept DEF code
<1>4. PlugTypeOK' /\ FinishedOnce'
  BY <1>2, <1>3 DEF IInv, PlugTypeOK, FinishedOnce, code
<1>5. Flow'
  <2>1. \A m \in Legs : nread[m] <= sent'[m]
    <3>1. \A m \in Legs : nread[m] \in Nat /\ sent[m] \in Nat /\ sent'[m] \in Nat /\ nread[m] <= sent[m]
      BY <1>3 DEF IInv, PlugTypeOK, Flow
    <3> QED BY <1>3, <3>1
  <2> QED BY <1>2, <1>k, <2>1 DEF IInv, Flow, code
<1>6. Control'
  <2>1. pc' # "eof"
    BY <1>1, <1>2 DEF MayMove, code
  <2> QED BY <1>2, <1>k, <2>1 DEF IInv, Control, Copying, code
<1>7. Ending' /\ SoftEndDelivers'
  BY <1>2 DEF IInv, Ending, SoftEndDelivers, code
<1>8. ShutLegs'
  BY <1>2, <1>3, <1>k DEF IInv, ShutLegs, Copying, code
<1>9. LegsWait'
  BY <1>2, <1>k DEF IInv, LegsWait, Waits, Copying, code
<1> QED BY <1>4, <1>5, <1>6, <1>7, <1>8, <1>9 DEF IInv

(* Every step preserves the invariant. *)
LEMMA NextIInv == IInv /\ [Next]_vars => IInv'
<1> SUFFICES ASSUME IInv, [Next]_vars PROVE IInv' OBVIOUS
<1>1. CASE UNCHANGED vars
  <2>1. UNCHANGED <<code, sent, peer, room, broken>>
    BY <1>1 DEF vars, world
  <2>k. SessionLegs' = SessionLegs /\ SessionLegs \subseteq Legs /\ (Soft' <=> Soft) /\ \A m \in Legs : HasSink(m)' <=> HasSink(m)
    BY <2>1, SessionKept DEF code
  <2>2. PlugTypeOK' /\ FinishedOnce' /\ Flow'
    BY <2>1, <2>k DEF IInv, PlugTypeOK, FinishedOnce, Flow, code
  <2>3. Control' /\ Ending' /\ SoftEndDelivers'
    BY <2>1, <2>k DEF IInv, Control, Copying, Ending, SoftEndDelivers, code
  <2>4. ShutLegs' /\ LegsWait'
    BY <2>1, <2>k DEF IInv, ShutLegs, LegsWait, Waits, Copying, code
  <2> QED BY <2>2, <2>3, <2>4 DEF IInv
<1>2. CASE World
  BY <1>2, WorldStep
<1>3. CASE CallbackEof
  <2>1. finishes = 0 \/ finishes > 0
    BY DEF IInv, PlugTypeOK
  <2> QED BY <1>3, <2>1, LateEofStep, SoftEofStep, HardEofStep
<1>4. CASE Start \/ InitFails \/ PollIter \/ PollAgain \/ Timeout \/ StatsTimeout \/ \E l \in Legs : CopyData(l)
  BY <1>4, StartStep, PollStep, TimerStep, CopyDataStep
<1>5. CASE WriteNothing \/ (\E k \in 0 .. BufferSize : WriteOutput(k)) \/ WriteError
  BY <1>5, WriteNothingStep, WriteOutputStep, ErrorStep
<1>6. CASE (\E k \in 1 .. BufferSize : ReadInput(k)) \/ ReadAgain \/ ReadEof \/ ReadError
  BY <1>6, ReadInputStep, ReadNothingStep, ErrorStep
<1> QED BY <1>1, <1>2, <1>3, <1>4, <1>5, <1>6 DEF Next, Code

-----------------------------------------------------------------------------

(* Every reachable state satisfies the strengthened invariant. *)
THEOREM PlugInvariant == Spec => []IInv
<1>1. Init => IInv
  BY InitIInv
<1>2. IInv /\ [Next]_vars => IInv'
  BY NextIInv
<1> QED BY <1>1, <1>2, PTL DEF Spec

(* The session keeps its type, its buffers their bounds, and                *)
(* z_plug_update_eof_mask calls finish once, whichever callbacks, timers    *)
(* and statistics come together.                                            *)
THEOREM PlugIsSound == Spec => []PlugSound
<1>1. IInv => PlugSound
  BY DEF IInv, PlugSound
<1> QED BY <1>1, PlugInvariant, PTL

(* A soft end by EOF means that everything arrived in every direction       *)
(* (z_plug_copy_* and their EOF branches).                                  *)
THEOREM PlugSoftEnd == Spec => []SoftEndDelivers
<1>1. IInv => SoftEndDelivers
  BY DEF IInv
<1> QED BY <1>1, PlugInvariant, PTL

(* Between two poll iterations every live direction waits for the event     *)
(* that lets z_plug_copy_data go on: no wake-up is lost.                    *)
THEOREM PlugNeverStuck == Spec => []NothingStuck
<1>1. IInv => NothingStuck
  <2> SUFFICES ASSUME IInv, pc = "poll", NEW l \in SessionLegs, HasSink(l), EofBits(l) \intersect eofmask = {}
               PROVE  Waits(l)
    BY DEF NothingStuck, Waits
  <2>1. finishes = 0 /\ ~Copying
    BY DEF IInv, Ending, PlugTypeOK, Copying
  <2>2. ~shut[l]
    BY <2>1, LegBits DEF IInv, ShutLegs
  <2> QED BY <2>1, <2>2 DEF IInv, LegsWait
<1> QED BY <1>1, PlugInvariant, PTL

-----------------------------------------------------------------------------
(****************************************************************************)
(* The refinement of ReliableCopy.  It holds for the sessions that packet   *)
(* statistics cannot reject in the middle of a soft copy: for the others    *)
(* the callback goes on after finish and shuts the sink down as if the leg  *)
(* had ended (the run of NoTouchAfterFinish).                               *)
(****************************************************************************)
Rejectable(d) == "stats_rejects" \in Faults /\ d.interval > 0 /\ (d.shutdown_soft \/ d.stack)

SessionFixed == data \in Sessions /\ (stacked => data.stack)

(* The session stays the one it was started for. *)
LEMMA NextFixed == IInv /\ SessionFixed /\ [Next]_vars => SessionFixed'
<1> SUFFICES ASSUME IInv, SessionFixed, [Next]_vars PROVE SessionFixed' OBVIOUS
<1>1. CASE Start
  BY <1>1 DEF SessionFixed, Start
<1>2. CASE UNCHANGED vars \/ World
  BY <1>2 DEF SessionFixed, vars, code, World, PeerSends, PeerEnds, SinkDrains, SinkBreaks
<1>3. CASE Code /\ ~Start
  BY <1>3 DEF SessionFixed, Code, InitFails, PollIter, Iterate, PollAgain, Timeout, StatsTimeout, CopyData,
      WriteNothing, WriteOutput, WriteError, ReadInput, ReadAgain, ReadEof, ReadError, CallbackEof
<1> QED BY <1>1, <1>2, <1>3 DEF Next

(* How the channel sees the end of a leg. *)
LegEnd(l) == IF shut[l] /\ HasSink(l) THEN "clean"
             ELSE IF shut[l] \/ (l \in SessionLegs /\ finishes > 0) THEN "broken"
             ELSE "open"

(* A step that sends, delivers and ends nothing is a stutter of the channel. *)
LEMMA ChannelStutters ==
    ASSUME UNCHANGED <<sent, peer, got, shut, finishes, data>>, stacked' = stacked \/ finishes = 0
    PROVE  UNCHANGED Channel!avars
<1>1. \A l \in Legs : HasSink(l)' <=> HasSink(l)
  BY DEF HasSink
<1>2. \A l \in Legs : (l \in SessionLegs /\ finishes > 0) <=> (l \in SessionLegs' /\ finishes' > 0)
  BY DEF SessionLegs
<1>3. \A l \in Legs : LegEnd(l)' = LegEnd(l)
  BY <1>1, <1>2 DEF LegEnd
<1> QED BY <1>3 DEF Channel!avars, LegEnd

(* A session that ends abruptly breaks the legs that had not ended. *)
LEMMA ChannelBreaks ==
    ASSUME finishes = 0, finishes' = 1, UNCHANGED <<sent, peer, got, shut, data, stacked>>
    PROVE  Channel!ANext
<1>1. SessionLegs' = SessionLegs /\ \A l \in Legs : HasSink(l)' <=> HasSink(l)
  BY SessionKept
<1>2. \A l \in Legs : LegEnd(l)' = LegEnd(l) \/ (LegEnd(l) = "open" /\ LegEnd(l)' = "broken")
  BY <1>1 DEF LegEnd
<1>3. Channel!EndBroken
  BY <1>2 DEF Channel!EndBroken, LegEnd
<1> QED BY <1>3 DEF Channel!ANext

(* A soft EOF ends its leg alone: cleanly when it has a sink, for then      *)
(* everything the closed peer sent has arrived.                             *)
LEMMA ChannelSoftEof ==
    ASSUME IInv, CallbackEof, finishes = 0, Soft
    PROVE  Channel!ANext
<1>1. /\ cur \in Legs /\ cur \in SessionLegs /\ peer[cur] = "closed" /\ nread[cur] = sent[cur] /\ ~shut[cur]
      /\ "DESTROYED" \notin eofmask /\ eofmask \subseteq EofMask
      /\ ("DESTROYED" \in eofmask <=> EofAll \subseteq eofmask)
  BY DEF IInv, Ending, Control, Copying, CallbackEof, FinishedOnce, PlugTypeOK, ShutLegs
<1>2. UpdateEofMask(EofBits(cur), "eof", cond, "dispatch") /\ shut' = [shut EXCEPT ![cur] = TRUE]
      /\ UNCHANGED <<data, stacked, sent, peer, got>>
  BY DEF CallbackEof, world
<1>3. SessionLegs' = SessionLegs /\ SessionLegs \subseteq Legs /\ \A l \in Legs : HasSink(l)' <=> HasSink(l)
  BY <1>2, SessionKept
<1>4. shut'[cur] /\ \A l \in Legs : l # cur => (shut'[l] <=> shut[l])
  BY <1>1, <1>2 DEF IInv, PlugTypeOK
<1>5. finishes' # finishes => finishes' = 1 /\ "DESTROYED" \in eofmask'
  BY <1>2 DEF UpdateEofMask
<1>6. \A l \in SessionLegs : finishes' > 0 => shut'[l]
  <2>1. IInv'
    BY SoftEofStep
  <2>2. finishes' > 0 => reason' = "eof" /\ Soft'
    <3>1. Soft'
      BY <1>2, SessionKept
    <3>2. finishes' > 0 => reason' = "eof"
      BY <1>2 DEF UpdateEofMask
    <3> QED BY <3>1, <3>2
  <2> QED BY <1>3, <2>1, <2>2 DEF IInv, SoftEndDelivers
<1>7. \A l \in Legs : l # cur => LegEnd(l)' = LegEnd(l)
  BY <1>3, <1>4, <1>6 DEF LegEnd
<1>8. LegEnd(cur) = "open"
  BY <1>1 DEF LegEnd
<1>9. PICK c \in Legs : c = cur
  BY <1>1
<1>10. CASE HasSink(c)
  <2>1. LegEnd(c)' = "clean"
    BY <1>3, <1>4, <1>9, <1>10 DEF LegEnd
  <2>2. [l \in Legs |-> LegEnd(l)'] = [[l \in Legs |-> LegEnd(l)] EXCEPT ![c] = "clean"]
    BY <1>7, <1>9, <2>1
  <2>3. Len(got[c]) = sent[c]
    <3>1. buf[c] = <<>> /\ nread[c] = Len(got[c]) + Len(buf[c]) /\ got[c] \in Seq(Nat)
      BY <1>9, <1>10 DEF IInv, Control, Flow, PlugTypeOK, CallbackEof
    <3>2. Len(<<>>) = 0
      OBVIOUS
    <3> QED BY <1>1, <1>9, <3>1, <3>2
  <2>4. Channel!EndClean(c)
    BY <1>1, <1>2, <1>8, <1>9, <2>2, <2>3 DEF Channel!EndClean, LegEnd
  <2> QED BY <2>4 DEF Channel!ANext
<1>11. CASE ~HasSink(c)
  <2>1. LegEnd(c)' = "broken"
    BY <1>3, <1>4, <1>9, <1>11 DEF LegEnd
  <2>2. \A l \in Legs : LegEnd(l)' = LegEnd(l) \/ (LegEnd(l) = "open" /\ LegEnd(l)' = "broken")
    BY <1>7, <1>8, <1>9, <2>1
  <2>3. Channel!EndBroken
    BY <1>2, <2>2 DEF Channel!EndBroken, LegEnd
  <2> QED BY <2>3 DEF Channel!ANext
<1> QED BY <1>10, <1>11

(* k bytes out of the buffer are k bytes delivered, on a leg that is open. *)
LEMMA ChannelDelivers ==
    ASSUME IInv, NEW k \in 0 .. BufferSize, WriteOutput(k)
    PROVE  [Channel!ANext]_(Channel!avars)
<1> USE PlugConstants
<1> DEFINE g == got[cur]
           b == buf[cur]
<1>1. /\ finishes = 0 /\ cur \in Legs /\ ~shut[cur] /\ pc = "write"
      /\ UNCHANGED <<data, stacked, finishes, shut, sent, peer>>
  <2>1. pc = "write" /\ finishes = 0 /\ cur \in Legs
    BY DEF IInv, Ending, PlugTypeOK, WriteOutput, Writing
  <2>2. ~shut[cur]
    BY <2>1 DEF IInv, ShutLegs, Copying
  <2> QED BY <2>1, <2>2 DEF WriteOutput
<1>2. PICK c \in Legs : c = cur /\ HasSink(c)
  BY <1>1 DEF WriteOutput, Writing
<1>3. /\ g \in Seq(Nat) /\ b \in Seq(Nat) /\ k \in Nat /\ k <= Len(b)
      /\ Ordered(g) /\ Follows(b, Len(g)) /\ nread[c] = Len(g) + Len(b)
      /\ nread[c] <= sent[c] /\ nread[c] \in Nat /\ sent[c] \in Nat
      /\ got' = [got EXCEPT ![c] = g \o SubSeq(b, 1, k)] /\ got \in [Legs -> Seq(Nat)]
  <2>1. /\ got' = [got EXCEPT ![c] = g \o SubSeq(b, 1, k)] /\ k \in Nat /\ k <= Len(b)
    BY <1>2 DEF WriteOutput
  <2>2. /\ g \in Seq(Nat) /\ b \in Seq(Nat) /\ nread[c] \in Nat /\ sent[c] \in Nat /\ got \in [Legs -> Seq(Nat)]
    BY <1>1, <1>2 DEF IInv, PlugTypeOK
  <2>3. Ordered(g) /\ Follows(b, Len(g)) /\ nread[c] = Len(g) + Len(b) /\ nread[c] <= sent[c]
    BY <1>2 DEF IInv, Flow
  <2> QED BY <2>1, <2>2, <2>3
<1> HIDE DEF g, b
<1>4. /\ g \o SubSeq(b, 1, k) \in Seq(Nat) /\ Len(g \o SubSeq(b, 1, k)) = Len(g) + k
      /\ Ordered(g \o SubSeq(b, 1, k))
  BY <1>3, MoveBytes
<1>5. g \o SubSeq(b, 1, k) = [i \in 1 .. Len(g) + k |-> i]
  <2> DEFINE h == g \o SubSeq(b, 1, k)
  <2>1. h \in Seq(Nat) /\ Len(h) = Len(g) + k /\ Ordered(h)
    BY <1>4
  <2> HIDE DEF h
  <2>2. h = [i \in 1 .. Len(h) |-> h[i]]
    BY <2>1
  <2>3. h = [i \in 1 .. Len(g) + k |-> i]
    BY <2>1, <2>2 DEF Ordered
  <2> QED BY <2>3 DEF h
<1>6. \A l \in Legs : LegEnd(l)' = LegEnd(l)
  <2>1. SessionLegs' = SessionLegs /\ \A l \in Legs : HasSink(l)' <=> HasSink(l)
    BY <1>1, SessionKept
  <2> QED BY <1>1, <2>1 DEF LegEnd
<1>7. CASE k = 0
  <2>1. g = [i \in 1 .. Len(g) |-> i]
    <3>1. g = [i \in 1 .. Len(g) |-> g[i]]
      BY <1>3
    <3> QED BY <1>3, <3>1 DEF Ordered
  <2>2. got' = got
    BY <1>2, <1>3, <1>5, <1>7, <2>1 DEF g
  <2> QED BY <1>1, <2>2, ChannelStutters
<1>8. CASE k # 0
  <2>1. k \in 1 .. sent[c] - Len(got[c])
    <3>1. Len(g) \in Nat /\ Len(b) \in Nat
      BY <1>3
    <3>2. k \in 1 .. sent[c] - Len(g)
      BY <1>3, <1>8, <3>1
    <3> QED BY <1>2, <3>2 DEF g
  <2>2. LegEnd(c) = "open"
    BY <1>1, <1>2 DEF LegEnd
  <2>3. got' = [got EXCEPT ![c] = [i \in 1 .. Len(got[c]) + k |-> i]]
    BY <1>2, <1>3, <1>5 DEF g
  <2>4. Channel!Deliver(c, k)
    BY <1>1, <1>6, <2>2, <2>3 DEF Channel!Deliver, LegEnd
  <2> QED BY <2>1, <2>4 DEF Channel!ANext
<1> QED BY <1>7, <1>8

(* The peers: what they send and close is sent and closed on the channel. *)
LEMMA ChannelWorld ==
    ASSUME IInv, World
    PROVE  [Channel!ANext]_(Channel!avars)
<1> USE PlugConstants
<1>1. sent \in [Legs -> Nat] /\ peer \in [Legs -> {"open", "closed", "error"}]
  BY DEF IInv, PlugTypeOK
<1>2. PICK l \in Legs : PeerSends(l) \/ PeerEnds(l, "closed") \/ PeerEnds(l, "error") \/ SinkDrains(l) \/ SinkBreaks(l)
  BY DEF World
<1>3. UNCHANGED <<data, stacked, finishes, shut, got>>
  BY <1>2 DEF PeerSends, PeerEnds, SinkDrains, SinkBreaks, code
<1>4. \A m \in Legs : LegEnd(m)' = LegEnd(m)
  <2>1. SessionLegs' = SessionLegs /\ \A m \in Legs : HasSink(m)' <=> HasSink(m)
    BY <1>3, SessionKept
  <2> QED BY <1>3, <2>1 DEF LegEnd
<1>5. CASE PeerSends(l)
  <2>1. Channel!Send(l, 1)
    BY <1>3, <1>4, <1>5 DEF PeerSends, Channel!Send, LegEnd
  <2> QED BY <2>1 DEF Channel!ANext
<1>6. CASE PeerEnds(l, "closed")
  <2>1. [m \in Legs |-> peer'[m] = "closed"] = [[m \in Legs |-> peer[m] = "closed"] EXCEPT ![l] = TRUE]
    BY <1>1, <1>6 DEF PeerEnds
  <2>2. Channel!Close(l)
    BY <1>3, <1>4, <1>6, <2>1 DEF PeerEnds, Channel!Close, LegEnd
  <2> QED BY <2>2 DEF Channel!ANext
<1>7. CASE PeerEnds(l, "error")
  <2>1. [m \in Legs |-> peer'[m] = "closed"] = [m \in Legs |-> peer[m] = "closed"]
    BY <1>1, <1>7 DEF PeerEnds
  <2> QED BY <1>3, <1>4, <1>7, <2>1 DEF PeerEnds, Channel!avars, LegEnd
<1>8. CASE SinkDrains(l) \/ SinkBreaks(l)
  BY <1>3, <1>8, ChannelStutters DEF SinkDrains, SinkBreaks
<1> QED BY <1>2, <1>5, <1>6, <1>7, <1>8

(* Each step of a session that cannot be rejected is a step of the channel  *)
(* or a stutter.                                                            *)
LEMMA NextRefines ==
    ASSUME IInv, IInv', SessionFixed, ~Rejectable(data), [Next]_vars
    PROVE  [Channel!ANext]_(Channel!avars)
<1> USE PlugConstants
<1>1. CASE UNCHANGED vars
  BY <1>1, ChannelStutters DEF vars, code, world
<1>2. CASE World
  BY <1>2, ChannelWorld
<1>3. CASE Start \/ InitFails \/ PollIter \/ PollAgain \/ (\E l \in Legs : CopyData(l)) \/ WriteNothing \/ ReadAgain \/ ReadEof
  <2>1. UNCHANGED <<sent, peer, got, shut, finishes, data>> /\ (stacked' = stacked \/ finishes = 0)
    BY <1>3 DEF Start, InitFails, PollIter, Iterate, PollAgain, CopyData, WriteNothing, ReadAgain, ReadEof, world,
                IInv, Control
  <2> QED BY <2>1, ChannelStutters
<1>4. CASE Timeout \/ StatsTimeout \/ WriteError \/ ReadError \/ \E k \in 1 .. BufferSize : ReadInput(k)
  <2>1. UNCHANGED <<sent, peer, got, shut, data, stacked>>
    BY <1>4 DEF Timeout, StatsTimeout, WriteError, ReadError, ReadInput, world
  <2>2. finishes' = finishes \/ finishes' = finishes + 1
    BY <1>4 DEF Timeout, StatsTimeout, WriteError, ReadError, ReadInput, UpdateEofMask
  <2>3. finishes' = finishes \/ (finishes = 0 /\ finishes' = 1)
    <3>1. finishes \in Nat
      BY DEF IInv, PlugTypeOK
    <3>2. finishes' <= 1
      BY DEF IInv, FinishedOnce
    <3> QED BY <2>2, <3>1, <3>2
  <2> QED BY <2>1, <2>3, ChannelStutters, ChannelBreaks
<1>5. CASE \E k \in 0 .. BufferSize : WriteOutput(k)
  BY <1>5, ChannelDelivers
<1>6. CASE CallbackEof
  <2>1. CASE finishes = 0 /\ Soft
    BY <1>6, <2>1, ChannelSoftEof
  <2>2. CASE finishes = 0 /\ ~Soft
    <3>1. UpdateEofMask(EofAll, "eof", cond, "dispatch") /\ UNCHANGED <<sent, peer, got, shut, data, stacked>>
      BY <1>6, <2>2 DEF CallbackEof, world
    <3>2. finishes' = 1
      BY <2>2, <3>1, AllEnds
    <3> QED BY <2>2, <3>1, <3>2, ChannelBreaks
  <2>3. CASE finishes > 0
    <3>1. ~Soft
      BY <1>6, <2>3 DEF IInv, Ending, CallbackEof, Rejectable, SessionFixed, Soft
    <3>2. UpdateEofMask(EofAll, "eof", cond, "dispatch") /\ UNCHANGED <<sent, peer, got, shut, data, stacked>>
      BY <1>6, <3>1 DEF CallbackEof, world
    <3>3. "DESTROYED" \in eofmask
      BY <2>3 DEF IInv, FinishedOnce, PlugTypeOK
    <3>4. finishes' = finishes
      BY <3>2, <3>3 DEF UpdateEofMask
    <3> QED BY <3>2, <3>4, ChannelStutters
  <2>4. finishes = 0 \/ finishes > 0
    BY DEF IInv, PlugTypeOK
  <2> QED BY <2>1, <2>2, <2>3, <2>4
<1> QED BY <1>1, <1>2, <1>3, <1>4, <1>5, <1>6 DEF Next, Code

(* A plug session implements the abstract channel in each direction, for    *)
(* every buffer, stream and fault: bytes arrive in order, a leg ends once,  *)
(* and cleanly only when everything has arrived (z_plug_copy_data and the   *)
(* EOF branches), unless packetStats may reject it in mid-copy.             *)
THEOREM PlugIsChannel ==
    ASSUME \A d \in Sessions : ~Rejectable(d)
    PROVE  Spec => PlugImplementsChannel
<1>1. Init => Channel!AInit
  <2> SUFFICES ASSUME Init PROVE Channel!AInit OBVIOUS
  <2>1. [l \in Legs |-> peer[l] = "closed"] = [l \in Legs |-> FALSE]
    BY DEF Init
  <2>2. \A l \in Legs : LegEnd(l) = "open"
    BY DEF Init, LegEnd
  <2> QED BY <2>1, <2>2 DEF Init, Channel!AInit, LegEnd
<1>2. Init => SessionFixed
  BY DEF Init, SessionFixed
<1>3. IInv /\ IInv' /\ SessionFixed /\ [Next]_vars => [Channel!ANext]_(Channel!avars)
  <2> SUFFICES ASSUME IInv, IInv', SessionFixed, [Next]_vars PROVE [Channel!ANext]_(Channel!avars)
    OBVIOUS
  <2>1. ~Rejectable(data)
    BY DEF SessionFixed
  <2> QED BY <2>1, NextRefines
<1>4. IInv /\ SessionFixed /\ [Next]_vars => SessionFixed'
  BY NextFixed
<1> QED BY <1>1, <1>2, <1>3, <1>4, PlugInvariant, PTL DEF Spec, PlugImplementsChannel, Channel!ASpec
=============================================================================
