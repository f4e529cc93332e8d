-------------------------- MODULE Transfer2Proofs --------------------------

(****************************************************************************)
(* Transfer2's safety, proved for every buffer size, read limit, preamble,  *)
(* flag, timer and fault set, and for streams of any length.                *)
(****************************************************************************)
EXTENDS Transfer2, SequenceTheorems, TLAPS

(* The bit that says that leg l has ended. *)
EofBit(l) == IF l = 0 THEN "EOF_SOURCE" ELSE "EOF_DEST"

(****************************************************************************)
(* The strengthening.  Flow says where every byte that was read is: with    *)
(* the sink, or in the buffer between ofs and end, in order.                *)
(****************************************************************************)
Flow ==
    \A l \in Legs :
        /\ nread[l] <= sent[l]
        /\ \A i \in 1 .. Len(got[l]) : got[l][i] = i
        /\ "COPYING_TAIL" \notin status =>
               /\ nread[l] = Len(got[l]) + (buf[l].end - buf[l].ofs)
               /\ \A i \in 1 .. BufferSize :
                     i > buf[l].ofs /\ i <= buf[l].end =>
                        buf[l].mem[i] = Len(got[l]) + (i - buf[l].ofs)

(* A soft EOF is only remembered for a source that is exhausted. *)
SoftEofMeansDrained ==
    \A l \in Legs : SoftEof(l) \in status => peer[l] = "closed" /\ nread[l] = sent[l]

(* A leg that works has a buffer in use and a pass that may still read. *)
Control ==
    /\ pending \subseteq ActiveLegs
    /\ pc \in {"write", "read"} => cur \in ActiveLegs /\ pkt < MaxReadAtATime
    /\ pc = "new" => \A l \in Legs : ~shut[l].done /\ nread[l] = 0
    /\ pc = "new" => status = {} /\ result = "none" /\ pending = {}

(* How the end of a leg is recorded. *)
Ended ==
    /\ \A l \in ActiveLegs : EofBit(l) \in status => shut[l].done
    /\ \A l \in Legs : shut[l].done /\ Troubled(shut[l].seen) => Troubled(status)
    /\ "FINISHED" \in status =>
          Troubled(status) \/ (\A l \in ActiveLegs : EofBit(l) \in status)
    /\ result = "FINISHED" => pc \in {"owner", "freed"}

IInv == TypeOK /\ Flow /\ SoftEofMeansDrained /\ Control /\ Ended
        /\ CleanShutdown /\ FinishedMeansDelivered

-----------------------------------------------------------------------------

(* A chunk of the buffer: its length and its elements. *)
LEMMA ChunkType ==
    ASSUME NEW b \in Buffers, NEW k \in Nat, b.ofs + k <= b.end
    PROVE  /\ Chunk(b, k) \in Seq(Nat) /\ Len(Chunk(b, k)) = k
           /\ \A i \in 1 .. k : Chunk(b, k)[i] = b.mem[b.ofs + i]
<1>1. /\ b.mem \in [1 .. BufferSize -> Nat]
      /\ b.ofs \in 0 .. BufferSize /\ b.end \in 0 .. BufferSize
  BY DEF Buffers
<1>2. b.mem \in Seq(Nat) /\ Len(b.mem) = BufferSize
  BY <1>1, ConstantsAssumption
<1> DEFINE m == b.mem
           o == b.ofs
<1>3. /\ m \in Seq(Nat) /\ Len(m) = BufferSize /\ BufferSize \in Nat
      /\ o \in Nat /\ o + k <= BufferSize
  BY <1>1, <1>2, ConstantsAssumption
<1> HIDE DEF m, o
<1>4. SubSeq(m, o + 1, o + k) \in Seq(Nat) /\ Len(SubSeq(m, o + 1, o + k)) = k
  BY <1>3
<1>5. \A i \in 1 .. k : SubSeq(m, o + 1, o + k)[i] = m[o + i]
  BY <1>3, <1>4
<1> QED BY <1>4, <1>5 DEF Chunk, m, o

(* An in-order sequence that is extended with the chunk that follows it in  *)
(* the buffer is in order.                                                  *)
LEMMA ExtendInOrder ==
    ASSUME NEW g \in Seq(Nat), NEW b \in Buffers, NEW k \in Nat, b.ofs + k <= b.end,
           \A i \in 1 .. Len(g) : g[i] = i,
           \A i \in 1 .. BufferSize :
              i > b.ofs /\ i <= b.end => b.mem[i] = Len(g) + (i - b.ofs)
    PROVE  /\ g \o Chunk(b, k) \in Seq(Nat)
           /\ Len(g \o Chunk(b, k)) = Len(g) + k
           /\ \A i \in 1 .. Len(g) + k : (g \o Chunk(b, k))[i] = i
<1> DEFINE c == Chunk(b, k)
<1>1. /\ c \in Seq(Nat) /\ Len(c) = k
      /\ \A i \in 1 .. k : c[i] = b.mem[b.ofs + i]
  BY ChunkType
<1>2. b.ofs \in 0 .. BufferSize /\ b.end \in 0 .. BufferSize /\ Len(g) \in Nat
  BY DEF Buffers
<1>3. \A i \in 1 .. k : c[i] = Len(g) + i
  <2> SUFFICES ASSUME NEW i \in 1 .. k PROVE c[i] = Len(g) + i OBVIOUS
  <2>1. b.ofs + i \in 1 .. BufferSize /\ b.ofs + i > b.ofs /\ b.ofs + i <= b.end
    BY <1>2, ConstantsAssumption
  <2>2. b.mem[b.ofs + i] = Len(g) + ((b.ofs + i) - b.ofs)
    BY <2>1
  <2> QED BY <1>1, <1>2, <2>2
<1> HIDE DEF c
<1>4. g \o c \in Seq(Nat) /\ Len(g \o c) = Len(g) + k
  BY <1>1, ConcatProperties
<1>5. ASSUME NEW i \in 1 .. Len(g) + k PROVE (g \o c)[i] = i
  <2>1. CASE i <= Len(g)
    <3>1. (g \o c)[i] = g[i]
      BY <1>1, <1>2, <2>1
    <3> QED BY <1>2, <2>1, <3>1
  <2>2. CASE i > Len(g)
    <3>1. i - Len(g) \in 1 .. k /\ Len(g) + (i - Len(g)) = i
      BY <1>2, <2>2
    <3>2. (g \o c)[i] = c[i - Len(g)]
      BY <1>1, <1>2, <2>2
    <3>3. c[i - Len(g)] = Len(g) + (i - Len(g))
      BY <1>3, <3>1
    <3> QED BY <3>1, <3>2, <3>3
  <2>3. i <= Len(g) \/ i > Len(g)
    BY <1>2
  <2> QED BY <2>1, <2>2, <2>3
<1> QED BY <1>4, <1>5 DEF c

(* The initial state. *)
LEMMA InitIInv == Init => IInv
<1> SUFFICES ASSUME Init PROVE IInv OBVIOUS
<1> USE ConstantsAssumption DEF Legs
<1>1. TypeOK
  <2>1. BufferInit \in Buffers
        /\ BufferInit.ofs <= BufferInit.end
    BY DEF BufferInit, Buffers
  <2>2. \A l \in Legs : buf[l] = BufferInit
    BY DEF Init
  <2>3. buf \in [Legs -> Buffers]
    BY <2>1 DEF Init
  <2>4. \A l \in Legs : buf[l].ofs <= buf[l].end
    BY <2>1, <2>2
  <2>5. [done |-> FALSE, seen |-> {}] \in [done : BOOLEAN, seen : SUBSET StatusBits]
    OBVIOUS
  <2>6. shut \in [Legs -> [done : BOOLEAN, seen : SUBSET StatusBits]]
    BY <2>5 DEF Init
  <2>7. got \in [Legs -> Seq(Nat)]
    BY DEF Init
  <2>8. stacked \in BOOLEAN /\ dwInitial \in BOOLEAN /\ stop \in BOOLEAN
    BY Zenon DEF Init
  <2>9. broken \in [Legs -> BOOLEAN]
    BY Zenon DEF Init
  <2> QED BY <2>3, <2>4, <2>6, <2>7, <2>8, <2>9 DEF Init, TypeOK, PCs, Results
<1>2. Flow /\ SoftEofMeansDrained
  BY DEF Init, Flow, SoftEofMeansDrained, BufferInit, SoftEof
<1>3. Control /\ Ended
  BY DEF Init, Control, Ended, ActiveLegs, EofBit
<1>4. CleanShutdown /\ FinishedMeansDelivered
  BY DEF Init, CleanShutdown, FinishedMeansDelivered, ActiveLegs
<1> QED BY <1>1, <1>2, <1>3, <1>4 DEF IInv

(* A step that moves no byte and forgets no bit but SUSPENDED and PROXY_OUT *)
(* keeps what is known about the data.                                      *)
LEMMA DataKept ==
    ASSUME IInv, UNCHANGED <<buf, nread, got, sent, peer, shut>>,
           "COPYING_TAIL" \in status => "COPYING_TAIL" \in status',
           \A l \in Legs : SoftEof(l) \in status' => SoftEof(l) \in status
    PROVE  Flow' /\ SoftEofMeansDrained' /\ CleanShutdown'
BY DEF IInv, Flow, SoftEofMeansDrained, CleanShutdown

(* Likewise for the control part, when pc, cur and pkt change as given. *)
LEMMA ControlKept ==
    ASSUME IInv, UNCHANGED <<stacked, result, peer, got, sent, shut>>,
           pending' \subseteq ActiveLegs, pc # "new", pc' # "new",
           result = "FINISHED" => pc' \in {"owner", "freed"},
           pc' \in {"write", "read"} => cur' \in ActiveLegs /\ pkt' < MaxReadAtATime,
           "COPYING_TAIL" \in status => "COPYING_TAIL" \in status',
           Troubled(status) => Troubled(status'),
           \A l \in Legs : EofBit(l) \in status <=> EofBit(l) \in status',
           "FINISHED" \in status' => "FINISHED" \in status \/ Troubled(status')
    PROVE  Control' /\ Ended' /\ FinishedMeansDelivered'
<1>1. Control'
  BY DEF IInv, Control, ActiveLegs
<1>2. Ended'
  BY DEF IInv, Ended, ActiveLegs, Legs
<1>3. FinishedMeansDelivered'
  BY DEF IInv, FinishedMeansDelivered, ActiveLegs
<1> QED BY <1>1, <1>2, <1>3

(****************************************************************************)
(* Steps of the owner's thread outside copy_data.                           *)
(****************************************************************************)
(* z_transfer2_run starts its loop. *)
LEMMA RunStep == IInv /\ Run => IInv'
<1> SUFFICES ASSUME IInv, Run PROVE IInv' OBVIOUS
<1> USE ConstantsAssumption
<1>1. TypeOK'
  BY DEF IInv, TypeOK, PCs, Results, StatusBits, Run, EnterRun, world, UpdateCond, Legs
<1>2. Flow' /\ SoftEofMeansDrained' /\ CleanShutdown'
  BY DataKept DEF SoftEof, world, Run, EnterRun
<1>3. Control' /\ Ended' /\ FinishedMeansDelivered'
  BY ControlKept DEF IInv, TypeOK, Control, Ended, EofBit, Troubled, world, Run, EnterRun
<1> QED BY <1>1, <1>2, <1>3 DEF IInv

(* z_transfer2_rollback only puts the streams back. *)
LEMMA RollbackStep == IInv /\ Rollback => IInv'
<1> SUFFICES ASSUME IInv, Rollback PROVE IInv' OBVIOUS
<1> USE ConstantsAssumption
<1>1. TypeOK'
  BY DEF IInv, TypeOK, PCs, Results, StatusBits, Rollback, EnterRun, world, UpdateCond, Legs
<1>2. Flow' /\ SoftEofMeansDrained' /\ CleanShutdown'
  BY DataKept DEF SoftEof, world, Rollback, EnterRun
<1>3. Control' /\ Ended' /\ FinishedMeansDelivered'
  BY ControlKept DEF IInv, TypeOK, Control, Ended, EofBit, Troubled, world, Rollback, EnterRun
<1> QED BY <1>1, <1>2, <1>3 DEF IInv

(* Freeing the object. *)
LEMMA FreeStep == IInv /\ Free => IInv'
<1> SUFFICES ASSUME IInv, Free PROVE IInv' OBVIOUS
<1> USE ConstantsAssumption
<1>1. TypeOK'
  BY DEF IInv, TypeOK, PCs, Results, StatusBits, Free, world
<1>2. Flow' /\ SoftEofMeansDrained' /\ CleanShutdown'
  BY DataKept DEF SoftEof, world, Free
<1>3. Control' /\ Ended' /\ FinishedMeansDelivered'
  BY ControlKept DEF IInv, TypeOK, Control, Ended, EofBit, Troubled, world, Free
<1> QED BY <1>1, <1>2, <1>3 DEF IInv

(* A round of the poll. *)
LEMMA PollIterStep == IInv /\ PollIter => IInv'
<1> SUFFICES ASSUME IInv, PollIter PROVE IInv' OBVIOUS
<1> USE ConstantsAssumption
<1>1. TypeOK'
  BY DEF IInv, TypeOK, PCs, Results, StatusBits, PollIter, Iterate, ActiveLegs, Legs, world
<1>2. Flow' /\ SoftEofMeansDrained' /\ CleanShutdown'
  BY DataKept DEF SoftEof, world, PollIter, Iterate, ActiveLegs, Legs
<1>3. Control' /\ Ended' /\ FinishedMeansDelivered'
  BY ControlKept DEF IInv, TypeOK, Control, Ended, EofBit, Troubled, world, PollIter, Iterate, ActiveLegs, Legs
<1> QED BY <1>1, <1>2, <1>3 DEF IInv

(* The idle timeout ends the run with a failure. *)
LEMMA TimeoutStep == IInv /\ Timeout => IInv'
<1> SUFFICES ASSUME IInv, Timeout PROVE IInv' OBVIOUS
<1> USE ConstantsAssumption
<1>1. TypeOK'
  BY DEF IInv, TypeOK, PCs, Results, StatusBits, Timeout, Dispatch, world
<1>2. Flow' /\ SoftEofMeansDrained' /\ CleanShutdown'
  BY DataKept DEF SoftEof, world, Timeout, Dispatch
<1>3. Control' /\ Ended' /\ FinishedMeansDelivered'
  BY ControlKept DEF IInv, TypeOK, Control, Ended, EofBit, Troubled, world, Timeout, Dispatch
<1> QED BY <1>1, <1>2, <1>3 DEF IInv

(* The progress callback of a timed run. *)
LEMMA TimedProgressStep == IInv /\ TimedProgress => IInv'
<1> SUFFICES ASSUME IInv, TimedProgress PROVE IInv' OBVIOUS
<1> USE ConstantsAssumption
<1>1. TypeOK'
  BY DEF IInv, TypeOK, PCs, Results, StatusBits, TimedProgress, Dispatch, world
<1>2. Flow' /\ SoftEofMeansDrained' /\ CleanShutdown'
  BY DataKept DEF SoftEof, world, TimedProgress, Dispatch
<1>3. Control' /\ Ended' /\ FinishedMeansDelivered'
  BY ControlKept DEF IInv, TypeOK, Control, Ended, EofBit, Troubled, world, TimedProgress, Dispatch
<1> QED BY <1>1, <1>2, <1>3 DEF IInv

(* z_transfer2_cancel. *)
LEMMA CancelStep == IInv /\ Cancel => IInv'
<1> SUFFICES ASSUME IInv, Cancel PROVE IInv' OBVIOUS
<1> USE ConstantsAssumption
<1>1. TypeOK'
  BY DEF IInv, TypeOK, PCs, Results, StatusBits, Cancel, Dispatch, world
<1>2. Flow' /\ SoftEofMeansDrained' /\ CleanShutdown'
  BY DataKept DEF SoftEof, world, Cancel, Dispatch
<1>3. Control' /\ Ended' /\ FinishedMeansDelivered'
  BY ControlKept DEF IInv, TypeOK, Control, Ended, EofBit, Troubled, world, Cancel, Dispatch
<1> QED BY <1>1, <1>2, <1>3 DEF IInv

(* The test at the head of the loop. *)
LEMMA LoopIterationStep == IInv /\ LoopIteration => IInv'
<1> SUFFICES ASSUME IInv, LoopIteration PROVE IInv' OBVIOUS
<1> USE ConstantsAssumption
<1>1. TypeOK'
  BY DEF IInv, TypeOK, PCs, Results, StatusBits, LoopIteration, world
<1>2. Flow' /\ SoftEofMeansDrained' /\ CleanShutdown'
  BY DataKept DEF SoftEof, world, LoopIteration
<1>3. Control' /\ Ended' /\ FinishedMeansDelivered'
  BY ControlKept DEF IInv, TypeOK, Control, Ended, EofBit, Troubled, world, LoopIteration
<1> QED BY <1>1, <1>2, <1>3 DEF IInv

(* A stream callback enters z_transfer2_copy_data. *)
LEMMA CopyDataStep == IInv /\ (\E l \in Legs : CopyData(l)) => IInv'
<1> SUFFICES ASSUME IInv, NEW l \in Legs, CopyData(l) PROVE IInv' OBVIOUS
<1> USE ConstantsAssumption
<1>1. TypeOK'
  <2>1. pkt' \in 0 .. MaxReadAtATime /\ cur' \in Legs /\ pending' \subseteq Legs
    BY DEF IInv, TypeOK, CopyData
  <2> QED BY <2>1 DEF IInv, TypeOK, PCs, CopyData, world, OtherSources
<1>2. Flow' /\ SoftEofMeansDrained' /\ CleanShutdown'
  BY DataKept DEF SoftEof, world, CopyData
<1>3. Control' /\ Ended' /\ FinishedMeansDelivered'
  <2>1. pending' \subseteq ActiveLegs /\ cur' \in ActiveLegs /\ pkt' < MaxReadAtATime
    BY DEF IInv, TypeOK, Control, CopyData
  <2> QED BY <2>1, ControlKept DEF IInv, Ended, EofBit, world, CopyData
<1> QED BY <1>1, <1>2, <1>3 DEF IInv

(* The first step: nothing has moved and no bit is set. *)
LEMMA StartStep == IInv /\ Start => IInv'
<1> SUFFICES ASSUME IInv, Start PROVE IInv' OBVIOUS
<1> USE ConstantsAssumption DEF Legs
<1>1. /\ pc = "new"
      /\ stacked' \in BOOLEAN
      /\ cond' \subseteq Legs \X {"IN", "OUT"}
      /\ status' = {} \/ status' = {"PROXY_OUT"}
      /\ sent' = sent \/ sent' = [sent EXCEPT ![0] = @ + Preamble]
      /\ pc' \in {"owner", "freed"}
      /\ UNCHANGED <<buf, pending, due, cur, pkt, dwInitial, result, nread, got, shut,
                     peer, room, broken, stop>>
  BY DEF Start
<1>2. sent' \in [Legs -> Nat]
  BY <1>1 DEF IInv, TypeOK
<1>3. \A l \in Legs : sent[l] \in Nat /\ sent'[l] \in Nat /\ sent[l] <= sent'[l]
  <2>1. sent \in [Legs -> Nat]
    BY DEF IInv, TypeOK
  <2>2. CASE sent' = sent
    BY <2>1, <2>2
  <2>3. CASE sent' = [sent EXCEPT ![0] = @ + Preamble]
    BY <2>1, <2>3
  <2> QED BY <1>1, <2>2, <2>3
<1>4. TypeOK'
  BY <1>1, <1>2 DEF IInv, TypeOK, PCs, StatusBits
<1>5. Flow'
  <2>1. Flow /\ nread \in [Legs -> Nat] /\ "COPYING_TAIL" \notin status
    BY <1>1 DEF IInv, TypeOK, Control
  <2> QED BY <1>1, <1>3, <2>1 DEF Flow
<1>6. SoftEofMeansDrained' /\ CleanShutdown'
  BY <1>1 DEF IInv, Control, SoftEofMeansDrained, SoftEof, CleanShutdown
<1>7. Control' /\ Ended' /\ FinishedMeansDelivered'
  BY <1>1 DEF IInv, Control, Ended, EofBit, FinishedMeansDelivered
<1> QED BY <1>4, <1>5, <1>6, <1>7 DEF IInv

(* z_transfer2_start fails before a byte has moved. *)
LEMMA StartFailsStep == IInv /\ StartFails => IInv'
<1> SUFFICES ASSUME IInv, StartFails PROVE IInv' OBVIOUS
<1>1. TypeOK'
  BY DEF IInv, TypeOK, PCs, StartFails, world, OtherSources
<1>2. Flow' /\ SoftEofMeansDrained' /\ CleanShutdown'
  BY DataKept DEF SoftEof, world, StartFails
<1>3. Control' /\ Ended' /\ FinishedMeansDelivered'
  BY DEF IInv, Control, Ended, ActiveLegs, FinishedMeansDelivered, StartFails, world
<1> QED BY <1>1, <1>2, <1>3 DEF IInv

(* A run that returns success found both ends of file and no trouble. *)
LEMMA ReturnStep == IInv /\ Return => IInv'
<1> SUFFICES ASSUME IInv, Return PROVE IInv' OBVIOUS
<1>1. result' = RunResult(status) /\ result' \in Results
  BY DEF Return, RunResult, Results
<1>2. TypeOK'
  BY <1>1 DEF IInv, TypeOK, PCs, Return, world, OtherSources
<1>3. Flow' /\ SoftEofMeansDrained' /\ CleanShutdown'
  BY DataKept DEF SoftEof, world, Return
<1>4. Control' /\ Ended'
  BY DEF IInv, Control, Ended, ActiveLegs, Return, world
<1>5. FinishedMeansDelivered'
  <2> SUFFICES ASSUME result' = "FINISHED", "COPYING_TAIL" \notin status,
                      NEW l \in ActiveLegs
               PROVE  shut[l].done /\ peer[l] = "closed" /\ Len(got[l]) = sent[l]
    BY DEF FinishedMeansDelivered, ActiveLegs, Return, world
  <2>1. "SUSPENDED" \notin status /\ "FAILED" \notin status /\ "ABORTED" \notin status
    BY <1>1 DEF RunResult
  <2>2. "FINISHED" \in status /\ ~Troubled(status)
    BY <2>1 DEF Return, Troubled
  <2>3. shut[l].done /\ ~Troubled(shut[l].seen)
    BY <2>2 DEF IInv, Ended, ActiveLegs, Legs
  <2> QED BY <2>3 DEF IInv, CleanShutdown, ActiveLegs, Legs
<1> QED BY <1>2, <1>3, <1>4, <1>5 DEF IInv

(****************************************************************************)
(* Steps of copy_data.                                                      *)
(****************************************************************************)
(* The conditions that update_cond leaves are conditions of the legs. *)
LEMMA CondType ==
    ASSUME NEW st, NEW s, NEW b
    PROVE  UpdateCond(st, s, b) \subseteq Legs \X {"IN", "OUT"}
BY DEF UpdateCond, Legs

(* A buffer of the right type has the fields of one. *)
LEMMA BufferType ==
    ASSUME NEW b \in Buffers
    PROVE  b.mem \in [1 .. BufferSize -> Nat] /\ b.ofs \in 0 .. BufferSize /\ b.end \in 0 .. BufferSize
BY DEF Buffers

(* An emptied buffer is a buffer. *)
LEMMA ResetType ==
    ASSUME NEW b \in Buffers
    PROVE  Reset(b) \in Buffers /\ Reset(b).ofs = 0 /\ Reset(b).end = 0
BY ConstantsAssumption DEF Buffers, Reset

(* A buffer from which k bytes were written is a buffer. *)
LEMMA ConsumeType ==
    ASSUME NEW b \in Buffers, NEW k \in Nat, b.ofs + k <= b.end
    PROVE  /\ Consume(b, k) \in Buffers /\ Consume(b, k).mem = b.mem
           /\ Consume(b, k).ofs = b.ofs + k /\ Consume(b, k).end = b.end
BY ConstantsAssumption DEF Buffers, Consume

(* A write round that finds the buffer empty resets it. *)
LEMMA WriteNothingStep == IInv /\ WriteNothing => IInv'
<1> SUFFICES ASSUME IInv, WriteNothing PROVE IInv' OBVIOUS
<1> USE ConstantsAssumption
<1> DEFINE b == buf[cur]
<1>1. cur \in Legs /\ b \in Buffers
  BY DEF IInv, TypeOK
<1>2. Reset(b) \in Buffers /\ Reset(b).ofs = 0 /\ Reset(b).end = 0
  BY <1>1, ResetType
<1>3. buf' = [buf EXCEPT ![cur] = Reset(b)]
  BY DEF WriteNothing
<1>4. TypeOK'
  <2>1. buf' \in [Legs -> Buffers]
    BY <1>1, <1>2, <1>3 DEF IInv, TypeOK
  <2>2. \A l \in Legs : buf'[l].ofs <= buf'[l].end
    BY <1>1, <1>2, <1>3 DEF IInv, TypeOK
  <2> QED BY <2>1, <2>2 DEF IInv, TypeOK, PCs, WriteNothing, world, OtherSources
<1>5. Flow'
  <2>1. \A l \in Legs : l # cur => buf'[l] = buf[l]
    BY <1>1, <1>3 DEF IInv, TypeOK
  <2>2. buf'[cur].ofs = 0 /\ buf'[cur].end = 0
    BY <1>1, <1>2, <1>3 DEF IInv, TypeOK
  <2>3. "COPYING_TAIL" \in status \/ b.ofs = b.end
    BY DEF WriteNothing, Empty
  <2>4. b.end \in Nat /\ b.ofs \in Nat /\ \A l \in Legs : Len(got[l]) \in Nat
    BY <1>1, BufferType DEF IInv, TypeOK
  <2> QED BY <2>1, <2>2, <2>3, <2>4 DEF IInv, Flow, WriteNothing, world
<1>6. SoftEofMeansDrained' /\ CleanShutdown'
  BY DEF IInv, SoftEofMeansDrained, CleanShutdown, WriteNothing, world
<1>7. Control' /\ Ended' /\ FinishedMeansDelivered'
  BY ControlKept DEF IInv, Control, Ended, WriteNothing, world
<1> QED BY <1>4, <1>5, <1>6, <1>7 DEF IInv

(* Leaving the loop without having moved a byte. *)
LEMMA WriteAgainStep == IInv /\ WriteAgain => IInv'
<1> SUFFICES ASSUME IInv, WriteAgain PROVE IInv' OBVIOUS
<1>1. /\ status' = status \/ status' = status \union {"SUSPENDED"}
      /\ dwInitial' \in BOOLEAN
      /\ cond' \subseteq Legs \X {"IN", "OUT"}
      /\ pc = "write" /\ pc' = "dispatch" /\ buf' = buf
      /\ UNCHANGED <<stacked, pending, due, cur, pkt, result, nread, got, shut, world>>
  BY CondType DEF WriteAgain, Writing, Leave
<1>2. TypeOK'
  BY <1>1 DEF IInv, TypeOK, PCs, StatusBits, world, OtherSources
<1>3. Flow' /\ SoftEofMeansDrained' /\ CleanShutdown'
  BY <1>1, DataKept DEF SoftEof, world
<1>4. Control' /\ Ended' /\ FinishedMeansDelivered'
  BY <1>1, ControlKept DEF IInv, Control, Ended, EofBit, Troubled, world
<1> QED BY <1>2, <1>3, <1>4 DEF IInv

(* A write error ends the leg, broken. *)
LEMMA WriteErrorStep == IInv /\ WriteError => IInv'
<1> SUFFICES ASSUME IInv, WriteError PROVE IInv' OBVIOUS
<1>1. /\ \/ status' = status \union {"FAILED", "COPYING_TAIL"}
         \/ status' = status \union {"FAILED", "FINISHED"}
      /\ dwInitial' \in BOOLEAN
      /\ cond' \subseteq Legs \X {"IN", "OUT"}
      /\ pc = "write" /\ pc' = "dispatch" /\ buf' = buf
      /\ UNCHANGED <<stacked, pending, due, cur, pkt, result, nread, got, shut, world>>
  BY CondType DEF WriteError, Writing, Leave, WriteFailed
<1>2. TypeOK'
  BY <1>1 DEF IInv, TypeOK, PCs, StatusBits, world, OtherSources
<1>3. Flow' /\ SoftEofMeansDrained' /\ CleanShutdown'
  BY <1>1, DataKept DEF SoftEof, world
<1>4. Control' /\ Ended' /\ FinishedMeansDelivered'
  BY <1>1, ControlKept DEF IInv, Control, Ended, EofBit, Troubled, world
<1> QED BY <1>2, <1>3, <1>4 DEF IInv

(* The source has nothing to read for now. *)
LEMMA ReadAgainStep == IInv /\ ReadAgain => IInv'
<1> SUFFICES ASSUME IInv, ReadAgain PROVE IInv' OBVIOUS
<1>1. /\ status' = status /\ buf' = buf
      /\ cond' \subseteq Legs \X {"IN", "OUT"}
      /\ pc = "read" /\ pc' = "dispatch"
      /\ UNCHANGED <<stacked, pending, due, cur, pkt, dwInitial, result, nread, got, shut, world>>
  BY CondType DEF ReadAgain, Reading, Leave
<1>2. TypeOK'
  BY <1>1 DEF IInv, TypeOK, PCs, world, OtherSources
<1>3. Flow' /\ SoftEofMeansDrained' /\ CleanShutdown'
  BY <1>1, DataKept DEF SoftEof, world
<1>4. Control' /\ Ended' /\ FinishedMeansDelivered'
  BY <1>1, ControlKept DEF IInv, Control, Ended, EofBit, world
<1> QED BY <1>2, <1>3, <1>4 DEF IInv

(* k bytes leave the buffer for the sink: what was in the buffer at ofs is   *)
(* what the sink lacks.                                                      *)
LEMMA WriteDestStep == ASSUME NEW k \in 1 .. BufferSize PROVE IInv /\ WriteDest(k) => IInv'
<1> SUFFICES ASSUME IInv, WriteDest(k) PROVE IInv' OBVIOUS
<1> USE ConstantsAssumption
<1> DEFINE b == buf[cur]
           c == Consume(b, k)
           d == IF Empty(c) THEN Reset(c) ELSE c
<1>1. /\ cur \in Legs /\ b \in Buffers /\ b.ofs <= b.end /\ got[cur] \in Seq(Nat)
      /\ nread[cur] \in Nat /\ sent[cur] \in Nat /\ room[cur] \in Nat
  BY DEF IInv, TypeOK
<1>2. /\ b.mem \in [1 .. BufferSize -> Nat]
      /\ b.ofs \in 0 .. BufferSize /\ b.end \in 0 .. BufferSize
  BY <1>1, BufferType
<1>3. k <= room[cur] /\ b.ofs + k <= b.end
  <2>1. k \in 1 .. Smaller(room[cur], b.end - b.ofs)
    BY DEF WriteDest
  <2>2. k <= Smaller(room[cur], b.end - b.ofs)
    BY <2>1
  <2> HIDE DEF b
  <2> QED BY <1>1, <1>2, <2>2 DEF Smaller
<1>4. c \in Buffers /\ c.mem = b.mem /\ c.ofs = b.ofs + k /\ c.end = b.end
  BY <1>1, <1>3, ConsumeType
<1>5. d \in Buffers /\ d.ofs <= d.end /\ d.end - d.ofs = b.end - (b.ofs + k)
      /\ (d = c \/ d.end = 0)
  BY <1>2, <1>3, <1>4, ResetType DEF Empty
<1>6. /\ buf' = [buf EXCEPT ![cur] = d]
      /\ cond' = cond \/ cond' \subseteq Legs \X {"IN", "OUT"}
      /\ pc = "write" /\ pc' \in {"read", "dispatch"}
      /\ UNCHANGED <<stacked, status, pending, due, cur, pkt, result, nread, shut,
                     sent, peer, broken, stop>>
      /\ "COPYING_TAIL" \notin status
  <2>1. [buf EXCEPT ![cur] = Consume(@, k)] = [buf EXCEPT ![cur] = c]
    OBVIOUS
  <2>2. [buf EXCEPT ![cur] = c][cur] = c
    BY <1>1 DEF IInv, TypeOK
  <2>3. [[buf EXCEPT ![cur] = c] EXCEPT ![cur] = Reset(c)] = [buf EXCEPT ![cur] = Reset(c)]
    BY <1>1 DEF IInv, TypeOK
  <2>4. CASE Empty(c)
    BY <2>1, <2>2, <2>3, <2>4 DEF WriteDest, Writing
  <2>5. CASE ~Empty(c)
    BY <2>1, <2>2, <2>5, CondType DEF WriteDest, Writing, Leave
  <2> QED BY <2>4, <2>5
<1>7. /\ got' = [got EXCEPT ![cur] = got[cur] \o Chunk(b, k)]
      /\ room' = [room EXCEPT ![cur] = room[cur] - k]
      /\ dwInitial' = (dwInitial /\ ~SinkIsDest(cur))
  BY DEF WriteDest
<1>8. got'[cur] = got[cur] \o Chunk(b, k)
  BY <1>1, <1>7 DEF IInv, TypeOK
<1>9. \A l \in Legs : l # cur => got'[l] = got[l] /\ buf'[l] = buf[l]
  BY <1>6, <1>7 DEF IInv, TypeOK
<1>10. buf'[cur] = d
  BY <1>1, <1>6 DEF IInv, TypeOK
<1>11. /\ nread[cur] = Len(got[cur]) + (b.end - b.ofs) /\ nread[cur] <= sent[cur]
       /\ \A i \in 1 .. BufferSize :
             i > b.ofs /\ i <= b.end => b.mem[i] = Len(got[cur]) + (i - b.ofs)
       /\ \A i \in 1 .. Len(got[cur]) : got[cur][i] = i
  BY <1>1, <1>6 DEF IInv, Flow
<1>12. Len(got[cur]) \in Nat /\ k \in Nat
  BY <1>1
<1>13. /\ got'[cur] \in Seq(Nat) /\ Len(got'[cur]) = Len(got[cur]) + k
      /\ \A i \in 1 .. Len(got'[cur]) : got'[cur][i] = i
  <2> HIDE DEF b
  <2>1. /\ got[cur] \o Chunk(b, k) \in Seq(Nat)
        /\ Len(got[cur] \o Chunk(b, k)) = Len(got[cur]) + k
        /\ \A i \in 1 .. Len(got[cur]) + k : (got[cur] \o Chunk(b, k))[i] = i
    BY <1>1, <1>3, <1>11, <1>12, ExtendInOrder
  <2> QED BY <1>8, <2>1
<1> HIDE DEF b, c, d
<1>14. TypeOK'
  <2> USE DEF b, c, d
  <2>1. got' \in [Legs -> Seq(Nat)]
    BY <1>1, <1>7, <1>8, <1>13 DEF IInv, TypeOK
  <2>2. buf' \in [Legs -> Buffers] /\ \A l \in Legs : buf'[l].ofs <= buf'[l].end
    BY <1>1, <1>5, <1>6, <1>9, <1>10 DEF IInv, TypeOK
  <2>3. room' \in [Legs -> Nat]
    BY <1>1, <1>3, <1>7 DEF IInv, TypeOK
  <2>4. dwInitial' \in BOOLEAN
    BY <1>7
  <2>5. cond' \subseteq Legs \X {"IN", "OUT"}
    BY <1>6 DEF IInv, TypeOK
  <2> QED BY <1>6, <2>1, <2>2, <2>3, <2>4, <2>5 DEF IInv, TypeOK, PCs, OtherSources
<1>15. Flow'
  <2>2. nread[cur] = Len(got'[cur]) + (d.end - d.ofs)
    BY <1>1, <1>2, <1>3, <1>5, <1>13, <1>11, <1>12
  <2>3. \A i \in 1 .. BufferSize :
            i > d.ofs /\ i <= d.end => d.mem[i] = Len(got'[cur]) + (i - d.ofs)
    <3> SUFFICES ASSUME NEW i \in 1 .. BufferSize, i > d.ofs, i <= d.end
                 PROVE  d.mem[i] = Len(got'[cur]) + (i - d.ofs)
      OBVIOUS
    <3>1. d = c
      BY <1>5
    <3>2. d.mem[i] = b.mem[i] /\ d.ofs = b.ofs + k /\ d.end = b.end
      BY <3>1, <1>4
    <3>3. b.mem[i] = Len(got[cur]) + (i - b.ofs)
      BY <1>2, <1>11, <3>2
    <3>4. Len(got'[cur]) = Len(got[cur]) + k /\ b.ofs \in Nat
      BY <1>2, <1>13
    <3> QED BY <1>12, <3>2, <3>3, <3>4
  <2> QED BY <1>6, <1>9, <1>10, <1>13, <1>11, <2>2, <2>3 DEF IInv, Flow
<1>16. SoftEofMeansDrained' /\ Control' /\ Ended'
  BY <1>6 DEF IInv, SoftEofMeansDrained, Control, Ended, ActiveLegs
<1>17. CleanShutdown'
  <2>1. Len(got[cur]) # sent[cur]
    BY <1>1, <1>2, <1>3, <1>11, <1>12
  <2> QED BY <1>6, <1>9, <2>1 DEF IInv, CleanShutdown
<1>18. FinishedMeansDelivered'
  BY <1>6 DEF IInv, Ended, FinishedMeansDelivered
<1> QED BY <1>14, <1>15, <1>16, <1>17, <1>18 DEF IInv

(* k bytes arrive behind the ones that are in the buffer. *)
LEMMA StoreType ==
    ASSUME NEW b \in Buffers, NEW n \in Nat, NEW k \in Nat, b.end + k <= BufferSize
    PROVE  /\ Store(b, n, k) \in Buffers
           /\ Store(b, n, k).ofs = b.ofs /\ Store(b, n, k).end = b.end + k
           /\ \A i \in 1 .. BufferSize : Store(b, n, k).mem[i] =
                 IF i > b.end /\ i <= b.end + k THEN n + (i - b.end) ELSE b.mem[i]
<1>1. /\ b.mem \in [1 .. BufferSize -> Nat]
      /\ b.ofs \in 0 .. BufferSize /\ b.end \in 0 .. BufferSize
  BY DEF Buffers
<1> DEFINE f == [i \in 1 .. BufferSize |->
                   IF i > b.end /\ i <= b.end + k THEN n + (i - b.end) ELSE b.mem[i]]
<1>2. f \in [1 .. BufferSize -> Nat]
  BY <1>1, ConstantsAssumption
<1>3. b.end + k \in 0 .. BufferSize
  BY <1>1, ConstantsAssumption
<1>4. Store(b, n, k) = [mem |-> f, ofs |-> b.ofs, end |-> b.end + k]
  BY DEF Store
<1> QED BY <1>1, <1>2, <1>3, <1>4 DEF Buffers

(* k bytes are read: they are the next ones of the payload. *)
LEMMA ReadSourceStep == ASSUME NEW k \in 1 .. BufferSize PROVE IInv /\ ReadSource(k) => IInv'
<1> SUFFICES ASSUME IInv, ReadSource(k) PROVE IInv' OBVIOUS
<1> USE ConstantsAssumption
<1> DEFINE b == buf[cur]
           n == nread[cur]
           d == Store(b, n, k)
<1>1. /\ cur \in Legs /\ b \in Buffers /\ b.ofs <= b.end /\ got[cur] \in Seq(Nat)
      /\ n \in Nat /\ sent[cur] \in Nat /\ pkt \in Nat /\ k \in Nat
  BY DEF IInv, TypeOK
<1>2. b.ofs \in 0 .. BufferSize /\ b.end \in 0 .. BufferSize
  BY <1>1, BufferType
<1>3. n + k <= sent[cur] /\ b.end + k <= BufferSize
  <2>1. k \in 1 .. Smaller(sent[cur] - n, BufferSize - b.end)
    BY DEF ReadSource, Available
  <2>2. k <= Smaller(sent[cur] - n, BufferSize - b.end)
    BY <2>1
  <2> HIDE DEF b, n
  <2> QED BY <1>1, <1>2, <2>2 DEF Smaller
<1>4. /\ d \in Buffers /\ d.ofs = b.ofs /\ d.end = b.end + k
      /\ \A i \in 1 .. BufferSize : d.mem[i] =
            IF i > b.end /\ i <= b.end + k THEN n + (i - b.end) ELSE b.mem[i]
  BY <1>1, <1>3, StoreType
<1>5. /\ buf' = [buf EXCEPT ![cur] = d] /\ nread' = [nread EXCEPT ![cur] = n + k]
      /\ pkt' = pkt + 1
      /\ cond' = cond \/ cond' \subseteq Legs \X {"IN", "OUT"}
      /\ status' = AfterPreamble(status, n + k)
      /\ pc = "read"
      /\ \/ pc' = "dispatch"
         \/ pc' \in {"read", "write"} /\ pkt + 1 # MaxReadAtATime
      /\ UNCHANGED <<stacked, pending, due, cur, dwInitial, result, got, shut, world>>
  <2>1. [buf EXCEPT ![cur] = Store(@, nread[cur], k)] = [buf EXCEPT ![cur] = d]
    OBVIOUS
  <2>2. CASE pkt + 1 = MaxReadAtATime
    BY <2>1, <2>2, CondType DEF ReadSource, Reading, Leave
  <2>3. CASE pkt + 1 # MaxReadAtATime
    BY <2>1, <2>3 DEF ReadSource, Reading
  <2> QED BY <2>2, <2>3
<1>6. status' = status \/ status' = status \ {"PROXY_OUT"}
  BY <1>5 DEF AfterPreamble
<1>7. pkt < MaxReadAtATime /\ SoftEof(cur) \notin status
  BY <1>5 DEF IInv, Control, ReadSource, Reading
<1>8. buf'[cur] = d /\ nread'[cur] = n + k
      /\ \A l \in Legs : l # cur => buf'[l] = buf[l] /\ nread'[l] = nread[l]
  BY <1>1, <1>5 DEF IInv, TypeOK
<1>9. TypeOK'
  <2>1. buf' \in [Legs -> Buffers]
    BY <1>1, <1>4, <1>5 DEF IInv, TypeOK
  <2>2. \A l \in Legs : buf'[l].ofs <= buf'[l].end
    <3> HIDE DEF b, d
    <3>1. d.ofs <= d.end
      BY <1>1, <1>2, <1>4
    <3> QED BY <1>8, <3>1 DEF IInv, TypeOK
  <2>3. nread' \in [Legs -> Nat]
    BY <1>1, <1>5 DEF IInv, TypeOK
  <2>4. pkt' \in 0 .. MaxReadAtATime
    BY <1>1, <1>5, <1>7
  <2>5. status' \subseteq StatusBits /\ cond' \subseteq Legs \X {"IN", "OUT"}
    BY <1>5, <1>6 DEF IInv, TypeOK
  <2> QED BY <1>5, <2>1, <2>2, <2>3, <2>4, <2>5 DEF IInv, TypeOK, PCs, OtherSources, world
<1>10. Flow'
  <2> DEFINE g == Len(got[cur])
  <2>1. g \in Nat
    BY <1>1
  <2> HIDE DEF b, d, n, g
  <2>2. "COPYING_TAIL" \in status \/
           /\ n = g + (b.end - b.ofs)
           /\ \A i \in 1 .. BufferSize :
                 i > b.ofs /\ i <= b.end => b.mem[i] = g + (i - b.ofs)
    BY <1>1 DEF IInv, Flow, b, n, g
  <2>3. "COPYING_TAIL" \in status' \/
           /\ n + k = g + (d.end - d.ofs)
           /\ \A i \in 1 .. BufferSize :
                 i > d.ofs /\ i <= d.end => d.mem[i] = g + (i - d.ofs)
    <3> SUFFICES ASSUME "COPYING_TAIL" \notin status'
                 PROVE  /\ n + k = g + (d.end - d.ofs)
                        /\ \A i \in 1 .. BufferSize :
                              i > d.ofs /\ i <= d.end => d.mem[i] = g + (i - d.ofs)
      OBVIOUS
    <3>1. /\ n = g + (b.end - b.ofs)
          /\ \A i \in 1 .. BufferSize :
                i > b.ofs /\ i <= b.end => b.mem[i] = g + (i - b.ofs)
      BY <1>6, <2>2
    <3>2. n + k = g + (d.end - d.ofs)
      BY <1>1, <1>2, <1>4, <2>1, <3>1
    <3>3. ASSUME NEW i \in 1 .. BufferSize, i > d.ofs, i <= d.end
          PROVE  d.mem[i] = g + (i - d.ofs)
      <4>1. CASE i <= b.end
        BY <1>1, <1>2, <1>4, <3>1, <3>3, <4>1
      <4>2. CASE i > b.end
        BY <1>1, <1>2, <1>4, <2>1, <3>1, <3>3, <4>2
      <4> QED BY <1>2, <4>1, <4>2
    <3> QED BY <3>2, <3>3
  <2>4. n + k <= sent[cur] /\ got' = got /\ sent' = sent
        /\ \A l \in Legs : nread[l] <= sent[l] /\ \A i \in 1 .. Len(got[l]) : got[l][i] = i
    BY <1>3, <1>5 DEF IInv, Flow, world, n
  <2>5. \A l \in Legs : l # cur =>
           ("COPYING_TAIL" \notin status' =>
               /\ nread'[l] = Len(got'[l]) + (buf'[l].end - buf'[l].ofs)
               /\ \A i \in 1 .. BufferSize :
                     i > buf'[l].ofs /\ i <= buf'[l].end =>
                        buf'[l].mem[i] = Len(got'[l]) + (i - buf'[l].ofs))
    BY <1>6, <1>8, <2>4 DEF IInv, Flow
  <2> QED BY <1>1, <1>5, <1>8, <2>3, <2>4, <2>5, SMTT(60) DEF Flow, g
<1>11. SoftEofMeansDrained'
  BY <1>5, <1>6, <1>7, <1>8 DEF IInv, SoftEofMeansDrained, SoftEof, world
<1>12. CleanShutdown'
  BY <1>5 DEF IInv, CleanShutdown, world
<1>13. Control' /\ Ended' /\ FinishedMeansDelivered'
  <2>1. pc' \in {"write", "read"} => pkt' < MaxReadAtATime
    BY <1>1, <1>5, <1>7
  <2> QED BY <1>5, <1>6, <2>1, ControlKept
          DEF IInv, Control, Ended, EofBit, Troubled, world
<1> QED BY <1>9, <1>10, <1>11, <1>12, <1>13 DEF IInv

(****************************************************************************)
(* The end of a leg: with a clean status everything has arrived.            *)
(****************************************************************************)
LEMMA EofKept ==
    ASSUME IInv, pc = "read", pc' = "dispatch",
           NEW s \in SUBSET StatusBits, status \subseteq s,
           s = status \/ s = status \union {"FINISHED", "ABORTED"},
           ~Troubled(s) => /\ peer[cur] = "closed" /\ nread[cur] = sent[cur]
                           /\ buf[cur].ofs = buf[cur].end,
           status' = EofStatus(cur, s), shut' = EofShutdown(cur, s), buf' = buf,
           cond' \subseteq Legs \X {"IN", "OUT"},
           UNCHANGED <<stacked, pending, due, cur, pkt, dwInitial, result, nread, got, world>>
    PROVE  IInv'
<1> USE ConstantsAssumption
<1>1. /\ status' \subseteq s \union {"EOF_SOURCE", "EOF_DEST", "FINISHED"}
      /\ s \union EofBits(cur) \subseteq status'
  BY DEF EofStatus, EofBits
<1>2. shut' = shut \/ shut' = [shut EXCEPT ![cur] = [done |-> TRUE, seen |-> s]]
  BY DEF EofShutdown
<1>3. cur \in Legs /\ cur \in ActiveLegs /\ shut \in [Legs -> [done : BOOLEAN, seen : SUBSET StatusBits]]
  BY DEF IInv, TypeOK, Control
<1>4. TypeOK'
  <2>1. [done |-> TRUE, seen |-> s] \in [done : BOOLEAN, seen : SUBSET StatusBits]
    OBVIOUS
  <2>2. shut' \in [Legs -> [done : BOOLEAN, seen : SUBSET StatusBits]]
    BY <1>2, <1>3, <2>1
  <2>3. status' \subseteq StatusBits
    BY <1>1 DEF StatusBits
  <2> QED BY <2>2, <2>3 DEF IInv, TypeOK, PCs, OtherSources, world
<1>5. Flow' /\ SoftEofMeansDrained'
  <2>1. \A l \in Legs : SoftEof(l) \in status' => SoftEof(l) \in status
    BY <1>1 DEF SoftEof
  <2> QED BY <1>1, <2>1 DEF IInv, Flow, SoftEofMeansDrained, world
<1>6. Control'
  BY DEF IInv, Control, ActiveLegs
<1>7. CleanShutdown'
  <2>1. ~Troubled(s) => peer[cur] = "closed" /\ Len(got[cur]) = sent[cur]
    <3> SUFFICES ASSUME ~Troubled(s) PROVE peer[cur] = "closed" /\ Len(got[cur]) = sent[cur]
      OBVIOUS
    <3>1. s = status /\ "COPYING_TAIL" \notin status
      BY DEF Troubled
    <3>2. nread[cur] = Len(got[cur]) + (buf[cur].end - buf[cur].ofs)
      BY <1>3, <3>1 DEF IInv, Flow
    <3>3. buf[cur].end \in Nat /\ Len(got[cur]) \in Nat
      BY <1>3, BufferType DEF IInv, TypeOK
    <3> QED BY <3>1, <3>2, <3>3
  <2>2. CASE shut' = shut
    BY <2>2 DEF IInv, CleanShutdown, world
  <2>3. CASE shut' = [shut EXCEPT ![cur] = [done |-> TRUE, seen |-> s]]
    <3>1. shut'[cur].seen = s /\ \A l \in Legs : l # cur => shut'[l] = shut[l]
      BY <1>3, <2>3
    <3> QED BY <2>1, <3>1 DEF IInv, CleanShutdown, world
  <2> QED BY <1>2, <2>2, <2>3
<1>8. Ended'
  <2>1. \A l \in Legs : shut[l].done => shut'[l].done
    BY <1>2, <1>3
  <2>2. shut'[cur].done
    <3>1. CASE EofBit(cur) \in s
      <4>1. EofBit(cur) \in status
        BY <3>1 DEF EofBit
      <4> QED BY <1>3, <2>1, <4>1 DEF IInv, Ended
    <3>2. CASE EofBit(cur) \notin s
      BY <1>3, <3>2 DEF EofShutdown, EofBit
    <3> QED BY <3>1, <3>2
  <2>3. \A l \in ActiveLegs' : EofBit(l) \in status' => shut'[l].done
    <3> SUFFICES ASSUME NEW l \in ActiveLegs, EofBit(l) \in status' PROVE shut'[l].done
      BY DEF ActiveLegs
    <3>1. CASE l = cur
      BY <2>2, <3>1
    <3>2. CASE l # cur
      <4>1. stacked /\ l \in Legs
        BY <1>3, <3>2 DEF ActiveLegs
      <4>2. EofBit(l) \in status
        BY <1>3, <3>2, <4>1 DEF EofStatus, EofBits, EofBit, Legs
      <4> QED BY <2>1, <4>1, <4>2 DEF IInv, Ended
    <3> QED BY <3>1, <3>2
  <2>4. Troubled(s) => Troubled(status')
    BY <1>1 DEF Troubled
  <2>5. \A l \in Legs : shut'[l].done /\ Troubled(shut'[l].seen) => Troubled(status')
    <3> SUFFICES ASSUME NEW l \in Legs, shut'[l].done, Troubled(shut'[l].seen)
                 PROVE  Troubled(status')
      OBVIOUS
    <3>1. CASE shut'[l] = shut[l]
      <4>1. Troubled(status)
        BY <3>1 DEF IInv, Ended
      <4> QED BY <1>1, <4>1 DEF Troubled
    <3>2. CASE shut'[l] # shut[l]
      <4>1. shut'[l].seen = s
        BY <1>2, <1>3, <3>2
      <4> QED BY <2>4, <4>1
    <3> QED BY <3>1, <3>2
  <2>6. "FINISHED" \in status' =>
          Troubled(status') \/ (\A l \in ActiveLegs' : EofBit(l) \in status')
    <3> SUFFICES ASSUME "FINISHED" \in status', ~Troubled(status')
                 PROVE  \A l \in ActiveLegs : EofBit(l) \in status'
      BY DEF ActiveLegs
    <3>1. s = status /\ ~Troubled(status)
      BY <1>1 DEF Troubled
    <3>2. CASE "FINISHED" \in status
      BY <1>1, <3>1, <3>2 DEF IInv, Ended
    <3>3. CASE "FINISHED" \notin status
      BY <3>1, <3>3 DEF EofStatus, EofBits, EofBit, ActiveLegs, Legs
    <3> QED BY <3>2, <3>3
  <2> QED BY <2>3, <2>5, <2>6 DEF IInv, Ended
<1>9. FinishedMeansDelivered'
  BY DEF IInv, Ended, FinishedMeansDelivered
<1> QED BY <1>4, <1>5, <1>6, <1>7, <1>8, <1>9 DEF IInv

(* The end of the source: the sink is shut down only when it has everything. *)
LEMMA ReadEofStep == IInv /\ ReadEof => IInv'
<1> SUFFICES ASSUME IInv, ReadEof PROVE IInv' OBVIOUS
<1>1. /\ pc = "read" /\ peer[cur] = "closed" /\ nread[cur] = sent[cur]
      /\ cur \in Legs /\ status \subseteq StatusBits
      /\ UNCHANGED <<stacked, pending, due, cur, pkt, dwInitial, result, nread, got, world>>
  BY DEF IInv, TypeOK, ReadEof, Reading, Available
<1>2. CASE Empty(buf[cur])
  <2>1. /\ shut' = EofShutdown(cur, status) /\ status' = EofStatus(cur, status)
        /\ buf' = buf /\ pc' = "dispatch" /\ cond' \subseteq Legs \X {"IN", "OUT"}
    BY <1>2, CondType DEF ReadEof, Leave
  <2> QED BY <1>1, <1>2, <2>1, EofKept DEF Empty
<1>3. CASE ~Empty(buf[cur])
  <2>1. /\ status' = status \union {SoftEof(cur)} /\ pc' = "write"
        /\ UNCHANGED <<buf, cond, shut>>
    BY <1>3 DEF ReadEof
  <2>2. TypeOK'
    BY <1>1, <2>1 DEF IInv, TypeOK, PCs, StatusBits, SoftEof, OtherSources, world
  <2>3. SoftEofMeansDrained'
    BY <1>1, <2>1 DEF IInv, SoftEofMeansDrained, SoftEof, Legs, world
  <2>4. Flow' /\ CleanShutdown'
    BY <1>1, <2>1 DEF IInv, Flow, CleanShutdown, world
  <2>5. Control' /\ Ended' /\ FinishedMeansDelivered'
    BY <1>1, <2>1, ControlKept DEF IInv, Control, Ended, EofBit, Troubled, SoftEof, world
  <2> QED BY <2>2, <2>3, <2>4, <2>5 DEF IInv
<1> QED BY <1>2, <1>3

(* A soft end of file, met when the buffer is empty. *)
LEMMA SoftEofSeenStep == IInv /\ SoftEofSeen => IInv'
<1> SUFFICES ASSUME IInv, SoftEofSeen PROVE IInv' OBVIOUS
<1>1. /\ pc = "read" /\ SoftEof(cur) \in status /\ cur \in Legs /\ status \subseteq StatusBits
      /\ UNCHANGED <<stacked, pending, due, cur, pkt, dwInitial, result, nread, got, world>>
  BY DEF IInv, TypeOK, SoftEofSeen
<1>2. peer[cur] = "closed" /\ nread[cur] = sent[cur]
  BY <1>1 DEF IInv, SoftEofMeansDrained
<1>3. CASE Empty(buf[cur])
  <2>1. /\ shut' = EofShutdown(cur, status) /\ status' = EofStatus(cur, status)
        /\ buf' = buf /\ pc' = "dispatch" /\ cond' \subseteq Legs \X {"IN", "OUT"}
    BY <1>3, CondType DEF SoftEofSeen, Leave
  <2> QED BY <1>1, <1>2, <1>3, <2>1, EofKept DEF Empty
<1>4. CASE ~Empty(buf[cur])
  <2>1. pc' = "write" /\ UNCHANGED <<status, buf, cond, shut>>
    BY <1>4 DEF SoftEofSeen
  <2>2. TypeOK'
    BY <1>1, <2>1 DEF IInv, TypeOK, PCs, OtherSources, world
  <2>3. Flow' /\ SoftEofMeansDrained' /\ CleanShutdown'
    BY <1>1, <2>1, DataKept DEF world
  <2>4. Control' /\ Ended' /\ FinishedMeansDelivered'
    BY <1>1, <2>1, ControlKept DEF IInv, Control, Ended, world
  <2> QED BY <2>2, <2>3, <2>4 DEF IInv
<1> QED BY <1>3, <1>4

(* A read error ends the leg, broken. *)
LEMMA ReadErrorStep == IInv /\ ReadError => IInv'
<1> SUFFICES ASSUME IInv, ReadError PROVE IInv' OBVIOUS
<1> DEFINE s == status \union {"FINISHED", "ABORTED"}
<1>1. /\ pc = "read" /\ s \subseteq StatusBits /\ Troubled(s)
      /\ UNCHANGED <<stacked, pending, due, cur, pkt, dwInitial, result, nread, got, world>>
  BY DEF IInv, TypeOK, StatusBits, ReadError, Reading, Troubled
<1>2. /\ shut' = EofShutdown(cur, s) /\ status' = EofStatus(cur, s)
      /\ buf' = buf /\ pc' = "dispatch" /\ cond' \subseteq Legs \X {"IN", "OUT"}
  BY CondType DEF ReadError, Leave
<1> QED BY <1>1, <1>2, EofKept

(****************************************************************************)
(* The world moves only its own variables, and only an open peer sends.     *)
(****************************************************************************)
LEMMA WorldStep == IInv /\ World => IInv'
<1> SUFFICES ASSUME IInv, World PROVE IInv' OBVIOUS
<1>1. UNCHANGED <<pc, stacked, status, buf, cond, pending, due, cur, pkt, dwInitial, result,
                  nread, got, shut>>
  BY DEF World, PeerSends, PeerCloses, PeerFails, SinkDrains, SinkBreaks, StopRequest, code
<1>2. /\ sent \in [Legs -> Nat] /\ room \in [Legs -> Nat]
      /\ peer \in [Legs -> {"open", "closed", "error"}]
      /\ broken \in [Legs -> BOOLEAN] /\ stop \in BOOLEAN
  BY DEF IInv, TypeOK
<1>3. PICK l \in Legs : PeerSends(l) \/ PeerCloses(l) \/ PeerFails(l) \/ SinkDrains(l)
                       \/ SinkBreaks(l) \/ StopRequest
  BY DEF World, ActiveLegs, Legs
<1>4. /\ sent' \in [Legs -> Nat]
      /\ \A m \in Legs : sent[m] \in Nat /\ sent'[m] \in Nat /\ sent[m] <= sent'[m]
      /\ \A m \in Legs : peer[m] = "closed" => peer'[m] = "closed" /\ sent'[m] = sent[m]
  <2>1. CASE PeerSends(l)
    BY <1>2, <2>1 DEF PeerSends
  <2>2. CASE PeerCloses(l)
    BY <1>2, <2>2 DEF PeerCloses
  <2>3. CASE PeerFails(l)
    BY <1>2, <2>3 DEF PeerFails
  <2>4. CASE SinkDrains(l) \/ SinkBreaks(l) \/ StopRequest
    BY <1>2, <2>4 DEF SinkDrains, SinkBreaks, StopRequest
  <2> QED BY <1>3, <2>1, <2>2, <2>3, <2>4
<1>5. TypeOK'
  <2>1. peer' \in [Legs -> {"open", "closed", "error"}]
    BY <1>2, <1>3 DEF PeerSends, PeerCloses, PeerFails, SinkDrains, SinkBreaks, StopRequest
  <2>2. room' \in [Legs -> Nat]
    BY <1>2, <1>3 DEF PeerSends, PeerCloses, PeerFails, SinkDrains, SinkBreaks, StopRequest
  <2>3. broken' \in [Legs -> BOOLEAN]
    BY <1>2, <1>3 DEF PeerSends, PeerCloses, PeerFails, SinkDrains, SinkBreaks, StopRequest
  <2>4. stop' \in BOOLEAN
    BY <1>2, <1>3, Zenon DEF PeerSends, PeerCloses, PeerFails, SinkDrains, SinkBreaks, StopRequest
  <2> QED BY <1>1, <1>4, <2>1, <2>2, <2>3, <2>4 DEF IInv, TypeOK, OtherSources
<1>6. Flow'
  <2>1. nread \in [Legs -> Nat] /\ Flow
    BY DEF IInv, TypeOK
  <2> QED BY <1>1, <1>4, <2>1 DEF Flow
<1>7. SoftEofMeansDrained' /\ CleanShutdown'
  BY <1>1, <1>4 DEF IInv, SoftEofMeansDrained, CleanShutdown
<1>8. Control' /\ Ended'
  BY <1>1 DEF IInv, Control, Ended, ActiveLegs
<1>9. FinishedMeansDelivered'
  BY <1>1, <1>4 DEF IInv, FinishedMeansDelivered, ActiveLegs, Legs
<1> QED BY <1>7, <1>8, <1>9, <1>5, <1>6 DEF IInv

(* The invariant is inductive. *)
LEMMA NextIInv == IInv /\ [Next]_vars => IInv'
<1> SUFFICES ASSUME IInv, [Next]_vars PROVE IInv' OBVIOUS
<1>1. CASE UNCHANGED vars
  <2>1. UNCHANGED <<pc, stacked, status, buf, cond, pending, due, cur, pkt, dwInitial, result,
                    nread, got, shut, sent, peer, room, broken, stop>>
    BY <1>1 DEF vars, code, world
  <2> QED BY <2>1 DEF IInv, TypeOK, Flow, SoftEofMeansDrained, Control, Ended, CleanShutdown,
             FinishedMeansDelivered, ActiveLegs, OtherSources
<1>2. CASE World
  BY <1>2, WorldStep
<1>3. CASE Start \/ StartFails \/ Run \/ Rollback \/ Free
  BY <1>3, StartStep, StartFailsStep, RunStep, RollbackStep, FreeStep
<1>4. CASE PollIter \/ Timeout \/ TimedProgress \/ Cancel \/ LoopIteration \/ Return
  BY <1>4, PollIterStep, TimeoutStep, TimedProgressStep, CancelStep, LoopIterationStep, ReturnStep
<1>5. CASE \E l \in Legs : CopyData(l)
  BY <1>5, CopyDataStep
<1>6. CASE WriteNothing \/ (\E k \in 1 .. BufferSize : WriteDest(k)) \/ WriteAgain \/ WriteError
  BY <1>6, WriteNothingStep, WriteDestStep, WriteAgainStep, WriteErrorStep
<1>7. CASE \/ \E k \in 1 .. BufferSize : ReadSource(k)
           \/ ReadAgain \/ ReadEof \/ SoftEofSeen \/ ReadError
  BY <1>7, ReadSourceStep, ReadAgainStep, ReadEofStep, SoftEofSeenStep, ReadErrorStep
<1> QED BY <1>1, <1>2, <1>3, <1>4, <1>5, <1>6, <1>7 DEF Next, Code

-----------------------------------------------------------------------------

(* Every reachable state satisfies the strengthened invariant. *)
THEOREM TransferInvariant == Spec => []IInv
<1>1. Init => IInv
  BY InitIInv
<1>2. IInv /\ [Next]_vars => IInv'
  BY NextIInv
<1> QED BY <1>1, <1>2, PTL DEF Spec

(* The transfer object keeps its types, and whatever the peers and the      *)
(* streams do, each sink receives the bytes of its leg in order, without    *)
(* gap or repetition (the buffers of z_transfer2_copy_data).                *)
THEOREM TransferIsSound == Spec => []TransferSound
<1>1. IInv => TypeOK
  BY DEF IInv
<1>2. IInv => InOrder
  BY DEF IInv, Flow, InOrder
<1>3. IInv => TransferSound
  BY <1>1, <1>2 DEF TransferSound
<1> QED BY <1>3, TransferInvariant, PTL

(* A sink that is shut down with a clean status has received everything.    *)
THEOREM TransferCleanShutdown == Spec => []CleanShutdown
<1>1. IInv => CleanShutdown
  BY DEF IInv
<1> QED BY <1>1, TransferInvariant, PTL

(* ZT2_RESULT_FINISHED is only returned for a delivered payload.            *)
THEOREM TransferFinished == Spec => []FinishedMeansDelivered
<1>1. IInv => FinishedMeansDelivered
  BY DEF IInv
<1> QED BY <1>1, TransferInvariant, PTL

(****************************************************************************)
(* The refinement of ReliableCopy needs one more fact: a leg that ended is  *)
(* neither polled nor served again, so nothing is delivered behind its end. *)
(****************************************************************************)
EndedLegsRest ==
    /\ \A l \in Legs : shut[l].done =>
           /\ EofBit(l) \in status /\ l \notin pending
           /\ <<l, "IN">> \notin cond /\ <<l, "OUT">> \notin cond
    /\ pc \in {"write", "read"} => ~shut[cur].done /\ cur \notin pending

(* What update_cond leaves out. *)
LEMMA CondLeavesOut ==
    ASSUME NEW st, NEW s, NEW b, NEW l \in Legs, EofBit(l) \in s
    PROVE  <<l, "IN">> \notin UpdateCond(st, s, b) /\ <<l, "OUT">> \notin UpdateCond(st, s, b)
BY DEF UpdateCond, EofBit, Legs

(* A step that shuts no sink down, and polls and serves no new leg. *)
LEMMA RestKept ==
    ASSUME IInv, EndedLegsRest, UNCHANGED shut,
           \A l \in Legs : EofBit(l) \in status => EofBit(l) \in status',
           pending' \subseteq pending,
           \/ cond' = cond
           \/ \E s \in SUBSET StatusBits : status \subseteq s \union {"SUSPENDED", "PROXY_OUT"} /\ cond' = UpdateCond(stacked, s, buf'),
           pc' \in {"write", "read"} => /\ cur' \in Legs /\ cur' \notin pending'
                                       /\ (cur' \in pending \/ (pc \in {"write", "read"} /\ cur' = cur))
    PROVE  EndedLegsRest'
<1>1. ASSUME NEW l \in Legs, shut[l].done
      PROVE  <<l, "IN">> \notin cond' /\ <<l, "OUT">> \notin cond'
  <2>1. EofBit(l) \in status
    BY <1>1 DEF EndedLegsRest
  <2>2. CASE cond' = cond
    BY <1>1, <2>2 DEF EndedLegsRest
  <2>3. ASSUME NEW s \in SUBSET StatusBits, status \subseteq s \union {"SUSPENDED", "PROXY_OUT"}, cond' = UpdateCond(stacked, s, buf')
        PROVE  <<l, "IN">> \notin cond' /\ <<l, "OUT">> \notin cond'
    <3>1. EofBit(l) \in s
      BY <2>1, <2>3 DEF EofBit
    <3> QED BY <2>3, <3>1, CondLeavesOut
  <2> QED BY <2>2, <2>3
<1>2. pc' \in {"write", "read"} => ~shut[cur'].done /\ cur' \notin pending'
  BY DEF EndedLegsRest
<1> QED BY <1>1, <1>2 DEF EndedLegsRest

(* The end of a leg: its bit is set and its condition goes with it. *)
LEMMA RestAtEof ==
    ASSUME IInv, EndedLegsRest, pc = "read", pc' = "dispatch", NEW s \in SUBSET StatusBits,
           status \subseteq s, status' = EofStatus(cur, s), shut' = EofShutdown(cur, s),
           cond' = UpdateCond(stacked, status', buf), UNCHANGED <<pending, cur>>
    PROVE  EndedLegsRest'
<1>1. cur \in Legs /\ cur \in ActiveLegs /\ shut \in [Legs -> [done : BOOLEAN, seen : SUBSET StatusBits]]
  BY DEF IInv, TypeOK, Control
<1>2. s \subseteq status' /\ EofBit(cur) \in status'
  BY <1>1 DEF EofStatus, EofBits, EofBit
<1>3. \A l \in Legs : l # cur => shut'[l] = shut[l]
  BY <1>1 DEF EofShutdown
<1>4. ASSUME NEW l \in Legs, shut'[l].done PROVE EofBit(l) \in status' /\ l \notin pending
  BY <1>1, <1>2, <1>3, <1>4 DEF EndedLegsRest
<1> QED BY <1>4, CondLeavesOut DEF EndedLegsRest

(* A leg that ended stays unserved through every step. *)
LEMMA NextRest == IInv /\ EndedLegsRest /\ [Next]_vars => EndedLegsRest'
<1> SUFFICES ASSUME IInv, EndedLegsRest, [Next]_vars PROVE EndedLegsRest' OBVIOUS
<1> USE ConstantsAssumption
<1>1. /\ status \subseteq StatusBits /\ status \union {"COPYING_TAIL"} \subseteq StatusBits
      /\ status \union {"SUSPENDED"} \subseteq StatusBits /\ cur \in Legs /\ pending \subseteq Legs
      /\ status \union {"FAILED", "COPYING_TAIL"} \subseteq StatusBits /\ status \union {"FAILED", "FINISHED"} \subseteq StatusBits
  BY DEF IInv, TypeOK, StatusBits
<1>2. CASE UNCHANGED vars \/ World
  BY <1>2 DEF EndedLegsRest, vars, code, World, PeerSends, PeerCloses, PeerFails, SinkDrains, SinkBreaks, StopRequest
<1>3. CASE Start \/ StartFails
  BY <1>3 DEF EndedLegsRest, Start, StartFails, IInv, Control
<1>4. CASE Run \/ Rollback
  BY <1>1, <1>4, RestKept DEF Run, Rollback, EnterRun, EofBit
<1>5. CASE Free \/ Timeout \/ TimedProgress \/ Cancel \/ LoopIteration \/ Return
  BY <1>1, <1>5, RestKept DEF Free, Timeout, TimedProgress, Cancel, Dispatch, LoopIteration, Return
<1>6. CASE PollIter
  <2>1. pending' \subseteq {l \in Legs : <<l, "IN">> \in cond \/ <<l, "OUT">> \in cond}
    BY <1>6 DEF PollIter, Iterate, Ready, ActiveLegs, Legs
  <2> QED BY <1>6, <2>1 DEF EndedLegsRest, PollIter, Iterate
<1>7. CASE \E l \in Legs : CopyData(l)
  BY <1>1, <1>7, RestKept DEF CopyData
<1>8. CASE WriteNothing
  BY <1>1, <1>8, RestKept DEF WriteNothing, EndedLegsRest
<1>9. ASSUME NEW k \in 1 .. BufferSize, WriteDest(k) PROVE EndedLegsRest'
  BY <1>1, <1>9, RestKept DEF WriteDest, Writing, Leave, EndedLegsRest
<1>10. CASE WriteAgain \/ WriteError
  BY <1>1, <1>10, RestKept DEF WriteAgain, WriteError, Writing, Leave, WriteFailed, EofBit
<1>11. ASSUME NEW k \in 1 .. BufferSize, ReadSource(k) PROVE EndedLegsRest'
  <2>1. status' = status \/ status' = status \ {"PROXY_OUT"}
    BY <1>11 DEF ReadSource, AfterPreamble, Leave
  <2>2. status' \in SUBSET StatusBits /\ \A l \in Legs : EofBit(l) \in status => EofBit(l) \in status'
    BY <1>1, <2>1 DEF EofBit
  <2>3. UNCHANGED <<shut, pending, cur>> /\ pc = "read" /\ (cond' = cond \/ cond' = UpdateCond(stacked, status', buf'))
    BY <1>11 DEF ReadSource, Reading, Leave
  <2>4. status \subseteq status' \union {"SUSPENDED", "PROXY_OUT"}
    BY <2>1
  <2> QED BY <1>1, <2>2, <2>3, <2>4, RestKept DEF EndedLegsRest
<1>12. CASE ReadAgain
  BY <1>1, <1>12, RestKept DEF ReadAgain, Reading, Leave
<1>13. CASE ReadEof
  <2>1. CASE Empty(buf[cur])
    BY <1>1, <1>13, <2>1, RestAtEof DEF ReadEof, Reading, Leave
  <2>2. CASE ~Empty(buf[cur])
    BY <1>1, <1>13, <2>2, RestKept DEF ReadEof, Reading, EndedLegsRest
  <2> QED BY <2>1, <2>2
<1>14. CASE SoftEofSeen
  <2>1. CASE Empty(buf[cur])
    BY <1>1, <1>14, <2>1, RestAtEof DEF SoftEofSeen, Leave
  <2>2. CASE ~Empty(buf[cur])
    BY <1>1, <1>14, <2>2, RestKept DEF SoftEofSeen, EndedLegsRest
  <2> QED BY <2>1, <2>2
<1>15. CASE ReadError
  <2> DEFINE s == status \union {"FINISHED", "ABORTED"}
  <2>1. s \in SUBSET StatusBits /\ status \subseteq s
    BY <1>1 DEF StatusBits
  <2> QED BY <1>15, <2>1, RestAtEof DEF ReadError, Reading, Leave
<1> QED BY <1>2, <1>3, <1>4, <1>5, <1>6, <1>7, <1>8, <1>9, <1>10, <1>11, <1>12, <1>13, <1>14, <1>15 DEF Next, Code

-----------------------------------------------------------------------------

(* A step that sends nothing, delivers nothing and ends nothing is a stutter *)
(* of the channel.                                                          *)
LEMMA ChannelStutters ==
    ASSUME UNCHANGED <<sent, peer, got, shut>>
    PROVE  UNCHANGED Channel!avars
BY DEF Channel!avars

(* The end of a leg, as the channel sees it. *)
LEMMA ChannelEnds ==
    ASSUME IInv, IInv', EndedLegsRest, pc = "read", NEW s \in SUBSET StatusBits,
           shut' = EofShutdown(cur, s), UNCHANGED <<sent, peer, got>>
    PROVE  [Channel!ANext]_(Channel!avars)
<1> DEFINE endOf(x) == [l \in Legs |-> IF ~x[l].done THEN "open" ELSE IF Troubled(x[l].seen) THEN "broken" ELSE "clean"]
<1>1. cur \in Legs /\ ~shut[cur].done /\ shut \in [Legs -> [done : BOOLEAN, seen : SUBSET StatusBits]]
  BY DEF IInv, TypeOK, EndedLegsRest
<1>2. CASE shut' = shut
  BY <1>2, ChannelStutters
<1>3. CASE shut' = [shut EXCEPT ![cur] = [done |-> TRUE, seen |-> s]]
  <2>1. shut'[cur] = [done |-> TRUE, seen |-> s] /\ \A l \in Legs : l # cur => shut'[l] = shut[l]
    BY <1>1, <1>3
  <2>2. endOf(shut)[cur] = "open"
    BY <1>1
  <2>3. CASE Troubled(s)
    <3>1. \A l \in Legs : endOf(shut')[l] = endOf(shut)[l] \/ (endOf(shut)[l] = "open" /\ endOf(shut')[l] = "broken")
      BY <2>1, <2>2, <2>3
    <3>2. Channel!EndBroken
      BY <3>1 DEF Channel!EndBroken
    <3> QED BY <3>2 DEF Channel!ANext
  <2>4. CASE ~Troubled(s)
    <3>1. peer[cur] = "closed" /\ Len(got[cur]) = sent[cur]
      BY <1>1, <2>1, <2>4 DEF IInv, CleanShutdown
    <3>2. PICK l \in Legs : l = cur
      BY <1>1
    <3>3. \A m \in Legs : endOf(shut')[m] = IF m = l THEN "clean" ELSE endOf(shut)[m]
      BY <2>1, <2>4, <3>2
    <3>4. endOf(shut') = [endOf(shut) EXCEPT ![l] = "clean"]
      BY <3>3
    <3>5. Channel!EndClean(l)
      BY <2>2, <3>1, <3>2, <3>4 DEF Channel!EndClean
    <3> QED BY <3>5 DEF Channel!ANext
  <2> QED BY <2>3, <2>4
<1> QED BY <1>2, <1>3 DEF EofShutdown

(* k bytes out of the buffer are k bytes delivered: the sink's sequence is   *)
(* what it was, followed by the next k numbers, and its leg has not ended.   *)
LEMMA ChannelDelivers ==
    ASSUME IInv, IInv', EndedLegsRest, NEW k \in 1 .. BufferSize, WriteDest(k)
    PROVE  Channel!ANext
<1> USE ConstantsAssumption
<1> DEFINE b == buf[cur]
           g == got[cur]
<1>1. /\ cur \in Legs /\ b \in Buffers /\ b.ofs <= b.end /\ g \in Seq(Nat) /\ k \in Nat
      /\ nread[cur] \in Nat /\ sent[cur] \in Nat /\ room[cur] \in Nat /\ Len(g) \in Nat
      /\ b.ofs \in Nat /\ b.end \in Nat
  <2>1. cur \in Legs /\ b \in Buffers /\ b.ofs <= b.end /\ g \in Seq(Nat)
        /\ nread[cur] \in Nat /\ sent[cur] \in Nat /\ room[cur] \in Nat
    BY DEF IInv, TypeOK
  <2>2. b.ofs \in 0 .. BufferSize /\ b.end \in 0 .. BufferSize
    BY <2>1, BufferType
  <2> QED BY <2>1, <2>2
<1>2. b.ofs + k <= b.end
  <2>1. k \in 1 .. Smaller(room[cur], b.end - b.ofs)
    BY DEF WriteDest
  <2>2. k <= Smaller(room[cur], b.end - b.ofs)
    BY <2>1
  <2> HIDE DEF b
  <2> QED BY <1>1, <2>2 DEF Smaller
<1>3. /\ got' = [got EXCEPT ![cur] = g \o Chunk(b, k)] /\ "COPYING_TAIL" \notin status
      /\ UNCHANGED <<sent, peer, shut, cur>> /\ pc = "write"
  BY DEF WriteDest, Writing
<1>4. Len(g \o Chunk(b, k)) = Len(g) + k
  <2>1. Chunk(b, k) \in Seq(Nat) /\ Len(Chunk(b, k)) = k
    BY <1>1, <1>2, ChunkType
  <2> HIDE DEF b, g
  <2> QED BY <1>1, <2>1, ConcatProperties
<1>5. got'[cur] = g \o Chunk(b, k) /\ got'[cur] \in Seq(Nat) /\ \A i \in 1 .. Len(got'[cur]) : got'[cur][i] = i
  <2>1. got \in [Legs -> Seq(Nat)] /\ got' \in [Legs -> Seq(Nat)] /\ Flow'
    BY DEF IInv, TypeOK
  <2> QED BY <1>1, <1>3, <2>1 DEF Flow
<1>6. got'[cur] = [i \in 1 .. Len(g) + k |-> i]
  <2> DEFINE h == got'[cur]
  <2>1. h \in Seq(Nat) /\ Len(h) = Len(g) + k /\ \A i \in 1 .. Len(g) + k : h[i] = i
    BY <1>4, <1>5
  <2> HIDE DEF h
  <2>2. h = [i \in 1 .. Len(h) |-> h[i]]
    BY <2>1
  <2>3. h = [i \in 1 .. Len(g) + k |-> i]
    BY <2>1, <2>2
  <2> QED BY <2>3 DEF h
<1>7. got' = [got EXCEPT ![cur] = [i \in 1 .. Len(g) + k |-> i]]
  BY <1>3, <1>5, <1>6
<1>8. k \in 1 .. sent[cur] - Len(got[cur])
  <2>1. nread[cur] = Len(g) + (b.end - b.ofs) /\ nread[cur] <= sent[cur]
    BY <1>1, <1>3 DEF IInv, Flow
  <2> HIDE DEF b
  <2> QED BY <1>1, <1>2, <2>1
<1>9. ~shut[cur].done
  BY <1>3 DEF EndedLegsRest
<1>10. Channel!Deliver(cur, k)
  BY <1>1, <1>3, <1>7, <1>9 DEF Channel!Deliver
<1> QED BY <1>1, <1>8, <1>10 DEF Channel!ANext

(* The peers: what they send and close is sent and closed on the channel. *)
LEMMA ChannelWorld ==
    ASSUME IInv, World
    PROVE  [Channel!ANext]_(Channel!avars)
<1> USE ConstantsAssumption
<1>1. sent \in [Legs -> Nat] /\ peer \in [Legs -> {"open", "closed", "error"}]
  BY DEF IInv, TypeOK
<1>2. PICK l \in Legs : PeerSends(l) \/ PeerCloses(l) \/ PeerFails(l) \/ SinkDrains(l) \/ SinkBreaks(l) \/ StopRequest
  BY DEF World, ActiveLegs, Legs
<1>3. CASE PeerSends(l)
  <2>1. Channel!Send(l, 1)
    BY <1>3 DEF PeerSends, code, Channel!Send
  <2> QED BY <2>1 DEF Channel!ANext
<1>4. CASE PeerCloses(l)
  <2>1. [m \in Legs |-> peer'[m] = "closed"] = [[m \in Legs |-> peer[m] = "closed"] EXCEPT ![l] = TRUE]
    BY <1>1, <1>4 DEF PeerCloses
  <2>2. Channel!Close(l)
    BY <1>4, <2>1 DEF PeerCloses, code, Channel!Close
  <2> QED BY <2>2 DEF Channel!ANext
<1>5. CASE PeerFails(l)
  <2>1. [m \in Legs |-> peer'[m] = "closed"] = [m \in Legs |-> peer[m] = "closed"]
    BY <1>1, <1>5 DEF PeerFails
  <2> QED BY <1>5, <2>1 DEF PeerFails, code, Channel!avars
<1>6. CASE SinkDrains(l) \/ SinkBreaks(l) \/ StopRequest
  BY <1>6, ChannelStutters DEF SinkDrains, SinkBreaks, StopRequest, code
<1> QED BY <1>2, <1>3, <1>4, <1>5, <1>6

(* Each step of the transfer is a step of the channel or a stutter. *)
LEMMA NextRefines ==
    ASSUME IInv, IInv', EndedLegsRest, [Next]_vars
    PROVE  [Channel!ANext]_(Channel!avars)
<1> USE ConstantsAssumption
<1>1. CASE UNCHANGED vars
  BY <1>1, ChannelStutters DEF vars, code, world
<1>2. CASE World
  BY <1>2, ChannelWorld
<1>3. CASE Start
  <2>1. CASE UNCHANGED sent
    BY <1>3, <2>1, ChannelStutters DEF Start
  <2>2. CASE sent' = [sent EXCEPT ![0] = @ + Preamble] /\ Preamble > 0
    <3>1. Channel!Send(0, Preamble)
      BY <1>3, <2>2 DEF Start, Channel!Send
    <3> QED BY <2>2, <3>1 DEF Channel!ANext, Legs
  <2> QED BY <1>3, <2>1, <2>2 DEF Start
<1>4. CASE StartFails \/ Run \/ Rollback \/ Free \/ PollIter \/ Timeout \/ TimedProgress \/ Cancel \/ LoopIteration \/ Return
  BY <1>4, ChannelStutters
     DEF StartFails, Run, Rollback, EnterRun, Free, PollIter, Iterate, Timeout, TimedProgress, Cancel, Dispatch,
         LoopIteration, Return, world
<1>5. CASE (\E l \in Legs : CopyData(l)) \/ WriteNothing \/ WriteAgain \/ WriteError \/ ReadAgain
  BY <1>5, ChannelStutters DEF CopyData, WriteNothing, WriteAgain, WriteError, ReadAgain, world
<1>6. CASE \E k \in 1 .. BufferSize : WriteDest(k)
  BY <1>6, ChannelDelivers
<1>7. CASE \E k \in 1 .. BufferSize : ReadSource(k)
  BY <1>7, ChannelStutters DEF ReadSource, world
<1>8. status \subseteq StatusBits /\ status \union {"FINISHED", "ABORTED"} \subseteq StatusBits
  BY DEF IInv, TypeOK, StatusBits
<1>9. CASE ReadEof
  <2>1. UNCHANGED <<sent, peer, got>> /\ (shut' = shut \/ shut' = EofShutdown(cur, status)) /\ pc = "read"
    BY <1>9 DEF ReadEof, Reading, world
  <2> QED BY <1>8, <2>1, ChannelStutters, ChannelEnds
<1>10. CASE SoftEofSeen
  <2>1. UNCHANGED <<sent, peer, got>> /\ (shut' = shut \/ shut' = EofShutdown(cur, status)) /\ pc = "read"
    BY <1>10 DEF SoftEofSeen, world
  <2> QED BY <1>8, <2>1, ChannelStutters, ChannelEnds
<1>11. CASE ReadError
  BY <1>8, <1>11, ChannelEnds DEF ReadError, Reading, world
<1> QED BY <1>1, <1>2, <1>3, <1>4, <1>5, <1>6, <1>7, <1>9, <1>10, <1>11 DEF Next, Code

(* ZTransfer2 implements the abstract channel: for every payload, buffer,    *)
(* topology and fault, each leg delivers in order what was sent, ends once,  *)
(* and cleanly only when everything has arrived.                             *)
THEOREM TransferImplementsChannel == Spec => ImplementsChannel
<1>1. Init => Channel!AInit
  <2> SUFFICES ASSUME Init PROVE Channel!AInit OBVIOUS
  <2>1. [l \in Legs |-> peer[l] = "closed"] = [l \in Legs |-> FALSE]
    BY DEF Init
  <2>2. [l \in Legs |-> IF ~shut[l].done THEN "open" ELSE IF Troubled(shut[l].seen) THEN "broken" ELSE "clean"] = [l \in Legs |-> "open"]
    BY DEF Init
  <2> QED BY <2>1, <2>2 DEF Init, Channel!AInit
<1>2. Init => EndedLegsRest
  BY DEF Init, EndedLegsRest
<1>3. IInv /\ IInv' /\ EndedLegsRest /\ [Next]_vars => [Channel!ANext]_(Channel!avars)
  BY NextRefines
<1>4. IInv /\ EndedLegsRest /\ [Next]_vars => EndedLegsRest'
  BY NextRest
<1> QED BY <1>1, <1>2, <1>3, <1>4, TransferInvariant, PTL DEF Spec, ImplementsChannel, Channel!ASpec
=============================================================================
