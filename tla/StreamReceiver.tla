--------------------------- MODULE StreamReceiver ---------------------------
(***************************************************************************)
(* The receiving half of the streams of one peer (streamReceiver and the   *)
(* Open, Data, Resume and Close cases of OnStream, internal/tun/stream.go):*)
(* the receivers by stream ID, the SDK's one reader, which writes to the   *)
(* TUN and queues cumulative ACKs, and each receiver's ackLoop, which sends *)
(* the newest of them.                                                     *)
(*                                                                         *)
(* Any frame may arrive at any time, late or more than once.  An offset    *)
(* counts frames of Data, all of one size.  What Open and Resume do to the *)
(* outbound port, in other maps, is in StreamPort; the session a receiver  *)
(* answers to is left out.  Receivers are numbered as they are made: one   *)
(* that was removed lives on in its ackLoop.                               *)
(***************************************************************************)
EXTENDS Integers

CONSTANTS Ids,           \* the stream IDs of the peer
          MaxReceivers,  \* bound: receivers made
          MaxEpoch,      \* bound: epochs of a stream
          MaxOffset      \* bound: Data frames of a stream

ASSUME ReceiverAssumption ==
  MaxReceivers \in Nat /\ MaxEpoch \in Nat \ {0} /\ MaxOffset \in Nat

VARIABLES
  made,        \* receivers made so far
  recv,        \* the receivers
  streamRecv,  \* streamRecv: by ID, a receiver or None
  reader,      \* OnStream: where it stands, its receiver and its ACK
  ctxDone      \* the context of the handlers is cancelled

vars == <<made, recv, streamRecv, reader, ctxDone>>

None   == 0
Recvs  == 1 .. MaxReceivers
NoAck  == [epoch |-> 0, offset |-> 0]
Ack    == [epoch : 0 .. MaxEpoch, offset : 0 .. MaxOffset]

Receiver ==
  [epoch   : 1 .. MaxEpoch,     \* the SDK's StreamReceiverState: the epoch
   next    : 0 .. MaxOffset,    \* and the offset it expects
   written : 0 .. MaxOffset,    \* history: what the TUN was given
   pending : Ack,               \* ackPending
   wake    : BOOLEAN,           \* ackWake holds its one token
   stopped : BOOLEAN,           \* ackStopped
   loop    : {"off", "wait", "take", "send", "ended"},   \* ackLoop
   hand    : Ack,               \* the ACK ackLoop is sending
   sent    : 0 .. MaxOffset]    \* history: the highest offset acknowledged

TypeOK ==
  /\ made \in 0 .. MaxReceivers
  /\ recv \in [Recvs -> Receiver]
  /\ streamRecv \in [Ids -> 0 .. made]
  /\ reader \in [pc : {"idle", "write", "queue", "drop", "answer", "stop"},
                 r : Recvs \cup {None}, ack : Ack]
  /\ ctxDone \in BOOLEAN

NewReceiver ==
  [epoch |-> 1, next |-> 0, written |-> 0, pending |-> NoAck, wake |-> FALSE,
   stopped |-> FALSE, loop |-> "off", hand |-> NoAck, sent |-> 0]

Resting == [pc |-> "idle", r |-> None, ack |-> NoAck]

Init ==
  /\ made = 0 /\ recv = [r \in Recvs |-> NewReceiver]
  /\ streamRecv = [i \in Ids |-> None]
  /\ reader = Resting /\ ctxDone = FALSE

-----------------------------------------------------------------------------
Larger(a, b) == IF a > b THEN a ELSE b

Acknowledged(r, offset) == [recv[r] EXCEPT !.sent = Larger(@, offset)]

(* Mutant: Data that leaves a gap is taken.                                 *)
DataOfEpoch(r, e, from) == recv[r].epoch = e

(* The SDK takes Data of its epoch that is next, or repeated; it takes a    *)
(* Resume of a later epoch that leaves no gap.                              *)
DataAccepted(r, e, from)     == recv[r].epoch = e /\ from <= recv[r].next
ResumeAccepted(r, e, offset) == recv[r].epoch < e /\ offset <= recv[r].next

StopAcks(r) ==
  [recv[r] EXCEPT !.stopped = TRUE, !.pending = NoAck,
                  !.wake = @ \/ recv[r].loop # "off"]

-----------------------------------------------------------------------------
(* The reader.  A frame arrives: *)

Arrives == reader.pc = "idle" /\ ~ctxDone

(* Mutant: the receivers that an Open removes are not stopped.              *)
OnOpenUnstopped(id) ==
  LET known == streamRecv[id] # None
  IN  /\ Arrives
      /\ known \/ made < MaxReceivers
      /\ made' = IF known THEN made ELSE made + 1
      /\ streamRecv' = [i \in Ids |-> IF i # id THEN None
                                      ELSE IF known THEN streamRecv[id] ELSE made']
      /\ UNCHANGED <<recv, reader, ctxDone>>

(* Open removes the peer's other receivers and stops their ACKs, then makes *)
(* its own unless there is one.                                             *)
OnOpen(id) ==
  LET known  == streamRecv[id] # None
      others == {streamRecv[i] : i \in Ids \ {id}} \ {None}
  IN  /\ Arrives
      /\ known \/ made < MaxReceivers
      /\ made' = IF known THEN made ELSE made + 1
      /\ streamRecv' = [i \in Ids |-> IF i # id THEN None
                                      ELSE IF known THEN streamRecv[id] ELSE made']
      /\ recv' = [r \in Recvs |-> IF r \in others THEN StopAcks(r) ELSE recv[r]]
      /\ UNCHANGED <<reader, ctxDone>>

(* Mutant: the ACK is queued before the packets are written.                *)
OnDataAckFirst(id, e, from) ==
  LET r == streamRecv[id]
  IN  /\ Arrives /\ r # None /\ DataAccepted(r, e, from)
      /\ recv' = [recv EXCEPT ![r].next = Larger(@, from + 1)]
      /\ reader' = [pc |-> "queue", r |-> r,
                    ack |-> [epoch |-> e, offset |-> recv'[r].next]]
      /\ UNCHANGED <<made, streamRecv, ctxDone>>

OnData(id, e, from) ==
  LET r == streamRecv[id]
  IN  /\ Arrives /\ r # None /\ DataAccepted(r, e, from)
      /\ recv' = [recv EXCEPT ![r].next = Larger(@, from + 1)]
      /\ reader' = [pc |-> "write", r |-> r,
                    ack |-> [epoch |-> e, offset |-> recv'[r].next]]
      /\ UNCHANGED <<made, streamRecv, ctxDone>>

OnResume(id, e, offset) ==
  LET r == streamRecv[id]
  IN  /\ Arrives /\ r # None /\ ResumeAccepted(r, e, offset)
      /\ recv' = [recv EXCEPT ![r].epoch = e]
      /\ reader' = [pc |-> "drop", r |-> r,
                    ack |-> [epoch |-> e, offset |-> recv[r].next]]
      /\ UNCHANGED <<made, streamRecv, ctxDone>>

OnClose(id) ==
  /\ Arrives /\ streamRecv[id] # None
  /\ streamRecv' = [streamRecv EXCEPT ![id] = None]
  /\ reader' = [reader EXCEPT !.pc = "stop", !.r = streamRecv[id]]
  /\ UNCHANGED <<made, recv, ctxDone>>

(* and is dealt with.                                                       *)
WriteTUN ==
  /\ reader.pc = "write"
  /\ recv' = [recv EXCEPT ![reader.r].written = reader.ack.offset]
  /\ reader' = [reader EXCEPT !.pc = "queue"]
  /\ UNCHANGED <<made, streamRecv, ctxDone>>

(* Mutant: only the start of the loop puts the token.                       *)
QueueAckWakesOnce ==
  /\ reader.pc = "queue"
  /\ recv' = [recv EXCEPT ![reader.r] =
       IF @.stopped THEN @
       ELSE [@ EXCEPT !.pending = reader.ack, !.wake = @ \/ recv[reader.r].loop = "off",
                      !.loop = IF @ = "off" THEN "wait" ELSE @]]
  /\ reader' = Resting
  /\ UNCHANGED <<made, streamRecv, ctxDone>>

(* queueAck: the first one starts the loop.                                 *)
QueueAck ==
  /\ reader.pc = "queue"
  /\ recv' = IF recv[reader.r].stopped THEN recv
             ELSE [recv EXCEPT ![reader.r].pending = reader.ack, ![reader.r].wake = TRUE,
                               ![reader.r].loop = IF @ = "off" THEN "wait" ELSE @]
  /\ reader' = Resting
  /\ UNCHANGED <<made, streamRecv, ctxDone>>

DropPendingAck ==
  /\ reader.pc = "drop"
  /\ recv' = [recv EXCEPT ![reader.r].pending = NoAck]
  /\ reader' = [reader EXCEPT !.pc = "answer"]
  /\ UNCHANGED <<made, streamRecv, ctxDone>>

(* The Resume is acknowledged synchronously; an error is not looked at.     *)
AnswerResume ==
  /\ reader.pc = "answer" /\ reader' = Resting
  /\ recv' = [recv EXCEPT ![reader.r] = Acknowledged(reader.r, reader.ack.offset)]
  /\ UNCHANGED <<made, streamRecv, ctxDone>>

(* Mutant of StopReceiver: the loop is not woken.                           *)
StopReceiverAsleep ==
  /\ reader.pc = "stop"
  /\ recv' = [recv EXCEPT ![reader.r].stopped = TRUE, ![reader.r].pending = NoAck]
  /\ reader' = Resting
  /\ UNCHANGED <<made, streamRecv, ctxDone>>

StopReceiver ==
  /\ reader.pc = "stop"
  /\ recv' = [recv EXCEPT ![reader.r] = StopAcks(reader.r)]
  /\ reader' = Resting
  /\ UNCHANGED <<made, streamRecv, ctxDone>>

FrameArrives ==
  \E id \in Ids :
    \/ OnOpen(id) \/ OnClose(id)
    \/ \E e \in 1 .. MaxEpoch, from \in 0 .. MaxOffset - 1 : OnData(id, e, from)
    \/ \E e \in 1 .. MaxEpoch, offset \in 0 .. MaxOffset : OnResume(id, e, offset)

ReaderStep ==
  WriteTUN \/ QueueAck \/ DropPendingAck \/ AnswerResume \/ StopReceiver

-----------------------------------------------------------------------------
(* ackLoop                                                                  *)

AckLoopWakes(r) ==
  /\ recv[r].loop = "wait" /\ recv[r].wake
  /\ recv' = [recv EXCEPT ![r].wake = FALSE, ![r].loop = "take"]

AckLoopCancelled(r) ==
  /\ recv[r].loop = "wait" /\ ctxDone
  /\ recv' = [recv EXCEPT ![r].loop = "ended"]

TakeAck(r) ==
  /\ recv[r].loop = "take"
  /\ recv' = [recv EXCEPT ![r] =
       IF @.stopped THEN [@ EXCEPT !.loop = "ended"]
       ELSE IF @.pending = NoAck THEN [@ EXCEPT !.loop = "wait"]
       ELSE [@ EXCEPT !.loop = "send", !.hand = recv[r].pending, !.pending = NoAck]]

SendAck(r) ==
  /\ recv[r].loop = "send"
  /\ recv' = [recv EXCEPT ![r] =
       [Acknowledged(r, recv[r].hand.offset) EXCEPT !.loop = "take", !.hand = NoAck]]

AckLoop(r) ==
  /\ AckLoopWakes(r) \/ AckLoopCancelled(r) \/ TakeAck(r) \/ SendAck(r)
  /\ UNCHANGED <<made, streamRecv, reader, ctxDone>>

Cancel ==
  /\ ~ctxDone /\ ctxDone' = TRUE
  /\ UNCHANGED <<made, recv, streamRecv, reader>>

Finished ==
  /\ ctxDone /\ reader.pc = "idle"
  /\ \A r \in Recvs : recv[r].loop \in {"off", "ended"}
  /\ UNCHANGED vars

Next ==
  \/ FrameArrives \/ ReaderStep \/ Cancel \/ Finished
  \/ \E r \in Recvs : AckLoop(r)

Spec == Init /\ [][Next]_vars

(* The reader goes on with a frame, and each ackLoop while it can; no frame *)
(* has to arrive.                                                           *)
Fairness == WF_vars(ReaderStep) /\ \A r \in Recvs : WF_vars(AckLoop(r))

FairSpec == Spec /\ Fairness

-----------------------------------------------------------------------------
(* Properties                                                               *)

(* No ACK, waiting, in ackLoop's hand or sent, covers Data that the TUN has *)
(* not been given: the sender forgets what is acknowledged.                 *)
AckFollowsWrite ==
  \A r \in Recvs :
    /\ recv[r].sent <= recv[r].written
    /\ recv[r].hand.offset <= recv[r].written
    /\ recv[r].pending.offset <= recv[r].written

(* The one ACK that waits is the newest: of the receiver's epoch and its    *)
(* offset, unless the reader is about to replace or to drop it              *)
(* (docs/stream-mode.md: within an epoch only the newest unsent ACK is kept; *)
(* Resume drops the unsent ACK of the old epoch).                           *)
PendingAckIsNewest ==
  \A r \in Recvs : recv[r].pending # NoAck /\ reader.r # r =>
    recv[r].pending = [epoch |-> recv[r].epoch, offset |-> recv[r].next]

(* Once a receiver was removed, and stopped, its loop takes no further ACK: *)
(* at most the one in its hand is still sent.                               *)
Removed(r) ==
  r <= made /\ reader.r # r /\ \A i \in Ids : streamRecv[i] # r

RemovedReceiverIsSilent ==
  [][\A r \in Recvs : Removed(r) /\ recv[r].loop # "send"
       => recv'[r].loop # "send"]_vars

(* All that was written is acknowledged in the end, by the loop or by the   *)
(* answer to a Resume, however tokens and ACKs were coalesced, as long as   *)
(* the receiver is there.                                                   *)
WrittenIsAcknowledged ==
  \A r \in Recvs, n \in 1 .. MaxOffset :
    recv[r].written >= n ~> recv[r].sent >= n \/ recv[r].stopped \/ ctxDone

(* The loop of a receiver that was stopped ends: no goroutine is left by a  *)
(* peer that opens one stream after the other.                              *)
StoppedLoopEnds ==
  \A r \in Recvs : recv[r].stopped ~> recv[r].loop \in {"off", "ended"}

=============================================================================
