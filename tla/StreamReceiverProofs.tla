------------------------ MODULE StreamReceiverProofs ------------------------
(***************************************************************************)
(* What the receiving half keeps, for any stream IDs and bounds.           *)
(***************************************************************************)
EXTENDS StreamReceiver, TLAPS

(* While the reader is at work its receiver is one that was made; until a   *)
(* Close, one that is in the map, and its ACK says where that one stands.   *)
ReaderHolds ==
  /\ reader.pc = "idle" => reader.r = None
  /\ reader.pc # "idle" => reader.r \in 1 .. made
  /\ reader.pc \in {"write", "queue", "drop", "answer"} =>
       /\ \E i \in Ids : streamRecv[i] = reader.r
       /\ reader.ack = [epoch |-> recv[reader.r].epoch, offset |-> recv[reader.r].next]
  /\ reader.pc = "answer" => recv[reader.r].pending = NoAck

(* What was accepted is written, but for the Data in the reader's hand.     *)
(* Of a receiver that was removed nothing more is needed.                   *)
AcceptedIsWritten ==
  \A r \in Recvs :
    /\ recv[r].written <= recv[r].next
    /\ \/ recv[r].written = recv[r].next
       \/ reader.pc = "write" /\ reader.r = r
       \/ Removed(r)

RemovedIsStopped == \A r \in Recvs : Removed(r) => recv[r].stopped

StoppedHasNoAck == \A r \in Recvs : recv[r].stopped => recv[r].pending = NoAck

ReceiverInv ==
  /\ TypeOK /\ ReaderHolds /\ AcceptedIsWritten
  /\ AckFollowsWrite /\ PendingAckIsNewest /\ RemovedIsStopped /\ StoppedHasNoAck

-----------------------------------------------------------------------------
(* Types                                                                    *)

LEMMA LargerBounds ==
  ASSUME NEW a \in Nat, NEW b \in Nat
  PROVE  /\ Larger(a, b) \in {a, b}
         /\ a <= Larger(a, b) /\ b <= Larger(a, b)
BY DEF Larger

LEMMA AcksTyped == NoAck \in Ack
BY ReceiverAssumption DEF NoAck, Ack

LEMMA NewReceiverType == NewReceiver \in Receiver
BY ReceiverAssumption, AcksTyped DEF NewReceiver, Receiver

LEMMA StopAcksFields ==
  ASSUME TypeOK, NEW r \in Recvs
  PROVE  /\ StopAcks(r) \in Receiver
         /\ StopAcks(r).stopped = TRUE
         /\ StopAcks(r).pending = NoAck
         /\ StopAcks(r).epoch = recv[r].epoch
         /\ StopAcks(r).next = recv[r].next
         /\ StopAcks(r).written = recv[r].written
         /\ StopAcks(r).hand = recv[r].hand
         /\ StopAcks(r).sent = recv[r].sent
         /\ StopAcks(r).loop = recv[r].loop
<1>1. recv[r] \in Receiver
  BY DEF TypeOK
<1>2. PICK w \in BOOLEAN : w = (recv[r].wake \/ recv[r].loop # "off")
  OBVIOUS
<1>3. StopAcks(r) = [recv[r] EXCEPT !.stopped = TRUE, !.pending = NoAck, !.wake = w]
  BY <1>1, <1>2 DEF StopAcks, Receiver
<1>4. QED
  BY <1>1, <1>3, AcksTyped DEF Receiver

LEMMA AcknowledgedFields ==
  ASSUME TypeOK, NEW r \in Recvs, NEW n \in 0 .. MaxOffset
  PROVE  /\ Acknowledged(r, n) \in Receiver
         /\ Acknowledged(r, n).sent \in {recv[r].sent, n}
         /\ Acknowledged(r, n) = [recv[r] EXCEPT !.sent = Acknowledged(r, n).sent]
<1>1. recv[r] \in Receiver
  BY DEF TypeOK
<1>2. PICK k \in 0 .. MaxOffset : k = Larger(recv[r].sent, n) /\ k \in {recv[r].sent, n}
  BY <1>1, ReceiverAssumption, LargerBounds DEF Receiver
<1>3. Acknowledged(r, n) = [recv[r] EXCEPT !.sent = k]
  BY <1>1, <1>2 DEF Acknowledged, Receiver
<1>4. QED
  BY <1>1, <1>2, <1>3 DEF Receiver

-----------------------------------------------------------------------------
(* An Open                                                                  *)

LEMMA OnOpenKeeps ==
  ASSUME ReceiverInv, NEW id \in Ids, OnOpen(id)
  PROVE  ReceiverInv'
<1> DEFINE known  == streamRecv[id] # None
           others == {streamRecv[i] : i \in Ids \ {id}} \ {None}
<1> USE DEF ReceiverInv
<1>1. /\ reader.pc = "idle" /\ reader' = reader /\ ctxDone' = ctxDone
      /\ known \/ made < MaxReceivers
      /\ made' = IF known THEN made ELSE made + 1
      /\ streamRecv' = [i \in Ids |-> IF i # id THEN None
                                      ELSE IF known THEN streamRecv[id] ELSE made']
      /\ recv' = [r \in Recvs |-> IF r \in others THEN StopAcks(r) ELSE recv[r]]
  BY Zenon DEF OnOpen, Arrives
<1>2. \A r \in Recvs : recv'[r] = StopAcks(r) \/ recv'[r] = recv[r]
  BY <1>1
<1>3. made \in Nat /\ made' \in Nat /\ made' <= MaxReceivers /\ made <= made'
  BY <1>1, ReceiverAssumption DEF TypeOK
<1>4. TypeOK'
  <2>1. recv' \in [Recvs -> Receiver]
    BY <1>1, <1>2, StopAcksFields DEF TypeOK
  <2>2. streamRecv' \in [Ids -> 0 .. made']
    BY <1>1, <1>3 DEF TypeOK, None
  <2>3. QED
    BY <1>1, <1>3, <2>1, <2>2 DEF TypeOK
<1>5. ReaderHolds'
  BY <1>1 DEF ReaderHolds
<1>6. \A r \in Recvs : /\ recv'[r].epoch = recv[r].epoch
                       /\ recv'[r].next = recv[r].next
                       /\ recv'[r].written = recv[r].written
                       /\ recv'[r].hand = recv[r].hand
                       /\ recv'[r].sent = recv[r].sent
                       /\ recv'[r].pending \in {recv[r].pending, NoAck}
                       /\ recv[r].stopped => recv'[r].stopped
                       /\ recv'[r].stopped => recv[r].stopped \/ recv'[r].pending = NoAck
  BY <1>2, StopAcksFields
<1>7. AcceptedIsWritten'
  <2>1. ASSUME NEW r \in Recvs, Removed(r)
        PROVE  Removed(r)'
    <3>1. r \in Nat /\ r # None /\ r <= made /\ \A i \in Ids : streamRecv[i] # r
      BY <2>1, ReceiverAssumption DEF Removed, Recvs, None
    <3>2. r <= made' /\ \A i \in Ids : streamRecv'[i] # r
      BY <1>1, <1>3, <3>1
    <3>3. QED
      BY <1>1, <2>1, <3>2 DEF Removed
  <2>2. QED
    BY <1>1, <1>6, <2>1 DEF AcceptedIsWritten
<1>8. AckFollowsWrite'
  <2>1. \A r \in Recvs : 0 <= recv[r].written
    BY DEF TypeOK, Receiver
  <2>2. QED
    BY <1>6, <2>1 DEF AckFollowsWrite, NoAck
<1>9. PendingAckIsNewest'
  BY <1>1, <1>6 DEF PendingAckIsNewest
<1>10. RemovedIsStopped'
  <2> SUFFICES ASSUME NEW r \in Recvs, Removed(r)'
               PROVE  recv'[r].stopped
    BY DEF RemovedIsStopped
  <2>1. r <= made' /\ reader.r # r /\ \A i \in Ids : streamRecv'[i] # r
    BY <1>1 DEF Removed
  <2>2. streamRecv[id] # r /\ r <= made
    <3>1. r \in Int /\ 1 <= r
      BY ReceiverAssumption DEF Recvs
    <3>2. CASE known
      BY <1>1, <2>1, <3>2
    <3>3. CASE ~known
      BY <1>1, <1>3, <2>1, <3>1, <3>3 DEF None
    <3>4. QED
      BY <3>2, <3>3
  <2>3. CASE r \in others
    BY <1>1, <2>3, StopAcksFields
  <2>4. CASE r \notin others
    <3>1. \A i \in Ids : streamRecv[i] # r
      BY <2>2, <2>4 DEF Recvs, None
    <3>2. Removed(r)
      BY <2>1, <2>2, <3>1 DEF Removed
    <3>3. QED
      BY <1>6, <3>2 DEF RemovedIsStopped
  <2>5. QED
    BY <2>3, <2>4
<1>11. StoppedHasNoAck'
  BY <1>6 DEF StoppedHasNoAck
<1>12. QED
  BY <1>4, <1>5, <1>7, <1>8, <1>9, <1>10, <1>11

-----------------------------------------------------------------------------
(* The other frames, and the reader's steps on its receiver                 *)

LEMMA OnDataKeeps ==
  ASSUME ReceiverInv, NEW id \in Ids, NEW e \in 1 .. MaxEpoch,
         NEW from \in 0 .. MaxOffset - 1, OnData(id, e, from)
  PROVE  ReceiverInv'
<1> DEFINE s == streamRecv[id]
<1> USE DEF ReceiverInv
<1>1. /\ s \in Recvs /\ s \in 1 .. made /\ recv[s] \in Receiver
      /\ reader.pc = "idle" /\ reader.r = None
  BY ReceiverAssumption
     DEF OnData, Arrives, TypeOK, ReaderHolds, Recvs, None
<1>2. PICK n \in 0 .. MaxOffset : n = Larger(recv[s].next, from + 1) /\ recv[s].next <= n
  <2>1. recv[s].next \in 0 .. MaxOffset /\ from + 1 \in 0 .. MaxOffset
    BY <1>1, ReceiverAssumption DEF Receiver
  <2>2. QED
    BY <2>1, ReceiverAssumption, LargerBounds
<1>3. /\ recv' = [recv EXCEPT ![s] = [recv[s] EXCEPT !.next = n]]
      /\ reader' = [pc |-> "write", r |-> s, ack |-> [epoch |-> e, offset |-> n]]
      /\ UNCHANGED <<made, streamRecv, ctxDone>>
      /\ recv[s].epoch = e
  BY <1>1, <1>2 DEF OnData, DataAccepted, TypeOK, Receiver
<1>4. TypeOK'
  <2>1. recv' \in [Recvs -> Receiver]
    BY <1>1, <1>3 DEF TypeOK, Receiver
  <2>2. reader'.ack \in Ack
    BY <1>3 DEF Ack
  <2>3. QED
    BY <1>1, <1>3, <2>1, <2>2 DEF TypeOK
<1>5. ReaderHolds'
  BY <1>1, <1>3 DEF ReaderHolds, TypeOK, Receiver
<1>6. AcceptedIsWritten'
  BY <1>1, <1>2, <1>3 DEF AcceptedIsWritten, TypeOK, Receiver, Removed, Recvs, None
<1>7. AckFollowsWrite'
  BY <1>1, <1>3 DEF AckFollowsWrite, TypeOK, Receiver
<1>8. PendingAckIsNewest'
  BY <1>1, <1>3 DEF PendingAckIsNewest, TypeOK, Receiver, Recvs, None
<1>9. RemovedIsStopped' /\ StoppedHasNoAck'
  <2>1. \A r \in Recvs : /\ recv'[r].stopped = recv[r].stopped
                         /\ recv'[r].pending = recv[r].pending
    BY <1>1, <1>3 DEF TypeOK, Receiver
  <2>2. \A r \in Recvs : Removed(r)' => Removed(r)
    BY <1>1, <1>3 DEF Removed, Recvs, None
  <2>3. QED
    BY <2>1, <2>2 DEF RemovedIsStopped, StoppedHasNoAck
<1>10. QED
  BY <1>4, <1>5, <1>6, <1>7, <1>8, <1>9

LEMMA OnResumeKeeps ==
  ASSUME ReceiverInv, NEW id \in Ids, NEW e \in 1 .. MaxEpoch,
         NEW offset \in 0 .. MaxOffset, OnResume(id, e, offset)
  PROVE  ReceiverInv'
<1> DEFINE s == streamRecv[id]
<1> USE DEF ReceiverInv
<1>1. /\ s \in Recvs /\ s \in 1 .. made /\ recv[s] \in Receiver
      /\ reader.pc = "idle" /\ reader.r = None
  BY ReceiverAssumption
     DEF OnResume, Arrives, TypeOK, ReaderHolds, Recvs, None
<1>2. /\ recv' = [recv EXCEPT ![s] = [recv[s] EXCEPT !.epoch = e]]
      /\ reader' = [pc |-> "drop", r |-> s, ack |-> [epoch |-> e, offset |-> recv[s].next]]
      /\ UNCHANGED <<made, streamRecv, ctxDone>>
  BY <1>1 DEF OnResume, TypeOK, Receiver
<1>3. TypeOK'
  <2>1. recv' \in [Recvs -> Receiver]
    BY <1>1, <1>2 DEF TypeOK, Receiver
  <2>2. reader'.ack \in Ack
    BY <1>1, <1>2 DEF Ack, Receiver
  <2>3. QED
    BY <1>1, <1>2, <2>1, <2>2 DEF TypeOK
<1>4. ReaderHolds'
  BY <1>1, <1>2 DEF ReaderHolds, TypeOK, Receiver
<1>5. AcceptedIsWritten' /\ AckFollowsWrite'
  BY <1>1, <1>2 DEF AcceptedIsWritten, AckFollowsWrite, TypeOK, Receiver, Removed, Recvs, None
<1>6. PendingAckIsNewest'
  BY <1>1, <1>2 DEF PendingAckIsNewest, TypeOK, Receiver, Recvs, None
<1>7. RemovedIsStopped' /\ StoppedHasNoAck'
  <2>1. \A r \in Recvs : /\ recv'[r].stopped = recv[r].stopped
                         /\ recv'[r].pending = recv[r].pending
    BY <1>1, <1>2 DEF TypeOK, Receiver
  <2>2. \A r \in Recvs : Removed(r)' => Removed(r)
    BY <1>1, <1>2 DEF Removed, Recvs, None
  <2>3. QED
    BY <2>1, <2>2 DEF RemovedIsStopped, StoppedHasNoAck
<1>8. QED
  BY <1>3, <1>4, <1>5, <1>6, <1>7

LEMMA OnCloseKeeps ==
  ASSUME ReceiverInv, NEW id \in Ids, OnClose(id)
  PROVE  ReceiverInv'
<1> USE DEF ReceiverInv
<1>1. /\ streamRecv[id] \in Recvs /\ streamRecv[id] \in 1 .. made
      /\ reader.pc = "idle" /\ reader.r = None
  BY ReceiverAssumption
     DEF OnClose, Arrives, TypeOK, ReaderHolds, Recvs, None
<1>2. /\ streamRecv' = [streamRecv EXCEPT ![id] = None]
      /\ reader' = [pc |-> "stop", r |-> streamRecv[id], ack |-> reader.ack]
      /\ UNCHANGED <<made, recv, ctxDone>>
  BY DEF OnClose, TypeOK
<1>3. TypeOK' /\ ReaderHolds'
  BY <1>1, <1>2, ReceiverAssumption DEF TypeOK, ReaderHolds, None
<1>4. AcceptedIsWritten' /\ AckFollowsWrite' /\ PendingAckIsNewest'
  BY <1>1, <1>2 DEF AcceptedIsWritten, AckFollowsWrite, PendingAckIsNewest, Recvs, None, Removed
<1>5. RemovedIsStopped' /\ StoppedHasNoAck'
  BY <1>1, <1>2 DEF RemovedIsStopped, Removed, StoppedHasNoAck, TypeOK, Recvs, None
<1>6. QED
  BY <1>3, <1>4, <1>5

LEMMA RemovedStays ==
  ASSUME NEW r \in Recvs, Removed(r), UNCHANGED <<made, streamRecv>>,
         reader'.r = reader.r \/ reader' = Resting
  PROVE  Removed(r)'
BY DEF Removed, Resting, Recvs, None

LEMMA WriteTUNKeeps ==
  ASSUME ReceiverInv, WriteTUN
  PROVE  ReceiverInv'
<1> DEFINE s == reader.r
<1> USE DEF ReceiverInv
<1>1. /\ s \in Recvs /\ recv[s] \in Receiver /\ reader.pc = "write"
      /\ reader.ack \in Ack
      /\ recv[s].next = reader.ack.offset /\ recv[s].epoch = reader.ack.epoch
  BY ReceiverAssumption DEF WriteTUN, TypeOK, ReaderHolds, Recvs, None
<1>2. /\ recv' = [recv EXCEPT ![s] = [recv[s] EXCEPT !.written = reader.ack.offset]]
      /\ reader' = [reader EXCEPT !.pc = "queue"]
      /\ UNCHANGED <<made, streamRecv, ctxDone>>
  BY <1>1 DEF WriteTUN, TypeOK, Receiver
<1>3. TypeOK'
  BY <1>1, <1>2 DEF TypeOK, Receiver, Ack
<1>4. ReaderHolds'
  BY <1>1, <1>2 DEF ReaderHolds, TypeOK, Receiver
<1>5. AcceptedIsWritten'
  BY <1>1, <1>2, ReceiverAssumption, RemovedStays DEF AcceptedIsWritten, TypeOK, Receiver, Ack
<1>6. AckFollowsWrite'
  <2>1. recv[s].written \in Int /\ recv[s].next \in Int /\ recv[s].written <= recv[s].next
    BY <1>1 DEF AcceptedIsWritten, Receiver
  <2>2. /\ recv[s].sent \in Int /\ recv[s].hand.offset \in Int
        /\ recv[s].pending.offset \in Int
    BY <1>1 DEF Receiver, Ack
  <2>3. QED
    BY <1>1, <1>2, <2>1, <2>2 DEF AckFollowsWrite, TypeOK, Receiver
<1>7. PendingAckIsNewest' /\ RemovedIsStopped' /\ StoppedHasNoAck'
  BY <1>1, <1>2
     DEF PendingAckIsNewest, RemovedIsStopped, Removed, StoppedHasNoAck, TypeOK, Receiver
<1>8. QED
  BY <1>3, <1>4, <1>5, <1>6, <1>7

(* The reader is at work on a receiver that is in the map.                  *)
LEMMA ReaderAtWork ==
  ASSUME ReceiverInv, reader.pc \in {"queue", "drop", "answer"}
  PROVE  /\ reader.r \in Recvs /\ recv[reader.r] \in Receiver
         /\ reader.ack \in Ack
         /\ reader.ack = [epoch |-> recv[reader.r].epoch, offset |-> recv[reader.r].next]
         /\ recv[reader.r].written = recv[reader.r].next
         /\ \E i \in Ids : streamRecv[i] = reader.r
<1>1. reader.r \in Recvs /\ reader.ack \in Ack
  BY ReceiverAssumption DEF ReceiverInv, TypeOK, ReaderHolds, Recvs, None
<1>2. QED
  BY <1>1 DEF ReceiverInv, TypeOK, ReaderHolds, AcceptedIsWritten, Removed, Recvs, None

LEMMA RestingType == Resting \in [pc : {"idle"}, r : {None}, ack : Ack]
BY AcksTyped DEF Resting

LEMMA QueueAckKeeps ==
  ASSUME ReceiverInv, QueueAck
  PROVE  ReceiverInv'
<1> DEFINE s == reader.r
<1> USE DEF ReceiverInv
<1>1. reader.pc = "queue" /\ reader' = Resting /\ UNCHANGED <<made, streamRecv, ctxDone>>
  BY DEF QueueAck
<1>2. CASE recv[s].stopped
  <2>1. recv' = recv
    BY <1>2, ReaderAtWork DEF QueueAck, TypeOK
  <2>2. TypeOK' /\ ReaderHolds'
    BY <1>1, <2>1, RestingType DEF TypeOK, ReaderHolds, Resting
  <2>3. AcceptedIsWritten' /\ AckFollowsWrite'
    BY <1>1, <2>1, RemovedStays DEF AcceptedIsWritten, AckFollowsWrite
  <2>4. PendingAckIsNewest' /\ RemovedIsStopped' /\ StoppedHasNoAck'
    BY <1>1, <1>2, <2>1, ReaderAtWork
       DEF PendingAckIsNewest, RemovedIsStopped, Removed, StoppedHasNoAck, Resting
  <2>5. QED
    BY <2>2, <2>3, <2>4
<1>3. CASE ~recv[s].stopped
  <2>1. PICK l \in {"off", "wait", "take", "send", "ended"} :
          l = IF recv[s].loop = "off" THEN "wait" ELSE recv[s].loop
    BY <1>1, ReaderAtWork DEF Receiver
  <2>2. recv' = [recv EXCEPT ![s] =
                   [recv[s] EXCEPT !.pending = reader.ack, !.wake = TRUE, !.loop = l]]
    <3>1. s \in Recvs /\ recv[s] \in Receiver /\ recv \in [Recvs -> Receiver]
      BY <1>1, ReaderAtWork DEF TypeOK
    <3>2. QED
      BY <1>3, <2>1, <3>1 DEF QueueAck, Receiver
  <2>3. TypeOK'
    BY <1>1, <2>2, ReaderAtWork, RestingType DEF TypeOK, Receiver
  <2>4. ReaderHolds'
    BY <1>1, RestingType DEF ReaderHolds, Resting
  <2>5. AcceptedIsWritten' /\ AckFollowsWrite'
    <3>1. AcceptedIsWritten'
      BY <1>1, <2>2, ReaderAtWork, RemovedStays DEF AcceptedIsWritten, TypeOK, Receiver
    <3>2. AckFollowsWrite'
      BY <1>1, <2>2, ReaderAtWork, ReceiverAssumption DEF AckFollowsWrite, TypeOK, Receiver
    <3>3. QED
      BY <3>1, <3>2
  <2>6. PendingAckIsNewest'
    BY <1>1, <2>2, ReaderAtWork DEF PendingAckIsNewest, TypeOK, Receiver
  <2>7. RemovedIsStopped' /\ StoppedHasNoAck'
    BY <1>1, <1>3, <2>2, ReaderAtWork
       DEF RemovedIsStopped, Removed, StoppedHasNoAck, TypeOK, Receiver
  <2>8. QED
    BY <2>3, <2>4, <2>5, <2>6, <2>7
<1>4. QED
  BY <1>2, <1>3

LEMMA DropPendingAckKeeps ==
  ASSUME ReceiverInv, DropPendingAck
  PROVE  ReceiverInv'
<1> DEFINE s == reader.r
<1> USE DEF ReceiverInv
<1>1. /\ reader.pc = "drop" /\ reader' = [reader EXCEPT !.pc = "answer"]
      /\ recv' = [recv EXCEPT ![s] = [recv[s] EXCEPT !.pending = NoAck]]
      /\ UNCHANGED <<made, streamRecv, ctxDone>>
  BY ReaderAtWork DEF DropPendingAck, TypeOK, Receiver
<1>2. TypeOK' /\ ReaderHolds'
  BY <1>1, ReaderAtWork, AcksTyped DEF TypeOK, ReaderHolds, Receiver
<1>3. AcceptedIsWritten' /\ AckFollowsWrite'
  <2>1. 0 <= recv[s].written
    BY <1>1, ReaderAtWork DEF Receiver
  <2>2. QED
    BY <1>1, <2>1, ReaderAtWork
       DEF AcceptedIsWritten, AckFollowsWrite, TypeOK, Receiver, NoAck, Removed, Recvs, None
<1>4. PendingAckIsNewest' /\ RemovedIsStopped' /\ StoppedHasNoAck'
  BY <1>1, ReaderAtWork
     DEF PendingAckIsNewest, RemovedIsStopped, Removed, StoppedHasNoAck, TypeOK, Receiver
<1>5. QED
  BY <1>2, <1>3, <1>4

LEMMA AnswerResumeKeeps ==
  ASSUME ReceiverInv, AnswerResume
  PROVE  ReceiverInv'
<1> DEFINE s == reader.r
<1> USE DEF ReceiverInv
<1>1. /\ reader.pc = "answer" /\ reader' = Resting
      /\ UNCHANGED <<made, streamRecv, ctxDone>>
  BY DEF AnswerResume
<1>2. PICK k \in 0 .. MaxOffset :
        /\ k \in {recv[s].sent, recv[s].next}
        /\ recv' = [recv EXCEPT ![s] = [recv[s] EXCEPT !.sent = k]]
  <2>1. recv[s].next \in 0 .. MaxOffset /\ reader.ack.offset = recv[s].next
    BY <1>1, ReaderAtWork DEF Receiver
  <2> DEFINE k == Acknowledged(s, reader.ack.offset).sent
  <2>2. k \in {recv[s].sent, recv[s].next} /\ k \in 0 .. MaxOffset
        /\ Acknowledged(s, reader.ack.offset) = [recv[s] EXCEPT !.sent = k]
    BY <1>1, <2>1, ReaderAtWork, AcknowledgedFields DEF Receiver
  <2>3. recv' = [recv EXCEPT ![s] = [recv[s] EXCEPT !.sent = k]]
    BY <1>1, <2>2 DEF AnswerResume
  <2>4. QED
    BY <2>2, <2>3
<1>3. TypeOK' /\ ReaderHolds'
  BY <1>1, <1>2, ReaderAtWork, RestingType DEF TypeOK, ReaderHolds, Receiver, Resting
<1>4. AcceptedIsWritten'
  BY <1>1, <1>2, ReaderAtWork, RemovedStays DEF AcceptedIsWritten, TypeOK, Receiver
<1>5. AckFollowsWrite'
  BY <1>1, <1>2, ReaderAtWork, ReceiverAssumption DEF AckFollowsWrite, TypeOK, Receiver
<1>6. PendingAckIsNewest'
  BY <1>1, <1>2, ReaderAtWork DEF PendingAckIsNewest, ReaderHolds, TypeOK, Receiver
<1>7. RemovedIsStopped' /\ StoppedHasNoAck'
  BY <1>1, <1>2, ReaderAtWork
     DEF RemovedIsStopped, Removed, StoppedHasNoAck, TypeOK, Receiver
<1>8. QED
  BY <1>3, <1>4, <1>5, <1>6, <1>7

LEMMA StopReceiverKeeps ==
  ASSUME ReceiverInv, StopReceiver
  PROVE  ReceiverInv'
<1> DEFINE s == reader.r
<1> USE DEF ReceiverInv
<1>1. /\ s \in Recvs /\ reader.pc = "stop" /\ reader' = Resting
      /\ recv' = [recv EXCEPT ![s] = StopAcks(s)]
      /\ UNCHANGED <<made, streamRecv, ctxDone>>
  BY ReceiverAssumption DEF StopReceiver, TypeOK, ReaderHolds, Recvs, None
<1>2. \A r \in Recvs : r # s => recv'[r] = recv[r]
  BY <1>1 DEF TypeOK
<1>3. /\ recv'[s] \in Receiver
      /\ recv'[s].stopped = TRUE /\ recv'[s].pending = NoAck
      /\ recv'[s].next = recv[s].next /\ recv'[s].written = recv[s].written
      /\ recv'[s].hand = recv[s].hand /\ recv'[s].sent = recv[s].sent
  <2>1. recv'[s] = StopAcks(s)
    BY <1>1 DEF TypeOK
  <2>2. QED
    BY <1>1, <2>1, StopAcksFields
<1>4. TypeOK' /\ ReaderHolds'
  BY <1>1, <1>2, <1>3, RestingType DEF TypeOK, ReaderHolds, Resting
<1>5. AcceptedIsWritten'
  BY <1>1, <1>2, <1>3, RemovedStays DEF AcceptedIsWritten
<1>6. AckFollowsWrite'
  <2>1. 0 <= recv[s].written
    BY <1>1 DEF TypeOK, Receiver
  <2>2. QED
    BY <1>1, <1>2, <1>3, <2>1 DEF AckFollowsWrite, NoAck
<1>7. PendingAckIsNewest' /\ StoppedHasNoAck'
  BY <1>1, <1>2, <1>3 DEF PendingAckIsNewest, StoppedHasNoAck, Resting, Recvs, None
<1>8. RemovedIsStopped'
  BY <1>1, <1>2, <1>3 DEF RemovedIsStopped, Removed
<1>9. QED
  BY <1>4, <1>5, <1>6, <1>7, <1>8

-----------------------------------------------------------------------------
(* ackLoop moves an ACK from pending to its hand and from there to sent.    *)

LEMMA AckLoopSteps ==
  ASSUME ReceiverInv, NEW r \in Recvs, AckLoop(r)
  PROVE  /\ recv' = [recv EXCEPT ![r] = recv'[r]] /\ recv'[r] \in Receiver
         /\ recv'[r].epoch = recv[r].epoch /\ recv'[r].next = recv[r].next
         /\ recv'[r].written = recv[r].written /\ recv'[r].stopped = recv[r].stopped
         /\ recv'[r].pending \in {recv[r].pending, NoAck}
         /\ recv'[r].hand \in {recv[r].hand, recv[r].pending, NoAck}
         /\ recv'[r].sent \in {recv[r].sent, recv[r].hand.offset}
         /\ UNCHANGED <<made, streamRecv, reader, ctxDone>>
         /\ recv[r].stopped /\ recv[r].loop # "send" => recv'[r].loop # "send"
<1>1. recv[r] \in Receiver /\ recv \in [Recvs -> Receiver]
  BY DEF ReceiverInv, TypeOK
<1>2. UNCHANGED <<made, streamRecv, reader, ctxDone>>
  BY DEF AckLoop
<1>3. CASE AckLoopWakes(r)
  BY <1>1, <1>2, <1>3 DEF AckLoopWakes, Receiver
<1>4. CASE AckLoopCancelled(r)
  BY <1>1, <1>2, <1>4 DEF AckLoopCancelled, Receiver
<1>5. CASE TakeAck(r)
  BY <1>1, <1>2, <1>5, AcksTyped DEF TakeAck, Receiver
<1>6. CASE SendAck(r)
  <2>1. recv[r].hand.offset \in 0 .. MaxOffset
    BY <1>1 DEF Receiver, Ack
  <2>2. PICK k \in 0 .. MaxOffset :
          /\ k \in {recv[r].sent, recv[r].hand.offset}
          /\ Acknowledged(r, recv[r].hand.offset) = [recv[r] EXCEPT !.sent = k]
    <3> DEFINE k == Acknowledged(r, recv[r].hand.offset).sent
    <3>1. /\ k \in {recv[r].sent, recv[r].hand.offset}
          /\ Acknowledged(r, recv[r].hand.offset) = [recv[r] EXCEPT !.sent = k]
      BY <2>1, AcknowledgedFields DEF ReceiverInv
    <3>2. k \in 0 .. MaxOffset
      BY <1>1, <2>1, <3>1 DEF Receiver
    <3>3. QED
      BY <3>1, <3>2
  <2>3. recv' = [recv EXCEPT ![r] = [recv[r] EXCEPT !.sent = k, !.loop = "take",
                                                    !.hand = NoAck]]
    BY <1>1, <1>6, <2>2 DEF SendAck, Receiver
  <2>4. recv'[r] = [recv[r] EXCEPT !.sent = k, !.loop = "take", !.hand = NoAck]
    BY <1>1, <2>3
  <2>5. recv'[r] \in Receiver
    BY <1>1, <2>4, AcksTyped DEF Receiver
  <2>6. /\ recv'[r].epoch = recv[r].epoch /\ recv'[r].next = recv[r].next
        /\ recv'[r].written = recv[r].written /\ recv'[r].stopped = recv[r].stopped
        /\ recv'[r].pending = recv[r].pending /\ recv'[r].hand = NoAck
        /\ recv'[r].sent = k /\ recv[r].loop = "send"
    BY <1>1, <1>6, <2>4 DEF SendAck, Receiver
  <2>7. QED
    BY <1>2, <2>2, <2>3, <2>4, <2>5, <2>6
<1>7. QED
  BY <1>3, <1>4, <1>5, <1>6 DEF AckLoop

LEMMA AckLoopKeeps ==
  ASSUME ReceiverInv, NEW r \in Recvs, AckLoop(r)
  PROVE  ReceiverInv'
<1> USE AckLoopSteps DEF ReceiverInv
<1>1. \A q \in Recvs : q # r => recv'[q] = recv[q]
  BY DEF TypeOK
<1>2. TypeOK'
  BY DEF TypeOK
<1>3. ReaderHolds'
  <2>1. reader.r \in 1 .. made => reader.r \in Recvs
    BY ReceiverAssumption DEF TypeOK, Recvs
  <2>2. QED
    BY <1>1, <2>1 DEF ReaderHolds
<1>4. AcceptedIsWritten'
  BY <1>1 DEF AcceptedIsWritten, Removed, Recvs, None
<1>5. AckFollowsWrite'
  <2>1. 0 <= recv[r].written
    BY DEF TypeOK, Receiver
  <2>2. QED
    BY <1>1, <2>1 DEF AckFollowsWrite, NoAck
<1>6. PendingAckIsNewest' /\ RemovedIsStopped' /\ StoppedHasNoAck'
  BY <1>1 DEF PendingAckIsNewest, RemovedIsStopped, Removed, StoppedHasNoAck
<1>7. QED
  BY <1>2, <1>3, <1>4, <1>5, <1>6

-----------------------------------------------------------------------------
(* The invariant is inductive.                                              *)

LEMMA InitReceiver == Init => ReceiverInv
<1> SUFFICES ASSUME Init PROVE ReceiverInv
  OBVIOUS
<1>1. TypeOK
  <2>1. recv \in [Recvs -> Receiver]
    BY NewReceiverType DEF Init
  <2>2. reader \in [pc : {"idle"}, r : {None}, ack : Ack]
    BY RestingType DEF Init
  <2>3. made \in 0 .. MaxReceivers /\ streamRecv \in [Ids -> 0 .. made]
    BY ReceiverAssumption DEF Init, None
  <2>4. QED
    BY <2>1, <2>2, <2>3 DEF Init, TypeOK
<1>2. ReaderHolds
  BY DEF Init, ReaderHolds, Resting
<1>3. AcceptedIsWritten /\ AckFollowsWrite /\ PendingAckIsNewest /\ StoppedHasNoAck
  BY DEF Init, AcceptedIsWritten, AckFollowsWrite, PendingAckIsNewest, StoppedHasNoAck,
     NewReceiver, NoAck
<1>4. RemovedIsStopped
  BY DEF Init, RemovedIsStopped, Removed, Recvs
<1>5. QED
  BY <1>1, <1>2, <1>3, <1>4 DEF ReceiverInv

LEMMA IdleKeeps ==
  ASSUME ReceiverInv, UNCHANGED <<made, recv, streamRecv, reader>>, ctxDone' \in BOOLEAN
  PROVE  ReceiverInv'
BY DEF ReceiverInv, TypeOK, ReaderHolds, AcceptedIsWritten, AckFollowsWrite,
   PendingAckIsNewest, RemovedIsStopped, Removed, StoppedHasNoAck

LEMMA NextReceiver ==
  ASSUME ReceiverInv, [Next]_vars
  PROVE  ReceiverInv'
<1>1. CASE FrameArrives
  BY <1>1, OnOpenKeeps, OnCloseKeeps, OnDataKeeps, OnResumeKeeps DEF FrameArrives
<1>2. CASE ReaderStep
  BY <1>2, WriteTUNKeeps, QueueAckKeeps, DropPendingAckKeeps, AnswerResumeKeeps,
     StopReceiverKeeps DEF ReaderStep
<1>3. CASE \E r \in Recvs : AckLoop(r)
  BY <1>3, AckLoopKeeps
<1>4. CASE Cancel
  BY <1>4, IdleKeeps DEF Cancel
<1>5. CASE Finished \/ UNCHANGED vars
  BY <1>5, IdleKeeps DEF Finished, vars, ReceiverInv, TypeOK
<1>6. QED
  BY <1>1, <1>2, <1>3, <1>4, <1>5 DEF Next

(* The receivers, the reader and the loops keep the strengthened invariant. *)
THEOREM ReceiverInvariant == Spec => []ReceiverInv
BY InitReceiver, NextReceiver, PTL DEF Spec

(* Every variable of the receiving half has its type, for any numbers of     *)
(* streams, receivers, epochs and frames.                                   *)
THEOREM ReceiverTypeCorrect == Spec => []TypeOK
<1>1. ReceiverInv => TypeOK
  BY DEF ReceiverInv
<1>2. QED
  BY <1>1, ReceiverInvariant, PTL

(* No ACK ever covers Data that the TUN has not been given.                 *)
THEOREM AckAlwaysFollowsWrite == Spec => []AckFollowsWrite
<1>1. ReceiverInv => AckFollowsWrite
  BY DEF ReceiverInv
<1>2. QED
  BY <1>1, ReceiverInvariant, PTL

(* The ACK that waits is of the receiver's epoch and its newest offset.     *)
THEOREM PendingAckAlwaysNewest == Spec => []PendingAckIsNewest
<1>1. ReceiverInv => PendingAckIsNewest
  BY DEF ReceiverInv
<1>2. QED
  BY <1>1, ReceiverInvariant, PTL

(* The loop of a receiver that an Open or a Close removed takes no ACK.     *)
THEOREM RemovedReceiverStaysSilent == Spec => RemovedReceiverIsSilent
<1>1. ReceiverInv /\ [Next]_vars
        => [\A r \in Recvs : Removed(r) /\ recv[r].loop # "send"
              => recv'[r].loop # "send"]_vars
  <2> SUFFICES ASSUME ReceiverInv, [Next]_vars, NEW r \in Recvs,
                      Removed(r), recv[r].loop # "send"
               PROVE  recv'[r].loop # "send"
    OBVIOUS
  <2>1. recv[r].stopped /\ recv \in [Recvs -> Receiver]
    BY DEF ReceiverInv, RemovedIsStopped, TypeOK
  <2>2. ASSUME NEW q \in Recvs, AckLoop(q)
        PROVE  recv'[r].loop # "send"
    BY <2>1, <2>2, AckLoopSteps
  <2>3. ASSUME NEW id \in Ids, OnOpen(id)
        PROVE  recv'[r].loop # "send"
    <3>1. recv'[r] \in {StopAcks(r), recv[r]}
      BY <2>3 DEF OnOpen
    <3>2. QED
      BY <3>1, StopAcksFields DEF ReceiverInv
  <2>4. ASSUME NEW id \in Ids, NEW e \in 1 .. MaxEpoch, NEW from \in 0 .. MaxOffset - 1,
               OnData(id, e, from)
        PROVE  recv'[r].loop # "send"
    BY <2>1, <2>4 DEF OnData, Removed, Receiver
  <2>5. ASSUME NEW id \in Ids, NEW e \in 1 .. MaxEpoch, NEW offset \in 0 .. MaxOffset,
               OnResume(id, e, offset)
        PROVE  recv'[r].loop # "send"
    BY <2>1, <2>5 DEF OnResume, Removed, Receiver
  <2>6. CASE ReaderStep
    BY <2>1, <2>6 DEF ReaderStep, WriteTUN, QueueAck, DropPendingAck, AnswerResume,
       StopReceiver, Removed
  <2>7. CASE UNCHANGED recv
    BY <2>7
  <2>8. QED
    BY <2>2, <2>3, <2>4, <2>5, <2>6, <2>7
       DEF Next, FrameArrives, OnClose, Cancel, Finished, vars
<1>2. QED
  BY <1>1, ReceiverInvariant, PTL DEF Spec, RemovedReceiverIsSilent

=============================================================================
