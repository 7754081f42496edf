------------------------------ MODULE StreamLink ------------------------------
(***************************************************************************)
(* Both ends of the streams of one direction and the network between them  *)
(* (internal/tun/stream.go): the sender opens a stream, frames packets,     *)
(* resumes the stream when it is lost, and gives it up for the next one     *)
(* when a Resume or an Open is not answered; the receiver is StreamReceiver.*)
(*                                                                         *)
(* The sender is StreamPath's, with one session and one packet to a frame;  *)
(* its goroutines and handlers are in StreamPort and StreamLoop.  Messages  *)
(* pass one another as they like.  One that is lost or repeated, a timeout  *)
(* that comes while an answer is on its way, a path reported lost and a     *)
(* restart of the peer are faults.                                          *)
(***************************************************************************)
EXTENDS StreamPath

CONSTANTS MaxStreams,    \* bound: streams opened
          MaxReceivers,  \* bound: receivers made
          MaxEpoch,      \* bound: epochs of a stream
          MaxPackets,    \* bound: packets framed in one stream
          MaxFaults      \* bound: faults

ASSUME LinkAssumption ==
  /\ MaxStreams \in Nat \ {0} /\ MaxReceivers \in Nat /\ MaxEpoch \in Nat \ {0}
  /\ MaxPackets \in Nat /\ MaxFaults \in Nat
  /\ Sessions # {}

VARIABLES
  stream,      \* the ID of the sender's stream
  port,        \* its port
  snd,         \* where the sender stands, and the data it replays
  fwd, back,   \* the messages to the receiver and back
  idOf,        \* the stream ID of each receiver
  faults,      \* faults so far
  made, recv, streamRecv, reader, ctxDone   \* StreamReceiver's

sendVars == <<stream, port, snd>>
recvVars == <<made, recv, streamRecv, reader, ctxDone>>
vars == <<sendVars, fwd, back, idOf, faults, recvVars>>

R == INSTANCE StreamReceiver WITH Ids <- 1 .. MaxStreams, MaxOffset <- MaxPackets

Session == CHOOSE s \in Sessions : TRUE

Frame(kind, id, epoch, offset) ==
  [kind |-> kind, id |-> id, epoch |-> epoch, offset |-> offset]

Init ==
  /\ stream = 0 /\ port = NewPort /\ snd = [pc |-> "open", from |-> 0, to |-> 0]
  /\ fwd = {} /\ back = {} /\ faults = 0
  /\ R!Init /\ idOf = [r \in R!Recvs |-> 0]

Goto(step) == snd' = [snd EXCEPT !.pc = step]
Fault      == faults < MaxFaults /\ faults' = faults + 1

-----------------------------------------------------------------------------
(* The sender                                                               *)

(* runStream: a new ID, a new port.                                         *)
Open ==
  /\ snd.pc = "open" /\ stream < MaxStreams
  /\ stream' = stream + 1
  /\ port' = BeginOpen(NewPort, Session)
  /\ fwd' = fwd \cup {Frame("Open", stream + 1, 1, 0)}
  /\ Goto("waitOpen")
  /\ UNCHANGED <<back, faults>>

Opened ==
  /\ snd.pc = "waitOpen" /\ port.readyState
  /\ Goto("main")
  /\ UNCHANGED <<stream, port, fwd, back, faults>>

SendData ==
  /\ snd.pc = "main" /\ port.readyState
  /\ HasCredit(port, 1) /\ port.sender.next < MaxPackets
  /\ fwd' = fwd \cup {Frame("Data", stream, port.sender.epoch, port.sender.next)}
  /\ port' = DataForReadyPath(port, 1)
  /\ UNCHANGED <<stream, snd, back, faults>>

(* What is on its way or in the receiver's hands for the stream.            *)
Busy ==
  \/ \E m \in fwd \cup back : m.id = stream
  \/ reader.pc # "idle"
  \/ \E r \in R!Recvs : idOf[r] = stream /\ recv[r].loop \notin {"off", "ended"}
                          /\ (recv[r].loop # "wait" \/ recv[r].wake)

(* A timeout is in order when nothing can answer any more.                  *)
Timeout == IF Busy THEN Fault ELSE UNCHANGED faults

OpenTimesOut ==
  /\ snd.pc = "waitOpen" /\ ~port.readyState /\ Timeout
  /\ Goto("open")
  /\ UNCHANGED <<stream, port, fwd, back>>

(* writeStreamLoop: no progress of the ACKs.                                *)
Stalled ==
  /\ snd.pc = "main" /\ Outstanding(port) /\ Timeout
  /\ port' = FailPathIfAckUnchanged(port, Progress(port))
  /\ Goto("recover")
  /\ UNCHANGED <<stream, fwd, back>>

(* A send that fails, a session that is gone.                               *)
PathLost ==
  /\ snd.pc = "main" /\ port.readyState /\ Fault
  /\ port' = MarkPathLostWithError(port, TRUE)
  /\ Goto("recover")
  /\ UNCHANGED <<stream, fwd, back>>

(* recoverStream: the next epoch, from what was acknowledged.               *)
Resume ==
  /\ snd.pc = "recover" /\ port.epoch < MaxEpoch
  /\ LET e == port.epoch + 1
     IN  /\ port' = SenderResume(BeginResume(port, Session, e), e)
         /\ fwd' = fwd \cup {Frame("Resume", stream, e, port.lastAck)}
  /\ snd' = [pc |-> "waitResume", from |-> port.lastAck, to |-> port.sender.next]
  /\ UNCHANGED <<stream, back, faults>>

(* Mutant: what was outstanding is not sent again.                          *)
ResumedWithoutReplay ==
  /\ snd.pc = "waitResume" /\ port.resumeTok
  /\ port' = CompleteResume(port, Session, port.epoch)
  /\ Goto(IF port'.readyState THEN "main" ELSE "recover")
  /\ UNCHANGED <<stream, fwd, back, faults>>

(* The Resume is answered: what was outstanding is sent again.              *)
Resumed ==
  /\ snd.pc = "waitResume" /\ port.resumeTok
  /\ fwd' = fwd \cup {Frame("Data", stream, port.epoch, o) : o \in snd.from .. snd.to - 1}
  /\ port' = CompleteResume(port, Session, port.epoch)
  /\ Goto(IF port'.readyState THEN "main" ELSE "recover")
  /\ UNCHANGED <<stream, back, faults>>

(* The candidates are exhausted: the stream is given up.                    *)
ResumeTimesOut ==
  /\ snd.pc = "waitResume" /\ ~port.resumeTok /\ Timeout
  /\ Goto("open")
  /\ UNCHANGED <<stream, port, fwd, back>>

Send ==
  /\ Opened \/ Open \/ OpenTimesOut \/ Stalled \/ Resume \/ Resumed \/ ResumeTimesOut
  /\ UNCHANGED <<idOf, recvVars>>

SendMore ==
  /\ SendData \/ PathLost
  /\ UNCHANGED <<idOf, recvVars>>

-----------------------------------------------------------------------------
(* The network                                                              *)

(* OnStream looks at the port's ID.                                         *)
ForStream(m) == m.id = stream

AnswerArrives(m) ==
  port' =
    IF ForStream(m) /\ m.kind = "OpenAck" /\ OpenAckAccepted(port, Session, m.epoch)
      THEN AcceptOpenAck(port)
    ELSE IF ForStream(m) /\ m.kind = "Ack" /\ AckAccepted(port, Session, m.epoch, m.offset)
      THEN Acknowledge(port, m.offset, Window)
    ELSE port

(* A message is delivered for the last time, or once more than it was sent. *)
Delivered(m) ==
  \/ fwd' = fwd \ {m} /\ UNCHANGED faults
  \/ Fault /\ UNCHANGED fwd

(* The receiver does nothing with a message that it does not accept.        *)
Ignored(m) ==
  LET r == streamRecv[m.id]
  IN  IF r = R!None THEN m.kind # "Open"
      ELSE \/ m.kind = "Data" /\ ~R!DataAccepted(r, m.epoch, m.offset)
           \/ m.kind = "Resume" /\ ~R!ResumeAccepted(r, m.epoch, m.offset)

MessageArrives(m) ==
  /\ R!Arrives /\ Delivered(m)
  /\ \/ /\ m.kind = "Open" /\ R!OnOpen(m.id)
        /\ idOf' = IF made' > made THEN [idOf EXCEPT ![made'] = m.id] ELSE idOf
        /\ back' = back \cup {Frame("OpenAck", m.id, m.epoch, 0)}
     \/ /\ m.kind = "Data" /\ R!OnData(m.id, m.epoch, m.offset)
        /\ UNCHANGED <<idOf, back>>
     \/ /\ m.kind = "Resume" /\ R!OnResume(m.id, m.epoch, m.offset)
        /\ UNCHANGED <<idOf, back>>
     \/ Ignored(m) /\ UNCHANGED <<idOf, back, recvVars>>
  /\ UNCHANGED sendVars

Arrives ==
  \/ \E m \in fwd : MessageArrives(m)
  \/ /\ \E m \in back :
          /\ AnswerArrives(m)
          /\ \/ back' = back \ {m} /\ UNCHANGED faults
             \/ Fault /\ UNCHANGED back
     /\ UNCHANGED <<stream, snd, fwd, idOf, recvVars>>

Lost ==
  /\ Fault
  /\ \/ \E m \in fwd : fwd' = fwd \ {m} /\ UNCHANGED back
     \/ \E m \in back : back' = back \ {m} /\ UNCHANGED fwd
  /\ UNCHANGED <<sendVars, idOf, recvVars>>

-----------------------------------------------------------------------------
(* The receiver                                                             *)

ReaderStep ==
  /\ R!ReaderStep
  /\ back' = IF reader.pc # "answer" THEN back
             ELSE back \cup {Frame("Ack", idOf[reader.r], reader.ack.epoch, reader.ack.offset)}
  /\ UNCHANGED <<sendVars, fwd, idOf, faults>>

AckLoop(r) ==
  /\ R!AckLoop(r)
  /\ back' = IF recv[r].loop # "send" THEN back
             ELSE back \cup {Frame("Ack", idOf[r], recv[r].hand.epoch, recv[r].hand.offset)}
  /\ UNCHANGED <<sendVars, fwd, idOf, faults>>

(* The peer's program starts anew: its receivers are gone.                  *)
PeerRestarts ==
  /\ Fault
  /\ streamRecv' = [i \in 1 .. MaxStreams |-> R!None]
  /\ recv' = [r \in R!Recvs |->
       IF r > made THEN recv[r]
       ELSE [recv[r] EXCEPT !.stopped = TRUE, !.loop = "ended", !.wake = FALSE,
                            !.pending = R!NoAck, !.hand = R!NoAck]]
  /\ reader' = R!Resting
  /\ UNCHANGED <<sendVars, fwd, back, idOf, made, ctxDone>>

Next ==
  \/ Send \/ SendMore \/ Arrives \/ Lost \/ ReaderStep \/ PeerRestarts
  \/ \E r \in R!Recvs : AckLoop(r)

Spec == Init /\ [][Next]_vars

(* What was sent and not lost arrives; both ends go on; nobody has to send  *)
(* packets.                                                                 *)
Fairness ==
  /\ WF_vars(Send) /\ WF_vars(ReaderStep)
  /\ \A i \in 1 .. MaxStreams :
       /\ WF_vars(Arrives /\ \E m \in fwd : m.id = i /\ fwd' = fwd \ {m})
       /\ WF_vars(Arrives /\ \E m \in back : m.id = i /\ back' = back \ {m})
  /\ \A r \in R!Recvs : WF_vars(AckLoop(r))

FairSpec == Spec /\ Fairness

-----------------------------------------------------------------------------
(* Properties                                                               *)

(* What the sender counts as acknowledged, and forgets, one receiver of that *)
(* very stream has written to its TUN, up to there without a gap: whatever   *)
(* was lost, repeated, late or of a former stream, across Resumes and        *)
(* restarts of the peer.                                                    *)
AcknowledgedIsWritten ==
  port.sender.base > 0 =>
    \E r \in R!Recvs : idOf[r] = stream /\ recv[r].written >= port.sender.base

(* The stream has had one receiver, r, and still has it.                    *)
OnlyReceiver(r) ==
  /\ stream # 0 /\ streamRecv[stream] = r
  /\ \A q \in R!Recvs : idOf[q] = stream <=> q = r

(* Then a Resume finds it in step: it lacks nothing that the sender has      *)
(* forgotten, has nothing that was not sent, and is in no later epoch.       *)
ResumeLeavesNoGap ==
  \A r \in R!Recvs : OnlyReceiver(r) =>
    /\ port.sender.base <= recv[r].next /\ recv[r].next <= port.sender.next
    /\ recv[r].epoch <= port.epoch

(* Then, too, a path is ready only once the receiver has adopted its epoch:  *)
(* no late ACK of a former epoch passes for the answer to a Resume, and no   *)
(* Data is sent that the receiver would ignore (docs/stream-mode.md).        *)
ReadyMeansAdopted ==
  \A r \in R!Recvs : OnlyReceiver(r) /\ port.readyState => recv[r].epoch = port.epoch

(* The two ends of a stream are in step: what is acknowledged was written,   *)
(* offsets and epochs agree, and the sender never has more outstanding than  *)
(* the window it announced.                                                  *)
EndsInStep ==
  /\ AcknowledgedIsWritten /\ ResumeLeavesNoGap /\ ReadyMeansAdopted
  /\ port.sender.next - port.sender.base \in 0 .. Window

(* To the peer a stream is a log, and a new stream a new one: each receiver  *)
(* writes it from its beginning, in order, with no gap and nothing twice,    *)
(* and the sender forgets only what a receiver of this stream has written,   *)
(* whatever the network and the peer do.                                     *)
Log == INSTANCE StreamLog WITH
         Readers <- R!Recvs, log <- stream,
         length <- port.sender.next, forgotten <- port.sender.base,
         logOf <- idOf, read <- [r \in R!Recvs |-> recv[r].written]

StreamIsLog == Log!Spec

(* Once the faults are over, a stream is ready, and all it was given is      *)
(* acknowledged: also when a late Open of a former stream has removed its    *)
(* receiver, when the peer has forgotten it, or when the Resume was not      *)
(* answered ("let runStream Open a new ID", recoverStream).                  *)
StreamSettles ==
  <>[](stream # 0 /\ port.readyState /\ port.sender.base = port.sender.next)

=============================================================================
