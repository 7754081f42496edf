--------------------------- MODULE StreamLinkProofs ---------------------------
(***************************************************************************)
(* Theorems about StreamLink, for any number of streams, packets, epochs    *)
(* and faults: nothing is counted as acknowledged that was not written, and *)
(* the two ends of a stream are in step.  What one receiver keeps is proved *)
(* in StreamReceiverProofs and holds here too, restarts of the peer         *)
(* included.                                                                *)
(***************************************************************************)
EXTENDS StreamLink, TLAPS

RP == INSTANCE StreamReceiverProofs WITH Ids <- 1 .. MaxStreams, MaxOffset <- MaxPackets

-----------------------------------------------------------------------------
(* The inductive invariant                                                  *)

SenderHolds ==
  /\ stream \in 0 .. MaxStreams
  /\ port \in Port /\ port.epoch \in 1 .. MaxEpoch /\ port.sender.epoch = port.epoch
  /\ port.lastAck = port.sender.base /\ port.sender.window = Window
  /\ port.sender.base <= port.sender.next /\ port.sender.next <= MaxPackets
  /\ port.sender.next - port.sender.base <= Window
  /\ snd \in [pc : {"open", "waitOpen", "main", "recover", "waitResume"}, from : Nat, to : Nat]
  /\ snd.pc # "open" => stream > 0
  /\ snd.pc = "waitResume" => snd.to <= port.sender.next

(* Each receiver was made for one stream, and the map has it there.         *)
ReceiversKnown ==
  /\ idOf \in [R!Recvs -> 0 .. stream]
  /\ \A i \in 1 .. MaxStreams : streamRecv[i] # R!None => idOf[streamRecv[i]] = i
  /\ \A r \in R!Recvs : IF r <= made THEN idOf[r] # 0
                         ELSE idOf[r] = 0 /\ recv[r] = R!NewReceiver
  /\ \A r \in R!Recvs : /\ recv[r].pending.epoch <= recv[r].epoch
                        /\ recv[r].hand.epoch <= recv[r].epoch

(* No receiver of the stream is ahead of its sender.                        *)
NoneAhead ==
  \A r \in R!Recvs : idOf[r] = stream =>
    recv[r].next <= port.sender.next /\ recv[r].epoch <= port.epoch

(* Nor is what is on its way to it.                                         *)
Forward(m) ==
  /\ m.id \in 1 .. stream /\ m.epoch \in 1 .. MaxEpoch /\ m.offset \in 0 .. MaxPackets
  /\ m.kind = "Open" => m.epoch = 1
  /\ m.kind = "Data" => m.offset + 1 <= MaxPackets
  /\ m.id = stream =>
       m.epoch <= port.epoch /\ (m.kind = "Data" => m.offset + 1 <= port.sender.next)

(* What an answer says, some receiver of its stream has done.               *)
Done(id, epoch, offset) ==
  /\ id > 0
  /\ \E r \in R!Recvs : /\ idOf[r] = id
                        /\ recv[r].epoch >= epoch /\ recv[r].written >= offset

Backward(m) ==
  /\ m.id \in 1 .. stream /\ m.epoch \in Nat /\ m.offset \in Nat
  /\ m.kind = "OpenAck" => m.epoch = 1
  /\ m.kind = "Ack" => Done(m.id, m.epoch, m.offset)

(* So too what the port was told.                                           *)
PortToldTruth ==
  /\ port.sender.base > 0 => Done(stream, 0, port.sender.base)
  /\ (port.readyState \/ port.resumeTok) /\ port.epoch > 1 => Done(stream, port.epoch, 0)

LinkInv ==
  /\ RP!ReceiverInv /\ SenderHolds /\ ReceiversKnown /\ NoneAhead /\ PortToldTruth
  /\ \A m \in fwd : Forward(m)
  /\ \A m \in back : Backward(m)

-----------------------------------------------------------------------------
(* The port's methods                                                       *)

LEMMA SessionChosen == Session \in AnySession
<1>1. \E s \in Sessions : TRUE
  BY LinkAssumption
<1>2. Session \in Sessions
  BY <1>1, Zenon DEF Session
<1>3. QED
  BY <1>2 DEF AnySession

LEMMA OpeningPort ==
  LET p == BeginOpen(NewPort, Session)
  IN  /\ p \in Port /\ p.epoch = 1 /\ p.sender.epoch = 1
      /\ p.lastAck = 0 /\ p.sender.base = 0 /\ p.sender.next = 0 /\ p.sender.window = Window
      /\ p.readyState = FALSE /\ p.resumeTok = FALSE
<1>1. /\ NewPort \in Port /\ NewPort.epoch = 1 /\ NewPort.lastAck = 0 /\ NewPort.ready = 0
      /\ NewPort.resumeTok = FALSE
      /\ NewPort.sender = [epoch |-> 1, base |-> 0, next |-> 0, window |-> Window]
  BY WindowAssumption DEF NewPort, Port, Sender, AnySession
<1>2. PICK s \in AnySession : s = Session
  BY SessionChosen
<1>3. BeginOpen(NewPort, Session) =
        [NewPort EXCEPT !.target = s, !.readyState = FALSE, !.ready = 1,
                        !.resumeReady = FALSE, !.attemptErr = FALSE]
  BY <1>1, <1>2 DEF BeginOpen, Port
<1>4. /\ BeginOpen(NewPort, Session) \in Port
      /\ \A f \in {"epoch", "lastAck", "resumeTok", "sender"} :
           BeginOpen(NewPort, Session)[f] = NewPort[f]
      /\ BeginOpen(NewPort, Session).readyState = FALSE
  BY <1>1, <1>3 DEF Port
<1>5. QED
  BY <1>1, <1>4

(* What taking a path down, finishing a Resume and an OpenAck leave alone.  *)
SameData(p, q) ==
  /\ q \in Port /\ q.epoch = p.epoch /\ q.sender = p.sender
  /\ q.lastAck = p.lastAck /\ q.resumeTok = p.resumeTok

LEMMA TakeDownData ==
  ASSUME NEW p \in Port
  PROVE  SameData(p, TakeDown(p, TRUE)) /\ ~TakeDown(p, TRUE).readyState
<1>1. CASE p.readyState
  <2>1. PICK n \in Nat : n = p.ready + 1
    BY DEF Port
  <2>2. TakeDown(p, TRUE) = [p EXCEPT !.readyState = FALSE, !.ready = n]
    BY <1>1, <2>1 DEF TakeDown, Port
  <2>3. QED
    BY <2>2 DEF SameData, Port
<1>2. CASE ~p.readyState
  <2>1. TakeDown(p, TRUE) = [p EXCEPT !.attemptErr = TRUE]
    BY <1>2 DEF TakeDown, Port
  <2>2. QED
    BY <1>2, <2>1 DEF SameData, Port
<1>3. QED
  BY <1>1, <1>2

LEMMA BecomeReadyData ==
  ASSUME NEW p \in Port
  PROVE  SameData(p, BecomeReady(p))
<1>1. PICK c \in SUBSET Nat : c = p.closed \cup {p.ready}
  BY DEF Port
<1>2. BecomeReady(p) = [p EXCEPT !.readyState = TRUE, !.closed = c]
  BY <1>1 DEF BecomeReady
<1>3. QED
  BY <1>2 DEF SameData, Port

LEMMA CompleteResumeData ==
  ASSUME NEW p \in Port, NEW e
  PROVE  /\ SameData(p, CompleteResume(p, Session, e))
         /\ CompleteResume(p, Session, e).readyState => p.readyState \/ ResumeComplete(p, Session, e)
<1>1. CASE ResumeComplete(p, Session, e)
  BY <1>1, BecomeReadyData DEF CompleteResume
<1>2. CASE ~ResumeComplete(p, Session, e)
  <2>1. PICK w \in BOOLEAN :
          w = (p.attemptErr /\ ~(Aims(p, Session, e) /\ ~p.readyState /\ ~p.resumeReady))
    OBVIOUS
  <2>2. CompleteResume(p, Session, e) = [p EXCEPT !.attemptErr = w]
    BY <1>2, <2>1 DEF CompleteResume, Port
  <2>3. QED
    BY <2>2 DEF SameData, Port
<1>3. QED
  BY <1>1, <1>2

LEMMA AcknowledgeData ==
  ASSUME NEW p \in Port, NEW n \in Nat
  PROVE  LET q == Acknowledge(p, n, Window)
         IN  /\ q \in Port /\ q.epoch = p.epoch /\ q.sender.epoch = p.sender.epoch
             /\ q.sender.next = p.sender.next /\ q.sender.window = Window
             /\ q.sender.base = Larger(p.sender.base, n) /\ q.lastAck = Larger(p.lastAck, n)
             /\ q.readyState = p.readyState
<1>1. PICK w \in Nat \ {0} : w = Window
  BY WindowAssumption
<1>2. PICK t \in BOOLEAN : t = (p.resumeTok \/ p.resumeReady)
  OBVIOUS
<1>3. PICK b \in Nat, a \in Nat : b = Larger(p.sender.base, n) /\ a = Larger(p.lastAck, n)
  BY DEF Larger, Port, Sender
<1>4. Acknowledge(p, n, Window) =
        [p EXCEPT !.sender = [p.sender EXCEPT !.base = b, !.window = w],
                  !.lastAck = a, !.lastWindow = w, !.wake = TRUE,
                  !.resumeTok = t, !.resumeReady = FALSE]
  <2>1. w > 0 /\ p.sender \in Sender
    BY DEF Port
  <2>2. [p.sender EXCEPT !.base = b, !.window = w]
          = [[p.sender EXCEPT !.base = Larger(@, n)] EXCEPT !.window = IF Window > 0 THEN Window ELSE @]
    BY <1>1, <1>3, <2>1 DEF Sender
  <2>3. QED
    BY <1>1, <1>2, <1>3, <2>1, <2>2 DEF Acknowledge, Port
<1> DEFINE x == [p.sender EXCEPT !.base = b, !.window = w]
<1>5. /\ x \in Sender /\ x.epoch = p.sender.epoch /\ x.next = p.sender.next
      /\ x.base = b /\ x.window = w
  BY DEF Port, Sender
<1>6. Acknowledge(p, n, Window) =
        [p EXCEPT !.sender = x, !.lastAck = a, !.lastWindow = w, !.wake = TRUE,
                  !.resumeTok = t, !.resumeReady = FALSE]
  BY <1>4
<1> HIDE DEF x
<1> DEFINE q == Acknowledge(p, n, Window)
<1>7. q \in Port
  BY ZenonT(40), <1>1, <1>3, <1>5, <1>6 DEF Port
<1>8. q.epoch = p.epoch /\ q.sender = x /\ q.lastAck = a /\ q.readyState = p.readyState
  BY <1>6 DEF Port
<1> HIDE DEF q
<1>9. QED
  BY <1>1, <1>3, <1>5, <1>7, <1>8 DEF q

-----------------------------------------------------------------------------
(* The sender and the network                                               *)

LEMMA BoundsTyped ==
  /\ MaxStreams \in Nat /\ MaxReceivers \in Nat /\ MaxEpoch \in Nat /\ MaxPackets \in Nat
  /\ Window \in Nat \ {0}
BY LinkAssumption, WindowAssumption

LEMMA ReceiversTyped ==
  ASSUME LinkInv, NEW r \in R!Recvs
  PROVE  /\ recv[r] \in RP!Receiver
         /\ recv[r].epoch \in 1 .. MaxEpoch
         /\ recv[r].next \in 0 .. MaxPackets /\ recv[r].written \in 0 .. MaxPackets
BY DEF LinkInv, RP!ReceiverInv, RP!TypeOK, RP!Receiver, RP!Recvs, R!Recvs

(* What the sender has told stays true when it goes on, or opens the next   *)
(* stream.                                                                  *)
LEMMA SenderMoves ==
  ASSUME LinkInv, UNCHANGED <<idOf, recvVars>>, SenderHolds', PortToldTruth',
         \/ /\ stream' = stream /\ port.epoch <= port'.epoch
            /\ port.sender.next <= port'.sender.next
         \/ stream' = stream + 1,
         \A m \in fwd' \ fwd : Forward(m)', back' \subseteq back
  PROVE  LinkInv'
<1> USE DEF LinkInv
<1>1. RP!ReceiverInv'
  BY DEF recvVars, RP!ReceiverInv, RP!TypeOK, RP!ReaderHolds, RP!AcceptedIsWritten,
     RP!AckFollowsWrite, RP!PendingAckIsNewest, RP!RemovedIsStopped, RP!StoppedHasNoAck,
     RP!Removed
<1>2. /\ stream \in Nat /\ stream' \in Nat /\ stream <= stream'
      /\ port.epoch \in Nat /\ port'.epoch \in Nat
      /\ port.sender.next \in Nat /\ port'.sender.next \in Nat
  BY BoundsTyped DEF SenderHolds, Port, Sender
<1>3. ReceiversKnown'
  BY <1>2 DEF ReceiversKnown, recvVars
<1>4. NoneAhead'
  <2> SUFFICES ASSUME NEW r \in R!Recvs, idOf[r] = stream'
               PROVE  recv[r].next <= port'.sender.next /\ recv[r].epoch <= port'.epoch
    BY DEF NoneAhead, recvVars
  <2>1. idOf[r] \in 0 .. stream /\ stream' = stream
    BY <1>2 DEF ReceiversKnown
  <2>2. recv[r].next <= port.sender.next /\ recv[r].epoch <= port.epoch
    BY <2>1 DEF NoneAhead
  <2>3. recv[r].next \in Nat /\ recv[r].epoch \in Nat
    BY ReceiversTyped, BoundsTyped
  <2>4. QED
    BY <1>2, <2>1, <2>2, <2>3
<1>5. ASSUME NEW m \in fwd
      PROVE  Forward(m)'
  <2>1. Forward(m)
    OBVIOUS
  <2>2. CASE stream' = stream + 1
    <3>1. m.id \in 1 .. stream' /\ m.id # stream'
      BY <1>2, <2>1, <2>2 DEF Forward
    <3>2. QED
      BY <2>1, <3>1 DEF Forward
  <2>3. CASE stream' = stream
    <3>1. m.epoch <= port.epoch => m.epoch <= port'.epoch
      BY <1>2, <2>1, <2>3, BoundsTyped DEF Forward
    <3>2. m.kind = "Data" /\ m.offset + 1 <= port.sender.next => m.offset + 1 <= port'.sender.next
      BY <1>2, <2>1, <2>3, BoundsTyped DEF Forward
    <3>3. QED
      BY <2>1, <2>3, <3>1, <3>2 DEF Forward
  <2>4. QED
    BY <2>2, <2>3
<1>6. ASSUME NEW m \in back
      PROVE  Backward(m)'
  BY <1>2 DEF Backward, Done, recvVars
<1>7. QED
  BY <1>1, <1>3, <1>4, <1>5, <1>6

(* Steps of the sender that send nothing and frame nothing.                 *)
LEMMA PathMoves ==
  ASSUME LinkInv, UNCHANGED <<stream, idOf, recvVars>>, fwd' \subseteq fwd, back' \subseteq back,
         SameData(port, port'), port'.readyState => port.readyState \/ port.epoch = 1 \/ port.resumeTok,
         \/ snd' = snd \/ snd' = [snd EXCEPT !.pc = "open"]
         \/ /\ snd.pc # "open"
            /\ snd' = [snd EXCEPT !.pc = "main"] \/ snd' = [snd EXCEPT !.pc = "recover"]
  PROVE  LinkInv'
<1>1. SenderHolds /\ PortToldTruth
  BY DEF LinkInv
<1>2. SenderHolds'
  <2>1. /\ stream' = stream /\ port' \in Port /\ port'.epoch = port.epoch
        /\ port'.sender = port.sender /\ port'.lastAck = port.lastAck
    BY DEF SameData
  <2>2. /\ snd' \in [pc : {"open", "waitOpen", "main", "recover", "waitResume"},
                    from : Nat, to : Nat]
        /\ snd'.pc # "open" => stream > 0
        /\ snd'.pc = "waitResume" => snd'.to <= port.sender.next
    <3>1. /\ snd \in [pc : {"open", "waitOpen", "main", "recover", "waitResume"},
                     from : Nat, to : Nat]
          /\ snd.pc # "open" => stream > 0
          /\ snd.pc = "waitResume" => snd.to <= port.sender.next
      BY <1>1 DEF SenderHolds
    <3>2. CASE snd' = snd
      BY <3>1, <3>2
    <3>3. CASE snd' = [snd EXCEPT !.pc = "open"]
      BY <3>1, <3>3
    <3>4. CASE snd' = [snd EXCEPT !.pc = "main"] \/ snd' = [snd EXCEPT !.pc = "recover"]
      BY <3>1, <3>4
    <3>5. QED
      BY <3>2, <3>3, <3>4
  <2>3. QED
    BY <1>1, <2>1, <2>2 DEF SenderHolds
<1>3. PortToldTruth'
  BY <1>1 DEF PortToldTruth, SameData, Done, SenderHolds, recvVars
<1>4. port.epoch <= port'.epoch /\ port.sender.next <= port'.sender.next
  BY <1>1 DEF SenderHolds, SameData, Port, Sender
<1>5. QED
  BY <1>2, <1>3, <1>4, SenderMoves

LEMMA OpenKeeps ==
  ASSUME LinkInv, Open, UNCHANGED <<idOf, recvVars>>
  PROVE  LinkInv'
<1>1. PICK id \in 1 .. MaxStreams :
        /\ id = stream + 1 /\ snd' = [snd EXCEPT !.pc = "waitOpen"]
        /\ stream' = id /\ port' = BeginOpen(NewPort, Session) /\ back' = back
        /\ fwd' = fwd \cup {Frame("Open", id, 1, 0)}
  BY BoundsTyped DEF LinkInv, SenderHolds, Open, Goto
<1>2. SenderHolds'
  BY <1>1, OpeningPort, BoundsTyped, LinkAssumption DEF LinkInv, SenderHolds
<1>3. PortToldTruth'
  BY <1>1, OpeningPort DEF PortToldTruth
<1> DEFINE m == Frame("Open", id, 1, 0)
<1>4. m.kind = "Open" /\ m.id = id /\ m.epoch = 1 /\ m.offset = 0
  BY DEF Frame
<1>5. Forward(m)'
  BY <1>1, <1>4, OpeningPort, BoundsTyped, LinkAssumption DEF Forward
<1>6. fwd' = fwd \cup {m}
  BY <1>1
<1> HIDE DEF m
<1>7. QED
  BY <1>1, <1>2, <1>3, <1>5, <1>6, SenderMoves

LEMMA SendDataKeeps ==
  ASSUME LinkInv, SendData, UNCHANGED <<idOf, recvVars>>
  PROVE  LinkInv'
<1>1. SenderHolds /\ PortToldTruth
  BY DEF LinkInv
<1>2. PICK n \in Nat, b \in Nat : n = port.sender.next /\ b = port.sender.base
  BY <1>1 DEF SenderHolds, Port, Sender
<1>3. /\ n < MaxPackets /\ n - b + 1 <= Window /\ b <= n
      /\ fwd' = fwd \cup {Frame("Data", stream, port.epoch, n)}
      /\ UNCHANGED <<stream, snd, back>> /\ snd.pc = "main"
  BY <1>1, <1>2 DEF SendData, HasCredit, SenderHolds
<1>4. port' = [port EXCEPT !.sender = [port.sender EXCEPT !.next = n + 1], !.lastSent = n + 1]
  BY <1>1, <1>2 DEF SendData, DataForReadyPath, SenderHolds, Port, Sender
<1>5. /\ port' \in Port /\ port'.epoch = port.epoch /\ port'.sender.epoch = port.sender.epoch
      /\ port'.sender.next = n + 1 /\ port'.sender.base = b
      /\ port'.lastAck = port.lastAck /\ port'.sender.window = port.sender.window
      /\ port'.readyState = port.readyState /\ port'.resumeTok = port.resumeTok
  <2>1. /\ port \in Port /\ port.sender \in Sender /\ n + 1 \in Nat
    BY <1>1 DEF SenderHolds, Port
  <2> DEFINE x == [port.sender EXCEPT !.next = n + 1]
  <2>2. /\ x \in Sender /\ x.epoch = port.sender.epoch /\ x.next = n + 1
        /\ x.base = port.sender.base /\ x.window = port.sender.window
    BY <2>1 DEF Sender
  <2> HIDE DEF x
  <2>3. port' = [port EXCEPT !.sender = x, !.lastSent = n + 1]
    BY <1>4 DEF x
  <2>4. QED
    BY <1>2, <2>1, <2>2, <2>3 DEF Port
<1>6. SenderHolds'
  BY <1>1, <1>2, <1>3, <1>5, BoundsTyped DEF SenderHolds
<1>7. PortToldTruth'
  BY <1>1, <1>2, <1>3, <1>5 DEF PortToldTruth, Done, recvVars
<1> DEFINE m == Frame("Data", stream, port.epoch, n)
<1>8. PICK id \in Nat, e \in Nat : id = stream /\ e = port.epoch /\ id > 0
  <2>1. stream \in Nat /\ stream > 0
    BY <1>1, <1>3, BoundsTyped DEF SenderHolds
  <2>2. port.epoch \in Nat
    BY <1>1 DEF SenderHolds, Port
  <2>3. QED
    BY <2>1, <2>2
<1>9. Forward(Frame("Data", id, e, n))'
  BY <1>1, <1>2, <1>3, <1>5, <1>8, BoundsTyped DEF Forward, Frame, SenderHolds
<1>10. \A x \in fwd' \ fwd : Forward(x)'
  BY <1>3, <1>8, <1>9
<1>11. port.epoch <= port'.epoch /\ port.sender.next <= port'.sender.next
  BY <1>1, <1>2, <1>5, BoundsTyped DEF SenderHolds
<1>12. QED
  BY <1>3, <1>6, <1>7, <1>10, <1>11, SenderMoves

(* A Resume goes back to what was acknowledged.                             *)
LEMMA ResumeKeeps ==
  ASSUME LinkInv, Resume, UNCHANGED <<idOf, recvVars>>
  PROVE  LinkInv'
<1>1. SenderHolds /\ PortToldTruth
  BY DEF LinkInv
<1>2. PICK e \in 1 .. MaxEpoch, a \in Nat, t \in Nat :
        /\ e = port.epoch + 1 /\ a = port.lastAck /\ t = port.sender.next
        /\ port' = SenderResume(BeginResume(port, Session, e), e)
        /\ fwd' = fwd \cup {Frame("Resume", stream, e, a)}
        /\ snd' = [pc |-> "waitResume", from |-> a, to |-> t]
        /\ UNCHANGED <<stream, back>> /\ snd.pc = "recover"
  <2>1. port.epoch + 1 \in 1 .. MaxEpoch /\ port.lastAck \in Nat /\ port.sender.next \in Nat
    <3>1. port.epoch \in 1 .. MaxEpoch /\ port.epoch < MaxEpoch
      BY <1>1 DEF SenderHolds, Resume
    <3>2. port.lastAck \in Nat /\ port.sender.next \in Nat
      BY <1>1 DEF SenderHolds, Port, Sender
    <3>3. QED
      BY <3>1, <3>2, BoundsTyped
  <2>2. port'.sender.next = port.sender.next
    BY <1>1 DEF SenderHolds, Resume, SenderResume, BeginResume, Port, Sender
  <2>3. QED
    BY <2>1, <2>2 DEF Resume
<1>3. PICK n \in Nat : n = IF port.readyState THEN port.ready + 1 ELSE port.ready
  BY <1>1 DEF SenderHolds, Port
<1> DEFINE x == [port.sender EXCEPT !.epoch = e]
<1>15. PICK s \in AnySession : s = Session
  BY SessionChosen
<1>4. port' = [port EXCEPT !.target = s, !.epoch = e, !.readyState = FALSE, !.ready = n,
                           !.resumeReady = TRUE, !.resumeTok = FALSE, !.attemptErr = FALSE,
                           !.sender = x]
  BY <1>1, <1>2, <1>3, <1>15 DEF SenderResume, BeginResume, SenderHolds, Port
<1>5. /\ x \in Sender /\ x.epoch = e /\ x.next = t /\ x.base = a /\ x.window = Window
  BY <1>1, <1>2 DEF SenderHolds, Port, Sender
<1> HIDE DEF x
<1>6. /\ port' \in Port /\ port'.epoch = e /\ port'.sender = x /\ port'.lastAck = a
      /\ ~port'.readyState /\ ~port'.resumeTok
  <2>1. port \in Port /\ port.lastAck = a
    BY <1>1, <1>2 DEF SenderHolds
  <2>2. e \in Nat
    BY BoundsTyped
  <2>3. QED
    BY <1>4, <1>5, <2>1, <2>2 DEF Port
<1>7. a <= t /\ t <= MaxPackets /\ t - a <= Window /\ stream > 0 /\ stream \in 0 .. MaxStreams
  BY <1>1, <1>2 DEF SenderHolds
<1>8. SenderHolds'
  BY <1>2, <1>5, <1>6, <1>7 DEF SenderHolds
<1>9. PortToldTruth'
  BY <1>1, <1>2, <1>5, <1>6 DEF PortToldTruth, Done, recvVars, SenderHolds
<1>10. PICK id \in Nat : id = stream /\ id > 0
  BY <1>7, BoundsTyped
<1>11. Forward(Frame("Resume", id, e, a))'
  BY <1>2, <1>6, <1>7, <1>10, BoundsTyped DEF Forward, Frame
<1>12. \A m \in fwd' \ fwd : Forward(m)'
  BY <1>2, <1>10, <1>11
<1>13. port.epoch <= port'.epoch /\ port.sender.next <= port'.sender.next
  BY <1>1, <1>2, <1>5, <1>6, BoundsTyped DEF SenderHolds
<1>14. QED
  BY <1>2, <1>8, <1>9, <1>12, <1>13, SenderMoves

(* The replay is of what was framed before.                                 *)
LEMMA ResumedKeeps ==
  ASSUME LinkInv, Resumed, UNCHANGED <<idOf, recvVars>>
  PROVE  LinkInv'
<1>1. SenderHolds /\ PortToldTruth
  BY DEF LinkInv
<1>2. PICK id \in Nat, e \in Nat, a \in Nat, t \in Nat :
        /\ id = stream /\ e = port.epoch /\ a = snd.from /\ t = snd.to
        /\ id > 0 /\ t <= port.sender.next
  BY <1>1, BoundsTyped DEF SenderHolds, Resumed
<1>3. /\ snd.pc = "waitResume" /\ port.resumeTok /\ UNCHANGED <<stream, back>>
      /\ fwd' = fwd \cup {Frame("Data", id, e, o) : o \in a .. t - 1}
      /\ port' = CompleteResume(port, Session, port.epoch)
      /\ snd' = [snd EXCEPT !.pc = IF port'.readyState THEN "main" ELSE "recover"]
  BY <1>2 DEF Resumed, Goto
<1>4. SameData(port, port')
  BY <1>1, <1>3, CompleteResumeData DEF SenderHolds
<1>5. SenderHolds'
  BY <1>1, <1>3, <1>4 DEF SenderHolds, SameData
<1>6. PortToldTruth'
  BY <1>1, <1>3, <1>4 DEF PortToldTruth, SameData, Done, recvVars
<1>7. ASSUME NEW o \in a .. t - 1
      PROVE  Forward(Frame("Data", id, e, o))'
  <2>1. o \in Nat /\ o + 1 <= port.sender.next
    <3>1. port.sender.next \in Nat
      BY <1>1 DEF SenderHolds, Port, Sender
    <3>2. QED
      BY <1>2, <3>1
  <2>2. /\ port'.sender.next = port.sender.next /\ port'.epoch = e /\ stream' = id
        /\ port.sender.next <= MaxPackets /\ e \in 1 .. MaxEpoch /\ port.sender.next \in Nat
    BY <1>1, <1>2, <1>3, <1>4 DEF SameData, SenderHolds, Port, Sender
  <2>3. QED
    BY <1>2, <2>1, <2>2, BoundsTyped DEF Forward, Frame
<1>8. \A m \in fwd' \ fwd : Forward(m)'
  BY <1>3, <1>7
<1>9. port.epoch <= port'.epoch /\ port.sender.next <= port'.sender.next
  BY <1>1, <1>4 DEF SenderHolds, SameData, Port, Sender
<1>10. QED
  BY <1>3, <1>5, <1>6, <1>8, <1>9, SenderMoves

LEMMA PathStepsKeep ==
  ASSUME LinkInv, Opened \/ OpenTimesOut \/ Stalled \/ PathLost \/ ResumeTimesOut,
         UNCHANGED <<idOf, recvVars>>
  PROVE  LinkInv'
<1>1. port \in Port
  BY DEF LinkInv, SenderHolds
<1>2. SameData(port, port)
  BY <1>1 DEF SameData
<1>3. CASE Opened
  BY <1>2, <1>3, PathMoves DEF Opened, Goto
<1>4. CASE OpenTimesOut \/ ResumeTimesOut
  BY <1>2, <1>4, PathMoves DEF OpenTimesOut, ResumeTimesOut, Goto
<1>5. CASE Stalled \/ PathLost
  <2>1. port' = TakeDown(port, TRUE)
    BY <1>5 DEF Stalled, PathLost, FailPathIfAckUnchanged, MarkPathLostWithError
  <2>2. SameData(port, port') /\ ~port'.readyState
    BY <1>1, <2>1, TakeDownData
  <2>3. /\ UNCHANGED <<stream, fwd, back>> /\ snd.pc # "open"
        /\ snd' = [snd EXCEPT !.pc = "recover"]
    BY <1>5 DEF Stalled, PathLost, Goto
  <2>4. QED
    BY <2>2, <2>3, PathMoves
<1>6. QED
  BY <1>3, <1>4, <1>5

LEMMA LostKeeps ==
  ASSUME LinkInv, Lost
  PROVE  LinkInv'
<1>1. SameData(port, port')
  BY DEF LinkInv, SenderHolds, SameData, Lost, sendVars
<1>2. fwd' \subseteq fwd /\ back' \subseteq back
  BY DEF Lost
<1>3. QED
  BY <1>1, <1>2, PathMoves DEF Lost, sendVars

LEMMA DoneLess ==
  ASSUME LinkInv, NEW id, NEW e \in Nat, NEW o \in Nat, Done(id, e, o)
  PROVE  Done(id, e, 0) /\ Done(id, 0, o)
BY ReceiversTyped, BoundsTyped DEF Done

(* An answer that is accepted tells the truth.                              *)
LEMMA AnswerKeeps ==
  ASSUME LinkInv, NEW m \in back, AnswerArrives(m), back' \subseteq back,
         UNCHANGED <<stream, snd, fwd, idOf, recvVars>>
  PROVE  LinkInv'
<1>1. SenderHolds /\ PortToldTruth /\ Backward(m)
  BY DEF LinkInv
<1>2. CASE ForStream(m) /\ m.kind = "OpenAck" /\ OpenAckAccepted(port, Session, m.epoch)
  <2>1. SameData(port, port') /\ port.epoch = 1
    BY <1>1, <1>2, BecomeReadyData
       DEF AnswerArrives, AcceptOpenAck, OpenAckAccepted, Aims, Backward, SenderHolds
  <2>2. QED
    BY <2>1, PathMoves
<1>3. CASE ForStream(m) /\ m.kind = "Ack" /\ AckAccepted(port, Session, m.epoch, m.offset)
  <2>1. PICK o \in Nat, n \in Nat, b \in Nat :
          /\ o = m.offset /\ n = port.sender.next /\ b = port.sender.base
          /\ o <= n /\ Done(stream, port.epoch, o) /\ b <= n /\ n - b <= Window
    BY <1>1, <1>3 DEF Backward, SenderHolds, Port, Sender, AckAccepted, Aims, ForStream
  <2>2. port' = Acknowledge(port, o, Window)
    BY <1>3, <2>1 DEF AnswerArrives
  <2>3. PICK c \in Nat : c = Larger(b, o) /\ c <= n /\ n - c <= Window /\ (c = b \/ c = o)
    BY <2>1, BoundsTyped DEF Larger
  <2>4. /\ port' \in Port /\ port'.epoch = port.epoch /\ port'.sender.epoch = port.sender.epoch
        /\ port'.sender.next = n /\ port'.sender.window = Window
        /\ port'.sender.base = c /\ port'.lastAck = c
    <3>1. port \in Port /\ port.lastAck = b /\ port.sender.base = b
      BY <1>1, <2>1 DEF SenderHolds
    <3>2. /\ port' \in Port /\ port'.epoch = port.epoch
          /\ port'.sender.epoch = port.sender.epoch
          /\ port'.sender.next = port.sender.next /\ port'.sender.window = Window
          /\ port'.sender.base = Larger(port.sender.base, o)
          /\ port'.lastAck = Larger(port.lastAck, o)
      BY <2>2, <3>1, AcknowledgeData
    <3>3. QED
      BY <2>1, <2>3, <3>1, <3>2
  <2>5. SenderHolds'
    BY <1>1, <2>1, <2>3, <2>4 DEF SenderHolds
  <2>6. PortToldTruth'
    <3>1. port.epoch \in Nat
      BY <1>1 DEF SenderHolds, Port
    <3>2. c > 0 => Done(stream, 0, c)
      BY <1>1, <2>1, <2>3, <3>1, DoneLess DEF PortToldTruth
    <3>3. Done(stream, port.epoch, 0)
      BY <2>1, <3>1, DoneLess
    <3>4. \A id, e, k : Done(id, e, k) => Done(id, e, k)'
      BY DEF Done, recvVars
    <3>5. QED
      BY <2>4, <3>2, <3>3, <3>4 DEF PortToldTruth, Done, recvVars
  <2>7. port.epoch <= port'.epoch /\ port.sender.next <= port'.sender.next
    BY <1>1, <2>1, <2>4 DEF SenderHolds, Port
  <2>8. QED
    BY <2>5, <2>6, <2>7, SenderMoves
<1>4. CASE port' = port
  BY <1>1, <1>4, PathMoves DEF SameData, SenderHolds
<1>5. QED
  BY <1>2, <1>3, <1>4 DEF AnswerArrives

-----------------------------------------------------------------------------
(* The receiver                                                             *)

(* Both instances of StreamReceiver say the same.                           *)
LEMMA SameReceiver ==
  /\ R!Recvs = RP!Recvs /\ R!None = RP!None /\ R!NewReceiver = RP!NewReceiver
  /\ R!NoAck = RP!NoAck
  /\ \A i : R!OnOpen(i) <=> RP!OnOpen(i)
  /\ \A i, e, o : R!OnData(i, e, o) <=> RP!OnData(i, e, o)
  /\ \A i, e, o : R!OnResume(i, e, o) <=> RP!OnResume(i, e, o)
  /\ R!ReaderStep <=> RP!ReaderStep
  /\ \A r : R!AckLoop(r) <=> RP!AckLoop(r)
<1>1. /\ R!Recvs = RP!Recvs /\ R!None = RP!None /\ R!NewReceiver = RP!NewReceiver
      /\ R!NoAck = RP!NoAck /\ R!Resting = RP!Resting
  BY DEF R!Recvs, RP!Recvs, R!None, RP!None, R!NewReceiver, RP!NewReceiver,
     R!NoAck, RP!NoAck, R!Resting, RP!Resting
<1>2. \A r : R!StopAcks(r) = RP!StopAcks(r)
  BY Zenon, <1>1 DEF R!StopAcks, RP!StopAcks
<1>3. \A r, o : R!Acknowledged(r, o) = RP!Acknowledged(r, o)
  BY Zenon DEF R!Acknowledged, RP!Acknowledged, R!Larger, RP!Larger
<1>4. \A i : R!OnOpen(i) <=> RP!OnOpen(i)
  BY Zenon, <1>1, <1>2 DEF R!OnOpen, RP!OnOpen, R!Arrives, RP!Arrives
<1>5. \A i, e, o : R!OnData(i, e, o) <=> RP!OnData(i, e, o)
  BY ZenonT(40), <1>1 DEF R!OnData, RP!OnData, R!Arrives, RP!Arrives, R!DataAccepted, RP!DataAccepted,
     R!Larger, RP!Larger
<1>6. \A i, e, o : R!OnResume(i, e, o) <=> RP!OnResume(i, e, o)
  BY Zenon, <1>1 DEF R!OnResume, RP!OnResume, R!Arrives, RP!Arrives,
     R!ResumeAccepted, RP!ResumeAccepted
<1>7. R!ReaderStep <=> RP!ReaderStep
  BY Zenon, <1>1, <1>2, <1>3
     DEF R!ReaderStep, RP!ReaderStep, R!WriteTUN, RP!WriteTUN, R!QueueAck, RP!QueueAck,
     R!DropPendingAck, RP!DropPendingAck, R!AnswerResume, RP!AnswerResume,
     R!StopReceiver, RP!StopReceiver
<1>8. \A r : R!AckLoop(r) <=> RP!AckLoop(r)
  BY Zenon, <1>1, <1>3
     DEF R!AckLoop, RP!AckLoop, R!AckLoopWakes, RP!AckLoopWakes,
     R!AckLoopCancelled, RP!AckLoopCancelled, R!TakeAck, RP!TakeAck, R!SendAck, RP!SendAck
<1>9. QED
  BY <1>1, <1>4, <1>5, <1>6, <1>7, <1>8

LEMMA ReceiverBounds == MaxReceivers \in Nat /\ MaxEpoch \in Nat \ {0} /\ MaxPackets \in Nat
BY LinkAssumption

LEMMA ReceiverUnchanged ==
  ASSUME RP!ReceiverInv, UNCHANGED recvVars
  PROVE  RP!ReceiverInv'
BY DEF recvVars, RP!ReceiverInv, RP!TypeOK, RP!ReaderHolds, RP!AcceptedIsWritten,
   RP!AckFollowsWrite, RP!PendingAckIsNewest, RP!RemovedIsStopped, RP!StoppedHasNoAck,
   RP!Removed

(* What a receiver has done it has done.                                    *)
LEMMA ReceiverMoves ==
  ASSUME LinkInv, UNCHANGED sendVars, RP!ReceiverInv', ReceiversKnown', NoneAhead',
         fwd' \subseteq fwd,
         \A r \in R!Recvs : idOf[r] # 0 =>
           /\ idOf'[r] = idOf[r]
           /\ recv[r].epoch <= recv'[r].epoch /\ recv[r].written <= recv'[r].written,
         \A m \in back' \ back : Backward(m)'
  PROVE  LinkInv'
<1>1. SenderHolds'
  BY DEF LinkInv, SenderHolds, sendVars
<1>2. ASSUME NEW id, NEW e \in Nat, NEW o \in Nat, Done(id, e, o)
      PROVE  Done(id, e, o)'
  <2>1. PICK r \in R!Recvs : idOf[r] = id /\ id > 0 /\ recv[r].epoch >= e /\ recv[r].written >= o
    BY <1>2 DEF Done
  <2>2. /\ recv[r].epoch \in Nat /\ recv[r].written \in Nat
        /\ recv'[r].epoch \in Nat /\ recv'[r].written \in Nat
    <3>1. recv'[r] \in RP!Receiver
      BY DEF RP!ReceiverInv, RP!TypeOK, RP!Recvs, R!Recvs
    <3>2. recv'[r].epoch \in 1 .. MaxEpoch /\ recv'[r].written \in 0 .. MaxPackets
      BY <3>1 DEF RP!Receiver
    <3>3. QED
      BY <3>2, ReceiversTyped, BoundsTyped
  <2>3. idOf'[r] = id /\ recv[r].epoch <= recv'[r].epoch /\ recv[r].written <= recv'[r].written
    BY <2>1
  <2>4. recv'[r].epoch >= e /\ recv'[r].written >= o
    BY <2>1, <2>2, <2>3
  <2>5. QED
    BY <2>1, <2>3, <2>4 DEF Done
<1>3. PortToldTruth'
  <2>1. PICK id \in Nat, b \in Nat, e \in Nat :
          id = stream /\ b = port.sender.base /\ e = port.epoch
    BY BoundsTyped DEF LinkInv, SenderHolds, Port, Sender
  <2>2. b > 0 => Done(id, 0, b)'
    BY <1>2, <2>1 DEF LinkInv, PortToldTruth
  <2>3. (port.readyState \/ port.resumeTok) /\ e > 1 => Done(id, e, 0)'
    BY <1>2, <2>1 DEF LinkInv, PortToldTruth
  <2>4. stream' = id /\ port' = port
    BY <2>1 DEF sendVars
  <2>5. QED
    BY <2>1, <2>2, <2>3, <2>4 DEF PortToldTruth, Done
<1>4. ASSUME NEW m \in fwd'
      PROVE  Forward(m)'
  BY DEF LinkInv, Forward, sendVars
<1>5. ASSUME NEW m \in back
      PROVE  Backward(m)'
  <2>1. Backward(m) /\ m.epoch \in Nat /\ m.offset \in Nat
    BY DEF LinkInv, Backward
  <2>2. m.kind = "Ack" => Done(m.id, m.epoch, m.offset)'
    BY <1>2, <2>1 DEF Backward
  <2>3. QED
    BY <2>1, <2>2 DEF Backward, Done, sendVars
<1>6. QED
  BY <1>1, <1>3, <1>4, <1>5 DEF LinkInv

(* A message that the receiver's end does nothing with.                     *)
LEMMA IgnoredKeeps ==
  ASSUME LinkInv, UNCHANGED <<sendVars, back, idOf, recvVars>>, fwd' \subseteq fwd
  PROVE  LinkInv'
<1>1. SameData(port, port')
  BY DEF LinkInv, SenderHolds, SameData, sendVars
<1>2. QED
  BY <1>1, PathMoves DEF sendVars

LEMMA DataArrives ==
  ASSUME LinkInv, NEW m \in fwd, m.kind = "Data", R!OnData(m.id, m.epoch, m.offset),
         UNCHANGED <<sendVars, back, idOf>>, fwd' \subseteq fwd
  PROVE  LinkInv'
<1>1. Forward(m)
  BY DEF LinkInv
<1>2. PICK id \in 1 .. MaxStreams, e \in 1 .. MaxEpoch, o \in 0 .. MaxPackets - 1 :
        id = m.id /\ e = m.epoch /\ o = m.offset /\ (id = stream => o + 1 <= port.sender.next)
  BY <1>1, BoundsTyped DEF LinkInv, SenderHolds, Forward
<1>3. RP!OnData(id, e, o)
  BY <1>2, SameReceiver
<1>4. RP!ReceiverInv'
  BY <1>3, ReceiverBounds, RP!OnDataKeeps DEF LinkInv
<1> DEFINE r == streamRecv[id]
<1>5. r \in R!Recvs /\ idOf[r] = id /\ r # 0
  <2>1. r # R!None /\ r \in 0 .. made /\ made \in 0 .. MaxReceivers
    BY <1>3, SameReceiver DEF LinkInv, RP!ReceiverInv, RP!TypeOK, RP!OnData
  <2>2. QED
    BY <2>1, BoundsTyped DEF R!Recvs, R!None, LinkInv, ReceiversKnown
<1>6. PICK n \in Nat : n = RP!Larger(recv[r].next, o + 1)
                       /\ (n = recv[r].next \/ n = o + 1)
  BY <1>5, ReceiversTyped, BoundsTyped DEF RP!Larger
<1>7. /\ recv' = [recv EXCEPT ![r] = [recv[r] EXCEPT !.next = n]]
      /\ UNCHANGED <<made, streamRecv>>
  BY <1>3, <1>5, <1>6, ReceiversTyped DEF RP!OnData, RP!Receiver
<1>8. /\ recv'[r].next = n /\ recv'[r].epoch = recv[r].epoch
      /\ recv'[r].written = recv[r].written
      /\ recv'[r].pending = recv[r].pending /\ recv'[r].hand = recv[r].hand
      /\ \A q \in R!Recvs : q # r => recv'[q] = recv[q]
  BY <1>5, <1>7, ReceiversTyped, SameReceiver
     DEF RP!Receiver, LinkInv, RP!ReceiverInv, RP!TypeOK
<1> HIDE DEF r
<1>9. ReceiversKnown'
  BY <1>5, <1>7, <1>8 DEF LinkInv, ReceiversKnown, sendVars
<1>10. NoneAhead'
  BY <1>2, <1>5, <1>6, <1>8 DEF LinkInv, NoneAhead, sendVars
<1>11. \A q \in R!Recvs : recv[q].epoch <= recv'[q].epoch /\ recv[q].written <= recv'[q].written
  BY <1>8, ReceiversTyped, BoundsTyped
<1>12. QED
  BY <1>4, <1>9, <1>10, <1>11, ReceiverMoves

LEMMA ResumeArrives ==
  ASSUME LinkInv, NEW m \in fwd, m.kind = "Resume", R!OnResume(m.id, m.epoch, m.offset),
         UNCHANGED <<sendVars, back, idOf>>, fwd' \subseteq fwd
  PROVE  LinkInv'
<1>1. Forward(m)
  BY DEF LinkInv
<1>2. PICK id \in 1 .. MaxStreams, e \in 1 .. MaxEpoch, o \in 0 .. MaxPackets :
        id = m.id /\ e = m.epoch /\ o = m.offset /\ (id = stream => e <= port.epoch)
  BY <1>1, BoundsTyped DEF LinkInv, SenderHolds, Forward
<1>3. RP!OnResume(id, e, o)
  BY <1>2, SameReceiver
<1>4. RP!ReceiverInv'
  BY <1>3, ReceiverBounds, RP!OnResumeKeeps DEF LinkInv
<1> DEFINE r == streamRecv[id]
<1>5. r \in R!Recvs /\ idOf[r] = id /\ r # 0
  <2>1. r # R!None /\ r \in 0 .. made /\ made \in 0 .. MaxReceivers
    BY <1>3, SameReceiver DEF LinkInv, RP!ReceiverInv, RP!TypeOK, RP!OnResume
  <2>2. QED
    BY <2>1, BoundsTyped DEF R!Recvs, R!None, LinkInv, ReceiversKnown
<1>6. recv[r].epoch < e
  BY <1>3 DEF RP!OnResume, RP!ResumeAccepted
<1>7. /\ recv' = [recv EXCEPT ![r] = [recv[r] EXCEPT !.epoch = e]]
      /\ UNCHANGED <<made, streamRecv>>
  BY <1>3, <1>5, ReceiversTyped DEF RP!OnResume, RP!Receiver
<1>8. /\ recv'[r].next = recv[r].next /\ recv'[r].epoch = e
      /\ recv'[r].written = recv[r].written
      /\ recv'[r].pending = recv[r].pending /\ recv'[r].hand = recv[r].hand
      /\ \A q \in R!Recvs : q # r => recv'[q] = recv[q]
  BY <1>5, <1>7, ReceiversTyped, SameReceiver
     DEF RP!Receiver, LinkInv, RP!ReceiverInv, RP!TypeOK
<1> HIDE DEF r
<1>9. ReceiversKnown'
  <2>1. recv[r].pending.epoch \in Nat /\ recv[r].hand.epoch \in Nat
    BY <1>5, ReceiversTyped, BoundsTyped DEF RP!Receiver, RP!Ack
  <2>2. recv[r].pending.epoch <= e /\ recv[r].hand.epoch <= e
    BY <1>5, <1>6, <2>1, ReceiversTyped, BoundsTyped DEF LinkInv, ReceiversKnown
  <2>3. QED
    BY <1>5, <1>7, <1>8, <2>2 DEF LinkInv, ReceiversKnown, sendVars
<1>10. NoneAhead'
  BY <1>2, <1>5, <1>8 DEF LinkInv, NoneAhead, sendVars
<1>11. \A q \in R!Recvs : recv[q].epoch <= recv'[q].epoch /\ recv[q].written <= recv'[q].written
  BY <1>5, <1>6, <1>8, ReceiversTyped, BoundsTyped
<1>12. QED
  BY <1>4, <1>9, <1>10, <1>11, ReceiverMoves

(* A new receiver is one of the stream that the Open names.                 *)
LEMMA OpenArrives ==
  ASSUME LinkInv, NEW m \in fwd, m.kind = "Open", R!OnOpen(m.id),
         idOf' = IF made' > made THEN [idOf EXCEPT ![made'] = m.id] ELSE idOf,
         back' = back \cup {Frame("OpenAck", m.id, m.epoch, 0)},
         UNCHANGED sendVars, fwd' \subseteq fwd
  PROVE  LinkInv'
<1>1. Forward(m)
  BY DEF LinkInv
<1>2. PICK id \in 1 .. MaxStreams : id = m.id /\ id \in 1 .. stream /\ m.epoch = 1
  BY <1>1, BoundsTyped DEF LinkInv, SenderHolds, Forward
<1>3. RP!OnOpen(id)
  BY <1>2, SameReceiver
<1>4. RP!ReceiverInv'
  BY <1>3, ReceiverBounds, RP!OnOpenKeeps DEF LinkInv
<1> DEFINE known  == streamRecv[id] # RP!None
           others == {streamRecv[i] : i \in (1 .. MaxStreams) \ {id}} \ {RP!None}
<1>5. /\ known \/ made < MaxReceivers
      /\ made' = IF known THEN made ELSE made + 1
      /\ streamRecv' = [i \in 1 .. MaxStreams |->
           IF i # id THEN RP!None ELSE IF known THEN streamRecv[id] ELSE made']
      /\ recv' = [r \in RP!Recvs |-> IF r \in others THEN RP!StopAcks(r) ELSE recv[r]]
  BY <1>3, Zenon DEF RP!OnOpen
<1>6. /\ made \in 0 .. MaxReceivers /\ streamRecv \in [1 .. MaxStreams -> 0 .. made]
      /\ MaxReceivers \in Nat
  BY BoundsTyped DEF LinkInv, RP!ReceiverInv, RP!TypeOK
<1>7. \A r \in R!Recvs : r \in others => r <= made
  BY <1>6
<1>8. ASSUME NEW r \in R!Recvs
      PROVE  /\ recv'[r].epoch = recv[r].epoch /\ recv'[r].next = recv[r].next
             /\ recv'[r].written = recv[r].written /\ recv'[r].hand = recv[r].hand
             /\ recv'[r].pending \in {recv[r].pending, RP!NoAck}
  <2>1. CASE r \in others
    BY <1>5, <2>1, SameReceiver, ReceiverBounds, RP!StopAcksFields DEF LinkInv, RP!ReceiverInv
  <2>2. CASE r \notin others
    BY <1>5, <2>2, SameReceiver
  <2>3. QED
    BY <2>1, <2>2
<1>9. \A r \in R!Recvs : r > made => recv'[r] = recv[r]
  BY <1>5, <1>6, <1>7, SameReceiver DEF R!Recvs
<1> HIDE DEF known, others
<1>10. idOf \in [R!Recvs -> 0 .. stream] /\ stream \in Nat /\ ReceiversKnown
  BY BoundsTyped DEF LinkInv, ReceiversKnown, SenderHolds
<1>11. /\ \A r \in R!Recvs : r <= made => idOf'[r] = idOf[r]
       /\ ~known => made' \in R!Recvs /\ made' = made + 1 /\ idOf' = [idOf EXCEPT ![made'] = id]
       /\ known => idOf' = idOf /\ made' = made
  BY <1>2, <1>5, <1>6, <1>10 DEF R!Recvs
<1>12. ReceiversKnown'
  <2>1. idOf' \in [R!Recvs -> 0 .. stream]
    <3>1. id \in 0 .. stream
      BY <1>2, <1>10
    <3>2. CASE known
      BY <1>10, <1>11, <3>2
    <3>3. CASE ~known
      <4>1. PICK n \in R!Recvs : idOf' = [idOf EXCEPT ![n] = id]
        BY <1>11, <3>3
      <4>2. QED
        BY <1>10, <3>1, <4>1
    <3>4. QED
      BY <3>2, <3>3
  <2>2. ASSUME NEW i \in 1 .. MaxStreams, streamRecv'[i] # R!None
        PROVE  idOf'[streamRecv'[i]] = i
    <3>1. i = id
      BY <1>5, <2>2, SameReceiver
    <3>2. CASE known
      BY <1>5, <1>10, <1>11, <3>1, <3>2, SameReceiver DEF ReceiversKnown, known
    <3>3. CASE ~known
      BY <1>5, <1>10, <1>11, <3>1, <3>3
    <3>4. QED
      BY <3>2, <3>3
  <2>3. ASSUME NEW r \in R!Recvs
        PROVE  IF r <= made' THEN idOf'[r] # 0 ELSE idOf'[r] = 0 /\ recv'[r] = R!NewReceiver
    <3>1. r \in Nat
      BY <1>6 DEF R!Recvs
    <3>2. CASE known \/ r # made + 1
      BY <1>6, <1>9, <1>10, <1>11, <3>1, <3>2 DEF ReceiversKnown
    <3>3. CASE ~known /\ r = made + 1
      BY <1>2, <1>6, <1>10, <1>11, <3>1, <3>3
    <3>4. QED
      BY <3>2, <3>3
  <2>4. ASSUME NEW r \in R!Recvs
        PROVE  recv'[r].pending.epoch <= recv'[r].epoch /\ recv'[r].hand.epoch <= recv'[r].epoch
    BY <1>8, <1>10, ReceiversTyped, BoundsTyped DEF ReceiversKnown, RP!NoAck
  <2>5. QED
    BY <2>1, <2>2, <2>3, <2>4 DEF ReceiversKnown, sendVars
<1>13. NoneAhead'
  <2> SUFFICES ASSUME NEW r \in R!Recvs, idOf'[r] = stream
               PROVE  recv'[r].next <= port.sender.next /\ recv'[r].epoch <= port.epoch
    BY DEF NoneAhead, sendVars
  <2>1. CASE idOf[r] = stream
    BY <1>8, <2>1 DEF LinkInv, NoneAhead
  <2>2. CASE idOf[r] # stream
    <3>1. r = made + 1
      BY <1>10, <1>11, <2>2
    <3>2. recv[r] = R!NewReceiver
      BY <1>6, <1>10, <3>1 DEF ReceiversKnown
    <3>3. /\ recv'[r].next = 0 /\ recv'[r].epoch = 1
          /\ port.sender.next \in Nat /\ port.epoch \in 1 .. MaxEpoch
      BY <1>8, <3>2 DEF R!NewReceiver, LinkInv, SenderHolds, Port, Sender
    <3>4. QED
      BY <3>3, BoundsTyped
  <2>3. QED
    BY <2>1, <2>2
<1>14. \A r \in R!Recvs : idOf[r] # 0 =>
         /\ idOf'[r] = idOf[r]
         /\ recv[r].epoch <= recv'[r].epoch /\ recv[r].written <= recv'[r].written
  BY <1>8, <1>10, <1>11, ReceiversTyped, BoundsTyped DEF ReceiversKnown
<1>15. Backward(Frame("OpenAck", id, 1, 0))'
  BY <1>2 DEF Backward, Frame, sendVars
<1>16. \A x \in back' \ back : Backward(x)'
  BY <1>2, <1>15
<1>17. QED
  BY <1>4, <1>12, <1>13, <1>14, <1>16, ReceiverMoves

LEMMA ArrivesKeeps ==
  ASSUME LinkInv, Arrives
  PROVE  LinkInv'
<1>1. ASSUME NEW m \in fwd, MessageArrives(m)
      PROVE  LinkInv'
  <2>1. fwd' \subseteq fwd /\ UNCHANGED sendVars
    BY <1>1 DEF MessageArrives, Delivered
  <2>2. CASE /\ m.kind = "Open" /\ R!OnOpen(m.id)
             /\ idOf' = IF made' > made THEN [idOf EXCEPT ![made'] = m.id] ELSE idOf
             /\ back' = back \cup {Frame("OpenAck", m.id, m.epoch, 0)}
    BY <2>1, <2>2, OpenArrives
  <2>3. CASE m.kind = "Data" /\ R!OnData(m.id, m.epoch, m.offset) /\ UNCHANGED <<idOf, back>>
    BY <2>1, <2>3, DataArrives
  <2>4. CASE m.kind = "Resume" /\ R!OnResume(m.id, m.epoch, m.offset) /\ UNCHANGED <<idOf, back>>
    BY <2>1, <2>4, ResumeArrives
  <2>5. CASE UNCHANGED <<idOf, back, recvVars>>
    BY <2>1, <2>5, IgnoredKeeps
  <2>6. QED
    BY <1>1, <2>2, <2>3, <2>4, <2>5, Zenon DEF MessageArrives
<1>2. ASSUME NEW m \in back, AnswerArrives(m), back' \subseteq back,
             UNCHANGED <<stream, snd, fwd, idOf, recvVars>>
      PROVE  LinkInv'
  BY <1>2, AnswerKeeps
<1>3. QED
  BY <1>1, <1>2 DEF Arrives

(* The reader at work changes what was written and what waits.              *)
LEMMA ReaderChanges ==
  ASSUME LinkInv, R!ReaderStep
  PROVE  /\ UNCHANGED <<made, streamRecv>>
         /\ \A q \in R!Recvs : q # reader.r => recv'[q] = recv[q]
         /\ reader.r \in R!Recvs /\ reader.r <= made
         /\ recv'[reader.r].epoch = recv[reader.r].epoch
         /\ recv'[reader.r].next = recv[reader.r].next
         /\ recv[reader.r].written <= recv'[reader.r].written
         /\ recv'[reader.r].written \in {recv[reader.r].written, recv[reader.r].next}
         /\ recv'[reader.r].hand = recv[reader.r].hand
         /\ recv'[reader.r].pending.epoch <= recv[reader.r].epoch
<1> DEFINE s == reader.r
<1>1. RP!ReaderStep /\ RP!ReceiverInv
  BY SameReceiver DEF LinkInv
<1>2. reader.pc # "idle"
  BY <1>1 DEF RP!ReaderStep, RP!WriteTUN, RP!QueueAck, RP!DropPendingAck, RP!AnswerResume,
     RP!StopReceiver
<1>3. s \in RP!Recvs /\ s <= made
  BY <1>1, <1>2, BoundsTyped DEF RP!ReceiverInv, RP!ReaderHolds, RP!TypeOK, RP!Recvs
<1>4. /\ recv \in [RP!Recvs -> RP!Receiver] /\ recv[s] \in RP!Receiver /\ reader.ack \in RP!Ack
      /\ recv[s].pending.epoch <= recv[s].epoch
  BY <1>1, <1>3, SameReceiver DEF RP!ReceiverInv, RP!TypeOK, LinkInv, ReceiversKnown
<1>5. recv[s].epoch \in Nat /\ recv[s].written \in Nat /\ recv[s].next \in Nat
  BY <1>4, BoundsTyped DEF RP!Receiver
<1> HIDE DEF s
<1>6. CASE RP!WriteTUN
  <2>1. reader.ack.offset = recv[s].next /\ recv[s].written <= recv[s].next
    BY <1>1, <1>3, <1>6 DEF RP!WriteTUN, RP!ReceiverInv, RP!ReaderHolds, RP!AcceptedIsWritten, s
  <2>2. recv' = [recv EXCEPT ![s] = [recv[s] EXCEPT !.written = recv[s].next]]
    BY <1>3, <1>4, <1>6, <2>1 DEF RP!WriteTUN, s
  <2>3. QED
    BY <1>3, <1>4, <1>5, <1>6, <2>1, <2>2, SameReceiver DEF RP!WriteTUN, RP!Receiver, s
<1>7. CASE RP!QueueAck
  <2>1. CASE recv[s].stopped
    BY <1>3, <1>4, <1>5, <1>7, <2>1, SameReceiver DEF RP!QueueAck, s
  <2>2. CASE ~recv[s].stopped
    <3>1. PICK l \in {"wait", "take", "send", "ended"} :
            recv' = [recv EXCEPT ![s] =
              [recv[s] EXCEPT !.pending = reader.ack, !.wake = TRUE, !.loop = l]]
      BY <1>3, <1>4, <1>7, <2>2 DEF RP!QueueAck, RP!Receiver, s
    <3>2. reader.ack.epoch = recv[s].epoch
      BY <1>1, <1>7, ReceiverBounds, RP!ReaderAtWork DEF RP!QueueAck, s
    <3>3. /\ recv'[s].epoch = recv[s].epoch /\ recv'[s].next = recv[s].next
          /\ recv'[s].written = recv[s].written /\ recv'[s].hand = recv[s].hand
          /\ recv'[s].pending = reader.ack
          /\ \A q \in RP!Recvs : q # s => recv'[q] = recv[q]
      BY <1>3, <1>4, <3>1 DEF RP!Receiver
    <3>4. /\ recv[s].written <= recv'[s].written
          /\ recv'[s].pending.epoch <= recv[s].epoch
      BY <1>5, <3>2, <3>3
    <3>5. UNCHANGED <<made, streamRecv>>
      BY <1>7 DEF RP!QueueAck
    <3>6. QED
      BY <1>3, <3>3, <3>4, <3>5, SameReceiver DEF s
  <2>3. QED
    BY <2>1, <2>2
<1>8. CASE RP!DropPendingAck
  <2>1. recv' = [recv EXCEPT ![s] = [recv[s] EXCEPT !.pending = RP!NoAck]]
    BY <1>3, <1>4, <1>8 DEF RP!DropPendingAck, s
  <2>2. QED
    BY <1>3, <1>4, <1>5, <1>8, <2>1, SameReceiver DEF RP!DropPendingAck, RP!Receiver, RP!NoAck, s
<1>9. CASE RP!AnswerResume
  <2>1. PICK k \in 0 .. MaxPackets :
          recv' = [recv EXCEPT ![s] = [recv[s] EXCEPT !.sent = k]]
    <3>1. reader.ack.offset \in 0 .. MaxPackets
      BY <1>4 DEF RP!Ack
    <3> DEFINE a == RP!Acknowledged(s, reader.ack.offset)
    <3>2. a \in RP!Receiver /\ a = [recv[s] EXCEPT !.sent = a.sent]
      BY <1>1, <1>3, <3>1, ReceiverBounds, RP!AcknowledgedFields DEF RP!ReceiverInv
    <3>3. recv' = [recv EXCEPT ![s] = a]
      BY <1>9 DEF RP!AnswerResume, s
    <3> HIDE DEF a
    <3>4. a.sent \in 0 .. MaxPackets
      BY <3>2 DEF RP!Receiver
    <3>5. recv' = [recv EXCEPT ![s] = [recv[s] EXCEPT !.sent = a.sent]]
      BY <3>2, <3>3
    <3>6. QED
      BY <3>4, <3>5
  <2>2. QED
    BY <1>3, <1>4, <1>5, <1>9, <2>1, SameReceiver DEF RP!AnswerResume, RP!Receiver, s
<1>10. CASE RP!StopReceiver
  <2>1. recv' = [recv EXCEPT ![s] = RP!StopAcks(s)]
    BY <1>10 DEF RP!StopReceiver, s
  <2>2. /\ RP!StopAcks(s).epoch = recv[s].epoch /\ RP!StopAcks(s).next = recv[s].next
        /\ RP!StopAcks(s).written = recv[s].written /\ RP!StopAcks(s).hand = recv[s].hand
        /\ RP!StopAcks(s).pending = RP!NoAck
    BY <1>1, <1>3, ReceiverBounds, RP!StopAcksFields DEF RP!ReceiverInv
  <2>3. QED
    BY <1>3, <1>4, <1>5, <1>10, <2>1, <2>2, SameReceiver DEF RP!StopReceiver, RP!NoAck, s
<1>11. QED
  BY <1>1, <1>6, <1>7, <1>8, <1>9, <1>10 DEF RP!ReaderStep

(* The answer to a Resume says what the receiver has written.               *)
LEMMA ReaderKeeps ==
  ASSUME LinkInv, ReaderStep
  PROVE  LinkInv'
<1> DEFINE s == reader.r
<1>1. R!ReaderStep /\ UNCHANGED <<sendVars, fwd, idOf>>
  BY DEF ReaderStep
<1>2. RP!ReceiverInv'
  BY <1>1, SameReceiver, ReceiverBounds, RP!NextReceiver DEF LinkInv, RP!Next
<1>3. ReceiversKnown'
  BY <1>1, ReaderChanges DEF LinkInv, ReceiversKnown, sendVars
<1>4. NoneAhead'
  BY <1>1, ReaderChanges DEF LinkInv, NoneAhead, sendVars
<1>5. \A r \in R!Recvs : recv[r].epoch <= recv'[r].epoch /\ recv[r].written <= recv'[r].written
  BY <1>1, ReaderChanges, ReceiversTyped, BoundsTyped
<1>6. CASE reader.pc # "answer"
  BY <1>1, <1>2, <1>3, <1>4, <1>5, <1>6, ReceiverMoves DEF ReaderStep
<1>7. CASE reader.pc = "answer"
  <2>1. PICK id \in Nat, e \in Nat, o \in Nat :
          /\ id = idOf[s] /\ e = reader.ack.epoch /\ o = reader.ack.offset
          /\ id \in 1 .. stream /\ recv[s].epoch = e /\ recv[s].written = o
    <3>1. /\ s \in R!Recvs /\ reader.ack.epoch = recv[s].epoch
          /\ reader.ack.offset = recv[s].written
      BY <1>1, <1>7, ReaderChanges, ReceiverBounds, RP!ReaderAtWork DEF LinkInv
    <3>2. idOf[s] \in 1 .. stream /\ stream \in Nat
      BY <1>1, <3>1, ReaderChanges, BoundsTyped DEF LinkInv, ReceiversKnown, SenderHolds
    <3>3. QED
      BY <3>1, <3>2, ReceiversTyped, BoundsTyped
  <2>2. PICK r \in R!Recvs : r = s
    BY <1>1, ReaderChanges
  <2>3. recv'[r].epoch >= e /\ recv'[r].written >= o
    BY <1>5, <2>1, <2>2
  <2>4. Backward(Frame("Ack", id, e, o))'
    BY <1>1, <2>1, <2>2, <2>3 DEF Backward, Frame, Done, sendVars
  <2>5. back' = back \cup {Frame("Ack", id, e, o)}
    BY <1>7, <2>1 DEF ReaderStep
  <2>6. \A x \in back' \ back : Backward(x)'
    BY <2>4, <2>5
  <2>7. QED
    BY <1>1, <1>2, <1>3, <1>4, <1>5, <2>6, ReceiverMoves
<1>8. QED
  BY <1>6, <1>7

(* So does the ACK that ackLoop sends.                                      *)
LEMMA AckLoopKeepsLink ==
  ASSUME LinkInv, NEW r \in R!Recvs, AckLoop(r)
  PROVE  LinkInv'
<1>1. /\ R!AckLoop(r) /\ RP!AckLoop(r) /\ r \in RP!Recvs /\ UNCHANGED <<sendVars, fwd, idOf>>
      /\ RP!ReceiverInv
  BY SameReceiver DEF AckLoop, LinkInv
<1>2. RP!ReceiverInv'
  BY <1>1, ReceiverBounds, RP!AckLoopKeeps
<1>3. /\ recv'[r].epoch = recv[r].epoch /\ recv'[r].next = recv[r].next
      /\ recv'[r].written = recv[r].written
      /\ recv'[r].pending \in {recv[r].pending, RP!NoAck}
      /\ recv'[r].hand \in {recv[r].hand, recv[r].pending, RP!NoAck}
      /\ recv' = [recv EXCEPT ![r] = recv'[r]]
      /\ UNCHANGED <<made, streamRecv>>
  BY <1>1, ReceiverBounds, RP!AckLoopSteps
<1>4. \A q \in R!Recvs : q # r => recv'[q] = recv[q]
  BY <1>1, <1>3, SameReceiver DEF RP!ReceiverInv, RP!TypeOK
<1>5. r <= made
  <2>1. CASE r > made
    <3>1. recv[r].loop = "off"
      BY <2>1, BoundsTyped DEF LinkInv, ReceiversKnown, R!NewReceiver, R!Recvs,
         RP!ReceiverInv, RP!TypeOK
    <3>2. QED
      BY <1>1, <3>1 DEF RP!AckLoop, RP!AckLoopWakes, RP!AckLoopCancelled, RP!TakeAck, RP!SendAck
  <2>2. QED
    BY <1>1, <2>1, BoundsTyped DEF RP!ReceiverInv, RP!TypeOK, RP!Recvs
<1>6. ReceiversKnown'
  <2>1. recv'[r].pending.epoch <= recv[r].epoch /\ recv'[r].hand.epoch <= recv[r].epoch
    BY <1>3, ReceiversTyped, BoundsTyped DEF RP!NoAck, LinkInv, ReceiversKnown
  <2>2. QED
    BY <1>1, <1>3, <1>4, <1>5, <2>1 DEF LinkInv, ReceiversKnown, sendVars
<1>7. NoneAhead'
  BY <1>1, <1>3, <1>4 DEF LinkInv, NoneAhead, sendVars
<1>8. \A q \in R!Recvs : recv[q].epoch <= recv'[q].epoch /\ recv[q].written <= recv'[q].written
  BY <1>3, <1>4, ReceiversTyped, BoundsTyped
<1>9. CASE recv[r].loop # "send"
  BY <1>1, <1>2, <1>6, <1>7, <1>8, <1>9, ReceiverMoves DEF AckLoop
<1>10. CASE recv[r].loop = "send"
  <2>1. PICK id \in Nat, e \in Nat, o \in Nat :
          /\ id = idOf[r] /\ e = recv[r].hand.epoch /\ o = recv[r].hand.offset
          /\ id \in 1 .. stream /\ recv[r].epoch >= e /\ recv[r].written >= o
    <3>1. recv[r].hand.epoch \in Nat /\ recv[r].hand.offset \in Nat
      BY <1>1, ReceiversTyped, BoundsTyped DEF RP!Receiver, RP!Ack
    <3>2. recv[r].epoch >= recv[r].hand.epoch /\ recv[r].written >= recv[r].hand.offset
      BY <1>1, <3>1, ReceiversTyped, BoundsTyped
         DEF LinkInv, ReceiversKnown, RP!ReceiverInv, RP!AckFollowsWrite
    <3>3. idOf[r] \in 1 .. stream /\ stream \in Nat
      BY <1>5, BoundsTyped DEF LinkInv, ReceiversKnown, SenderHolds
    <3>4. QED
      BY <3>1, <3>2, <3>3
  <2>2. Backward(Frame("Ack", id, e, o))'
    BY <1>1, <1>3, <2>1 DEF Backward, Frame, Done, sendVars
  <2>3. back' = back \cup {Frame("Ack", id, e, o)}
    BY <1>10, <2>1 DEF AckLoop
  <2>4. \A x \in back' \ back : Backward(x)'
    BY <2>2, <2>3
  <2>5. QED
    BY <1>1, <1>2, <1>6, <1>7, <1>8, <2>4, ReceiverMoves
<1>11. QED
  BY <1>9, <1>10

(* A peer that starts anew has forgotten what it was about to say.          *)
LEMMA RestartKeeps ==
  ASSUME LinkInv, PeerRestarts
  PROVE  LinkInv'
<1> DEFINE Ended(r) == [recv[r] EXCEPT !.stopped = TRUE, !.loop = "ended", !.wake = FALSE,
                                       !.pending = R!NoAck, !.hand = R!NoAck]
<1>1. /\ streamRecv' = [i \in 1 .. MaxStreams |-> R!None]
      /\ recv' = [r \in R!Recvs |-> IF r > made THEN recv[r] ELSE Ended(r)]
      /\ reader' = R!Resting /\ UNCHANGED <<sendVars, fwd, back, idOf, made, ctxDone>>
  BY Zenon DEF PeerRestarts
<1>2. RP!ReceiverInv /\ made \in 0 .. MaxReceivers /\ R!Recvs = RP!Recvs
  BY SameReceiver DEF LinkInv, RP!ReceiverInv, RP!TypeOK
<1>3. R!NoAck \in RP!Ack /\ R!NoAck.epoch = 0 /\ R!NoAck.offset = 0 /\ R!NoAck = RP!NoAck
  BY ReceiverBounds, SameReceiver DEF R!NoAck, RP!Ack
<1>4. ASSUME NEW r \in R!Recvs
      PROVE  /\ Ended(r) \in RP!Receiver
             /\ Ended(r).epoch = recv[r].epoch /\ Ended(r).next = recv[r].next
             /\ Ended(r).written = recv[r].written /\ Ended(r).sent = recv[r].sent
             /\ Ended(r).stopped = TRUE
             /\ Ended(r).pending = R!NoAck /\ Ended(r).hand = R!NoAck
  BY <1>3, ReceiversTyped DEF RP!Receiver
<1> HIDE DEF Ended
<1>5. ASSUME NEW r \in R!Recvs
      PROVE  /\ r > made => recv'[r] = recv[r] /\ recv[r] = R!NewReceiver
             /\ r <= made => recv'[r].stopped = TRUE
             /\ recv'[r] \in RP!Receiver
             /\ recv'[r].epoch = recv[r].epoch /\ recv'[r].next = recv[r].next
             /\ recv'[r].written = recv[r].written /\ recv'[r].sent = recv[r].sent
             /\ recv'[r].pending = R!NoAck /\ recv'[r].hand = R!NoAck
  <2>1. CASE r > made
    <3>1. recv'[r] = recv[r] /\ recv[r] = R!NewReceiver /\ ~(r <= made)
      BY <1>1, <1>2, <2>1, BoundsTyped DEF R!Recvs, LinkInv, ReceiversKnown
    <3>2. recv[r].pending = R!NoAck /\ recv[r].hand = R!NoAck
      BY <3>1 DEF R!NewReceiver
    <3>3. QED
      BY <3>1, <3>2, ReceiversTyped
  <2>2. CASE r <= made
    <3>1. recv'[r] = Ended(r) /\ ~(r > made)
      BY <1>1, <1>2, <2>2, BoundsTyped DEF R!Recvs
    <3>2. QED
      BY <1>4, <2>2, <3>1
  <2>3. QED
    <3>1. r > made \/ r <= made
      BY <1>2, BoundsTyped DEF R!Recvs
    <3>2. QED
      BY <2>1, <2>2, <3>1
<1>6. RP!ReceiverInv'
  <2>1. RP!TypeOK'
    <3>1. recv' \in [RP!Recvs -> RP!Receiver]
      BY <1>1, <1>2, <1>5
    <3>2. streamRecv' \in [1 .. MaxStreams -> 0 .. made]
      BY <1>1, <1>2, BoundsTyped DEF R!None
    <3>3. reader' \in [pc : {"idle", "write", "queue", "drop", "answer", "stop"},
                       r : RP!Recvs \cup {RP!None}, ack : RP!Ack]
      BY <1>1, <1>3, SameReceiver DEF R!Resting
    <3>4. QED
      BY <1>1, <1>2, <3>1, <3>2, <3>3 DEF RP!ReceiverInv, RP!TypeOK
  <2>2. RP!ReaderHolds'
    BY <1>1, SameReceiver DEF RP!ReaderHolds, R!Resting
  <2>3. ASSUME NEW r \in R!Recvs
        PROVE  \/ r <= made /\ RP!Removed(r)'
               \/ r > made /\ recv[r] = R!NewReceiver
    <3>1. r <= made \/ r > made
      BY <1>2, BoundsTyped DEF R!Recvs
    <3>2. r <= made => RP!Removed(r)'
      BY <1>1, <1>2, BoundsTyped DEF RP!Removed, R!Resting, R!None, R!Recvs
    <3>3. QED
      BY <1>5, <3>1, <3>2
  <2>4. RP!AcceptedIsWritten'
    <3> SUFFICES ASSUME NEW r \in R!Recvs
                 PROVE  /\ recv'[r].written <= recv'[r].next
                        /\ recv'[r].written = recv'[r].next \/ RP!Removed(r)'
      BY <1>2 DEF RP!AcceptedIsWritten
    <3>1. recv[r].written <= recv[r].next
      BY <1>2 DEF RP!ReceiverInv, RP!AcceptedIsWritten
    <3>2. recv[r].written = recv[r].next \/ RP!Removed(r)'
      BY <2>3 DEF R!NewReceiver
    <3>3. QED
      BY <1>5, <3>1, <3>2
  <2>5. RP!AckFollowsWrite'
    <3> SUFFICES ASSUME NEW r \in R!Recvs
                 PROVE  /\ recv'[r].sent <= recv'[r].written
                        /\ recv'[r].hand.offset <= recv'[r].written
                        /\ recv'[r].pending.offset <= recv'[r].written
      BY <1>2 DEF RP!AckFollowsWrite
    <3>1. recv[r].sent <= recv[r].written
      BY <1>2 DEF RP!ReceiverInv, RP!AckFollowsWrite
    <3>2. 0 <= recv[r].written
      BY ReceiversTyped, BoundsTyped
    <3>3. QED
      BY <1>3, <1>5, <3>1, <3>2
  <2>6. RP!PendingAckIsNewest' /\ RP!StoppedHasNoAck'
    BY <1>2, <1>3, <1>5 DEF RP!PendingAckIsNewest, RP!StoppedHasNoAck
  <2>7. RP!RemovedIsStopped'
    BY <1>1, <1>2, <1>5 DEF RP!RemovedIsStopped, RP!Removed
  <2>8. QED
    BY <2>1, <2>2, <2>4, <2>5, <2>6, <2>7 DEF RP!ReceiverInv
<1>7. ASSUME NEW r \in R!Recvs
      PROVE  recv'[r].pending.epoch <= recv'[r].epoch /\ recv'[r].hand.epoch <= recv'[r].epoch
  <2>1. 0 <= recv[r].epoch
    BY ReceiversTyped, BoundsTyped
  <2>2. QED
    BY <1>3, <1>5, <2>1
<1>8. ReceiversKnown'
  <2>1. \A r \in R!Recvs : IF r <= made THEN idOf[r] # 0
                           ELSE idOf[r] = 0 /\ recv'[r] = R!NewReceiver
    <3>1. \A r \in R!Recvs : r <= made \/ r > made
      BY <1>2, BoundsTyped DEF R!Recvs
    <3>2. QED
      BY <1>5, <3>1 DEF LinkInv, ReceiversKnown
  <2>2. QED
    BY <1>1, <1>7, <2>1 DEF LinkInv, ReceiversKnown, sendVars
<1>9. NoneAhead'
  BY <1>1, <1>5 DEF LinkInv, NoneAhead, sendVars
<1>10. \A r \in R!Recvs : recv[r].epoch <= recv'[r].epoch /\ recv[r].written <= recv'[r].written
  <2>1. \A r \in R!Recvs : recv[r].epoch <= recv[r].epoch /\ recv[r].written <= recv[r].written
    BY ReceiversTyped, BoundsTyped
  <2>2. QED
    BY <1>5, <2>1
<1>11. QED
  BY <1>1, <1>6, <1>8, <1>9, <1>10, ReceiverMoves

-----------------------------------------------------------------------------
(* The invariant                                                            *)

LEMMA LinkInit == Init => LinkInv
<1> SUFFICES ASSUME Init PROVE LinkInv
  OBVIOUS
<1>1. RP!ReceiverInv
  <2>1. RP!Init
    BY Zenon DEF Init, R!Init, RP!Init, R!Recvs, RP!Recvs, R!NewReceiver, RP!NewReceiver,
       R!NoAck, RP!NoAck, R!None, RP!None, R!Resting, RP!Resting
  <2>2. QED
    BY <2>1, ReceiverBounds, RP!InitReceiver
<1>2. SenderHolds
  <2>1. /\ NewPort \in Port /\ NewPort.epoch = 1 /\ NewPort.lastAck = 0
        /\ NewPort.sender = [epoch |-> 1, base |-> 0, next |-> 0, window |-> Window]
    BY WindowAssumption DEF NewPort, Port, Sender, AnySession
  <2>2. stream = 0 /\ port = NewPort /\ snd = [pc |-> "open", from |-> 0, to |-> 0]
    BY DEF Init
  <2>3. QED
    BY <2>1, <2>2, BoundsTyped, LinkAssumption DEF SenderHolds
<1>3. /\ \A r \in R!Recvs : recv[r] = R!NewReceiver /\ idOf[r] = 0
      /\ idOf \in [R!Recvs -> 0 .. 0] /\ made = 0 /\ stream = 0
      /\ streamRecv = [i \in 1 .. MaxStreams |-> R!None] /\ fwd = {} /\ back = {}
  BY DEF Init, R!Init
<1>4. ReceiversKnown
  BY <1>3, BoundsTyped DEF ReceiversKnown, R!NewReceiver, R!NoAck, R!Recvs
<1>5. NoneAhead
  <2>1. port.sender.next \in Nat /\ port.epoch \in 1 .. MaxEpoch
    BY <1>2 DEF SenderHolds, Port, Sender
  <2>2. QED
    BY <1>3, <2>1, BoundsTyped DEF NoneAhead, R!NewReceiver
<1>6. PortToldTruth
  BY DEF Init, PortToldTruth, NewPort
<1>7. QED
  BY <1>1, <1>2, <1>3, <1>4, <1>5, <1>6 DEF LinkInv

LEMMA LinkStep ==
  ASSUME LinkInv, [Next]_vars
  PROVE  LinkInv'
<1>1. CASE Send
  BY <1>1, PathStepsKeep, OpenKeeps, ResumeKeeps, ResumedKeeps DEF Send
<1>2. CASE SendMore
  BY <1>2, PathStepsKeep, SendDataKeeps DEF SendMore
<1>3. CASE Arrives
  BY <1>3, ArrivesKeeps
<1>4. CASE Lost
  BY <1>4, LostKeeps
<1>5. CASE ReaderStep
  BY <1>5, ReaderKeeps
<1>6. CASE PeerRestarts
  BY <1>6, RestartKeeps
<1>7. CASE \E r \in R!Recvs : AckLoop(r)
  BY <1>7, AckLoopKeepsLink
<1>8. CASE UNCHANGED vars
  BY <1>8, IgnoredKeeps DEF vars
<1>9. QED
  BY <1>1, <1>2, <1>3, <1>4, <1>5, <1>6, <1>7, <1>8 DEF Next

(* What both ends and the network between them keep, with any number of     *)
(* streams, packets and epochs, and of messages lost, repeated and passing  *)
(* one another, and through restarts of the peer.                           *)
THEOREM LinkInvariant == Spec => []LinkInv
BY LinkInit, LinkStep, PTL DEF Spec

(* Nothing counts as acknowledged, and is forgotten by the sender, that one  *)
(* receiver of the stream has not written to its TUN.                       *)
THEOREM AcknowledgedAlwaysWritten == Spec => []AcknowledgedIsWritten
<1>1. LinkInv => AcknowledgedIsWritten
  BY DEF LinkInv, PortToldTruth, Done, AcknowledgedIsWritten
<1>2. QED
  BY <1>1, LinkInvariant, PTL

(* What is acknowledged was written; the two ends of a stream that has had   *)
(* one receiver, and still has it, are in step in offsets and in epochs; a  *)
(* path that is ready is of the epoch the receiver adopted; and the window   *)
(* is kept.                                                                 *)
THEOREM EndsAlwaysInStep == Spec => []EndsInStep
<1>1. LinkInv => EndsInStep
  <2> SUFFICES ASSUME LinkInv PROVE EndsInStep
    OBVIOUS
  <2>1. /\ port.sender.base \in Nat /\ port.sender.next \in Nat /\ Window \in Nat
        /\ port.epoch \in Nat /\ port.epoch >= 1
        /\ port.sender.base <= port.sender.next
        /\ port.sender.next - port.sender.base <= Window
    BY BoundsTyped DEF LinkInv, SenderHolds, Port, Sender
  <2>2. ASSUME NEW r \in R!Recvs, OnlyReceiver(r)
        PROVE  /\ port.sender.base <= recv[r].next /\ recv[r].next <= port.sender.next
               /\ recv[r].epoch <= port.epoch
               /\ port.readyState => recv[r].epoch = port.epoch
    <3>1. idOf[r] = stream /\ \A q \in R!Recvs : idOf[q] = stream => q = r
      BY <2>2 DEF OnlyReceiver
    <3>2. recv[r].next <= port.sender.next /\ recv[r].epoch <= port.epoch
      BY <3>1 DEF LinkInv, NoneAhead
    <3>3. \A e, o : Done(stream, e, o) => recv[r].epoch >= e /\ recv[r].written >= o
      BY <3>1 DEF Done
    <3>4. recv[r].written <= recv[r].next
      BY SameReceiver DEF LinkInv, RP!ReceiverInv, RP!AcceptedIsWritten
    <3>5. /\ recv[r].next \in Nat /\ recv[r].written \in Nat
          /\ recv[r].epoch \in Nat /\ recv[r].epoch >= 1
      BY ReceiversTyped, BoundsTyped
    <3>6. port.sender.base <= recv[r].next
      BY <2>1, <3>3, <3>4, <3>5 DEF LinkInv, PortToldTruth
    <3>7. port.readyState => recv[r].epoch = port.epoch
      BY <2>1, <3>2, <3>3, <3>5 DEF LinkInv, PortToldTruth
    <3>8. QED
      BY <3>2, <3>6, <3>7
  <2>3. AcknowledgedIsWritten
    BY DEF LinkInv, PortToldTruth, Done, AcknowledgedIsWritten
  <2>4. QED
    BY <2>1, <2>2, <2>3 DEF EndsInStep, ResumeLeavesNoGap, ReadyMeansAdopted
<1>2. QED
  BY <1>1, LinkInvariant, PTL

-----------------------------------------------------------------------------
(* To the peer a stream is a log                                            *)

(* A receiver has accepted at most the packet it is about to write.         *)
OneInHand == \A r \in R!Recvs : recv[r].next <= recv[r].written + 1

LogInv == LinkInv /\ OneInHand

LEMMA SenderTyped ==
  ASSUME LinkInv
  PROVE  /\ stream \in Nat /\ port \in Port
         /\ port.sender.next \in Nat /\ port.sender.base \in Nat
BY BoundsTyped DEF LinkInv, SenderHolds, Port, Sender

LEMMA NothingWritten ==
  ASSUME \A r \in R!Recvs : recv'[r].written = recv[r].written,
         UNCHANGED <<stream, idOf, port.sender.next, port.sender.base>>
  PROVE  UNCHANGED Log!vars
<1>1. [r \in R!Recvs |-> recv'[r].written] = [r \in R!Recvs |-> recv[r].written]
  OBVIOUS
<1>2. QED
  BY <1>1 DEF Log!vars

LEMMA OpenBeginsLog ==
  ASSUME LinkInv, Open, UNCHANGED <<idOf, recvVars>>
  PROVE  Log!NewLog
<1>1. stream' = stream + 1 /\ port' = BeginOpen(NewPort, Session)
  BY DEF Open
<1>2. port'.sender.next = 0 /\ port'.sender.base = 0
  BY <1>1, OpeningPort
<1>3. QED
  BY <1>1, <1>2 DEF Log!NewLog, recvVars

LEMMA DataAppends ==
  ASSUME LinkInv, SendData, UNCHANGED <<idOf, recvVars>>
  PROVE  Log!Append
<1>1. SenderHolds
  BY DEF LinkInv
<1>2. PICK n \in Nat, b \in Nat : n = port.sender.next /\ b = port.sender.base
  BY SenderTyped
<1>3. n - b + 1 <= Window /\ stream # 0 /\ stream' = stream
  BY <1>1, <1>2, BoundsTyped DEF SendData, HasCredit, SenderHolds
<1>4. port'.sender.next = n + 1 /\ port'.sender.base = b
  BY <1>1, <1>2 DEF SendData, DataForReadyPath, SenderHolds, Port, Sender
<1>5. n - b < Window
  BY <1>3, BoundsTyped
<1>6. QED
  BY <1>2, <1>3, <1>4, <1>5 DEF Log!Append, recvVars

(* The sender's other steps neither frame nor forget.                       *)
LEMMA OthersLeaveLog ==
  ASSUME LinkInv, UNCHANGED <<idOf, recvVars>>,
         Opened \/ OpenTimesOut \/ ResumeTimesOut \/ Stalled \/ PathLost \/ Resume \/ Resumed
  PROVE  UNCHANGED Log!vars
<1>1. port \in Port /\ stream' = stream
  BY SenderTyped DEF Opened, OpenTimesOut, ResumeTimesOut, Stalled, PathLost, Resume, Resumed
<1>2. port'.sender.next = port.sender.next /\ port'.sender.base = port.sender.base
  <2>1. CASE Opened \/ OpenTimesOut \/ ResumeTimesOut
    BY <2>1 DEF Opened, OpenTimesOut, ResumeTimesOut
  <2>2. CASE Stalled \/ PathLost
    <3>1. port' = TakeDown(port, TRUE)
      BY <2>2 DEF Stalled, PathLost, FailPathIfAckUnchanged, MarkPathLostWithError
    <3>2. QED
      BY <1>1, <3>1, TakeDownData DEF SameData
  <2>3. CASE Resume
    BY <1>1, <2>3 DEF Resume, SenderResume, BeginResume, Port, Sender
  <2>4. CASE Resumed
    BY <1>1, <2>4, CompleteResumeData DEF Resumed, SameData
  <2>5. QED
    BY <2>1, <2>2, <2>3, <2>4
<1>3. QED
  BY <1>1, <1>2, NothingWritten DEF recvVars

(* An answer lets the sender forget what a receiver of the stream wrote.    *)
LEMMA AnswerForgets ==
  ASSUME LinkInv, NEW m \in back, AnswerArrives(m), UNCHANGED <<stream, idOf, recvVars>>
  PROVE  Log!Forget \/ UNCHANGED Log!vars
<1>1. Backward(m) /\ port \in Port
  BY SenderTyped DEF LinkInv
<1>2. CASE port' = port \/ port' = BecomeReady(port)
  <2>1. port'.sender = port.sender
    BY <1>1, <1>2, BecomeReadyData DEF SameData
  <2>2. QED
    BY <2>1, NothingWritten DEF recvVars
<1>3. CASE ForStream(m) /\ m.kind = "Ack" /\ port' = Acknowledge(port, m.offset, Window)
  <2>1. PICK o \in Nat, b \in Nat : o = m.offset /\ b = port.sender.base
    BY <1>1, SenderTyped DEF Backward
  <2>2. /\ port'.sender.next = port.sender.next
        /\ port'.sender.base = IF b > o THEN b ELSE o
    BY <1>1, <1>3, <2>1, AcknowledgeData DEF Larger
  <2>3. CASE b < o
    <3>1. PICK r \in R!Recvs : idOf[r] = stream /\ recv[r].written >= o
      BY <1>1, <1>3, <2>1 DEF Backward, Done, ForStream
    <3>2. recv[r].written \in Nat
      BY ReceiversTyped, BoundsTyped
    <3>3. port'.sender.base \in port.sender.base + 1 .. recv[r].written
      BY <2>1, <2>2, <2>3, <3>1, <3>2
    <3>4. QED
      BY <2>2, <3>1, <3>3 DEF Log!Forget, recvVars
  <2>4. CASE ~(b < o)
    <3>1. port'.sender.base = b
      BY <2>2, <2>4
    <3>2. QED
      BY <2>1, <2>2, <3>1, NothingWritten DEF recvVars
  <2>5. QED
    BY <2>3, <2>4
<1>4. QED
  BY <1>2, <1>3 DEF AnswerArrives, AcceptOpenAck

(* An Open makes a reader of its stream, or finds one.                      *)
LEMMA OpenJoins ==
  ASSUME LinkInv, NEW m \in fwd, R!OnOpen(m.id), UNCHANGED sendVars,
         idOf' = IF made' > made THEN [idOf EXCEPT ![made'] = m.id] ELSE idOf
  PROVE  /\ UNCHANGED Log!vars \/ \E r \in R!Recvs : Log!Join(r)
         /\ \A r \in R!Recvs : /\ recv'[r].next = recv[r].next
                               /\ recv'[r].written = recv[r].written
<1>1. PICK id \in 1 .. MaxStreams : id = m.id /\ id \in 1 .. stream
  BY BoundsTyped DEF LinkInv, SenderHolds, Forward
<1>2. RP!OnOpen(id)
  BY <1>1, SameReceiver
<1> DEFINE known  == streamRecv[id] # RP!None
           others == {streamRecv[i] : i \in (1 .. MaxStreams) \ {id}} \ {RP!None}
<1>3. /\ known \/ made < MaxReceivers
      /\ made' = IF known THEN made ELSE made + 1
      /\ recv' = [r \in RP!Recvs |-> IF r \in others THEN RP!StopAcks(r) ELSE recv[r]]
  BY <1>2, Zenon DEF RP!OnOpen
<1>4. ASSUME NEW r \in R!Recvs
      PROVE  recv'[r].next = recv[r].next /\ recv'[r].written = recv[r].written
  <2>1. CASE r \in others
    BY <1>3, <2>1, SameReceiver, ReceiverBounds, RP!StopAcksFields DEF LinkInv, RP!ReceiverInv
  <2>2. CASE r \notin others
    BY <1>3, <2>2, SameReceiver
  <2>3. QED
    BY <2>1, <2>2
<1> HIDE DEF known, others
<1>5. made \in 0 .. MaxReceivers /\ MaxReceivers \in Nat
  BY BoundsTyped DEF LinkInv, RP!ReceiverInv, RP!TypeOK
<1>6. UNCHANGED <<stream, port.sender.next, port.sender.base>>
  BY DEF sendVars
<1>7. CASE known
  BY <1>3, <1>4, <1>5, <1>6, <1>7, NothingWritten
<1>8. CASE ~known
  <2>1. PICK n \in R!Recvs : n = made' /\ n > made
    BY <1>3, <1>5, <1>8 DEF R!Recvs
  <2>2. idOf[n] = 0
    BY <1>5, <2>1 DEF R!Recvs, LinkInv, ReceiversKnown
  <2>3. idOf' = [idOf EXCEPT ![n] = id]
    BY <1>1, <2>1
  <2>4. [r \in R!Recvs |-> recv'[r].written] = [r \in R!Recvs |-> recv[r].written]
    BY <1>4
  <2>5. Log!Join(n)
    BY <1>1, <1>6, <2>2, <2>3, <2>4 DEF Log!Join
  <2>6. QED
    BY <1>4, <2>5
<1>9. QED
  BY <1>7, <1>8

(* Data is taken where nothing waits to be written, and next in order.      *)
LEMMA DataTaken ==
  ASSUME LogInv, NEW m \in fwd, R!OnData(m.id, m.epoch, m.offset)
  PROVE  \A q \in R!Recvs : /\ recv'[q].written = recv[q].written
                            /\ recv'[q].next <= recv[q].written + 1
<1>1. PICK id \in 1 .. MaxStreams, o \in Nat : id = m.id /\ o = m.offset
  BY BoundsTyped DEF LogInv, LinkInv, SenderHolds, Forward
<1>2. RP!OnData(id, m.epoch, o) /\ RP!ReceiverInv
  BY <1>1, SameReceiver DEF LogInv, LinkInv
<1> DEFINE r == streamRecv[id]
<1>3. r \in R!Recvs /\ r # 0
  <2>1. r # R!None /\ r \in 0 .. made /\ made \in 0 .. MaxReceivers
    BY <1>2, SameReceiver DEF RP!ReceiverInv, RP!TypeOK, RP!OnData
  <2>2. QED
    BY <2>1, BoundsTyped DEF R!Recvs, R!None
<1>4. recv[r].written = recv[r].next /\ o <= recv[r].next
  <2>1. reader.pc = "idle" /\ o <= recv[r].next
    BY <1>2 DEF RP!OnData, RP!Arrives, RP!DataAccepted
  <2>2. ~RP!Removed(r)
    BY DEF RP!Removed
  <2>3. QED
    BY <1>2, <1>3, <2>1, <2>2, SameReceiver DEF RP!ReceiverInv, RP!AcceptedIsWritten
<1>5. PICK k \in Nat, n \in Nat :
        k = recv[r].next /\ n = RP!Larger(k, o + 1) /\ n <= k + 1
  BY <1>3, <1>4, ReceiversTyped, BoundsTyped DEF RP!Larger, LogInv
<1>6. recv' = [recv EXCEPT ![r] = [recv[r] EXCEPT !.next = n]]
  BY <1>2, <1>3, <1>5, ReceiversTyped DEF RP!OnData, RP!Receiver, LogInv
<1>7. /\ recv'[r].next = n /\ recv'[r].written = recv[r].written
      /\ \A q \in R!Recvs : q # r => recv'[q] = recv[q]
  BY <1>3, <1>6, ReceiversTyped, SameReceiver
     DEF RP!Receiver, LogInv, LinkInv, RP!ReceiverInv, RP!TypeOK
<1> HIDE DEF r
<1>8. QED
  BY <1>4, <1>5, <1>7 DEF LogInv, OneInHand

LEMMA ResumeTaken ==
  ASSUME LinkInv, NEW m \in fwd, R!OnResume(m.id, m.epoch, m.offset)
  PROVE  \A q \in R!Recvs : /\ recv'[q].written = recv[q].written
                            /\ recv'[q].next = recv[q].next
<1>1. recv \in [R!Recvs -> RP!Receiver]
  BY SameReceiver DEF LinkInv, RP!ReceiverInv, RP!TypeOK
<1>2. recv' = [recv EXCEPT ![streamRecv[m.id]].epoch = m.epoch]
  BY DEF R!OnResume
<1>3. QED
  BY <1>1, <1>2 DEF RP!Receiver

LEMMA RestartWritesNothing ==
  ASSUME LinkInv, PeerRestarts
  PROVE  \A q \in R!Recvs : /\ recv'[q].written = recv[q].written
                            /\ recv'[q].next = recv[q].next
<1>1. ASSUME NEW q \in R!Recvs
      PROVE  \/ recv'[q] = recv[q]
             \/ recv'[q] = [recv[q] EXCEPT !.stopped = TRUE, !.loop = "ended", !.wake = FALSE,
                                           !.pending = R!NoAck, !.hand = R!NoAck]
  <2>1. recv' = [r \in R!Recvs |->
                   IF r > made THEN recv[r]
                   ELSE [recv[r] EXCEPT !.stopped = TRUE, !.loop = "ended", !.wake = FALSE,
                                        !.pending = R!NoAck, !.hand = R!NoAck]]
    BY Zenon DEF PeerRestarts
  <2>2. QED
    BY <2>1
<1>2. ASSUME NEW q \in R!Recvs
      PROVE  recv'[q].written = recv[q].written /\ recv'[q].next = recv[q].next
  <2>1. recv[q] \in RP!Receiver
    BY ReceiversTyped
  <2>2. PICK v \in RP!Receiver : v = recv[q]
    BY <2>1
  <2>3. \/ recv'[q] = v
        \/ recv'[q] = [v EXCEPT !.stopped = TRUE, !.loop = "ended", !.wake = FALSE,
                                 !.pending = R!NoAck, !.hand = R!NoAck]
    BY <1>1, <2>2
  <2>4. recv'[q].written = v.written /\ recv'[q].next = v.next
    BY <2>3 DEF RP!Receiver
  <2>5. QED
    BY <2>2, <2>4
<1>3. QED
  BY <1>2

(* The reader writes the one packet it has in hand.                         *)
LEMMA ReaderReads ==
  ASSUME LogInv, ReaderStep
  PROVE  /\ UNCHANGED Log!vars \/ \E r \in R!Recvs : Log!Read(r)
         /\ OneInHand'
<1>1. R!ReaderStep /\ LinkInv /\ UNCHANGED <<stream, port, idOf>>
  BY DEF ReaderStep, LogInv, sendVars
<1>2. PICK s \in R!Recvs :
        /\ s <= made /\ \A q \in R!Recvs : q # s => recv'[q] = recv[q]
        /\ recv'[s].next = recv[s].next /\ recv[s].written <= recv'[s].written
        /\ recv'[s].written \in {recv[s].written, recv[s].next}
  BY <1>1, ReaderChanges
<1>3. PICK w \in Nat, n \in Nat : w = recv[s].written /\ n = recv[s].next /\ n <= w + 1
  BY <1>1, ReceiversTyped, BoundsTyped DEF LogInv, OneInHand
<1>4. OneInHand'
  BY <1>2, <1>3 DEF LogInv, OneInHand
<1>5. CASE recv'[s].written = w
  <2>1. \A q \in R!Recvs : recv'[q].written = recv[q].written
    BY <1>2, <1>3, <1>5
  <2>2. QED
    BY <1>1, <1>4, <2>1, NothingWritten
<1>6. CASE recv'[s].written # w
  <2>1. recv'[s].written = w + 1 /\ n = w + 1
    BY <1>2, <1>3, <1>6
  <2>2. idOf[s] # 0
    BY <1>1, <1>2 DEF LinkInv, ReceiversKnown
  <2>3. idOf[s] = stream => w < port.sender.next
    <3>1. PICK l \in Nat : l = port.sender.next
      BY <1>1, SenderTyped
    <3>2. idOf[s] = stream => n <= l
      BY <1>1, <1>2, <1>3, <3>1 DEF LinkInv, NoneAhead
    <3>3. QED
      BY <1>3, <2>1, <3>1, <3>2
  <2>4. [r \in R!Recvs |-> recv'[r].written]
          = [[r \in R!Recvs |-> recv[r].written] EXCEPT ![s] = w + 1]
    BY <1>2, <2>1
  <2>5. Log!Read(s)
    BY <1>1, <1>3, <2>2, <2>3, <2>4 DEF Log!Read
  <2>6. QED
    BY <1>4, <2>5
<1>7. QED
  BY <1>4, <1>5, <1>6

LEMMA LogStep ==
  ASSUME LogInv, [Next]_vars
  PROVE  OneInHand' /\ [Log!Next]_Log!vars
<1>1. LinkInv /\ OneInHand
  BY DEF LogInv
<1>2. ASSUME \A q \in R!Recvs :
               /\ recv'[q].written = recv[q].written
               /\ recv'[q].next = recv[q].next \/ recv'[q].next <= recv[q].written + 1
      PROVE  OneInHand'
  BY <1>1, <1>2, ReceiversTyped, BoundsTyped DEF OneInHand
<1>3. CASE Send \/ SendMore
  <2>1. UNCHANGED <<idOf, recvVars>>
    BY <1>3 DEF Send, SendMore
  <2>2. Log!NewLog \/ Log!Append \/ UNCHANGED Log!vars
    BY <1>1, <1>3, <2>1, OpenBeginsLog, DataAppends, OthersLeaveLog DEF Send, SendMore
  <2>3. QED
    BY <1>1, <2>1, <2>2 DEF Log!Next, OneInHand, recvVars
<1>4. CASE Arrives
  <2>1. ASSUME NEW m \in fwd, MessageArrives(m)
        PROVE  OneInHand' /\ [Log!Next]_Log!vars
    <3>1. UNCHANGED <<stream, port>> /\ UNCHANGED sendVars
      BY <2>1 DEF MessageArrives, sendVars
    <3>2. CASE /\ R!OnOpen(m.id)
               /\ idOf' = IF made' > made THEN [idOf EXCEPT ![made'] = m.id] ELSE idOf
      BY <1>1, <1>2, <3>1, <3>2, OpenJoins DEF Log!Next
    <3>3. CASE R!OnData(m.id, m.epoch, m.offset) /\ UNCHANGED idOf
      BY <1>2, <3>1, <3>3, DataTaken, NothingWritten
    <3>4. CASE R!OnResume(m.id, m.epoch, m.offset) /\ UNCHANGED idOf
      BY <1>1, <1>2, <3>1, <3>4, ResumeTaken, NothingWritten
    <3>5. CASE UNCHANGED <<idOf, recvVars>>
      BY <1>1, <3>1, <3>5, NothingWritten DEF OneInHand, recvVars
    <3>6. QED
      BY <2>1, <3>2, <3>3, <3>4, <3>5, Zenon DEF MessageArrives
  <2>2. ASSUME NEW m \in back, AnswerArrives(m), UNCHANGED <<stream, idOf, recvVars>>
        PROVE  OneInHand' /\ [Log!Next]_Log!vars
    BY <1>1, <2>2, AnswerForgets DEF Log!Next, OneInHand, recvVars
  <2>3. QED
    BY <1>4, <2>1, <2>2 DEF Arrives
<1>5. CASE Lost \/ UNCHANGED vars
  BY <1>1, <1>5, NothingWritten DEF Lost, vars, sendVars, recvVars, OneInHand
<1>6. CASE ReaderStep
  BY <1>6, ReaderReads DEF Log!Next
<1>7. CASE PeerRestarts
  <2>1. UNCHANGED <<stream, port, idOf>>
    BY <1>7 DEF PeerRestarts, sendVars
  <2>2. QED
    BY <1>1, <1>2, <1>7, <2>1, RestartWritesNothing, NothingWritten
<1>8. ASSUME NEW r \in R!Recvs, AckLoop(r)
      PROVE  OneInHand' /\ [Log!Next]_Log!vars
  <2>1. RP!AckLoop(r) /\ r \in RP!Recvs /\ UNCHANGED <<stream, port, idOf>> /\ RP!ReceiverInv
    BY <1>1, <1>8, SameReceiver DEF AckLoop, LinkInv, sendVars
  <2>2. /\ recv'[r].next = recv[r].next /\ recv'[r].written = recv[r].written
        /\ recv' = [recv EXCEPT ![r] = recv'[r]]
    BY <2>1, ReceiverBounds, RP!AckLoopSteps
  <2>3. \A q \in R!Recvs : recv'[q].next = recv[q].next /\ recv'[q].written = recv[q].written
    BY <2>1, <2>2, SameReceiver DEF RP!ReceiverInv, RP!TypeOK
  <2>4. QED
    BY <1>2, <2>1, <2>3, NothingWritten
<1>9. QED
  BY <1>3, <1>4, <1>5, <1>6, <1>7, <1>8 DEF Next

LEMMA LogInit == Init => LogInv /\ Log!Init
<1> SUFFICES ASSUME Init PROVE LogInv /\ Log!Init
  OBVIOUS
<1>1. LinkInv
  BY LinkInit
<1>2. /\ \A r \in R!Recvs : recv[r].next = 0 /\ recv[r].written = 0
      /\ stream = 0 /\ idOf = [r \in R!Recvs |-> 0]
  BY DEF Init, R!Init, R!NewReceiver
<1>3. port.sender.next = 0 /\ port.sender.base = 0
  BY DEF Init, NewPort
<1>4. [r \in R!Recvs |-> recv[r].written] = [r \in R!Recvs |-> 0]
  BY <1>2
<1>5. QED
  BY <1>1, <1>2, <1>3, <1>4 DEF LogInv, OneInHand, Log!Init

(* Refinement: whatever is lost, repeated or late, and whenever the peer     *)
(* starts anew, each receiver writes a stream from its beginning without a   *)
(* gap, and the sender forgets only what a receiver of this stream wrote.    *)
THEOREM StreamsAreLogs == Spec => StreamIsLog
<1>1. LogInv /\ [Next]_vars => LogInv' /\ [Log!Next]_Log!vars
  BY LinkStep, LogStep DEF LogInv
<1>2. QED
  BY <1>1, LogInit, PTL DEF Spec, StreamIsLog, Log!Spec

=============================================================================
