-------------------------- MODULE StreamPortProofs --------------------------
(***************************************************************************)
(* Theorems about StreamPort, for every set of sessions, every window and   *)
(* every bound, in three parts.                                             *)
(*                                                                         *)
(* The types: the state stays typed.                                        *)
(*                                                                         *)
(* The path: the lifecycle is the only goroutine that aims it; all the      *)
(* others (the writer, the handlers, the TUN reader) are bound by what      *)
(* OtherStep says, and the invariant of the path is proved from that and    *)
(* from the lifecycle's own actions.                                        *)
(*                                                                         *)
(* The data: the port implements PacketQueue, its offsets agree with the    *)
(* SDK's, credit wakes the writer, and the Data of every epoch reaches the  *)
(* wire in sequence.                                                        *)
(***************************************************************************)
EXTENDS StreamPort, SequenceTheorems, FiniteSetTheorems, TLAPS

-----------------------------------------------------------------------------
(* The types: the inductive invariant                                       *)

(* What the type of wire needs: no frame goes out before a session was      *)
(* chosen, and every frame carries an epoch that was in use.                *)
Unopened == {"open", "exit", "unregister", "close", "ended"}

TargetChosen ==
  port.target \in Sessions \/ (lc.pc \in Unopened /\ ~port.readyState)

EpochsUsed == port.epoch \in Epochs /\ port.sender.epoch \in Epochs

FrameAddressed ==
  wr.pc = "send" => wr.frame.session \in Sessions /\ wr.frame.epoch \in Epochs

(* An attempt has its candidate: Tail is never taken of an empty list.      *)
Attempting == {"sendOpen", "waitOpen", "sdkResume", "sendResume", "waitResume", "replay"}

CandidateLeft == lc.pc \in Attempting => lc.cands # << >>

TypeInv == TypeOK /\ TargetChosen /\ EpochsUsed /\ FrameAddressed /\ CandidateLeft

-----------------------------------------------------------------------------
(* The methods of the port keep its type                                    *)

LEMMA NewPortType == NewPort \in Port
BY WindowAssumption DEF NewPort, Port, Sender, AnySession

LEMMA TakeDownType ==
  ASSUME NEW p \in Port, NEW err \in BOOLEAN
  PROVE  TakeDown(p, err) \in Port
<1>1. CASE p.readyState
  <2>1. PICK n \in Nat : n = p.ready + 1
    BY DEF Port
  <2>2. TakeDown(p, err) = [p EXCEPT !.readyState = FALSE, !.ready = n]
    BY <1>1, <2>1 DEF TakeDown, Port
  <2>3. QED
    BY <2>2 DEF Port
<1>2. CASE ~p.readyState
  BY <1>2 DEF TakeDown, Port
<1>3. QED
  BY <1>1, <1>2

LEMMA BeginType ==
  ASSUME NEW p \in Port, NEW s \in AnySession, NEW e \in Nat
  PROVE  BeginOpen(p, s) \in Port /\ BeginResume(p, s, e) \in Port
<1>1. BeginOpen(p, s) \in Port
  <2>1. PICK n \in Nat : n = p.ready + 1
    BY DEF Port
  <2>2. BeginOpen(p, s) = [p EXCEPT !.target = s, !.readyState = FALSE, !.ready = n,
                                    !.resumeReady = FALSE, !.attemptErr = FALSE]
    BY <2>1 DEF BeginOpen, Port
  <2>3. QED
    BY <2>2 DEF Port
<1>2. BeginResume(p, s, e) \in Port
  <2>1. PICK n \in Nat : n = IF p.readyState THEN p.ready + 1 ELSE p.ready
    BY DEF Port
  <2>2. BeginResume(p, s, e)
          = [p EXCEPT !.target = s, !.epoch = e, !.readyState = FALSE, !.ready = n,
                      !.resumeReady = TRUE, !.resumeTok = FALSE, !.attemptErr = FALSE]
    BY <2>1 DEF BeginResume, Port
  <2>3. QED
    BY ZenonT(40), <2>2 DEF Port
<1>3. QED
  BY <1>1, <1>2

LEMMA AcknowledgeType ==
  ASSUME NEW p \in Port, NEW offset \in Nat, NEW window \in Nat
  PROVE  Acknowledge(p, offset, window) \in Port
<1>1. PICK b \in Nat : b = Larger(p.sender.base, offset)
  BY DEF Larger, Port, Sender
<1>2. PICK a \in Nat : a = Larger(p.lastAck, offset)
  BY DEF Larger, Port
<1>3. PICK w \in Nat : w = IF window > 0 THEN window ELSE p.sender.window
  BY DEF Port, Sender
<1>4. PICK l \in Nat : l = IF window > 0 THEN window ELSE p.lastWindow
  BY DEF Port
<1>5. PICK t \in BOOLEAN : t = (p.resumeTok \/ p.resumeReady)
  OBVIOUS
<1>6. PICK d \in Sender : d = [p.sender EXCEPT !.base = b, !.window = w]
  BY DEF Port, Sender
<1>7. PICK q \in Port : q = [p EXCEPT !.sender = d, !.lastAck = a, !.lastWindow = l]
  BY DEF Port
<1>8. Acknowledge(p, offset, window)
        = [q EXCEPT !.wake = TRUE, !.resumeTok = t, !.resumeReady = FALSE]
  <2>1. Acknowledge(p, offset, window)
          = [p EXCEPT !.sender = d, !.lastAck = a, !.lastWindow = l, !.wake = TRUE,
                      !.resumeTok = t, !.resumeReady = FALSE]
    BY ZenonT(40), <1>1, <1>2, <1>3, <1>4, <1>5, <1>6 DEF Acknowledge, Port, Sender
  <2>2. QED
    BY <1>7, <2>1 DEF Port
<1>9. QED
  BY <1>8 DEF Port

LEMMA SignalsType ==
  ASSUME NEW p \in Port
  PROVE  BecomeReady(p) \in Port /\ SignalPathLost(p) \in Port /\ ClosePort(p) \in Port
BY DEF BecomeReady, SignalPathLost, ClosePort, Port

LEMMA TokenType ==
  ASSUME NEW p \in Port, NEW b \in BOOLEAN
  PROVE  /\ [p EXCEPT !.attemptErr = b] \in Port
         /\ [p EXCEPT !.resumeTok = b] \in Port
         /\ [p EXCEPT !.lost = b] \in Port
         /\ [p EXCEPT !.wake = b] \in Port
BY DEF Port

LEMMA SenderResumeType ==
  ASSUME NEW p \in Port, NEW e \in Nat
  PROVE  SenderResume(p, e) \in Port
BY DEF SenderResume, Port, Sender

LEMMA CompleteResumeType ==
  ASSUME NEW p \in Port, NEW s, NEW e
  PROVE  CompleteResume(p, s, e) \in Port
<1>1. CASE ResumeComplete(p, s, e)
  BY <1>1, SignalsType DEF CompleteResume
<1>2. CASE ~ResumeComplete(p, s, e)
  BY <1>2 DEF CompleteResume, Port
<1>3. QED
  BY <1>1, <1>2

LEMMA RequestRestartType ==
  ASSUME NEW p \in Port, NEW s
  PROVE  RequestRestart(p, s) \in Port
BY DEF RequestRestart, Port

LEMMA DataForReadyPathType ==
  ASSUME NEW p \in Port, NEW k \in Nat
  PROVE  DataForReadyPath(p, k) \in Port
<1>1. PICK n \in Nat : n = p.sender.next + k
  BY DEF Port, Sender
<1>2. PICK d \in Sender : d = [p.sender EXCEPT !.next = n]
  BY DEF Port, Sender
<1>3. DataForReadyPath(p, k) = [p EXCEPT !.sender = d, !.lastSent = n]
  BY <1>1, <1>2 DEF DataForReadyPath, Port, Sender
<1>4. QED
  BY <1>3 DEF Port

-----------------------------------------------------------------------------
(* The lifecycle keeps the types                                            *)

LEMMA CandidatesType == Candidates \subseteq Seq(Sessions)
<1>1. Cardinality(Sessions) \in Nat
  BY SessionsAssumption, FS_CardinalityType
<1>2. \A n \in 0 .. Cardinality(Sessions) : [1 .. n -> Sessions] \subseteq Seq(Sessions)
  BY <1>1, SeqDef
<1>3. QED
  BY <1>2 DEF Candidates

LEMMA NextTryType ==
  ASSUME lc \in Lifecycle, lc.cands # << >>, NEW step \in {"open", "resume"},
         NextTry(step)
  PROVE  lc' \in Lifecycle
<1>1. PICK c \in Seq(Sessions) : c = Tail(lc.cands)
  BY HeadTailProperties DEF Lifecycle
<1>2. lc' = [lc EXCEPT !.pc = step, !.cands = c]
  BY <1>1 DEF NextTry, Lifecycle
<1>3. QED
  BY <1>2 DEF Lifecycle

LEMMA LifecycleMovesType ==
  ASSUME lc \in Lifecycle, CandidateLeft, port \in Port, port' \in Port, LifecycleStep
  PROVE  lc' \in Lifecycle
<1> USE DEF Goto, Exit, GiveUp
<1>1. CASE OpenCandidate
  BY <1>1 DEF OpenCandidate, Lifecycle, Port, Sender
<1>2. CASE SendOpen
  BY <1>2, NextTryType DEF SendOpen, Lifecycle, CandidateLeft, Attempting
<1>3. CASE OpenRejected
  BY <1>3, NextTryType DEF OpenRejected, Lifecycle, CandidateLeft, Attempting
<1>4. CASE OpenTimeout
  BY <1>4, NextTryType DEF OpenTimeout, Lifecycle, CandidateLeft, Attempting
<1>5. CASE OpenAnswered
  BY <1>5 DEF OpenAnswered, Lifecycle
<1>6. CASE RunStreamLeaves
  BY ZenonT(40), <1>6 DEF RunStreamLeaves, Lifecycle
<1>7. CASE OpenExhausted
  BY <1>7 DEF OpenExhausted, Lifecycle
<1>8. CASE ActivateStream
  BY <1>8 DEF ActivateStream, Lifecycle
<1>9. CASE TakeLost
  BY <1>9 DEF TakeLost, Lifecycle
<1>10. CASE DeactivateStream
  BY <1>10 DEF DeactivateStream, Lifecycle
<1>11. CASE ResolveForResume
  <2>1. CASE GiveUp
    BY <2>1 DEF Lifecycle
  <2>2. CASE \E c \in Candidates : lc' = [lc EXCEPT !.pc = "resume", !.cands = c]
    <3>1. PICK c \in Seq(Sessions) : lc' = [lc EXCEPT !.pc = "resume", !.cands = c]
      BY <2>2, CandidatesType
    <3>2. QED
      BY <3>1 DEF Lifecycle
  <2>3. QED
    BY <1>11, <2>1, <2>2 DEF ResolveForResume
<1>12. CASE ResumeGivesUp
  BY <1>12 DEF ResumeGivesUp, Lifecycle
<1>13. CASE ResumeCandidate
  BY <1>13 DEF ResumeCandidate, Lifecycle, Port, Sender
<1>14. CASE SdkResume
  BY <1>14 DEF SdkResume, Lifecycle, Port, Sender
<1>15. CASE SendResume
  BY <1>15, NextTryType DEF SendResume, Lifecycle, CandidateLeft, Attempting
<1>16. CASE ResumeAnswered
  BY <1>16 DEF ResumeAnswered, Lifecycle
<1>17. CASE ResumeRejected
  BY <1>17, NextTryType DEF ResumeRejected, Lifecycle, CandidateLeft, Attempting
<1>18. CASE ResumeTimeout
  BY <1>18, NextTryType DEF ResumeTimeout, Lifecycle, CandidateLeft, Attempting
<1>19. CASE ReplayFrame
  <2>1. PICK n \in Nat : n = lc.replay.from + 1
    BY DEF Lifecycle
  <2>2. CASE lc' = [lc EXCEPT !.replay.from = @ + 1]
    <3>1. lc' = [lc EXCEPT !.replay.from = n]
      BY <2>1, <2>2 DEF Lifecycle
    <3>2. QED
      BY <3>1 DEF Lifecycle
  <2>3. CASE NextTry("resume")
    BY <1>19, <2>3, NextTryType DEF ReplayFrame, CandidateLeft, Attempting
  <2>4. QED
    BY <1>19, <2>2, <2>3 DEF ReplayFrame
<1>20. CASE FinishResume
  BY <1>20, NextTryType DEF FinishResume, Lifecycle, CandidateLeft, Attempting
<1>21. CASE LeaveOutlet
  BY <1>21 DEF LeaveOutlet, Lifecycle
<1>22. CASE Unregister
  BY <1>22 DEF Unregister, Lifecycle
<1>23. CASE EndStream
  BY <1>23 DEF EndStream, Lifecycle
<1>24. QED
  BY <1>1, <1>2, <1>3, <1>4, <1>5, <1>6, <1>7, <1>8, <1>9, <1>10, <1>11, <1>12, <1>13, <1>14, <1>15, <1>16, <1>17, <1>18, <1>19, <1>20, <1>21, <1>22, <1>23 DEF LifecycleStep

(* What the methods that begin an attempt set.                              *)
LEMMA BeginSets ==
  ASSUME NEW p \in Port, NEW s, NEW e
  PROVE  /\ BeginOpen(p, s).target = s /\ BeginOpen(p, s).epoch = p.epoch
         /\ BeginOpen(p, s).sender = p.sender /\ ~BeginOpen(p, s).readyState
         /\ BeginResume(p, s, e).target = s /\ BeginResume(p, s, e).epoch = e
         /\ BeginResume(p, s, e).sender = p.sender /\ ~BeginResume(p, s, e).readyState
BY DEF BeginOpen, BeginResume, Port

LEMMA CandidateIsSession ==
  ASSUME lc \in Lifecycle, lc.cands # << >>
  PROVE  Head(lc.cands) \in Sessions
BY HeadTailProperties DEF Lifecycle

LEMMA LifecyclePortType ==
  ASSUME TypeInv, LifecycleStep
  PROVE  port' \in Port
<1> USE DEF TypeInv, TypeOK
<1>1. CASE OpenCandidate
  BY <1>1, BeginType, CandidateIsSession DEF OpenCandidate, AnySession
<1>2. CASE OpenRejected
  BY <1>2, TokenType DEF OpenRejected
<1>3. CASE TakeLost
  BY <1>3, TokenType DEF TakeLost
<1>4. CASE ResumeCandidate
  <2>1. port.epoch + 1 \in Nat
    BY DEF Port
  <2>2. QED
    BY <1>4, <2>1, BeginType, CandidateIsSession DEF ResumeCandidate, AnySession
<1>5. CASE SdkResume
  <2>1. port.epoch \in Nat
    BY DEF Port
  <2>2. QED
    BY <1>5, <2>1, SenderResumeType DEF SdkResume
<1>6. CASE ResumeAnswered
  BY <1>6, TokenType DEF ResumeAnswered
<1>7. CASE ResumeRejected
  BY <1>7, TokenType DEF ResumeRejected
<1>8. CASE FinishResume
  BY <1>8, CompleteResumeType DEF FinishResume, Port
<1>9. CASE EndStream
  BY <1>9, SignalsType DEF EndStream
<1>10. CASE UNCHANGED port
  BY <1>10
<1>11. QED
  BY <1>1, <1>2, <1>3, <1>4, <1>5, <1>6, <1>7, <1>8, <1>9, <1>10 DEF
     LifecycleStep, SendOpen, OpenTimeout, OpenAnswered, RunStreamLeaves,
     OpenExhausted, ActivateStream, DeactivateStream, ResolveForResume,
     ResumeGivesUp, SendResume, ResumeTimeout, ReplayFrame, LeaveOutlet,
     Unregister

LEMMA LifecycleTargets ==
  ASSUME TypeInv, LifecycleStep
  PROVE  TargetChosen' /\ EpochsUsed' /\ CandidateLeft'
<1> USE DEF TypeInv, TypeOK, TargetChosen, EpochsUsed, CandidateLeft, Unopened, Attempting, Lifecycle, Goto, NextTry, Exit, GiveUp
<1>1. CASE OpenCandidate
  <2>1. port'.target \in Sessions
    <3>1. Head(lc.cands) \in Sessions
      BY <1>1, CandidateIsSession DEF OpenCandidate
    <3>2. BeginOpen(port, Head(lc.cands)).target = Head(lc.cands)
      BY BeginSets
    <3>3. QED
      BY <1>1, <3>1, <3>2 DEF OpenCandidate
  <2>2. port'.epoch \in Epochs /\ port'.sender.epoch \in Epochs
    <3>1. port' = BeginOpen(port, Head(lc.cands))
      BY <1>1 DEF OpenCandidate
    <3>2. port'.epoch = port.epoch /\ port'.sender = port.sender
      BY <3>1, BeginSets
    <3>3. port.epoch \in Epochs /\ port.sender.epoch \in Epochs
      OBVIOUS
    <3>4. QED
      BY ONLY <3>2, <3>3
  <2>3. lc'.pc = "sendOpen" /\ lc'.cands # << >>
    BY <1>1 DEF OpenCandidate
  <2>4. QED
    BY <2>1, <2>2, <2>3
<1>2. CASE SendOpen
  BY <1>2 DEF SendOpen
<1>3. CASE OpenRejected
  BY <1>3 DEF OpenRejected, Port
<1>4. CASE OpenTimeout
  BY <1>4 DEF OpenTimeout
<1>5. CASE OpenAnswered
  BY <1>5 DEF OpenAnswered
<1>6. CASE RunStreamLeaves
  BY ZenonT(40), <1>6 DEF RunStreamLeaves
<1>7. CASE OpenExhausted
  BY <1>7 DEF OpenExhausted
<1>8. CASE ActivateStream
  BY <1>8 DEF ActivateStream
<1>9. CASE TakeLost
  BY <1>9 DEF TakeLost, Port
<1>10. CASE DeactivateStream
  BY <1>10 DEF DeactivateStream
<1>11. CASE ResolveForResume
  <2>1. port' = port /\ lc.pc = "recover" /\ lc'.pc \in {"resume", "exit"}
    BY <1>11 DEF ResolveForResume
  <2>2. QED
    BY <2>1
<1>12. CASE ResumeGivesUp
  BY <1>12 DEF ResumeGivesUp
<1>13. CASE ResumeCandidate
  <2>1. port'.target \in Sessions
    BY <1>13, BeginSets, CandidateIsSession DEF ResumeCandidate
  <2>2. port'.epoch \in Epochs /\ port'.sender.epoch \in Epochs
    <3>1. /\ port' = BeginResume(port, Head(lc.cands), port.epoch + 1)
          /\ port.epoch < MaxEpoch
      BY <1>13 DEF ResumeCandidate
    <3>2. port'.epoch = port.epoch + 1 /\ port'.sender = port.sender
      BY <3>1, BeginSets
    <3>3. port.epoch \in 0 .. MaxEpoch /\ port.sender.epoch \in Epochs
      BY DEF Epochs
    <3>4. QED
      BY ONLY <3>1, <3>2, <3>3, BoundsAssumption DEF Epochs
  <2>3. lc'.pc = "sdkResume" /\ lc'.cands # << >>
    BY <1>13 DEF ResumeCandidate
  <2>4. QED
    BY <2>1, <2>2, <2>3
<1>14. CASE SdkResume
  BY <1>14 DEF SdkResume, Port, Sender, SenderResume
<1>15. CASE SendResume
  <2>1. /\ port' = port /\ lc.pc = "sendResume" /\ lc'.pc \in {"waitResume", "resume"}
        /\ lc'.pc = "waitResume" => lc'.cands = lc.cands
    BY <1>15 DEF SendResume
  <2>2. QED
    BY <2>1
<1>16. CASE ResumeAnswered
  BY <1>16 DEF ResumeAnswered, Port
<1>17. CASE ResumeRejected
  BY <1>17 DEF ResumeRejected, Port
<1>18. CASE ResumeTimeout
  BY <1>18 DEF ResumeTimeout
<1>19. CASE ReplayFrame
  BY <1>19 DEF ReplayFrame
<1>20. CASE FinishResume
  BY <1>20 DEF FinishResume, Port, CompleteResume, BecomeReady
<1>21. CASE LeaveOutlet
  BY <1>21 DEF LeaveOutlet
<1>22. CASE Unregister
  BY <1>22 DEF Unregister
<1>23. CASE EndStream
  BY <1>23 DEF EndStream, Port, ClosePort
<1>24. QED
  BY <1>1, <1>2, <1>3, <1>4, <1>5, <1>6, <1>7, <1>8, <1>9, <1>10, <1>11, <1>12, <1>13, <1>14, <1>15, <1>16, <1>17, <1>18, <1>19, <1>20, <1>21, <1>22, <1>23 DEF LifecycleStep

LEMMA LifecycleWriter ==
  ASSUME TypeInv, LifecycleStep
  PROVE  wr' \in Writer /\ FrameAddressed'
<1> USE DEF TypeInv, TypeOK, FrameAddressed
<1>1. CASE ActivateStream
  BY <1>1 DEF ActivateStream, Writer
<1>2. CASE UNCHANGED wr
  BY <1>2
<1>3. QED
  BY <1>1, <1>2 DEF LifecycleStep, OpenCandidate, SendOpen, OpenRejected,
     OpenTimeout, OpenAnswered, RunStreamLeaves, OpenExhausted, TakeLost,
     DeactivateStream, ResolveForResume, ResumeGivesUp, ResumeCandidate,
     SdkResume, SendResume, ResumeAnswered, ResumeRejected, ResumeTimeout,
     ReplayFrame, FinishResume, LeaveOutlet, Unregister, EndStream

LEMMA LifecycleWire ==
  ASSUME TypeInv, LifecycleStep
  PROVE  wire' \subseteq Sessions \X Epochs
<1> USE DEF TypeInv, TypeOK
<1>1. CASE SendOpen
  BY <1>1, BoundsAssumption DEF SendOpen, Sent, TargetChosen, Unopened, Epochs
<1>2. CASE SendResume
  BY <1>2 DEF SendResume, Sent, TargetChosen, Unopened, EpochsUsed
<1>3. CASE UNCHANGED wire
  BY <1>3
<1>4. QED
  BY <1>1, <1>2, <1>3 DEF LifecycleStep, OpenCandidate, OpenRejected,
     OpenTimeout, OpenAnswered, RunStreamLeaves, OpenExhausted,
     ActivateStream, TakeLost, DeactivateStream, ResolveForResume,
     ResumeGivesUp, ResumeCandidate, SdkResume, ResumeAnswered,
     ResumeRejected, ResumeTimeout, ReplayFrame, FinishResume, LeaveOutlet,
     Unregister, EndStream

LEMMA SentToType ==
  ASSUME hist \in History, NEW e, NEW to \in Nat, SentTo(e, to)
  PROVE  hist' \in History
BY DEF SentTo, History

LEMMA LifecycleHistory ==
  ASSUME TypeInv, LifecycleStep
  PROVE  hist' \in History
<1> USE DEF TypeInv, TypeOK
<1>1. CASE ResumeCandidate
  <2>1. port.lastAck \in Nat
    BY DEF Port
  <2>2. QED
    BY <1>1, <2>1, SentToType DEF ResumeCandidate
<1>2. CASE ReplayFrame
  <2>1. CASE lc' = [lc EXCEPT !.replay.from = @ + 1] /\ SentTo(port.epoch, lc'.replay.from)
    <3>1. lc'.replay.from \in Nat
      BY <2>1 DEF Lifecycle
    <3>2. QED
      BY <2>1, <3>1, SentToType
  <2>2. CASE UNCHANGED hist
    BY <2>2
  <2>3. QED
    BY <1>2, <2>1, <2>2 DEF ReplayFrame
<1>3. CASE UNCHANGED hist
  BY <1>3
<1>4. QED
  BY <1>1, <1>2, <1>3 DEF LifecycleStep, OpenCandidate, SendOpen,
     OpenRejected, OpenTimeout, OpenAnswered, RunStreamLeaves,
     OpenExhausted, ActivateStream, TakeLost, DeactivateStream,
     ResolveForResume, ResumeGivesUp, SdkResume, SendResume, ResumeAnswered,
     ResumeRejected, ResumeTimeout, FinishResume, LeaveOutlet, Unregister,
     EndStream

LEMMA LifecycleKeepsType ==
  ASSUME TypeInv, LifecycleStep
  PROVE  TypeInv'
<1>1. port' \in Port
  BY LifecyclePortType
<1>2. lc' \in Lifecycle
  BY <1>1, LifecycleMovesType DEF TypeInv, TypeOK
<1>3. active' \in BOOLEAN /\ preferred' \in AnySession
  BY <1>1 DEF TypeInv, TypeOK, AnySession, Lifecycle, LifecycleStep,
     OpenCandidate, SendOpen, OpenRejected, OpenTimeout, OpenAnswered,
     RunStreamLeaves, OpenExhausted, ActivateStream, TakeLost,
     DeactivateStream, ResolveForResume, ResumeGivesUp, ResumeCandidate,
     SdkResume, SendResume, ResumeAnswered, ResumeRejected, ResumeTimeout,
     ReplayFrame, FinishResume, LeaveOutlet, Unregister, EndStream
<1>4. /\ ctxDone' \in BOOLEAN /\ queue' \in Seq(Nat) /\ tun' \in {"idle", "got"}
      /\ hd' \in [Handlers -> Handler] /\ spent' \in [faults : Nat, openAcks : Nat]
  BY DEF TypeInv, TypeOK, LifecycleStep, Handler
<1>5. QED
  BY <1>1, <1>2, <1>3, <1>4, LifecycleTargets, LifecycleWriter, LifecycleWire,
     LifecycleHistory DEF TypeInv, TypeOK

-----------------------------------------------------------------------------
(* The writer keeps the types                                               *)

(* What taking a path down, or signalling it, leaves alone.                 *)
LEMMA TakeDownKeeps ==
  ASSUME NEW p \in Port, NEW err
  PROVE  /\ TakeDown(p, err).target = p.target /\ TakeDown(p, err).epoch = p.epoch
         /\ TakeDown(p, err).sender = p.sender /\ ~TakeDown(p, err).readyState
         /\ SignalPathLost(p).target = p.target /\ SignalPathLost(p).epoch = p.epoch
         /\ SignalPathLost(p).sender = p.sender
         /\ SignalPathLost(p).readyState = p.readyState
BY DEF TakeDown, SignalPathLost, Port

LEMMA FillBatchType ==
  ASSUME wr \in Writer, NEW b \in Seq(Nat), NEW q \in Seq(Nat), FillBatch(b, q)
  PROVE  wr' \in Writer /\ queue' \in Seq(Nat) /\ wr'.pc = "path"
<1>1. PICK k \in 0 .. Len(q) :
        LET overflow == IF k = Len(q) THEN << >> ELSE <<q[k + 1]>>
        IN  /\ wr' = [wr EXCEPT !.pc = "path", !.pending = b \o SubSeq(q, 1, k),
                                !.overflow = overflow]
            /\ queue' = SubSeq(q, k + 1 + Len(overflow), Len(q))
  BY DEF FillBatch
<1>2. Len(q) \in Nat /\ \A i \in 1 .. Len(q) : q[i] \in Nat
  BY LenProperties, ElementOfSeq
<1>3. SubSeq(q, 1, k) \in Seq(Nat)
  BY <1>2, SubSeqProperties
<1>4. PICK pending \in Seq(Nat) : pending = b \o SubSeq(q, 1, k)
  BY <1>3, ConcatProperties
<1> DEFINE overflow == IF k = Len(q) THEN << >> ELSE <<q[k + 1]>>
<1>5. overflow \in Seq(Nat) /\ Len(overflow) \in 0 .. 1
  <2>1. CASE k = Len(q)
    BY <2>1
  <2>2. CASE k # Len(q)
    <3>1. <<q[k + 1]>> \in Seq(Nat) /\ Len(<<q[k + 1]>>) = 1
      BY <1>2, <2>2
    <3>2. QED
      BY <2>2, <3>1
  <2>3. QED
    BY <2>1, <2>2
<1>6. /\ wr' = [wr EXCEPT !.pc = "path", !.pending = pending, !.overflow = overflow]
      /\ queue' = SubSeq(q, k + 1 + Len(overflow), Len(q))
  BY <1>1, <1>4
<1> HIDE DEF overflow
<1>7. SubSeq(q, k + 1 + Len(overflow), Len(q)) \in Seq(Nat)
  BY <1>2, <1>5, SubSeqProperties
<1>8. wr' \in Writer /\ wr'.pc = "path"
  BY <1>5, <1>6 DEF Writer
<1>9. QED
  BY <1>6, <1>7, <1>8

(* The writer takes its next batch, or fills up the one that waits.         *)
LEMMA BatchType ==
  ASSUME wr \in Writer, queue \in Seq(Nat), TakeBatch \/ WriterWakes
  PROVE  /\ wr' \in Writer /\ queue' \in Seq(Nat)
         /\ wr'.pc = "path"
<1>1. CASE wr.overflow # << >> /\ FillBatch(wr.overflow, queue)
  BY <1>1, FillBatchType DEF Writer
<1>2. CASE queue # << >> /\ FillBatch(<<Head(queue)>>, Tail(queue))
  <2>1. Head(queue) \in Nat /\ Tail(queue) \in Seq(Nat)
    BY <1>2, HeadTailProperties
  <2>2. <<Head(queue)>> \in Seq(Nat)
    BY <2>1
  <2>3. QED
    BY <1>2, <2>1, <2>2, FillBatchType
<1>3. CASE FillBatch(wr.pending, queue)
  BY <1>3, FillBatchType DEF Writer
<1>4. CASE WGoto("path") /\ UNCHANGED queue
  BY <1>4 DEF WGoto, Writer
<1>5. QED
  BY <1>1, <1>2, <1>3, <1>4 DEF TakeBatch, WriterWakes

LEMMA ProgressType ==
  ASSUME port \in Port
  PROVE  Progress(port) \in Stall /\ NoStall \in Stall
BY DEF Progress, NoStall, Port, Stall, AnySession

LEMMA WriterMovesType ==
  ASSUME TypeInv, WriterStep
  PROVE  wr' \in Writer /\ queue' \in Seq(Nat)
<1> USE DEF TypeInv, TypeOK, WGoto
<1>1. CASE TakeBatch \/ WriterWakes
  BY <1>1, BatchType
<1>2. CASE IdleTick
  BY <1>2, ProgressType DEF IdleTick, Writer
<1>3. CASE IdleFail
  BY <1>3, ProgressType DEF IdleFail, Writer
<1>4. CASE ReadPath
  BY <1>4 DEF ReadPath, Writer, Port
<1>5. CASE SeePathReady
  BY <1>5 DEF SeePathReady, Writer
<1>6. CASE DataPathGone
  BY <1>6 DEF DataPathGone, Writer
<1>7. CASE DataNoCredit
  BY <1>7 DEF DataNoCredit, Writer, NoFrame, Frame, Port
<1>8. CASE DataFramed
  <2>1. PICK f \in Frame : f = [session |-> port.target, epoch |-> port.sender.epoch,
                               from |-> port.sender.next, to |-> port'.sender.next]
    <3>1. port'.sender.next \in Nat
      BY <1>8 DEF DataFramed, DataForReadyPath, Port, Sender, Writer
    <3>2. QED
      BY <3>1 DEF Frame, Port, Sender
  <2>2. wr' = [wr EXCEPT !.pc = "send", !.pending = << >>, !.stalled = NoStall, !.frame = f]
    BY <1>8, <2>1 DEF DataFramed
  <2>3. PICK t \in Stall : t = NoStall
    BY ProgressType
  <2>4. wr' = [wr EXCEPT !.pc = "send", !.pending = << >>, !.stalled = t, !.frame = f]
    BY <2>2, <2>3
  <2>5. wr' \in Writer
    <3>1. wr' = [pc |-> "send", chan |-> wr.chan, frame |-> f, pending |-> << >>,
                 overflow |-> wr.overflow, stalled |-> t,
                 idleStalled |-> wr.idleStalled]
      BY <2>4 DEF Writer
    <3>2. QED
      BY <3>1 DEF Writer
  <2>6. QED
    BY <1>8, <2>5 DEF DataFramed
<1>9. CASE CreditPathGone
  BY <1>9, ProgressType DEF CreditPathGone, Writer
<1>10. CASE AwaitCredit
  BY <1>10, ProgressType DEF AwaitCredit, Writer
<1>11. CASE CreditStalls
  BY <1>11 DEF CreditStalls, Writer
<1>12. CASE CreditFail
  BY <1>12, ProgressType DEF CreditFail, Writer
<1>13. CASE SendData
  BY <1>13 DEF SendData, Writer
<1>14. CASE SendFail
  BY <1>14 DEF SendFail, Writer
<1>15. CASE WriterSignals
  BY <1>15 DEF WriterSignals, Writer
<1>16. CASE WriterQuits
  BY <1>16 DEF WriterQuits, Writer
<1>17. QED
  BY <1>1, <1>2, <1>3, <1>4, <1>5, <1>6, <1>7, <1>8, <1>9, <1>10, <1>11,
     <1>12, <1>13, <1>14, <1>15, <1>16 DEF WriterStep

(* The writer may take the path down; it aims it nowhere else.              *)
SamePath ==
  /\ port' \in Port /\ port'.target = port.target /\ port'.epoch = port.epoch
  /\ port'.sender.epoch = port.sender.epoch /\ (port'.readyState => port.readyState)

LEMMA WriterKeepsPath ==
  ASSUME port \in Port, wr \in Writer, WriterStep
  PROVE  SamePath
<1> USE DEF SamePath
<1>1. CASE port' = TakeDown(port, TRUE)
  BY <1>1, TakeDownType, TakeDownKeeps
<1>2. CASE DataFramed
  <2>1. Len(wr.pending) \in Nat
    BY LenProperties DEF Writer
  <2>2. port' \in Port
    BY <1>2, <2>1, DataForReadyPathType DEF DataFramed
  <2>3. /\ port'.target = port.target /\ port'.epoch = port.epoch
        /\ port'.readyState = port.readyState
    BY <1>2 DEF DataFramed, DataForReadyPath, Port
  <2>4. port'.sender = [port.sender EXCEPT !.next = @ + Len(wr.pending)]
    BY <1>2 DEF DataFramed, DataForReadyPath, Port
  <2>5. port'.sender.epoch = port.sender.epoch
    BY <2>4 DEF Port, Sender
  <2>6. QED
    BY <2>2, <2>3, <2>5
<1>3. CASE WriterWakes
  <2>1. PICK w \in BOOLEAN : port' = [port EXCEPT !.wake = w]
    BY <1>3 DEF WriterWakes, Port
  <2>2. port' \in Port
    BY <2>1, TokenType
  <2>3. /\ port'.target = port.target /\ port'.epoch = port.epoch
        /\ port'.readyState = port.readyState /\ port'.sender = port.sender
    BY <2>1 DEF Port
  <2>4. QED
    BY <2>2, <2>3
<1>4. CASE WriterSignals
  BY <1>4, SignalsType, TakeDownKeeps DEF WriterSignals
<1>5. CASE UNCHANGED port
  BY <1>5
<1>6. CASE IdleFail \/ CreditFail \/ SendFail
  <2>1. port' = TakeDown(port, TRUE) \/ UNCHANGED port
    BY <1>6 DEF IdleFail, CreditFail, SendFail, FailPath, FailPathIfAckUnchanged
  <2>2. QED
    BY <1>1, <1>5, <2>1
<1>7. QED
  BY <1>2, <1>3, <1>4, <1>5, <1>6 DEF WriterStep, TakeBatch, IdleTick,
     ReadPath, SeePathReady, DataPathGone, DataNoCredit, CreditPathGone,
     AwaitCredit, CreditStalls, SendData, WriterQuits

LEMMA FailedType ==
  ASSUME port \in Port, hist \in History, NEW hit, NoteFailed(hit) \/ Failed
  PROVE  hist' \in History
<1> DEFINE f == hist.failed \cup {<<port.target, port.epoch>>}
<1>1. f \in SUBSET (AnySession \X Nat)
  BY DEF History, Port
<1>2. CASE Failed
  <2>1. hist' = [hist EXCEPT !.failed = f]
    BY <1>2 DEF Failed
  <2> HIDE DEF f
  <2>2. QED
    BY <1>1, <2>1 DEF History
<1>3. QED
  BY <1>2 DEF NoteFailed

LEMMA WriterHistory ==
  ASSUME TypeInv, WriterStep
  PROVE  hist' \in History
<1> USE DEF TypeInv, TypeOK
<1>1. CASE IdleFail
  BY <1>1, FailedType DEF IdleFail
<1>2. CASE CreditFail
  BY <1>2, FailedType DEF CreditFail
<1>3. CASE SendFail
  BY <1>3, FailedType DEF SendFail
<1>4. CASE DataFramed
  <2>1. hist.framed \o wr.pending \in Seq(Nat)
    BY ConcatProperties DEF History, Writer
  <2>2. QED
    BY <1>4, <2>1 DEF DataFramed, History
<1>5. CASE SendData
  <2>1. wr.frame.to \in Nat
    BY DEF Writer, Frame
  <2>2. QED
    BY <1>5, <2>1, SentToType DEF SendData
<1>6. CASE UNCHANGED hist
  BY <1>6
<1>7. QED
  BY <1>1, <1>2, <1>3, <1>4, <1>5, <1>6 DEF WriterStep, TakeBatch, IdleTick,
     ReadPath, SeePathReady, DataPathGone, DataNoCredit, CreditPathGone,
     AwaitCredit, CreditStalls, WriterWakes, WriterSignals, WriterQuits

LEMMA WriterWire ==
  ASSUME TypeInv, WriterStep
  PROVE  wire' \subseteq Sessions \X Epochs
<1> USE DEF TypeInv, TypeOK
<1>1. CASE SendData
  BY <1>1 DEF SendData, Sent, FrameAddressed
<1>2. CASE UNCHANGED wire
  BY <1>2
<1>3. QED
  BY <1>1, <1>2 DEF WriterStep, TakeBatch, IdleTick, IdleFail, ReadPath,
     SeePathReady, DataPathGone, DataNoCredit, DataFramed, CreditPathGone,
     AwaitCredit, CreditStalls, CreditFail, WriterWakes, SendFail,
     WriterSignals, WriterQuits

LEMMA WriterFrame ==
  ASSUME TypeInv, WriterStep
  PROVE  FrameAddressed'
<1> USE DEF TypeInv, TypeOK, FrameAddressed
<1>1. CASE DataFramed
  BY <1>1 DEF DataFramed, TargetChosen, EpochsUsed, Writer
<1>2. CASE wr'.pc # "send"
  BY <1>2
<1>3. CASE TakeBatch \/ WriterWakes
  BY <1>2, <1>3, BatchType
<1>4. QED
  BY <1>1, <1>2, <1>3 DEF WriterStep, WGoto, Writer, IdleTick, IdleFail,
     ReadPath, SeePathReady, DataPathGone, DataNoCredit, CreditPathGone,
     AwaitCredit, CreditStalls, CreditFail, SendData, SendFail,
     WriterSignals, WriterQuits

LEMMA WriterKeepsType ==
  ASSUME TypeInv, WriterStep
  PROVE  TypeInv'
<1>1. SamePath
  BY WriterKeepsPath DEF TypeInv, TypeOK
<1>2. /\ ctxDone' \in BOOLEAN /\ tun' \in {"idle", "got"}
      /\ active' \in BOOLEAN /\ preferred' \in AnySession /\ lc' = lc
      /\ hd' \in [Handlers -> Handler] /\ spent' \in [faults : Nat, openAcks : Nat]
  BY DEF TypeInv, TypeOK, WriterStep, Handler
<1>3. TargetChosen' /\ EpochsUsed' /\ CandidateLeft'
  BY <1>1, <1>2 DEF TypeInv, SamePath, TargetChosen, EpochsUsed, CandidateLeft
<1>4. QED
  BY <1>1, <1>2, <1>3, WriterMovesType, WriterHistory, WriterWire, WriterFrame
     DEF TypeInv, TypeOK, SamePath

-----------------------------------------------------------------------------
(* The handlers and the TUN reader keep the types                           *)

(* A handler aims the path nowhere else, and makes it ready only if it was  *)
(* opened.                                                                  *)
SameAim ==
  /\ port' \in Port /\ port'.target = port.target /\ port'.epoch = port.epoch
  /\ port'.sender.epoch = port.sender.epoch
  /\ port'.readyState => port.readyState \/ port.target \in Sessions

LEMMA AcknowledgeKeeps ==
  ASSUME NEW p \in Port, NEW offset \in Nat, NEW window \in Nat
  PROVE  LET q == Acknowledge(p, offset, window)
         IN  /\ q.target = p.target /\ q.epoch = p.epoch
             /\ q.readyState = p.readyState /\ q.sender.epoch = p.sender.epoch
             /\ q.ready = p.ready /\ q.closed = p.closed
             /\ q.attemptErr = p.attemptErr /\ q.lost = p.lost
<1> DEFINE d == [p.sender EXCEPT !.base = Larger(@, offset),
                                 !.window = IF window > 0 THEN window ELSE @]
<1>1. Acknowledge(p, offset, window).sender = d
  BY DEF Acknowledge, Port
<1>2. d.epoch = p.sender.epoch
  BY DEF Port, Sender
<1>3. QED
  BY <1>1, <1>2 DEF Acknowledge, Port

LEMMA HandlerCallKeepsAim ==
  ASSUME TypeInv, HandlerCall
  PROVE  SameAim
<1> USE DEF TypeInv, TypeOK, SameAim
<1>1. ASSUME NEW s \in Sessions, OnOpenAck(s)
      PROVE  SameAim
  BY <1>1, SignalsType DEF OnOpenAck, OpenAckAccepted, Aims, AcceptOpenAck, BecomeReady, Port
<1>2. ASSUME NEW s \in Sessions, OnPeerOpen(s)
      PROVE  SameAim
  BY <1>2, RequestRestartType DEF OnPeerOpen, RequestRestart, Port
<1>3. ASSUME NEW s \in Sessions, OnPeerResume(s)
      PROVE  SameAim
  BY <1>3 DEF OnPeerResume
<1>4. ASSUME NEW s \in Sessions, NEW e \in Epochs, OnStreamSendResult(s, e)
      PROVE  SameAim
  <2>1. port' = TakeDown(port, TRUE)
    BY <1>4 DEF OnStreamSendResult, FailPath
  <2>2. QED
    BY <2>1, TakeDownType, TakeDownKeeps
<1>5. ASSUME NEW s \in Sessions, NEW e \in Epochs, NEW offset \in 0 .. MaxPackets,
             NEW w \in Windows, OnAck(s, e, offset, w)
      PROVE  SameAim
  <2>1. offset \in Nat /\ w \in Nat
    BY WindowAssumption, BoundsAssumption
  <2>2. port' = Acknowledge(port, offset, w)
    BY <1>5 DEF OnAck
  <2>3. Acknowledge(port, offset, w) \in Port
    BY <2>1, AcknowledgeType
  <2>4. /\ port'.target = port.target /\ port'.epoch = port.epoch
        /\ port'.readyState = port.readyState
        /\ port'.sender.epoch = port.sender.epoch
    BY ONLY <2>1, <2>2, port \in Port, AcknowledgeKeeps
  <2>5. QED
    BY <2>2, <2>3, <2>4
<1>6. ASSUME NEW err \in BOOLEAN, OnDisconnect(err)
      PROVE  SameAim
  BY <1>6, TakeDownType, TakeDownKeeps DEF OnDisconnect, MarkPathLostWithError
<1>7. QED
  BY <1>1, <1>2, <1>3, <1>4, <1>5, <1>6 DEF HandlerCall

LEMMA HandlerStepKeepsAim ==
  ASSUME TypeInv, NEW h \in Handlers, HandlerStep(h)
  PROVE  SameAim
<1> USE DEF TypeInv, TypeOK, SameAim
<1>1. CASE CloseForRestart
  BY <1>1, SignalsType DEF CloseForRestart, ClosePort, Port
<1>2. CASE MarkPathLost
  BY <1>2, TakeDownType, TakeDownKeeps DEF MarkPathLost, MarkPathLostWithError
<1>3. CASE HandlerSignals(h)
  BY <1>3, SignalsType, TakeDownKeeps DEF HandlerSignals
<1>4. CASE UNCHANGED port
  BY <1>4
<1>5. QED
  BY <1>1, <1>2, <1>3, <1>4 DEF HandlerStep, CheckReady, DeleteActive, DropPreferred

LEMMA HandlerCallType ==
  ASSUME TypeInv, HandlerCall
  PROVE  /\ hd' \in [Handlers -> Handler] /\ hist' \in History
         /\ active' \in BOOLEAN /\ preferred' \in AnySession
         /\ spent' \in [faults : Nat, openAcks : Nat]
<1> USE DEF TypeInv, TypeOK, HGoto, Spend, AnySession, Handler, Handlers
<1>1. ASSUME NEW s \in Sessions, OnOpenAck(s) \/ OnPeerOpen(s) \/ OnPeerResume(s)
      PROVE  /\ hd' \in [Handlers -> Handler] /\ hist' \in History
             /\ active' \in BOOLEAN /\ preferred' \in AnySession
             /\ spent' \in [faults : Nat, openAcks : Nat]
  BY <1>1 DEF OnOpenAck, OnPeerOpen, OnPeerResume
<1>2. ASSUME NEW s \in Sessions, NEW e \in Epochs, OnStreamSendResult(s, e)
      PROVE  /\ hd' \in [Handlers -> Handler] /\ hist' \in History
             /\ active' \in BOOLEAN /\ preferred' \in AnySession
             /\ spent' \in [faults : Nat, openAcks : Nat]
  <2>1. hist' \in History
    BY <1>2, FailedType DEF OnStreamSendResult
  <2>2. [pc |-> AfterTakeDown, session |-> s] \in Handler
    BY DEF AfterTakeDown
  <2>3. hd' \in [Handlers -> Handler]
    BY <1>2, <2>2 DEF OnStreamSendResult
  <2>4. UNCHANGED <<active, preferred>> /\ spent' \in [faults : Nat, openAcks : Nat]
    BY <1>2 DEF OnStreamSendResult
  <2>5. QED
    BY <2>1, <2>3, <2>4
<1>3. ASSUME NEW s \in Sessions, NEW e \in Epochs, NEW offset \in 0 .. MaxPackets,
             NEW w \in Windows, OnAck(s, e, offset, w)
      PROVE  UNCHANGED <<active, preferred, hd, hist, spent>>
  BY <1>3 DEF OnAck
<1>4. ASSUME NEW err \in BOOLEAN, OnDisconnect(err)
      PROVE  /\ hd' \in [Handlers -> Handler] /\ hist' \in History
             /\ active' \in BOOLEAN /\ preferred' \in AnySession
             /\ spent' \in [faults : Nat, openAcks : Nat]
  <2>1. hist' \in History
    BY <1>4, FailedType DEF OnDisconnect
  <2>2. QED
    BY <1>4, <2>1 DEF OnDisconnect, AfterTakeDown
<1>5. QED
  BY <1>1, <1>2, <1>3, <1>4 DEF HandlerCall

LEMMA HandlerStepType ==
  ASSUME TypeInv, NEW h \in Handlers, HandlerStep(h)
  PROVE  /\ hd' \in [Handlers -> Handler] /\ hist' \in History
         /\ active' \in BOOLEAN /\ preferred' \in AnySession
         /\ spent' = spent
<1> USE DEF TypeInv, TypeOK, HGoto, AnySession, Handler
<1>1. CASE CloseForRestart
  BY <1>1 DEF CloseForRestart, Handlers
<1>2. CASE MarkPathLost
  BY <1>2, FailedType DEF MarkPathLost, AfterTakeDown, Handlers
<1>3. CASE HandlerSignals(h)
  BY <1>3 DEF HandlerSignals
<1>4. CASE CheckReady(h)
  <2>1. PICK step \in {"delete", "prefer", "idle"} : hd' = [hd EXCEPT ![h].pc = step]
    BY <1>4 DEF CheckReady, AfterCheck
  <2>2. hd' \in [Handlers -> Handler]
    BY <2>1
  <2>3. QED
    BY <1>4, <2>2 DEF CheckReady
<1>5. CASE DeleteActive(h)
  <2>1. PICK step \in {"prefer", "idle"} : hd' = [hd EXCEPT ![h].pc = step]
    BY <1>5 DEF DeleteActive, AfterCheck
  <2>2. hd' \in [Handlers -> Handler]
    BY <2>1
  <2>3. QED
    BY <1>5, <2>2 DEF DeleteActive
<1>6. CASE DropPreferred(h)
  BY <1>6 DEF DropPreferred
<1>7. QED
  BY <1>1, <1>2, <1>3, <1>4, <1>5, <1>6 DEF HandlerStep

LEMMA HandlersKeepType ==
  ASSUME TypeInv, HandlerCall \/ \E h \in Handlers : HandlerStep(h)
  PROVE  TypeInv'
<1>1. SameAim
  BY HandlerCallKeepsAim, HandlerStepKeepsAim
<1>2. UNCHANGED <<ctxDone, lc, wr, queue, tun, wire>>
  BY DEF HandlerCall, HandlerStep
<1>3. TargetChosen' /\ EpochsUsed' /\ CandidateLeft' /\ FrameAddressed'
  BY <1>1, <1>2 DEF TypeInv, SameAim, TargetChosen, EpochsUsed, CandidateLeft, FrameAddressed
<1>4. /\ hd' \in [Handlers -> Handler] /\ hist' \in History
      /\ active' \in BOOLEAN /\ preferred' \in AnySession
      /\ spent' \in [faults : Nat, openAcks : Nat]
  BY HandlerCallType, HandlerStepType DEF TypeInv, TypeOK
<1>5. QED
  BY <1>1, <1>2, <1>3, <1>4 DEF TypeInv, TypeOK, SameAim

LEMMA TunKeepsType ==
  ASSUME TypeInv, TunStep
  PROVE  TypeInv'
<1> USE DEF TypeInv, TypeOK, TargetChosen, EpochsUsed, CandidateLeft, FrameAddressed, TunStep
<1>1. CASE TunLooksUp
  BY <1>1 DEF TunLooksUp
<1>2. CASE EnqueueReady
  <2>1. PICK n \in Nat : n = hist.handed + 1
    BY DEF History
  <2>2. [hist EXCEPT !.handed = n] \in History /\ Append(queue, n) \in Seq(Nat)
    BY AppendProperties DEF History
  <2>3. queue' \in Seq(Nat) /\ hist' \in History /\ tun' = "idle"
    BY <1>2, <2>1, <2>2 DEF EnqueueReady, History
  <2>4. QED
    BY <2>3
<1>3. QED
  BY <1>1, <1>2

-----------------------------------------------------------------------------
(* The state is typed in every behaviour: among the rest, every frame goes  *)
(* out to a session of the peer with an epoch that was in use.              *)
LEMMA TypeInit == Init => TypeInv
<1> SUFFICES ASSUME Init
             PROVE  TypeInv
  OBVIOUS
<1>1. port \in Port /\ port.epoch = 1 /\ port.sender.epoch = 1 /\ ~port.readyState
  BY NewPortType DEF Init, NewPort
<1>2. wr \in Writer
  BY ProgressType, <1>1 DEF Init, Writer, NoFrame, Frame, AnySession
<1>3. lc \in Lifecycle
  BY CandidatesType DEF Init, Lifecycle
<1>4. hist \in History
  BY DEF Init, History
<1>5. hd \in [Handlers -> Handler]
  BY DEF Init, Handler, AnySession
<1>6. 1 \in Epochs
  BY BoundsAssumption DEF Epochs
<1>7. lc.pc = "open" /\ wr.pc = "off"
  BY DEF Init
<1>8. TargetChosen /\ EpochsUsed /\ FrameAddressed /\ CandidateLeft
  BY <1>1, <1>6, <1>7
     DEF TargetChosen, Unopened, EpochsUsed, FrameAddressed, CandidateLeft, Attempting
<1>9. TypeOK
  <2>1. /\ ctxDone = FALSE /\ active = FALSE /\ preferred \in AnySession
        /\ queue = << >> /\ tun = "idle" /\ wire = {}
    BY DEF Init
  <2>2. spent \in [faults : Nat, openAcks : Nat]
    BY DEF Init
  <2>3. QED
    BY <1>1, <1>2, <1>3, <1>4, <1>5, <2>1, <2>2, EmptySeq DEF TypeOK
<1>10. QED
  BY <1>8, <1>9 DEF TypeInv

LEMMA TypeStep == TypeInv /\ [Next]_vars => TypeInv'
<1> SUFFICES ASSUME TypeInv, [Next]_vars
             PROVE  TypeInv'
  OBVIOUS
<1>1. CASE LifecycleStep
  BY <1>1, LifecycleKeepsType
<1>2. CASE WriterStep
  BY <1>2, WriterKeepsType
<1>3. CASE HandlerCall \/ \E h \in Handlers : HandlerStep(h)
  BY <1>3, HandlersKeepType
<1>4. CASE TunStep
  BY <1>4, TunKeepsType
<1>5. CASE CancelCtx
  <2>1. spent' \in [faults : Nat, openAcks : Nat]
    BY <1>5 DEF CancelCtx, Spend, TypeInv, TypeOK
  <2>2. QED
    BY <1>5, <2>1 DEF CancelCtx, TypeInv, TypeOK, TargetChosen, EpochsUsed,
                      CandidateLeft, FrameAddressed
<1>6. CASE UNCHANGED vars
  BY <1>6 DEF vars, TypeInv, TypeOK, TargetChosen, EpochsUsed, CandidateLeft,
              FrameAddressed
<1>7. QED
  BY <1>1, <1>2, <1>3, <1>4, <1>5, <1>6 DEF Next, Finished

THEOREM TypeInvariant == Spec => []TypeInv
BY TypeInit, TypeStep, PTL DEF Spec

THEOREM TypeCorrect == Spec => []TypeOK
<1>1. TypeInv => TypeOK
  BY DEF TypeInv
<1>2. QED
  BY <1>1, TypeInvariant, PTL

-----------------------------------------------------------------------------
(* The path: the inductive invariant                                         *)

(* The channels of a port: none beyond the current one was made, and the    *)
(* current one is closed exactly while the path is ready.                   *)
Channels(p) ==
  p.closed \subseteq 0 .. p.ready /\ (p.readyState <=> p.ready \in p.closed)

Opening  == {"open", "sendOpen", "waitOpen"}
Resuming == {"sdkResume", "sendResume", "waitResume", "replay"}

(* A channel somebody may wait on: it was closed, or can still be.          *)
Closable(chan) == chan \in port.closed \cup {port.ready}

WaitersHold ==
  /\ wr.pc = "wait" => Closable(wr.chan)
  /\ lc.pc \in {"sendOpen", "waitOpen"} => Closable(lc.chan)
  /\ lc.pc \in Opening => wr.pc = "off"

LossPending == port.lost \/ Signalling

(* The lifecycle serves the path, or will once it looks at its channel.     *)
Watched ==
  \/ lc.pc \in {"activate", "main"}
  \/ lc.pc \in {"sendOpen", "waitOpen"} /\ lc.chan \in port.closed

WatchedLoss == Watched /\ ~port.readyState => LossPending

(* The stream is the outlet only by its lifecycle's doing, and is taken out *)
(* of a serving one only on account of a loss.                              *)
OutletHeld ==
  /\ active => lc.active /\ lc.pc \in {"main", "deactivate", "exit"}
  /\ lc.pc = "main" /\ (~active \/ ~MuFree) => LossPending

EpochsInTurn ==
  /\ lc.pc \in Opening => port.epoch = 1
  /\ lc.pc \in Resuming => ~port.readyState /\ port.epoch > 1
  /\ \A f \in hist.failed : f[2] <= port.epoch

(* A failure of the current Resume has taken the path down, and while the   *)
(* attempt lasts its error waits for it.                                    *)
FailureHolds ==
  port.epoch > 1 /\ <<port.target, port.epoch>> \in hist.failed
    => ~port.readyState /\ (lc.pc \in Resuming => port.attemptErr)

PathInv ==
  /\ Channels(port) /\ WaitersHold /\ WatchedLoss /\ OutletHeld
  /\ EpochsInTurn /\ FailureHolds

-----------------------------------------------------------------------------
(* What the methods do to the ready channel                                 *)

(* The channel of before is kept or was closed; a channel is closed by      *)
(* becoming ready.                                                          *)
Replaces(p, q) ==
  /\ Channels(q) /\ p.closed \subseteq q.closed
  /\ q.ready = p.ready \/ p.ready \in q.closed
  /\ q.closed # p.closed => q.readyState

LEMMA MethodsReplace ==
  ASSUME NEW p \in Port, Channels(p), NEW s, NEW e, NEW err
  PROVE  /\ Replaces(p, p)
         /\ Replaces(p, BecomeReady(p))
         /\ Replaces(p, TakeDown(p, err))
         /\ Replaces(p, BeginResume(p, s, e))
         /\ Replaces(p, CompleteResume(p, s, e))
<1> USE DEF Channels, Replaces
<1>1. p.ready \in Nat /\ p.closed \subseteq 0 .. p.ready
  BY DEF Port
<1>2. Replaces(p, BecomeReady(p))
  BY <1>1 DEF BecomeReady, Port
<1>3. Replaces(p, TakeDown(p, err))
  BY <1>1 DEF TakeDown, Port
<1>4. Replaces(p, BeginResume(p, s, e))
  BY <1>1 DEF BeginResume, Port
<1>5. Replaces(p, CompleteResume(p, s, e))
  BY <1>2 DEF CompleteResume, Port
<1>6. QED
  BY <1>1, <1>2, <1>3, <1>4, <1>5

LEMMA BeginOpenChannels ==
  ASSUME NEW p \in Port, Channels(p), NEW s
  PROVE  LET q == BeginOpen(p, s)
         IN  /\ Channels(q) /\ q.ready \notin q.closed /\ ~q.readyState
             /\ q.epoch = p.epoch
BY DEF BeginOpen, Channels, Port

-----------------------------------------------------------------------------
(* The goroutines other than the lifecycle                                  *)

(* A failure they note is of the current path: it is down then, and its     *)
(* attempt, if it was one, has the error.                                   *)
FailureNoted ==
  \A f \in hist'.failed \ hist.failed :
    /\ f = <<port.target, port.epoch>> /\ ~port'.readyState
    /\ port.readyState \/ port'.attemptErr

(* What they may do to the port: take a ready path down, and then a loss is *)
(* on its way; make it ready only after an Open.                            *)
OtherPort ==
  /\ port'.target = port.target /\ port'.epoch = port.epoch
  /\ Replaces(port, port')
  /\ port'.readyState /\ ~port.readyState => port.epoch = 1
  /\ port.attemptErr => port'.attemptErr
  /\ port.readyState /\ ~port'.readyState => LossPending'
  /\ LossPending => LossPending'

OtherStep == OtherPort /\ FailureNoted /\ UNCHANGED lc

LEMMA TakeDownIsOther ==
  ASSUME port \in Port, Channels(port), NEW err \in BOOLEAN,
         port' = TakeDown(port, err), Signalling => Signalling',
         port.readyState => Signalling'
  PROVE  /\ OtherPort /\ ~port'.readyState
         /\ port.readyState \/ (err => port'.attemptErr)
<1>1. Replaces(port, port')
  BY MethodsReplace
<1>2. /\ port'.target = port.target /\ port'.epoch = port.epoch
      /\ ~port'.readyState /\ port'.lost = port.lost
      /\ port.attemptErr => port'.attemptErr
      /\ port.readyState \/ (err => port'.attemptErr)
  BY DEF TakeDown, Port
<1>3. QED
  BY <1>1, <1>2 DEF OtherPort, LossPending

(* A method that leaves the path and its channels alone.                    *)
LEMMA QuietIsOther ==
  ASSUME port \in Port, Channels(port),
         port'.target = port.target, port'.epoch = port.epoch,
         port'.readyState = port.readyState, port'.ready = port.ready,
         port'.closed = port.closed, port'.attemptErr = port.attemptErr,
         LossPending => LossPending'
  PROVE  OtherPort
BY DEF OtherPort, Replaces, Channels

LEMMA WriterFailIsOther ==
  ASSUME TypeInv, Channels(port), UNCHANGED <<lc, hd>>, wr.pc # "signal",
         (port' = TakeDown(port, TRUE) /\ Failed) \/ UNCHANGED <<port, hist>>,
         TakenDown => wr'.pc = "signal"
  PROVE  OtherStep
<1> USE DEF TypeInv, TypeOK
<1>1. Signalling => Signalling'
  BY DEF Signalling
<1>2. CASE UNCHANGED <<port, hist>>
  <2>1. LossPending => LossPending'
    BY <1>1, <1>2 DEF LossPending
  <2>2. OtherPort
    BY <1>2, <2>1, QuietIsOther
  <2>3. QED
    BY <1>2, <2>2 DEF OtherStep, FailureNoted
<1>3. CASE port' = TakeDown(port, TRUE) /\ Failed
  <2>1. port.readyState => Signalling'
    BY <1>3, TakeDownKeeps DEF TakenDown, Signalling
  <2>2. OtherPort /\ ~port'.readyState /\ (port.readyState \/ port'.attemptErr)
    BY <1>1, <1>3, <2>1, TakeDownIsOther
  <2>3. hist'.failed = hist.failed \cup {<<port.target, port.epoch>>}
    BY <1>3 DEF Failed, History
  <2>4. QED
    BY <2>2, <2>3 DEF OtherStep, FailureNoted
<1>4. QED
  BY <1>2, <1>3

LEMMA WriterIsOther ==
  ASSUME TypeInv, Channels(port), WriterStep
  PROVE  OtherStep
<1> USE DEF TypeInv, TypeOK, WGoto
<1>1. UNCHANGED <<lc, hd>>
  BY DEF WriterStep
<1>2. CASE IdleFail \/ CreditFail \/ SendFail
  <2>1. wr.pc # "signal" /\ (TakenDown => wr'.pc = "signal")
    BY <1>2 DEF IdleFail, CreditFail, SendFail, Writer
  <2>2. (port' = TakeDown(port, TRUE) /\ Failed) \/ UNCHANGED <<port, hist>>
    BY <1>2 DEF IdleFail, CreditFail, SendFail, FailPath, FailPathIfAckUnchanged,
                NoteFailed
  <2>3. QED
    BY <1>1, <2>1, <2>2, WriterFailIsOther
<1>3. ASSUME wr.pc # "signal", port'.lost = port.lost
      PROVE  LossPending => LossPending'
  BY <1>1, <1>3 DEF LossPending, Signalling
<1>4. CASE DataFramed
  <2>1. /\ port'.target = port.target /\ port'.epoch = port.epoch
        /\ port'.readyState = port.readyState /\ port'.ready = port.ready
        /\ port'.closed = port.closed /\ port'.attemptErr = port.attemptErr
        /\ port'.lost = port.lost
    BY <1>4 DEF DataFramed, DataForReadyPath, Port
  <2>2. hist'.failed = hist.failed /\ wr.pc # "signal"
    BY <1>4 DEF DataFramed, History
  <2>3. QED
    BY <1>1, <1>3, <2>1, <2>2, QuietIsOther DEF OtherStep, FailureNoted
<1>5. CASE WriterWakes
  <2>1. PICK w \in BOOLEAN : port' = [port EXCEPT !.wake = w]
    BY <1>5 DEF WriterWakes, Port
  <2>2. /\ port'.target = port.target /\ port'.epoch = port.epoch
        /\ port'.readyState = port.readyState /\ port'.ready = port.ready
        /\ port'.closed = port.closed /\ port'.attemptErr = port.attemptErr
        /\ port'.lost = port.lost
    BY <2>1 DEF Port
  <2>3. hist' = hist /\ wr.pc # "signal"
    BY <1>5 DEF WriterWakes
  <2>4. QED
    BY <1>1, <1>3, <2>2, <2>3, QuietIsOther DEF OtherStep, FailureNoted
<1>6. CASE WriterSignals
  <2>1. /\ port'.target = port.target /\ port'.epoch = port.epoch
        /\ port'.readyState = port.readyState /\ port'.ready = port.ready
        /\ port'.closed = port.closed /\ port'.attemptErr = port.attemptErr
        /\ port'.lost
    BY <1>6 DEF WriterSignals, SignalPathLost, Port
  <2>2. hist' = hist /\ LossPending'
    BY <1>6, <2>1 DEF WriterSignals, LossPending
  <2>3. QED
    BY <1>1, <2>1, <2>2, QuietIsOther DEF OtherStep, FailureNoted
<1>7. CASE UNCHANGED port /\ hist'.failed = hist.failed /\ wr.pc # "signal"
  BY <1>1, <1>3, <1>7, QuietIsOther DEF OtherStep, FailureNoted
<1>8. TakeBatch \/ IdleTick \/ ReadPath \/ SeePathReady \/ DataPathGone \/ DataNoCredit
        \/ CreditPathGone \/ AwaitCredit \/ CreditStalls \/ WriterQuits
      => UNCHANGED port /\ hist'.failed = hist.failed /\ wr.pc # "signal"
  BY DEF TakeBatch, IdleTick, ReadPath, SeePathReady, DataPathGone, DataNoCredit,
         CreditPathGone, AwaitCredit, CreditStalls, WriterQuits
<1>9. SendData => UNCHANGED port /\ hist'.failed = hist.failed /\ wr.pc # "signal"
  BY DEF SendData, SentTo, History
<1>10. QED
  BY <1>2, <1>4, <1>5, <1>6, <1>7, <1>8, <1>9 DEF WriterStep

LEMMA HandlerFailIsOther ==
  ASSUME TypeInv, Channels(port), UNCHANGED <<lc, wr>>, NEW h \in Handlers,
         hd[h].pc # "signal", NEW x, x.pc = AfterTakeDown, hd' = [hd EXCEPT ![h] = x],
         NEW err \in BOOLEAN, port' = TakeDown(port, err),
         NoteFailed(err \/ port.readyState)
  PROVE  OtherStep
<1> USE DEF TypeInv, TypeOK
<1>1. Signalling => Signalling'
  BY DEF Signalling
<1>2. port.readyState => Signalling'
  BY TakeDownKeeps DEF AfterTakeDown, TakenDown, Signalling
<1>3. /\ OtherPort /\ ~port'.readyState
      /\ port.readyState \/ (err => port'.attemptErr)
  BY <1>1, <1>2, TakeDownIsOther
<1>4. \/ hist' = hist
      \/ /\ hist'.failed = hist.failed \cup {<<port.target, port.epoch>>}
         /\ err \/ port.readyState
  BY DEF NoteFailed, Failed, History
<1>5. QED
  BY <1>3, <1>4 DEF OtherStep, FailureNoted

LEMMA HandlerCallIsOther ==
  ASSUME TypeInv, Channels(port), HandlerCall
  PROVE  OtherStep
<1> USE DEF TypeInv, TypeOK, HGoto, Handlers
<1>1. UNCHANGED <<lc, wr>>
  BY DEF HandlerCall
<1>2. ASSUME NEW s \in Sessions, OnOpenAck(s)
      PROVE  OtherStep
  <2>1. port' = BecomeReady(port) /\ hist' = hist /\ hd' = hd /\ port.epoch = 1
    BY <1>2 DEF OnOpenAck, AcceptOpenAck, OpenAckAccepted, Aims
  <2>2. Replaces(port, port')
    BY <2>1, MethodsReplace
  <2>3. /\ port'.target = port.target /\ port'.epoch = port.epoch /\ port'.readyState
        /\ port'.attemptErr = port.attemptErr /\ port'.lost = port.lost
    BY <2>1 DEF BecomeReady, Port
  <2>4. LossPending' = LossPending
    BY <1>1, <2>1, <2>3 DEF LossPending, Signalling
  <2>5. OtherPort
    BY <2>1, <2>2, <2>3, <2>4 DEF OtherPort
  <2>6. QED
    BY <1>1, <2>1, <2>5 DEF OtherStep, FailureNoted
<1>3. ASSUME hist'.failed = hist.failed, \A h \in Handlers : hd[h].pc = "signal" => hd'[h].pc = "signal",
             port'.target = port.target, port'.epoch = port.epoch,
             port'.readyState = port.readyState, port'.ready = port.ready,
             port'.closed = port.closed, port'.attemptErr = port.attemptErr,
             port'.lost = port.lost
      PROVE  OtherStep
  <2>1. LossPending => LossPending'
    BY <1>1, <1>3 DEF LossPending, Signalling
  <2>2. QED
    BY <1>1, <1>3, <2>1, QuietIsOther DEF OtherStep, FailureNoted
<1>4. ASSUME NEW s \in Sessions, OnPeerOpen(s)
      PROVE  OtherStep
  BY <1>3, <1>4 DEF OnPeerOpen, RequestRestart, HandlerFree, Port
<1>5. ASSUME NEW s \in Sessions, OnPeerResume(s)
      PROVE  OtherStep
  BY <1>3, <1>5 DEF OnPeerResume, HandlerFree
<1>6. ASSUME NEW s \in Sessions, NEW e \in Epochs, NEW offset \in 0 .. MaxPackets,
             NEW w \in Windows, OnAck(s, e, offset, w)
      PROVE  OtherStep
  <2>1. offset \in Nat /\ w \in Nat
    BY WindowAssumption, BoundsAssumption
  <2>2. port' = Acknowledge(port, offset, w) /\ hist' = hist /\ hd' = hd
    BY <1>6 DEF OnAck
  <2>3. QED
    BY <1>3, <2>1, <2>2, AcknowledgeKeeps
<1>7. ASSUME NEW s \in Sessions, NEW e \in Epochs, OnStreamSendResult(s, e)
      PROVE  OtherStep
  <2>1. port' = TakeDown(port, TRUE) /\ NoteFailed(TRUE \/ port.readyState)
    BY <1>7 DEF OnStreamSendResult, FailPath, NoteFailed
  <2>2. hd["events"].pc # "signal"
    BY <1>7 DEF OnStreamSendResult, HandlerFree
  <2>3. hd' = [hd EXCEPT !["events"] = [pc |-> AfterTakeDown, session |-> s]]
    BY <1>7 DEF OnStreamSendResult
  <2>4. [pc |-> AfterTakeDown, session |-> s].pc = AfterTakeDown
    OBVIOUS
  <2>5. "events" \in Handlers /\ TRUE \in BOOLEAN
    OBVIOUS
  <2>6. QED
    BY <1>1, <2>1, <2>2, <2>3, <2>4, <2>5, HandlerFailIsOther
<1>8. ASSUME NEW err \in BOOLEAN, OnDisconnect(err)
      PROVE  OtherStep
  <2>1. port' = TakeDown(port, err) /\ NoteFailed(err \/ port.readyState)
    BY <1>8 DEF OnDisconnect, MarkPathLostWithError
  <2>2. hd["events"].pc # "signal"
    BY <1>8 DEF OnDisconnect, HandlerFree
  <2>3. hd' = [hd EXCEPT !["events"] = [@ EXCEPT !.pc = AfterTakeDown]]
    BY <1>8 DEF OnDisconnect
  <2>4. [hd["events"] EXCEPT !.pc = AfterTakeDown].pc = AfterTakeDown
    BY DEF Handler
  <2>5. QED
    BY <1>1, <2>1, <2>2, <2>3, <2>4, HandlerFailIsOther
<1>9. QED
  BY <1>2, <1>4, <1>5, <1>6, <1>7, <1>8 DEF HandlerCall

LEMMA HandlerStepIsOther ==
  ASSUME TypeInv, Channels(port), NEW h \in Handlers, HandlerStep(h)
  PROVE  OtherStep
<1> USE DEF TypeInv, TypeOK, HGoto
<1>1. UNCHANGED <<lc, wr>>
  BY DEF HandlerStep
<1>2. ASSUME hist' = hist, \A g \in Handlers : hd[g].pc = "signal" => hd'[g].pc = "signal",
             port'.target = port.target, port'.epoch = port.epoch,
             port'.readyState = port.readyState, port'.ready = port.ready,
             port'.closed = port.closed, port'.attemptErr = port.attemptErr,
             port'.lost = port.lost
      PROVE  OtherStep
  <2>1. LossPending => LossPending'
    BY <1>1, <1>2 DEF LossPending, Signalling
  <2>2. QED
    BY <1>1, <1>2, <2>1, QuietIsOther DEF OtherStep, FailureNoted
<1>3. CASE CloseForRestart
  BY <1>2, <1>3 DEF CloseForRestart, ClosePort, Port
<1>4. CASE h = "reader" /\ MarkPathLost
  <2>1. port' = TakeDown(port, TRUE) /\ NoteFailed(TRUE \/ port.readyState)
    BY <1>4 DEF MarkPathLost, MarkPathLostWithError, NoteFailed
  <2>2. hd["reader"].pc # "signal"
    BY <1>4 DEF MarkPathLost
  <2>3. hd' = [hd EXCEPT !["reader"] = [@ EXCEPT !.pc = AfterTakeDown]]
    BY <1>4 DEF MarkPathLost
  <2>4. [hd["reader"] EXCEPT !.pc = AfterTakeDown].pc = AfterTakeDown
    BY DEF Handler, Handlers
  <2>5. "reader" \in Handlers /\ TRUE \in BOOLEAN
    BY DEF Handlers
  <2>6. QED
    BY <1>1, <2>1, <2>2, <2>3, <2>4, <2>5, HandlerFailIsOther
<1>5. CASE HandlerSignals(h)
  <2>1. /\ port'.target = port.target /\ port'.epoch = port.epoch
        /\ port'.readyState = port.readyState /\ port'.ready = port.ready
        /\ port'.closed = port.closed /\ port'.attemptErr = port.attemptErr
        /\ port'.lost
    BY <1>5 DEF HandlerSignals, SignalPathLost, Port
  <2>2. hist' = hist /\ LossPending'
    BY <1>5, <2>1 DEF HandlerSignals, LossPending
  <2>3. QED
    BY <1>1, <2>1, <2>2, QuietIsOther DEF OtherStep, FailureNoted
<1>6. CASE CheckReady(h) \/ DeleteActive(h) \/ DropPreferred(h)
  <2>1. UNCHANGED <<port, hist>> /\ hd[h].pc # "signal"
    BY <1>6 DEF CheckReady, DeleteActive, DropPreferred
  <2>2. \A g \in Handlers \ {h} : hd'[g] = hd[g]
    BY <1>6 DEF CheckReady, DeleteActive, DropPreferred
  <2>3. QED
    BY <1>2, <2>1, <2>2
<1>7. QED
  BY <1>3, <1>4, <1>5, <1>6 DEF HandlerStep

-----------------------------------------------------------------------------
(* They keep the invariant                                                  *)

LEMMA OtherKeepsWaiters ==
  ASSUME TypeInv, PathInv, OtherStep,
         wr'.pc = "wait" => wr'.chan \in {wr.chan, port.ready} /\ Closable(wr'.chan),
         lc.pc \in Opening => wr'.pc = wr.pc
  PROVE  WaitersHold'
BY DEF PathInv, WaitersHold, Closable, OtherStep, OtherPort, Replaces, Channels

LEMMA OtherKeepsLoss ==
  ASSUME PathInv, OtherStep
  PROVE  WatchedLoss'
BY DEF PathInv, WatchedLoss, Watched, OtherStep, OtherPort, Replaces

LEMMA OtherKeepsEpochs ==
  ASSUME TypeInv, PathInv, OtherStep
  PROVE  EpochsInTurn' /\ FailureHolds'
<1>1. port.epoch \in Nat /\ port'.epoch = port.epoch /\ lc' = lc
  BY DEF TypeInv, TypeOK, Port, OtherStep, OtherPort
<1>2. EpochsInTurn'
  <2>1. \A f \in hist'.failed : f[2] <= port'.epoch
    BY <1>1 DEF PathInv, EpochsInTurn, OtherStep, FailureNoted
  <2>2. lc.pc \in Resuming => ~port'.readyState /\ port'.epoch > 1
    BY <1>1 DEF PathInv, EpochsInTurn, OtherStep, OtherPort
  <2>3. QED
    BY <1>1, <2>1, <2>2 DEF PathInv, EpochsInTurn
<1>3. FailureHolds'
  <2>1. SUFFICES ASSUME port.epoch > 1, <<port.target, port.epoch>> \in hist'.failed
                 PROVE  ~port'.readyState /\ (lc.pc \in Resuming => port'.attemptErr)
    BY <1>1 DEF FailureHolds, OtherStep, OtherPort
  <2>2. CASE <<port.target, port.epoch>> \in hist.failed
    BY <2>1, <2>2, <1>1 DEF PathInv, FailureHolds, OtherStep, OtherPort
  <2>3. CASE <<port.target, port.epoch>> \notin hist.failed
    BY <2>1, <2>3 DEF PathInv, EpochsInTurn, OtherStep, FailureNoted
  <2>4. QED
    BY <2>2, <2>3
<1>4. QED
  BY <1>2, <1>3

LEMMA WriterKeepsPathInv ==
  ASSUME TypeInv, PathInv, WriterStep
  PROVE  PathInv'
<1>1. OtherStep
  BY WriterIsOther DEF PathInv
<1>2. WaitersHold'
  <2>1. CASE ReadPath
    BY <1>1, <2>1, OtherKeepsWaiters DEF ReadPath, TypeInv, TypeOK, Writer, Closable,
       PathInv, WaitersHold
  <2>2. CASE wr'.pc # "wait"
    <3>1. wr.pc # "off"
      BY DEF WriterStep, TakeBatch, IdleTick, IdleFail, ReadPath, SeePathReady,
         DataPathGone, DataNoCredit, DataFramed, CreditPathGone, AwaitCredit,
         CreditStalls, CreditFail, WriterWakes, SendData, SendFail, WriterSignals,
         WriterQuits
    <3>2. QED
      BY <1>1, <2>2, <3>1, OtherKeepsWaiters DEF PathInv, WaitersHold
  <2>3. CASE TakeBatch \/ WriterWakes
    BY <2>2, <2>3, BatchType DEF TypeInv, TypeOK
  <2>4. QED
    BY <2>1, <2>2, <2>3 DEF WriterStep, WGoto, TypeInv, TypeOK, Writer, IdleTick,
       IdleFail, SeePathReady, DataPathGone, DataNoCredit, DataFramed, CreditPathGone,
       AwaitCredit, CreditStalls, CreditFail, SendData, SendFail, WriterSignals,
       WriterQuits
<1>3. OutletHeld'
  <2>1. UNCHANGED <<lc, active, hd>>
    BY DEF WriterStep
  <2>2. QED
    BY <1>1, <2>1 DEF PathInv, OutletHeld, MuFree, OtherStep, OtherPort
<1>4. QED
  BY <1>1, <1>2, <1>3, OtherKeepsLoss, OtherKeepsEpochs
     DEF PathInv, OtherStep, OtherPort, Replaces

(* A handler comes to take the stream out only after it saw the path down.   *)
LEMMA DeleteAfterCheck ==
  ASSUME TypeInv, NEW g \in Handlers, hd'[g].pc = "delete",
         HandlerCall \/ \E h \in Handlers : HandlerStep(h)
  PROVE  hd[g].pc = "delete" \/ ~port.readyState
<1> USE DEF TypeInv, TypeOK, Handler, Handlers
<1>1. AfterTakeDown # "delete" /\ \A h \in Handlers : AfterCheck(h) # "delete"
  BY DEF AfterTakeDown, AfterCheck
<1>2. ASSUME NEW h \in Handlers, NEW x, x.pc # "delete", hd' = [hd EXCEPT ![h] = x]
      PROVE  hd[g].pc = "delete"
  BY <1>2
<1>3. ASSUME NEW h \in Handlers, NEW step, step # "delete", HGoto(h, step)
      PROVE  hd[g].pc = "delete"
  <2>1. [hd[h] EXCEPT !.pc = step].pc = step
    OBVIOUS
  <2>2. QED
    BY <1>3, <2>1 DEF HGoto
<1>4. CASE HandlerCall
  <2>1. CASE hd' = hd
    BY <2>1
  <2>2. ASSUME NEW s, NEW e, OnStreamSendResult(s, e)
        PROVE  hd[g].pc = "delete"
    <3>1. [pc |-> AfterTakeDown, session |-> s].pc # "delete"
      BY <1>1
    <3>2. QED
      BY <1>2, <2>2, <3>1 DEF OnStreamSendResult
  <2>3. ASSUME NEW s, OnPeerOpen(s) \/ OnPeerResume(s) \/ OnDisconnect(s)
        PROVE  hd[g].pc = "delete"
    BY <1>1, <1>3, <2>1, <2>3 DEF OnPeerOpen, OnPeerResume, OnDisconnect
  <2>4. QED
    BY <1>4, <2>1, <2>2, <2>3 DEF HandlerCall, OnOpenAck, OnAck
<1>5. ASSUME NEW h \in Handlers, HandlerStep(h)
      PROVE  hd[g].pc = "delete" \/ ~port.readyState
  <2>1. CASE CheckReady(h)
    BY <1>1, <1>3, <2>1 DEF CheckReady
  <2>2. CASE DropPreferred(h)
    BY <1>2, <2>2 DEF DropPreferred
  <2>3. CASE CloseForRestart \/ MarkPathLost \/ HandlerSignals(h) \/ DeleteActive(h)
    BY <1>1, <1>3, <2>3 DEF CloseForRestart, MarkPathLost, HandlerSignals, DeleteActive
  <2>4. QED
    BY <1>5, <2>1, <2>2, <2>3 DEF HandlerStep
<1>6. QED
  BY <1>4, <1>5

LEMMA HandlersKeepPathInv ==
  ASSUME TypeInv, PathInv, HandlerCall \/ \E h \in Handlers : HandlerStep(h)
  PROVE  PathInv'
<1>1. OtherStep
  BY HandlerCallIsOther, HandlerStepIsOther DEF PathInv
<1>2. UNCHANGED <<lc, wr>>
  BY DEF HandlerCall, HandlerStep
<1>3. WaitersHold'
  BY <1>1, <1>2, OtherKeepsWaiters DEF PathInv, WaitersHold
<1>4. OutletHeld'
  <2>1. active' => active
    BY DEF HandlerCall, HandlerStep, OnOpenAck, OnAck, OnPeerOpen, OnPeerResume,
       OnStreamSendResult, OnDisconnect, CloseForRestart, MarkPathLost, HandlerSignals,
       CheckReady, DeleteActive, DropPreferred
  <2>2. lc.pc = "main" /\ ~active' => LossPending'
    <3>1. CASE active' = active
      BY <1>1, <3>1 DEF PathInv, OutletHeld, OtherStep, OtherPort
    <3>2. CASE \E h \in Handlers : DeleteActive(h)
      BY <1>1, <3>2 DEF DeleteActive, PathInv, OutletHeld, MuFree, OtherStep, OtherPort
    <3>3. QED
      BY <3>1, <3>2 DEF HandlerCall, HandlerStep, OnOpenAck, OnAck, OnPeerOpen,
         OnPeerResume, OnStreamSendResult, OnDisconnect, CloseForRestart, MarkPathLost,
         HandlerSignals, CheckReady, DropPreferred
  <2>3. lc.pc = "main" /\ ~MuFree' => LossPending'
    <3>1. CASE ~MuFree
      BY <1>1, <3>1 DEF PathInv, OutletHeld, OtherStep, OtherPort
    <3>2. CASE ~port.readyState
      BY <1>1, <3>2 DEF PathInv, WatchedLoss, Watched, OtherStep, OtherPort
    <3>3. QED
      BY <3>1, <3>2, DeleteAfterCheck DEF MuFree
  <2>4. QED
    BY <1>2, <2>1, <2>2, <2>3 DEF PathInv, OutletHeld
<1>5. QED
  BY <1>1, <1>3, <1>4, OtherKeepsLoss, OtherKeepsEpochs
     DEF PathInv, OtherStep, OtherPort, Replaces

-----------------------------------------------------------------------------
(* The lifecycle keeps the invariant                                        *)

(* The lifecycle goes on to step.                                           *)
At(step) == lc'.pc = step /\ lc'.chan = lc.chan /\ lc'.active = lc.active

LEMMA LifecycleMoves ==
  ASSUME lc \in Lifecycle
  PROVE  /\ \A step : Goto(step) \/ NextTry(step) => At(step)
         /\ \A result : Exit(result) => At("exit")
         /\ GiveUp => At("exit")
BY DEF Goto, NextTry, Exit, GiveUp, At, Lifecycle

(* A move that leaves the port alone, to a step that is not on the watch.   *)
LEMMA QuietMove ==
  ASSUME TypeInv, PathInv, UNCHANGED <<wr, hd>>, hist'.failed = hist.failed,
         port'.target = port.target, port'.epoch = port.epoch,
         port'.readyState = port.readyState, port'.ready = port.ready,
         port'.closed = port.closed, port'.lost = port.lost,
         NEW step \in {"open", "exit", "waitOpen", "resume", "sdkResume", "sendResume",
                       "waitResume", "replay", "unregister", "close", "ended"},
         lc'.pc = step, lc'.chan = lc.chan,
         step \in Opening => lc.pc \in Opening,
         step = "waitOpen" => lc.pc = "sendOpen",
         step \in Resuming => lc.pc \in Resuming /\ port'.attemptErr = port.attemptErr,
         active' => active /\ step = "exit" /\ lc'.active
  PROVE  PathInv'
<1>1. Channels(port') /\ LossPending' = LossPending
  BY DEF PathInv, Channels, LossPending, Signalling
<1>2. WaitersHold'
  BY DEF PathInv, WaitersHold, Closable, Opening
<1>3. WatchedLoss'
  BY <1>1 DEF PathInv, WatchedLoss, Watched
<1>4. OutletHeld'
  BY DEF PathInv, OutletHeld
<1>5. EpochsInTurn' /\ FailureHolds'
  BY DEF PathInv, EpochsInTurn, FailureHolds
<1>6. QED
  BY <1>1, <1>2, <1>3, <1>4, <1>5 DEF PathInv

LEMMA LifecycleKeepsPathInv ==
  ASSUME TypeInv, PathInv, LifecycleStep
  PROVE  PathInv'
<1> USE DEF TypeInv, TypeOK
<1>0. UNCHANGED hd
  BY DEF LifecycleStep
<1>1. CASE OpenCandidate
  <2>1. Channels(port') /\ port'.ready \notin port'.closed /\ port'.epoch = port.epoch
    BY <1>1, BeginOpenChannels DEF OpenCandidate, PathInv
  <2>2. /\ lc'.pc = "sendOpen" /\ lc'.chan = port'.ready /\ lc'.active = lc.active
        /\ lc.pc = "open" /\ UNCHANGED <<wr, active, hist>>
    BY <1>1 DEF OpenCandidate, Lifecycle
  <2>3. WaitersHold'
    BY <2>2 DEF PathInv, WaitersHold, Closable, Opening
  <2>4. WatchedLoss'
    BY <2>1, <2>2 DEF WatchedLoss, Watched
  <2>5. OutletHeld'
    BY <2>2 DEF PathInv, OutletHeld
  <2>6. EpochsInTurn' /\ FailureHolds'
    BY <2>1, <2>2 DEF PathInv, EpochsInTurn, FailureHolds, Opening, Resuming
  <2>7. QED
    BY <2>1, <2>3, <2>4, <2>5, <2>6 DEF PathInv
<1>2. CASE SendOpen \/ OpenTimeout \/ OpenExhausted
  <2>1. /\ UNCHANGED <<port, wr, active, hist>> /\ lc.pc \in Opening
        /\ \/ lc.pc = "sendOpen" /\ At("waitOpen")
           \/ At("open") \/ At("exit")
    BY <1>2, LifecycleMoves DEF SendOpen, OpenTimeout, OpenExhausted, Opening
  <2>2. ~active
    BY <2>1 DEF PathInv, OutletHeld, Opening
  <2>3. QED
    BY <1>0, <2>1, <2>2, QuietMove DEF At, Opening, Resuming
<1>3. CASE OpenRejected
  <2>1. /\ UNCHANGED <<wr, active, hist>> /\ lc.pc = "waitOpen" /\ At("open")
        /\ port' = [port EXCEPT !.attemptErr = FALSE]
    BY <1>3, LifecycleMoves DEF OpenRejected
  <2>2. ~active
    BY <2>1 DEF PathInv, OutletHeld
  <2>3. QED
    BY <1>0, <2>1, <2>2, QuietMove DEF At, Opening, Resuming, Port
<1>4. CASE OpenAnswered
  <2>1. /\ UNCHANGED <<port, wr, active, hist>> /\ At("activate")
        /\ lc.pc = "waitOpen" /\ lc.chan \in port.closed
    BY <1>4, LifecycleMoves DEF OpenAnswered
  <2>2. WaitersHold' /\ WatchedLoss' /\ OutletHeld'
    BY <1>0, <2>1 DEF At, PathInv, WaitersHold, Closable, WatchedLoss, Watched,
       LossPending, Signalling, OutletHeld, Opening
  <2>3. EpochsInTurn' /\ FailureHolds'
    BY <2>1 DEF At, PathInv, EpochsInTurn, FailureHolds, Opening, Resuming
  <2>4. QED
    BY <2>1, <2>2, <2>3 DEF PathInv
<1>5. CASE RunStreamLeaves
  <2>1. /\ UNCHANGED <<port, wr, active, hist>> /\ At("exit")
    BY <1>5, LifecycleMoves DEF RunStreamLeaves
  <2>2. active => lc.active
    BY DEF PathInv, OutletHeld
  <2>3. QED
    BY <1>0, <2>1, <2>2, QuietMove DEF At, Opening, Resuming
<1>6. CASE ActivateStream
  <2>1. /\ UNCHANGED <<port, hist>> /\ lc.pc = "activate" /\ lc'.pc = "main"
        /\ lc'.active /\ active' /\ MuFree'
        /\ wr' = [wr EXCEPT !.pc = IF @ = "off" THEN "idle" ELSE @]
    <3>1. /\ UNCHANGED <<port, hist>> /\ lc.pc = "activate" /\ active' = TRUE
          /\ wr' = [wr EXCEPT !.pc = IF @ = "off" THEN "idle" ELSE @]
          /\ lc' = [lc EXCEPT !.pc = "main", !.active = TRUE]
      BY <1>6 DEF ActivateStream
    <3>2. MuFree'
      BY <1>0, <1>6 DEF ActivateStream, MuFree
    <3>3. lc'.pc = "main" /\ lc'.active = TRUE
      BY <3>1 DEF Lifecycle
    <3>4. QED
      BY <3>1, <3>2, <3>3
  <2>2. wr'.chan = wr.chan /\ (wr'.pc = wr.pc \/ (wr'.pc = "idle" /\ wr.pc = "off"))
    BY <2>1 DEF Writer
  <2>3. WaitersHold'
    BY <2>1, <2>2 DEF PathInv, WaitersHold, Closable, Opening
  <2>4. WatchedLoss' /\ OutletHeld'
    BY <1>0, <2>1, <2>2 DEF PathInv, WatchedLoss, Watched, LossPending, Signalling,
       OutletHeld
  <2>5. EpochsInTurn' /\ FailureHolds'
    BY <2>1 DEF PathInv, EpochsInTurn, FailureHolds, Opening, Resuming
  <2>6. QED
    BY <2>1, <2>3, <2>4, <2>5 DEF PathInv
<1>7. CASE TakeLost
  <2>1. /\ UNCHANGED <<wr, active, hist>> /\ lc.pc = "main" /\ At("deactivate")
        /\ port' = [port EXCEPT !.lost = FALSE]
    BY <1>7, LifecycleMoves DEF TakeLost
  <2>2. /\ port'.target = port.target /\ port'.epoch = port.epoch
        /\ port'.readyState = port.readyState /\ port'.ready = port.ready
        /\ port'.closed = port.closed
    BY <2>1 DEF Port
  <2>3. Channels(port') /\ WaitersHold' /\ WatchedLoss' /\ OutletHeld'
    BY <2>1, <2>2 DEF At, PathInv, Channels, WaitersHold, Closable, WatchedLoss,
       Watched, OutletHeld, Opening
  <2>4. EpochsInTurn' /\ FailureHolds'
    BY <2>1, <2>2 DEF At, PathInv, EpochsInTurn, FailureHolds, Opening, Resuming
  <2>5. QED
    BY <2>3, <2>4 DEF PathInv
<1>8. CASE DeactivateStream
  <2>1. /\ UNCHANGED <<port, wr, hist>> /\ lc.pc = "deactivate" /\ lc'.pc = "recover"
        /\ lc'.chan = lc.chan /\ ~active'
    BY <1>8 DEF DeactivateStream, PathInv, OutletHeld, Lifecycle
  <2>2. WaitersHold' /\ WatchedLoss' /\ OutletHeld'
    BY <2>1 DEF PathInv, WaitersHold, Closable, WatchedLoss, Watched, OutletHeld, Opening
  <2>3. EpochsInTurn' /\ FailureHolds'
    BY <2>1 DEF PathInv, EpochsInTurn, FailureHolds, Opening, Resuming
  <2>4. QED
    BY <2>1, <2>2, <2>3 DEF PathInv
<1>9. CASE ResolveForResume \/ ResumeGivesUp
  <2>1. /\ UNCHANGED <<port, wr, active, hist>>
        /\ lc.pc \in {"recover", "resume", "waitResume"}
        /\ lc'.pc \in {"resume", "exit"} /\ lc'.chan = lc.chan
    BY <1>9, LifecycleMoves DEF ResolveForResume, ResumeGivesUp, At, Lifecycle
  <2>2. ~active
    BY <2>1 DEF PathInv, OutletHeld
  <2>3. QED
    BY <1>0, <2>1, <2>2, QuietMove DEF Opening, Resuming
<1>10. CASE ResumeCandidate
  <2>1. /\ UNCHANGED <<wr, active>> /\ hist'.failed = hist.failed
        /\ lc.pc = "resume" /\ lc'.pc = "sdkResume" /\ lc'.chan = lc.chan
        /\ port' = BeginResume(port, Head(lc.cands), port.epoch + 1)
    BY <1>10 DEF ResumeCandidate, SentTo, History, Lifecycle
  <2>2. Replaces(port, port')
    BY <2>1, MethodsReplace DEF PathInv
  <2>3. port'.epoch = port.epoch + 1 /\ ~port'.readyState /\ port.epoch \in Epochs
    BY <2>1, BeginSets DEF EpochsUsed
  <2>4. Channels(port') /\ WaitersHold' /\ WatchedLoss' /\ OutletHeld'
    BY <2>1, <2>2 DEF PathInv, Replaces, Channels, WaitersHold, Closable, WatchedLoss,
       Watched, OutletHeld, Opening
  <2>5. \A f \in hist'.failed : f[2] <= port.epoch
    BY <2>1 DEF PathInv, EpochsInTurn
  <2>6. port.epoch \in Nat /\ port.epoch > 0
    BY <2>3 DEF Epochs
  <2>7. EpochsInTurn'
    <3>1. \A f \in hist'.failed : f[2] \in Nat
      BY <2>1 DEF History
    <3>2. \A f \in hist'.failed : f[2] <= port'.epoch
      BY <2>3, <2>5, <2>6, <3>1
    <3>3. QED
      BY <2>1, <2>3, <2>6, <3>2 DEF EpochsInTurn, Opening, Resuming
  <2>8. FailureHolds'
    BY <2>3, <2>5, <2>6 DEF FailureHolds
  <2>9. QED
    BY <2>4, <2>7, <2>8 DEF PathInv
<1>11. CASE SdkResume
  <2>1. /\ UNCHANGED <<wr, active, hist>>
        /\ lc.pc = "sdkResume" /\ lc'.pc = "sendResume" /\ lc'.chan = lc.chan
        /\ port' = SenderResume(port, port.epoch)
    BY <1>11 DEF SdkResume, Lifecycle
  <2>2. /\ port'.target = port.target /\ port'.epoch = port.epoch
        /\ port'.readyState = port.readyState /\ port'.ready = port.ready
        /\ port'.closed = port.closed /\ port'.lost = port.lost
        /\ port'.attemptErr = port.attemptErr
    BY <2>1 DEF SenderResume, Port
  <2>3. ~active
    BY <2>1 DEF PathInv, OutletHeld
  <2>4. QED
    BY <1>0, <2>1, <2>2, <2>3, QuietMove DEF Opening, Resuming
<1>12. CASE SendResume \/ ResumeTimeout
  <2>1. /\ UNCHANGED <<port, wr, active, hist>>
        /\ lc.pc \in {"sendResume", "waitResume"} /\ (At("waitResume") \/ At("resume"))
    BY <1>12, LifecycleMoves DEF SendResume, ResumeTimeout
  <2>2. ~active
    BY <2>1 DEF PathInv, OutletHeld
  <2>3. QED
    BY <1>0, <2>1, <2>2, QuietMove DEF At, Opening, Resuming
<1>13. CASE ResumeAnswered
  <2>1. /\ UNCHANGED <<wr, active, hist>> /\ lc.pc = "waitResume" /\ At("replay")
        /\ port' = [port EXCEPT !.resumeTok = FALSE]
    BY <1>13, LifecycleMoves DEF ResumeAnswered
  <2>2. ~active
    BY <2>1 DEF PathInv, OutletHeld
  <2>3. QED
    BY <1>0, <2>1, <2>2, QuietMove DEF At, Opening, Resuming, Port
<1>14. CASE ResumeRejected
  <2>1. /\ UNCHANGED <<wr, active, hist>> /\ lc.pc = "waitResume" /\ At("resume")
        /\ port' = [port EXCEPT !.attemptErr = FALSE]
    BY <1>14, LifecycleMoves DEF ResumeRejected
  <2>2. ~active
    BY <2>1 DEF PathInv, OutletHeld
  <2>3. QED
    BY <1>0, <2>1, <2>2, QuietMove DEF At, Opening, Resuming, Port
<1>15. CASE ReplayFrame
  <2>1. /\ UNCHANGED <<port, wr, active>> /\ hist'.failed = hist.failed
        /\ lc.pc = "replay" /\ lc'.pc \in {"replay", "resume"} /\ lc'.chan = lc.chan
    BY <1>15, LifecycleMoves DEF ReplayFrame, SentTo, At, History, Lifecycle
  <2>2. ~active
    BY <2>1 DEF PathInv, OutletHeld
  <2>3. QED
    BY <1>0, <2>1, <2>2, QuietMove DEF Opening, Resuming
<1>16. CASE FinishResume
  <2>1. /\ UNCHANGED <<wr, active, hist>> /\ lc.pc = "replay"
        /\ port' = CompleteResume(port, port.target, port.epoch)
        /\ IF ResumeComplete(port, port.target, port.epoch)
           THEN At("activate") ELSE At("resume")
    BY <1>16, LifecycleMoves DEF FinishResume
  <2>2. ~active
    BY <2>1 DEF PathInv, OutletHeld
  <2>3. CASE ResumeComplete(port, port.target, port.epoch)
    <3>1. port' = BecomeReady(port) /\ ~port.attemptErr /\ At("activate")
      BY <2>1, <2>3 DEF CompleteResume, ResumeComplete
    <3>2. Replaces(port, port')
      BY <3>1, MethodsReplace DEF PathInv
    <3>3. /\ port'.target = port.target /\ port'.epoch = port.epoch /\ port'.readyState
      BY <3>1 DEF BecomeReady, Port
    <3>4. Channels(port') /\ WaitersHold' /\ WatchedLoss' /\ OutletHeld'
      BY <2>1, <2>2, <3>1, <3>2, <3>3 DEF At, PathInv, Replaces, Channels, WaitersHold,
         Closable, WatchedLoss, OutletHeld, Opening
    <3>5. EpochsInTurn' /\ FailureHolds'
      BY <2>1, <3>1, <3>3 DEF At, PathInv, EpochsInTurn, FailureHolds, Opening, Resuming
    <3>6. QED
      BY <3>4, <3>5 DEF PathInv
  <2>4. CASE ~ResumeComplete(port, port.target, port.epoch)
    <3>1. /\ port'.target = port.target /\ port'.epoch = port.epoch
          /\ port'.readyState = port.readyState /\ port'.ready = port.ready
          /\ port'.closed = port.closed /\ port'.lost = port.lost
      BY <2>1, <2>4 DEF CompleteResume, Port
    <3>2. QED
      BY <1>0, <2>1, <2>2, <2>4, <3>1, QuietMove DEF At, Opening, Resuming
  <2>5. QED
    BY <2>3, <2>4
<1>17. CASE LeaveOutlet \/ Unregister
  <2>1. /\ UNCHANGED <<port, wr, hist>> /\ lc.pc \in {"exit", "unregister"}
        /\ (At("unregister") \/ At("close")) /\ ~active'
    <3>1. active => lc.active /\ lc.pc # "unregister"
      BY DEF PathInv, OutletHeld
    <3>2. CASE LeaveOutlet
      BY <3>1, <3>2, LifecycleMoves DEF LeaveOutlet
    <3>3. CASE Unregister
      BY <3>1, <3>3, LifecycleMoves DEF Unregister
    <3>4. QED
      BY <1>17, <3>2, <3>3
  <2>2. QED
    BY <1>0, <2>1, QuietMove DEF At, Opening, Resuming
<1>18. CASE EndStream
  <2>1. /\ UNCHANGED <<wr, active, hist>> /\ lc.pc = "close" /\ At("ended")
        /\ port' = ClosePort(port)
    BY <1>18, LifecycleMoves DEF EndStream
  <2>2. ~active
    BY <2>1 DEF PathInv, OutletHeld
  <2>3. QED
    BY <1>0, <2>1, <2>2, QuietMove DEF At, Opening, Resuming, ClosePort, Port
<1>19. QED
  BY <1>1, <1>2, <1>3, <1>4, <1>5, <1>6, <1>7, <1>8, <1>9, <1>10, <1>11,
     <1>12, <1>13, <1>14, <1>15, <1>16, <1>17, <1>18 DEF LifecycleStep

-----------------------------------------------------------------------------
LEMMA PathInit == Init => PathInv
<1> SUFFICES ASSUME Init
             PROVE  PathInv
  OBVIOUS
<1>1. /\ port.ready = 0 /\ port.closed = {} /\ ~port.readyState /\ port.epoch = 1
  BY DEF Init, NewPort
<1>2. /\ lc.pc = "open" /\ wr.pc = "off" /\ ~active /\ hist.failed = {}
  BY DEF Init
<1>3. QED
  BY <1>1, <1>2 DEF PathInv, Channels, WaitersHold, WatchedLoss, Watched, OutletHeld,
     EpochsInTurn, FailureHolds, Opening, Resuming

LEMMA PathStep == TypeInv /\ PathInv /\ [Next]_vars => PathInv'
<1> SUFFICES ASSUME TypeInv, PathInv, [Next]_vars
             PROVE  PathInv'
  OBVIOUS
<1>1. CASE LifecycleStep
  BY <1>1, LifecycleKeepsPathInv
<1>2. CASE WriterStep
  BY <1>2, WriterKeepsPathInv
<1>3. CASE HandlerCall \/ \E h \in Handlers : HandlerStep(h)
  BY <1>3, HandlersKeepPathInv
<1>4. ASSUME UNCHANGED <<port, lc, wr, hd, active>>, hist'.failed = hist.failed
      PROVE  PathInv'
  BY <1>4 DEF PathInv, Channels, WaitersHold, Closable, WatchedLoss, Watched, LossPending,
     Signalling, OutletHeld, MuFree, EpochsInTurn, FailureHolds
<1>5. CASE TunStep
  <2>1. hist'.failed = hist.failed
    BY <1>5 DEF TunStep, TunLooksUp, EnqueueReady, TypeInv, TypeOK, History
  <2>2. QED
    BY <1>4, <1>5, <2>1 DEF TunStep
<1>6. CASE CancelCtx \/ UNCHANGED vars
  BY <1>4, <1>6 DEF CancelCtx, vars
<1>7. QED
  BY <1>1, <1>2, <1>3, <1>5, <1>6 DEF Next, Finished

THEOREM PathInvariant == Spec => [](TypeInv /\ PathInv)
<1>1. Init => TypeInv /\ PathInv
  BY TypeInit, PathInit
<1>2. (TypeInv /\ PathInv) /\ [Next]_vars => (TypeInv /\ PathInv)'
  BY TypeStep, PathStep
<1>3. QED
  BY <1>1, <1>2, PTL DEF Spec

-----------------------------------------------------------------------------
(* The safety properties the runs check                                     *)

(* A ready channel is closed once, and is replaced when its path goes down:  *)
(* acceptOpenAck and completeResume never close a closed channel; and        *)
(* neither runStream nor writeStreamLoop ever waits on a channel that        *)
(* beginOpen, beginResume or a loss has replaced unclosed.                   *)
THEOREM ReadyChannelAlwaysHolds == Spec => []ReadyChannelHolds
<1>1. PathInv => ReadyChannelAgrees
  BY DEF PathInv, Channels, ReadyChannelAgrees
<1>2. PathInv => WaitersNotStranded
  BY DEF PathInv, WaitersHold, Closable, WaitersNotStranded
<1>3. PathInv => ReadyChannelHolds
  BY <1>1, <1>2 DEF ReadyChannelHolds
<1>4. QED
  BY <1>3, PathInvariant, PTL

(* No loss of a served path is overlooked, although signalPathLost comes     *)
(* after the unlock and its token is coalesced with an earlier one.        *)
THEOREM EveryLossIsNoticed == Spec => []LossIsNoticed
<1>1. PathInv => LossIsNoticed
  BY DEF PathInv, WatchedLoss, Watched, LossPending, LossIsNoticed
<1>2. QED
  BY <1>1, PathInvariant, PTL

(* deactivateStreamIfNotReady, late with the loss before, never takes a      *)
(* recovered stream out of activeStreams, and the stream is there only       *)
(* while runStream is there to notice a loss of its path.                    *)
THEOREM OutletAlwaysFollowsPath == Spec => []OutletFollowsPath
<1>1. PathInv => ReadyStreamIsOutlet
  BY DEF PathInv, OutletHeld, LossPending, ReadyStreamIsOutlet
<1>2. PathInv => OutletIsWatched
  BY DEF PathInv, OutletHeld, OutletIsWatched
<1>3. PathInv => OutletFollowsPath
  BY <1>1, <1>2 DEF OutletFollowsPath
<1>4. QED
  BY <1>3, PathInvariant, PTL

(* A Resume attempt that failed, by an error of the send, of the connection  *)
(* or of the peer, is never made ready by an answer that comes late.       *)
THEOREM FailureIsFinal == Spec => []FailedPathStaysDown
<1>1. PathInv => FailedPathStaysDown
  BY DEF PathInv, FailureHolds, FailedPathStaysDown
<1>2. QED
  BY <1>1, PathInvariant, PTL

(* A stall fails the path it observed and no other: of the writer's two      *)
(* calls of failPathIfAckUnchanged, none takes down a path on which an ACK   *)
(* came in between.                                                          *)
THEOREM StallAlwaysSparesProgress == Spec => StallSparesProgress
<1>1. TypeInv /\ [Next]_vars
        => [wr.pc \in {"idleFail", "fullFail"} /\ wr'.pc = "signal"
              => Progress(port) = IF wr.pc = "idleFail" THEN wr.idleStalled
                                  ELSE wr.stalled]_vars
  <2> SUFFICES ASSUME TypeInv, [Next]_vars,
                      wr.pc \in {"idleFail", "fullFail"}, wr'.pc = "signal"
               PROVE  Progress(port) = IF wr.pc = "idleFail" THEN wr.idleStalled
                                       ELSE wr.stalled
    OBVIOUS
  <2> USE DEF TypeInv, TypeOK
  <2>1. wr' # wr
    OBVIOUS
  <2>2. ASSUME UNCHANGED port
        PROVE  ~TakenDown
    BY <2>2 DEF TakenDown
  <2>3. CASE IdleFail
    BY <2>2, <2>3 DEF IdleFail, FailPathIfAckUnchanged, Writer
  <2>4. CASE CreditFail
    BY <2>2, <2>4 DEF CreditFail, FailPathIfAckUnchanged, Writer
  <2>5. CASE ActivateStream
    BY <2>1, <2>5 DEF ActivateStream, Writer
  <2>6. WriterStep => IdleFail \/ CreditFail
    BY DEF WriterStep, TakeBatch, IdleTick, ReadPath, SeePathReady, DataPathGone,
       DataNoCredit, DataFramed, CreditPathGone, AwaitCredit, CreditStalls, WriterWakes,
       SendData, SendFail, WriterSignals, WriterQuits
  <2>7. LifecycleStep => ActivateStream \/ wr' = wr
    BY DEF LifecycleStep, OpenCandidate, SendOpen, OpenRejected, OpenTimeout, OpenAnswered,
       RunStreamLeaves, OpenExhausted, TakeLost, DeactivateStream, ResolveForResume,
       ResumeGivesUp, ResumeCandidate, SdkResume, SendResume, ResumeAnswered,
       ResumeRejected, ResumeTimeout, ReplayFrame, FinishResume, LeaveOutlet, Unregister,
       EndStream
  <2>8. QED
    BY <2>1, <2>3, <2>4, <2>5, <2>6, <2>7 DEF Next, HandlerCall, HandlerStep, TunStep,
       CancelCtx, Finished, vars
<1>2. QED
  BY <1>1, TypeInvariant, PTL DEF Spec, StallSparesProgress

-----------------------------------------------------------------------------
(* The data: the inductive invariant                                        *)

(* Where the writer has no batch, and where it surely has one.              *)
Empty   == {"off", "idle", "idleFail", "send", "fail"}
Batched == {"path", "wait", "data", "full", "fullFail", "wake"}

BatchHeld ==
  /\ Len(wr.pending) <= BatchMax
  /\ wr.pc \in Empty => wr.pending = << >>
  /\ wr.pc \in Batched => wr.pending # << >>

(* A packet's number tells how many went before it, in frames or not.       *)
PacketsCounted == hist.handed = Len(hist.framed) + Len(Backlog)

(* CreditWakesWriter, also on a path that is down: the token outlives it.   *)
CreditWoken ==
  wr.pc \in {"full", "wake"} /\ HasCredit(port, Len(wr.pending)) => port.wake

DataInv == OffsetsAgree /\ BatchHeld /\ PacketsCounted /\ CreditWoken

-----------------------------------------------------------------------------
(* Facts about sequences                                                    *)

LEMMA SplitConcat ==
  ASSUME NEW S, NEW s \in Seq(S), NEW t \in Seq(S)
  PROVE  /\ SubSeq(s \o t, 1, Len(s)) = s
         /\ SubSeq(s \o t, Len(s) + 1, Len(s \o t)) = t
<1>1. Len(s) \in Nat /\ Len(t) \in Nat /\ Len(s \o t) = Len(s) + Len(t)
  BY LenProperties, ConcatProperties
<1>2. SubSeq(s \o t, 1, Len(s)) = s
  <2>1. CASE Len(s) = 0
    <3>1. SubSeq(s \o t, 1, Len(s)) = << >>
      BY <2>1, SubSeqEmpty
    <3>2. s = << >>
      BY <2>1, EmptySeq
    <3>3. QED
      BY <3>1, <3>2
  <2>2. CASE Len(s) > 0
    <3>1. SubSeq(s \o t, 1, Len(s)) = SubSeq(s, 1, Len(s))
      BY <1>1, <2>2, SubSeqOfConcat1
    <3>2. QED
      BY <3>1, SubSeqFull
  <2>3. QED
    BY <1>1, <2>1, <2>2
<1>3. SubSeq(s \o t, Len(s) + 1, Len(s \o t)) = t
  <2>1. CASE Len(t) = 0
    <3>1. Len(s \o t) < Len(s) + 1
      BY <1>1, <2>1
    <3>2. SubSeq(s \o t, Len(s) + 1, Len(s \o t)) = << >>
      BY <1>1, <3>1, SubSeqEmpty
    <3>3. t = << >>
      BY <2>1, EmptySeq
    <3>4. QED
      BY <3>2, <3>3
  <2>2. CASE Len(t) > 0
    <3> DEFINE m == Len(s) + 1
               n == Len(s) + Len(t)
    <3>1. m \in Len(s) + 1 .. Len(s) + Len(t) /\ n \in Len(s) + 1 .. Len(s) + Len(t)
      BY <1>1, <2>2
    <3>2. m - Len(s) = 1 /\ n - Len(s) = Len(t)
      BY <1>1
    <3> HIDE DEF m, n
    <3>3. SubSeq(s \o t, m, n) = SubSeq(t, m - Len(s), n - Len(s))
      BY <3>1, SubSeqOfConcat2
    <3>4. SubSeq(s \o t, m, n) = t
      BY <3>2, <3>3, SubSeqFull
    <3>5. QED
      BY <1>1, <3>4 DEF m, n
  <2>3. QED
    BY <1>1, <2>1, <2>2
<1>4. QED
  BY <1>2, <1>3

LEMMA HeadThenTail ==
  ASSUME NEW S, NEW s \in Seq(S), s # << >>
  PROVE  s = <<Head(s)>> \o Tail(s) /\ <<Head(s)>> \in Seq(S)
<1>1. Len(s) \in Nat \ {0}
  BY EmptySeq
<1>2. SubSeq(s, 1, Len(s)) = <<s[1]>> \o SubSeq(s, 2, Len(s))
  <2>1. 1 \in 1 .. Len(s) /\ Len(s) \in 1 .. Len(s)
    BY <1>1
  <2>2. SubSeq(s, 1, Len(s)) = <<s[1]>> \o SubSeq(s, 1 + 1, Len(s))
    BY <2>1, SubSeqRecursiveFirst
  <2>3. QED
    BY <2>2
<1>3. Head(s) = s[1] /\ Tail(s) = SubSeq(s, 2, Len(s))
  BY TailIsSubSeq
<1>4. Head(s) \in S
  BY HeadTailProperties
<1>5. QED
  BY <1>2, <1>3, <1>4, SubSeqFull

-----------------------------------------------------------------------------
(* The batch                                                                *)

LEMMA PacketsAssociate ==
  \A s, t, u \in Seq(Nat) : (s \o t) \o u = s \o (t \o u)
<1> SUFFICES ASSUME NEW s \in Seq(Nat), NEW t \in Seq(Nat), NEW u \in Seq(Nat)
             PROVE  (s \o t) \o u = s \o (t \o u)
  OBVIOUS
<1> QED
  BY ConcatAssociative, SMTT(60)

LEMMA BacklogType ==
  ASSUME wr \in Writer, queue \in Seq(Nat)
  PROVE  /\ Backlog \in Seq(Nat)
         /\ Backlog = wr.pending \o (wr.overflow \o queue)
         /\ wr.pending = << >> => Backlog = wr.overflow \o queue
         /\ wr.overflow = << >> => Backlog = wr.pending \o queue
<1>1. wr.pending \in Seq(Nat) /\ wr.overflow \in Seq(Nat)
  BY DEF Writer
<1>2. wr.pending \o wr.overflow \in Seq(Nat) /\ wr.overflow \o queue \in Seq(Nat)
  BY <1>1, ConcatProperties
<1>3. Backlog \in Seq(Nat) /\ Backlog = wr.pending \o (wr.overflow \o queue)
  <2>1. (wr.pending \o wr.overflow) \o queue = wr.pending \o (wr.overflow \o queue)
    BY <1>1, PacketsAssociate
  <2>2. (wr.pending \o wr.overflow) \o queue \in Seq(Nat)
    BY <1>2, ConcatProperties
  <2>3. QED
    BY <2>1, <2>2 DEF Backlog
<1>4. wr.pending = << >> => Backlog = wr.overflow \o queue
  BY <1>2, <1>3, ConcatEmptySeq
<1>5. wr.overflow = << >> => Backlog = wr.pending \o queue
  BY <1>3, ConcatEmptySeq
<1>6. QED
  BY <1>3, <1>4, <1>5

(* A batch b that is filled up from q holds, with what overflows and what   *)
(* stays queued, b and q in this order.                                     *)
LEMMA FillBatchKeeps ==
  ASSUME wr \in Writer, NEW b \in Seq(Nat), NEW q \in Seq(Nat), FillBatch(b, q),
         b # << >>
  PROVE  /\ Backlog' = b \o q
         /\ Len(wr'.pending) <= BatchMax /\ wr'.pending # << >>
<1>1. PICK k \in 0 .. Len(q) :
        LET overflow == IF k = Len(q) THEN << >> ELSE <<q[k + 1]>>
        IN  /\ Len(b) + k <= BatchMax
            /\ wr' = [wr EXCEPT !.pc = "path", !.pending = b \o SubSeq(q, 1, k),
                                !.overflow = overflow]
            /\ queue' = SubSeq(q, k + 1 + Len(overflow), Len(q))
  BY DEF FillBatch
<1> DEFINE overflow == IF k = Len(q) THEN << >> ELSE <<q[k + 1]>>
           first == SubSeq(q, 1, k)
           rest  == SubSeq(q, k + 1, Len(q))
<1>2. Len(q) \in Nat /\ Len(b) \in Nat \ {0} /\ \A i \in 1 .. Len(q) : q[i] \in Nat
  BY LenProperties, ElementOfSeq, EmptySeq
<1>3. first \in Seq(Nat) /\ Len(first) = k /\ rest \in Seq(Nat)
  BY <1>2, SubSeqProperties
<1>4. first \o rest = q
  <2>1. 1 \in 1 .. Len(q) + 1 /\ k \in 1 - 1 .. Len(q) /\ Len(q) \in k .. Len(q)
    BY <1>2
  <2>2. first \o rest = SubSeq(q, 1, Len(q))
    BY <2>1, ConcatAdjacentSubSeq
  <2>3. QED
    BY <2>2, SubSeqFull
<1>5. overflow \o SubSeq(q, k + 1 + Len(overflow), Len(q)) = rest
  <2>1. CASE k = Len(q)
    <3>1. overflow = << >> /\ Len(overflow) = 0 /\ k + 1 + Len(overflow) = k + 1
      BY <2>1, EmptySeq
    <3>2. QED
      BY <1>3, <3>1, ConcatEmptySeq
  <2>2. CASE k # Len(q)
    <3>1. overflow = <<q[k + 1]>> /\ Len(overflow) = 1 /\ k + 1 + Len(overflow) = k + 1 + 1
      BY <2>2
    <3>2. k + 1 \in 1 .. Len(q) /\ Len(q) \in k + 1 .. Len(q)
      BY <1>2, <2>2
    <3>3. rest = <<q[k + 1]>> \o SubSeq(q, k + 1 + 1, Len(q))
      BY <3>2, SubSeqRecursiveFirst
    <3>4. QED
      BY <3>1, <3>3
  <2>3. QED
    BY <2>1, <2>2
<1>6. wr'.pending = b \o first /\ wr'.overflow = overflow
  BY <1>1 DEF Writer
<1>7. queue' = SubSeq(q, k + 1 + Len(overflow), Len(q))
  BY <1>1
<1>8. wr' \in Writer /\ queue' \in Seq(Nat)
  BY FillBatchType
<1>9. Backlog' = wr'.pending \o (wr'.overflow \o queue')
  <2>1. wr'.pending \in Seq(Nat) /\ wr'.overflow \in Seq(Nat)
    BY <1>8 DEF Writer
  <2>2. PICK x \in Seq(Nat), y \in Seq(Nat), z \in Seq(Nat) :
          x = wr'.pending /\ y = wr'.overflow /\ z = queue'
    BY <1>8, <2>1
  <2>3. (x \o y) \o z = x \o (y \o z)
    BY ONLY ZenonT(40), PacketsAssociate, x \in Seq(Nat), y \in Seq(Nat), z \in Seq(Nat)
  <2>4. QED
    BY <2>2, <2>3 DEF Backlog
<1> HIDE DEF overflow, first, rest
<1>10. Backlog' = b \o q
  <2>1. Backlog' = (b \o first) \o rest
    BY <1>5, <1>6, <1>7, <1>9
  <2>2. (b \o first) \o rest = b \o (first \o rest)
    BY <1>3, PacketsAssociate
  <2>3. QED
    BY <1>4, <2>1, <2>2
<1>11. Len(wr'.pending) = Len(b) + k
  BY <1>2, <1>3, <1>6, ConcatProperties
<1>12. wr'.pending # << >>
  BY <1>2, <1>11, EmptySeq
<1>13. QED
  BY <1>1, <1>10, <1>11, <1>12

(* TakeBatch and WriterWakes move packets between queue, overflow and batch; *)
(* their order stays.                                                       *)
LEMMA BatchKeeps ==
  ASSUME wr \in Writer, queue \in Seq(Nat), BatchHeld, TakeBatch \/ WriterWakes
  PROVE  /\ Backlog' = Backlog /\ BatchHeld' /\ wr'.pc = "path"
         /\ hist' = hist
<1>1. wr'.pc = "path" /\ hist' = hist
  BY BatchType DEF TakeBatch, WriterWakes
<1>2. SUFFICES /\ Backlog' = Backlog
               /\ Len(wr'.pending) <= BatchMax /\ wr'.pending # << >>
  BY <1>1 DEF BatchHeld, Empty, Batched
<1>3. CASE TakeBatch /\ wr.overflow # << >>
  <2>1. FillBatch(wr.overflow, queue) /\ wr.overflow \in Seq(Nat)
    BY <1>3 DEF TakeBatch, Writer
  <2>2. Backlog = wr.overflow \o queue
    BY <1>3, BacklogType DEF TakeBatch, BatchHeld, Empty
  <2>3. QED
    BY <1>3, <2>1, <2>2, FillBatchKeeps
<1>4. CASE TakeBatch /\ wr.overflow = << >>
  <2>1. queue # << >> /\ FillBatch(<<Head(queue)>>, Tail(queue))
    BY <1>4 DEF TakeBatch
  <2>2. queue = <<Head(queue)>> \o Tail(queue) /\ <<Head(queue)>> \in Seq(Nat)
    BY <2>1, HeadThenTail
  <2>3. Tail(queue) \in Seq(Nat) /\ <<Head(queue)>> # << >>
    BY <2>1, HeadTailProperties
  <2>4. Backlog = queue
    <3>1. Backlog = wr.overflow \o queue
      BY <1>4, BacklogType DEF TakeBatch, BatchHeld, Empty
    <3>2. QED
      BY <1>4, <3>1, ConcatEmptySeq
  <2>5. QED
    BY <2>1, <2>2, <2>3, <2>4, FillBatchKeeps
<1>5. CASE WriterWakes /\ wr.overflow = << >>
  <2>1. FillBatch(wr.pending, queue) /\ wr.pending \in Seq(Nat) /\ wr.pending # << >>
    BY <1>5 DEF WriterWakes, Writer, BatchHeld, Batched
  <2>2. Backlog = wr.pending \o queue
    BY <1>5, BacklogType
  <2>3. QED
    BY <2>1, <2>2, FillBatchKeeps
<1>6. CASE WriterWakes /\ wr.overflow # << >>
  <2>1. queue' = queue /\ wr'.pending = wr.pending /\ wr'.overflow = wr.overflow
    BY <1>6 DEF WriterWakes, WGoto, Writer
  <2>2. wr.pc = "wake"
    BY <1>6 DEF WriterWakes
  <2>3. QED
    BY <2>1, <2>2 DEF Backlog, BatchHeld, Batched
<1>7. QED
  BY <1>3, <1>4, <1>5, <1>6

-----------------------------------------------------------------------------
(* Steps that move no packet                                                *)

OffsetsKept(p, q) ==
  /\ q.lastAck = p.lastAck /\ q.lastSent = p.lastSent
  /\ q.sender.base = p.sender.base /\ q.sender.next = p.sender.next
  /\ q.sender.window = p.sender.window

NoPacketMoves ==
  /\ wr'.pending = wr.pending /\ wr'.overflow = wr.overflow /\ queue' = queue
  /\ hist'.handed = hist.handed /\ hist'.framed = hist.framed

Kept(p, q) == OffsetsKept(p, q) /\ q.wake = p.wake

LEMMA BeginOpenKeeps ==
  ASSUME NEW p \in Port, NEW s
  PROVE  Kept(p, BeginOpen(p, s))
BY DEF Kept, OffsetsKept, BeginOpen, Port

LEMMA BeginResumeKeeps ==
  ASSUME NEW p \in Port, NEW s, NEW e
  PROVE  Kept(p, BeginResume(p, s, e))
BY DEF Kept, OffsetsKept, BeginResume, Port

LEMMA TakeDownKeepsOffsets ==
  ASSUME NEW p \in Port, NEW b
  PROVE  Kept(p, TakeDown(p, b))
BY DEF Kept, OffsetsKept, TakeDown, Port

LEMMA BecomeReadyKeeps ==
  ASSUME NEW p \in Port
  PROVE  Kept(p, BecomeReady(p))
BY DEF Kept, OffsetsKept, BecomeReady, Port

LEMMA SignalsKeepOffsets ==
  ASSUME NEW p \in Port
  PROVE  OffsetsKept(p, SignalPathLost(p)) /\ SignalPathLost(p).wake
BY DEF OffsetsKept, SignalPathLost, Port

LEMMA SenderResumeKeeps ==
  ASSUME NEW p \in Port, NEW e
  PROVE  Kept(p, SenderResume(p, e))
BY DEF Kept, OffsetsKept, SenderResume, Port, Sender

LEMMA ClosingKeeps ==
  ASSUME NEW p \in Port, NEW s
  PROVE  Kept(p, RequestRestart(p, s)) /\ Kept(p, ClosePort(p))
BY DEF Kept, OffsetsKept, RequestRestart, ClosePort, Port

LEMMA TokensKeepOffsets ==
  ASSUME NEW p \in Port, NEW b
  PROVE  /\ Kept(p, [p EXCEPT !.attemptErr = b])
         /\ Kept(p, [p EXCEPT !.resumeTok = b])
         /\ Kept(p, [p EXCEPT !.lost = b])
         /\ OffsetsKept(p, [p EXCEPT !.wake = b])
BY DEF Kept, OffsetsKept, Port

LEMMA HistoryKept ==
  ASSUME hist \in History, NEW e, NEW to, NEW hit,
         SentTo(e, to) \/ Failed \/ NoteFailed(hit) \/ UNCHANGED hist
  PROVE  hist'.handed = hist.handed /\ hist'.framed = hist.framed
BY DEF History, SentTo, Failed, NoteFailed

LEMMA LifecycleKeepsPackets ==
  ASSUME TypeInv, LifecycleStep
  PROVE  /\ OffsetsKept(port, port') /\ port'.wake = port.wake
         /\ NoPacketMoves
         /\ wr' = wr \/ (wr.pc = "off" /\ wr'.pc = "idle")
<1> USE DEF TypeInv, TypeOK
<1>1. OffsetsKept(port, port') /\ port'.wake = port.wake
  <2> SUFFICES Kept(port, port')
    BY DEF Kept
  <2>1. CASE OpenCandidate
    <3>1. port' = BeginOpen(port, Head(lc.cands))
      BY <2>1 DEF OpenCandidate
    <3>2. QED
      BY ONLY <3>1, port \in Port, BeginOpenKeeps
  <2>2. ASSUME OpenRejected \/ ResumeRejected \/ ResumeAnswered \/ TakeLost
        PROVE  Kept(port, port')
    <3>1. \/ port' = [port EXCEPT !.attemptErr = FALSE]
          \/ port' = [port EXCEPT !.resumeTok = FALSE]
          \/ port' = [port EXCEPT !.lost = FALSE]
      BY <2>2 DEF OpenRejected, ResumeRejected, ResumeAnswered, TakeLost
    <3>2. QED
      BY <3>1, TokensKeepOffsets
  <2>3. CASE ResumeCandidate
    <3>1. port' = BeginResume(port, Head(lc.cands), port.epoch + 1)
      BY <2>3 DEF ResumeCandidate
    <3>2. QED
      BY ONLY <3>1, port \in Port, BeginResumeKeeps
  <2>4. CASE SdkResume
    <3>1. port' = SenderResume(port, port.epoch)
      BY <2>4 DEF SdkResume
    <3>2. QED
      BY ONLY <3>1, port \in Port, SenderResumeKeeps
  <2>5. CASE FinishResume
    <3>1. PICK b \in BOOLEAN :
            port' = BecomeReady(port) \/ port' = [port EXCEPT !.attemptErr = b]
      BY <2>5 DEF FinishResume, CompleteResume, Port
    <3>2. QED
      BY ONLY <3>1, port \in Port, BecomeReadyKeeps, TokensKeepOffsets
  <2>6. CASE EndStream
    <3>1. port' = ClosePort(port) \/ port' = port
      BY <2>6 DEF EndStream
    <3>2. QED
      BY <3>1, ClosingKeeps DEF Kept, OffsetsKept
  <2>7. CASE UNCHANGED port
    BY <2>7 DEF Kept, OffsetsKept
  <2>8. QED
    BY <2>1, <2>2, <2>3, <2>4, <2>5, <2>6, <2>7 DEF LifecycleStep, SendOpen,
       OpenTimeout, OpenAnswered, RunStreamLeaves, OpenExhausted,
       ActivateStream, DeactivateStream, ResolveForResume, ResumeGivesUp,
       SendResume, ResumeTimeout, ReplayFrame, LeaveOutlet, Unregister
<1>2. hist'.handed = hist.handed /\ hist'.framed = hist.framed
  <2>1. CASE ResumeCandidate
    BY <2>1, HistoryKept DEF ResumeCandidate
  <2>2. CASE ReplayFrame
    BY <2>2, HistoryKept DEF ReplayFrame
  <2>3. CASE UNCHANGED hist
    BY <2>3
  <2>4. QED
    BY <2>1, <2>2, <2>3 DEF LifecycleStep, OpenCandidate, SendOpen,
       OpenRejected, OpenTimeout, OpenAnswered, RunStreamLeaves,
       OpenExhausted, ActivateStream, TakeLost, DeactivateStream,
       ResolveForResume, ResumeGivesUp, SdkResume, SendResume, ResumeAnswered,
       ResumeRejected, ResumeTimeout, FinishResume, LeaveOutlet, Unregister,
       EndStream
<1>3. /\ wr' = wr \/ (wr.pc = "off" /\ wr'.pc = "idle")
      /\ wr'.pending = wr.pending /\ wr'.overflow = wr.overflow
  <2>1. CASE ActivateStream
    BY <2>1 DEF ActivateStream, Writer
  <2>2. CASE UNCHANGED wr
    BY <2>2
  <2>3. QED
    BY <2>1, <2>2 DEF LifecycleStep, OpenCandidate, SendOpen, OpenRejected,
       OpenTimeout, OpenAnswered, RunStreamLeaves, OpenExhausted, TakeLost,
       DeactivateStream, ResolveForResume, ResumeGivesUp, ResumeCandidate,
       SdkResume, SendResume, ResumeAnswered, ResumeRejected, ResumeTimeout,
       ReplayFrame, FinishResume, LeaveOutlet, Unregister, EndStream
<1>4. QED
  BY <1>1, <1>2, <1>3 DEF NoPacketMoves, LifecycleStep

(* What the invariant needs of a step that keeps the packets and offsets.   *)
LEMMA QuietStep ==
  ASSUME DataInv, OffsetsKept(port, port'), NoPacketMoves, BatchHeld', CreditWoken'
  PROVE  DataInv' /\ UNCHANGED <<Backlog, hist.framed>>
<1>1. Backlog' = Backlog /\ hist'.framed = hist.framed
  BY DEF NoPacketMoves, Backlog
<1>2. PacketsCounted'
  BY <1>1 DEF DataInv, PacketsCounted, NoPacketMoves
<1>3. OffsetsAgree'
  BY DEF DataInv, OffsetsAgree, OffsetsKept, NoPacketMoves
<1>4. QED
  BY <1>1, <1>2, <1>3 DEF DataInv

LEMMA LifecycleKeepsData ==
  ASSUME TypeInv, DataInv, LifecycleStep
  PROVE  DataInv' /\ UNCHANGED <<Backlog, hist.framed>>
<1>1. /\ OffsetsKept(port, port') /\ port'.wake = port.wake /\ NoPacketMoves
      /\ wr' = wr \/ (wr.pc = "off" /\ wr'.pc = "idle")
  BY LifecycleKeepsPackets
<1>2. BatchHeld'
  BY <1>1 DEF DataInv, BatchHeld, Empty, Batched, NoPacketMoves
<1>3. CreditWoken'
  BY <1>1 DEF DataInv, CreditWoken, NoPacketMoves, HasCredit, OffsetsKept
<1>4. QED
  BY <1>1, <1>2, <1>3, QuietStep

-----------------------------------------------------------------------------
(* The writer                                                               *)

LEMMA FailingKeepsOffsets ==
  ASSUME NEW p \in Port, NEW s, NEW e, NEW seen
  PROVE  /\ OffsetsKept(p, FailPath(p, s, e)) /\ FailPath(p, s, e).wake = p.wake
         /\ OffsetsKept(p, FailPathIfAckUnchanged(p, seen))
         /\ FailPathIfAckUnchanged(p, seen).wake = p.wake
<1>1. Kept(p, p) /\ Kept(p, TakeDown(p, TRUE))
  BY TakeDownKeepsOffsets DEF Kept, OffsetsKept
<1>2. QED
  BY <1>1 DEF Kept, FailPath, FailPathIfAckUnchanged

(* The writer's steps but those that fill a batch or frame it.              *)
WriterIdles == IdleTick \/ IdleFail \/ SendData \/ SendFail \/ WriterSignals \/ WriterQuits

WriterWaits ==
  \/ ReadPath \/ SeePathReady \/ DataPathGone \/ DataNoCredit \/ CreditPathGone
  \/ AwaitCredit \/ CreditStalls \/ CreditFail

LEMMA WriterIdlesKeepsData ==
  ASSUME TypeInv, DataInv, WriterIdles
  PROVE  DataInv' /\ UNCHANGED <<Backlog, hist.framed>>
<1> USE DEF TypeInv, TypeOK
<1>1. OffsetsKept(port, port')
  <2>1. CASE IdleFail
    BY <2>1, FailingKeepsOffsets DEF IdleFail
  <2>2. CASE SendFail
    BY <2>2, FailingKeepsOffsets DEF SendFail
  <2>3. CASE WriterSignals
    BY <2>3, SignalsKeepOffsets, TakeDownKeepsOffsets DEF WriterSignals, Kept
  <2>4. CASE UNCHANGED port
    BY <2>4 DEF OffsetsKept
  <2>5. QED
    BY <2>1, <2>2, <2>3, <2>4 DEF WriterIdles, IdleTick, SendData, WriterQuits
<1>2. hist'.handed = hist.handed /\ hist'.framed = hist.framed
  BY HistoryKept DEF WriterIdles, IdleTick, IdleFail, SendData, SendFail,
     WriterSignals, WriterQuits
<1>3. /\ wr'.pending = wr.pending /\ wr'.overflow = wr.overflow /\ queue' = queue
      /\ wr'.pc \in {"idle", "idleFail", "signal", "fail", "path", "exit"}
      /\ wr'.pc \in {"idle", "idleFail", "fail"} => wr.pending = << >>
      /\ wr'.pc = "path" => wr.pending # << >>
  <2>1. BatchHeld /\ wr \in Writer
    BY DEF DataInv
  <2> USE DEF BatchHeld, Empty, Writer, WGoto
  <2>2. CASE IdleTick
    BY ONLY <2>1, <2>2 DEF IdleTick
  <2>3. CASE IdleFail
    BY ONLY <2>1, <2>3 DEF IdleFail
  <2>4. CASE SendData
    BY ONLY <2>1, <2>4 DEF SendData
  <2>5. CASE SendFail
    BY ONLY <2>1, <2>5 DEF SendFail
  <2>6. CASE WriterSignals
    BY ONLY <2>1, <2>6 DEF WriterSignals
  <2>7. CASE WriterQuits
    BY ONLY <2>1, <2>7 DEF WriterQuits
  <2>8. QED
    BY <2>2, <2>3, <2>4, <2>5, <2>6, <2>7 DEF WriterIdles
<1>4. BatchHeld' /\ CreditWoken'
  BY <1>3 DEF DataInv, BatchHeld, Empty, Batched, CreditWoken
<1>5. QED
  BY <1>1, <1>2, <1>3, <1>4, QuietStep DEF NoPacketMoves

LEMMA WriterWaitsKeepsData ==
  ASSUME TypeInv, DataInv, WriterWaits
  PROVE  DataInv' /\ UNCHANGED <<Backlog, hist.framed>>
<1> USE DEF TypeInv, TypeOK
<1>1. OffsetsKept(port, port') /\ port'.wake = port.wake
  <2>1. CASE CreditFail
    BY <2>1, FailingKeepsOffsets DEF CreditFail
  <2>2. CASE UNCHANGED port
    BY <2>2 DEF OffsetsKept
  <2>3. QED
    BY <2>1, <2>2 DEF WriterWaits, ReadPath, SeePathReady, DataPathGone,
       DataNoCredit, CreditPathGone, AwaitCredit, CreditStalls
<1>2. hist'.handed = hist.handed /\ hist'.framed = hist.framed
  BY HistoryKept DEF WriterWaits, ReadPath, SeePathReady, DataPathGone,
     DataNoCredit, CreditPathGone, AwaitCredit, CreditStalls, CreditFail
<1>3. /\ wr'.pending = wr.pending /\ wr'.overflow = wr.overflow /\ queue' = queue
      /\ wr.pc \in Batched /\ wr'.pc \in Batched \cup {"signal"}
  BY DEF Batched, Writer, WGoto, WriterWaits, ReadPath, SeePathReady,
     DataPathGone, DataNoCredit, CreditPathGone, AwaitCredit, CreditStalls,
     CreditFail
<1>4. BatchHeld'
  BY <1>3 DEF DataInv, BatchHeld, Empty, Batched
<1>5. wr'.pc \in {"full", "wake"} =>
        wr.pc \in {"full", "wake"} \/ ~HasCredit(port, Len(wr.pending))
  BY DEF Writer, WGoto, WriterWaits, ReadPath, SeePathReady, DataPathGone,
     DataNoCredit, CreditPathGone, AwaitCredit, CreditStalls, CreditFail
<1>6. CreditWoken'
  BY <1>1, <1>3, <1>5 DEF DataInv, CreditWoken, HasCredit, OffsetsKept
<1>7. QED
  BY <1>1, <1>2, <1>3, <1>4, <1>6, QuietStep DEF NoPacketMoves

(* Filling the batch moves no packet past another.                          *)
LEMMA FillingKeepsData ==
  ASSUME TypeInv, DataInv, TakeBatch \/ WriterWakes
  PROVE  DataInv' /\ UNCHANGED <<Backlog, hist.framed>>
<1> USE DEF TypeInv, TypeOK
<1>1. Backlog' = Backlog /\ BatchHeld' /\ wr'.pc = "path" /\ hist' = hist
  BY BatchKeeps DEF DataInv
<1>2. OffsetsKept(port, port')
  <2>1. OffsetsKept(port, port)
    BY DEF OffsetsKept
  <2>2. CASE WriterWakes
    <3>1. PICK w : port' = [port EXCEPT !.wake = w]
      BY <2>2 DEF WriterWakes
    <3>2. QED
      BY <3>1 DEF OffsetsKept, Port
  <2>3. QED
    BY <2>1, <2>2 DEF TakeBatch
<1>3. OffsetsAgree'
  BY <1>1, <1>2 DEF DataInv, OffsetsAgree, OffsetsKept
<1>4. PacketsCounted' /\ CreditWoken'
  BY <1>1 DEF DataInv, PacketsCounted, CreditWoken
<1>5. QED
  BY <1>1, <1>3, <1>4 DEF DataInv

(* A frame takes the whole batch, the oldest packets of the backlog.        *)
LEMMA FramingKeepsData ==
  ASSUME TypeInv, DataInv, DataFramed
  PROVE  DataInv' /\ Queue!Frame
<1>0. port \in Port /\ wr \in Writer /\ queue \in Seq(Nat) /\ hist \in History
  BY DEF TypeInv, TypeOK
<1> DEFINE rest == wr.overflow \o queue
<1>1. /\ wr.pending \in Seq(Nat) /\ wr.overflow \in Seq(Nat) /\ rest \in Seq(Nat)
      /\ hist.framed \in Seq(Nat)
  BY <1>0, ConcatProperties DEF Writer, History
<1>2. Len(wr.pending) \in Nat /\ Len(rest) \in Nat /\ Len(hist.framed) \in Nat
  BY <1>1, LenProperties
<1>3. Len(wr.pending) \in 1 .. BatchMax
  <2>1. wr.pending # << >> /\ Len(wr.pending) <= BatchMax
    BY DEF DataFramed, DataInv, BatchHeld, Batched
  <2>2. QED
    BY <1>1, <2>1, EmptySeq, BatchAssumption
<1>4. /\ wr'.pending = << >> /\ wr'.overflow = wr.overflow /\ wr'.pc = "send"
      /\ queue' = queue
      /\ hist'.framed = hist.framed \o wr.pending /\ hist'.handed = hist.handed
  BY <1>0 DEF DataFramed, Writer, History
<1>5. Backlog = wr.pending \o rest
  BY <1>0, BacklogType
<1>6. Backlog' = rest
  <2>1. << >> \o wr.overflow = wr.overflow
    BY <1>1, ConcatEmptySeq
  <2>2. QED
    BY <1>4, <2>1 DEF Backlog
<1> HIDE DEF rest
<1>7. Len(Backlog) = Len(wr.pending) + Len(rest)
  BY <1>1, <1>5, ConcatProperties
<1>8. Len(hist'.framed) = Len(hist.framed) + Len(wr.pending)
  BY <1>1, <1>4, ConcatProperties
<1>9. Queue!Frame
  <2>1. /\ SubSeq(Backlog, 1, Len(wr.pending)) = wr.pending
        /\ SubSeq(Backlog, Len(wr.pending) + 1, Len(Backlog)) = rest
    BY <1>1, <1>5, SplitConcat
  <2>2. Len(wr.pending) <= Len(Backlog)
    BY <1>2, <1>7
  <2>3. QED
    BY <1>3, <1>4, <1>6, <2>1, <2>2 DEF Queue!Frame
<1>10. PacketsCounted'
  <2>1. hist.handed = Len(hist.framed) + Len(Backlog)
    BY DEF DataInv, PacketsCounted
  <2>2. Len(Backlog') = Len(rest)
    BY <1>6
  <2>3. hist'.handed = Len(hist'.framed) + Len(Backlog')
    <3>1. PICK n \in Nat, r \in Nat, f \in Nat :
            n = Len(wr.pending) /\ r = Len(rest) /\ f = Len(hist.framed)
      BY <1>2
    <3>2. Len(hist'.framed) = f + n /\ Len(Backlog') = r
      BY <1>8, <2>2, <3>1
    <3>3. hist.handed = f + (n + r)
      BY <1>7, <2>1, <3>1
    <3>4. QED
      BY <1>4, <3>2, <3>3
  <2>4. QED
    BY <2>3 DEF PacketsCounted
<1>11. OffsetsAgree'
  <2>1. /\ port'.lastAck = port.lastAck /\ port'.sender.base = port.sender.base
        /\ port'.sender.next = port.sender.next + Len(wr.pending)
        /\ port'.lastSent = port.sender.next + Len(wr.pending)
    BY <1>0 DEF DataFramed, DataForReadyPath, Port, Sender
  <2>2. port.lastAck \in Nat /\ port.lastSent \in Nat
    BY <1>0 DEF Port
  <2>3. QED
    <3>1. /\ port.lastAck = port.sender.base /\ port.lastSent = port.sender.next
          /\ port.lastAck <= port.lastSent /\ port.lastSent = Len(hist.framed)
      BY DEF DataInv, OffsetsAgree
    <3>2. port'.lastSent = port.lastSent + Len(wr.pending)
      BY <2>1, <3>1
    <3>3. port'.lastSent = Len(hist'.framed)
      <4>1. port'.lastSent = Len(hist.framed) + Len(wr.pending)
        BY <3>1, <3>2
      <4>2. QED
        BY <1>8, <4>1
    <3>4. port'.lastAck <= port'.lastSent
      <4>1. PICK n \in Nat : n = Len(wr.pending)
        BY <1>2
      <4>2. port'.lastSent = port.lastSent + n /\ port'.lastAck = port.lastAck
        BY <2>1, <3>2, <4>1
      <4>3. port.lastAck <= port.lastSent
        BY <3>1
      <4>4. QED
        BY <2>2, <4>2, <4>3
    <3>5. QED
      BY <2>1, <3>1, <3>2, <3>3, <3>4 DEF OffsetsAgree
<1>12. BatchHeld' /\ CreditWoken'
  <2>1. Len(<< >>) <= BatchMax
    BY BatchAssumption, EmptySeq
  <2>2. QED
    BY <1>4, <2>1 DEF BatchHeld, Empty, Batched, CreditWoken
<1>13. QED
  BY <1>9, <1>10, <1>11, <1>12 DEF DataInv

-----------------------------------------------------------------------------
(* The handlers and the TUN reader                                          *)

LEMMA QuietHandler ==
  ASSUME TypeInv, DataInv, OffsetsKept(port, port'), port.wake => port'.wake,
         UNCHANGED <<wr, queue>>,
         hist'.handed = hist.handed /\ hist'.framed = hist.framed
  PROVE  DataInv' /\ UNCHANGED <<Backlog, hist.framed>>
<1>1. NoPacketMoves
  BY DEF NoPacketMoves
<1>2. BatchHeld' /\ CreditWoken'
  BY DEF DataInv, BatchHeld, CreditWoken, HasCredit, OffsetsKept
<1>3. QED
  BY <1>1, <1>2, QuietStep

(* An ACK moves both offsets alike, and the token goes with it.             *)
LEMMA AckKeepsData ==
  ASSUME TypeInv, DataInv, NEW s, NEW e, NEW offset \in Nat, NEW window \in Nat,
         OnAck(s, e, offset, window), UNCHANGED <<wr, queue>>
  PROVE  DataInv' /\ UNCHANGED <<Backlog, hist.framed>>
<1>1. port \in Port /\ hist' = hist /\ Backlog' = Backlog /\ offset <= port.sender.next
  BY DEF TypeInv, TypeOK, OnAck, AckAccepted, Backlog
<1>2. /\ port'.lastAck = Larger(port.lastAck, offset) /\ port'.wake
      /\ port'.sender.base = Larger(port.sender.base, offset)
      /\ port'.sender.next = port.sender.next /\ port'.lastSent = port.lastSent
  <2> DEFINE d == [port.sender EXCEPT !.base = Larger(@, offset),
                                      !.window = IF window > 0 THEN window ELSE @]
  <2>1. port' = Acknowledge(port, offset, window)
    BY DEF OnAck
  <2>2. /\ port'.lastAck = Larger(port.lastAck, offset) /\ port'.wake
        /\ port'.lastSent = port.lastSent /\ port'.sender = d
    BY <1>1, <2>1 DEF Acknowledge, Port
  <2>3. d.base = Larger(port.sender.base, offset) /\ d.next = port.sender.next
    BY <1>1 DEF Port, Sender
  <2>4. QED
    BY <2>2, <2>3
<1>3. OffsetsAgree'
  <2>1. port.lastAck \in Nat /\ port.lastSent \in Nat
    BY <1>1 DEF Port
  <2>2. /\ port.lastAck = port.sender.base /\ port.lastSent = port.sender.next
        /\ port.lastAck <= port.lastSent /\ port.lastSent = Len(hist.framed)
    BY DEF DataInv, OffsetsAgree
  <2>3. Larger(port.lastAck, offset) <= port.lastSent
    BY <1>1, <2>1, <2>2 DEF Larger
  <2>4. QED
    BY <1>1, <1>2, <2>2, <2>3 DEF OffsetsAgree
<1>4. BatchHeld' /\ PacketsCounted' /\ CreditWoken'
  BY <1>1, <1>2 DEF DataInv, BatchHeld, PacketsCounted, CreditWoken
<1>5. QED
  BY <1>1, <1>3, <1>4 DEF DataInv

LEMMA HandlerCallKeepsData ==
  ASSUME TypeInv, DataInv, HandlerCall
  PROVE  DataInv' /\ UNCHANGED <<Backlog, hist.framed>>
<1>1. port \in Port /\ hist \in History /\ UNCHANGED <<wr, queue>>
  BY DEF TypeInv, TypeOK, HandlerCall
<1>2. ASSUME NEW s \in Sessions, NEW e \in Epochs, NEW offset \in 0 .. MaxPackets,
             NEW w \in Windows, OnAck(s, e, offset, w)
      PROVE  DataInv' /\ UNCHANGED <<Backlog, hist.framed>>
  <2>1. offset \in Nat /\ w \in Nat
    BY WindowAssumption, BoundsAssumption
  <2>2. QED
    BY <1>1, <1>2, <2>1, AckKeepsData
<1>3. ASSUME NEW s \in Sessions, OnOpenAck(s) \/ OnPeerOpen(s) \/ OnPeerResume(s)
      PROVE  OffsetsKept(port, port') /\ port'.wake = port.wake /\ hist' = hist
  <2>1. OffsetsKept(port, port)
    BY DEF OffsetsKept
  <2>2. QED
    BY <1>1, <1>3, <2>1, BecomeReadyKeeps, ClosingKeeps
       DEF Kept, OnOpenAck, AcceptOpenAck, OnPeerOpen, OnPeerResume
<1>4. ASSUME NEW s \in Sessions, NEW e \in Epochs, OnStreamSendResult(s, e)
      PROVE  /\ OffsetsKept(port, port') /\ port'.wake = port.wake
             /\ hist'.handed = hist.handed /\ hist'.framed = hist.framed
  BY <1>1, <1>4, FailingKeepsOffsets, HistoryKept DEF OnStreamSendResult
<1>5. ASSUME NEW err \in BOOLEAN, OnDisconnect(err)
      PROVE  /\ OffsetsKept(port, port') /\ port'.wake = port.wake
             /\ hist'.handed = hist.handed /\ hist'.framed = hist.framed
  BY <1>1, <1>5, TakeDownKeepsOffsets, HistoryKept
     DEF Kept, OnDisconnect, MarkPathLostWithError
<1>6. QED
  BY <1>1, <1>2, <1>3, <1>4, <1>5, QuietHandler DEF HandlerCall

LEMMA HandlerStepKeepsData ==
  ASSUME TypeInv, DataInv, NEW h \in Handlers, HandlerStep(h)
  PROVE  DataInv' /\ UNCHANGED <<Backlog, hist.framed>>
<1>1. port \in Port /\ hist \in History /\ UNCHANGED <<wr, queue>>
  BY DEF TypeInv, TypeOK, HandlerStep
<1>2. OffsetsKept(port, port') /\ (port.wake => port'.wake)
  <2>1. CASE CloseForRestart
    BY <1>1, <2>1, ClosingKeeps DEF Kept, CloseForRestart
  <2>2. CASE MarkPathLost
    BY <1>1, <2>2, TakeDownKeepsOffsets
       DEF Kept, MarkPathLost, MarkPathLostWithError
  <2>3. CASE HandlerSignals(h)
    BY <1>1, <2>3, SignalsKeepOffsets DEF HandlerSignals
  <2>4. CASE UNCHANGED port
    BY <2>4 DEF OffsetsKept
  <2>5. QED
    BY <2>1, <2>2, <2>3, <2>4 DEF HandlerStep, CheckReady, DeleteActive, DropPreferred
<1>3. hist'.handed = hist.handed /\ hist'.framed = hist.framed
  BY <1>1, HistoryKept DEF HandlerStep, CloseForRestart, MarkPathLost,
     HandlerSignals, CheckReady, DeleteActive, DropPreferred
<1>4. QED
  BY <1>1, <1>2, <1>3, QuietHandler

(* A packet that the queue takes is the backlog's newest.                   *)
LEMMA TunKeepsData ==
  ASSUME TypeInv, DataInv, TunStep
  PROVE  DataInv' /\ (Queue!Accept \/ UNCHANGED <<Backlog, hist.framed>>)
<1>1. wr \in Writer /\ queue \in Seq(Nat) /\ hist \in History /\ UNCHANGED <<port, wr>>
  BY DEF TypeInv, TypeOK, TunStep
<1>2. CASE UNCHANGED <<queue, hist>>
  <2>1. OffsetsKept(port, port')
    BY <1>1 DEF OffsetsKept
  <2>2. QED
    BY <1>1, <1>2, <2>1, QuietHandler
<1>3. CASE queue' = Append(queue, hist.handed + 1) /\ hist' = [hist EXCEPT !.handed = @ + 1]
  <2>1. PICK n \in Nat : n = hist.handed + 1
    BY <1>1 DEF History
  <2>2. hist'.handed = n /\ hist'.framed = hist.framed /\ queue' = Append(queue, n)
    BY <1>1, <1>3, <2>1 DEF History
  <2> DEFINE batch == wr.pending \o wr.overflow
  <2>3. batch \in Seq(Nat) /\ Backlog = batch \o queue /\ Backlog \in Seq(Nat)
    BY <1>1, ConcatProperties DEF Writer, Backlog
  <2>4. Backlog' = batch \o queue'
    BY <1>1 DEF Backlog
  <2> HIDE DEF batch
  <2>5. Backlog' = Append(Backlog, n)
    <3>1. <<n>> \in Seq(Nat)
      OBVIOUS
    <3>2. queue' = queue \o <<n>> /\ Append(Backlog, n) = Backlog \o <<n>>
      BY <1>1, <2>2, <2>3, AppendIsConcat
    <3>3. QED
      BY <1>1, <2>3, <2>4, <3>1, <3>2, PacketsAssociate
  <2>6. Len(Backlog') = Len(Backlog) + 1
    BY <2>3, <2>5, AppendProperties
  <2>7. PICK b \in Nat, f \in Nat : b = Len(Backlog) /\ f = Len(hist.framed)
    BY <1>1, <2>3, LenProperties DEF History
  <2>8. n = f + b + 1
    BY <2>1, <2>7 DEF DataInv, PacketsCounted
  <2>9. Queue!Accept
    BY <2>2, <2>5, <2>7, <2>8 DEF Queue!Accept
  <2>10. PacketsCounted'
    <3>1. Len(hist'.framed) = f /\ Len(Backlog') = b + 1
      BY <2>2, <2>6, <2>7
    <3>2. hist'.handed = f + (b + 1)
      BY <2>2, <2>8
    <3>3. QED
      BY <3>1, <3>2 DEF PacketsCounted
  <2>11. OffsetsAgree' /\ BatchHeld' /\ CreditWoken'
    BY <1>1, <2>2 DEF DataInv, OffsetsAgree, BatchHeld, CreditWoken
  <2>12. QED
    BY <2>9, <2>10, <2>11 DEF DataInv
<1>4. QED
  BY <1>2, <1>3 DEF TunStep, TunLooksUp, EnqueueReady

-----------------------------------------------------------------------------
(* Every step of the port is a step of the queue, or none                   *)

LEMMA DataInit == Init => DataInv /\ Queue!Init
<1> SUFFICES ASSUME Init
             PROVE  DataInv /\ Queue!Init
  OBVIOUS
<1>1. /\ wr.pc = "off" /\ wr.pending = << >> /\ wr.overflow = << >> /\ queue = << >>
      /\ hist.handed = 0 /\ hist.framed = << >>
  BY DEF Init
<1>2. Backlog = << >> /\ Len(<< >>) = 0
  <2>1. << >> \in Seq(Nat)
    BY EmptySeq
  <2>2. << >> \o << >> = << >>
    BY <2>1, ConcatEmptySeq
  <2>3. QED
    BY <1>1, <2>2, EmptySeq DEF Backlog
<1>3. Queue!Init
  BY <1>1, <1>2 DEF Queue!Init
<1>4. PacketsCounted
  BY <1>1, <1>2 DEF PacketsCounted
<1>5. OffsetsAgree
  BY <1>1, <1>2 DEF OffsetsAgree, Init, NewPort
<1>6. BatchHeld /\ CreditWoken
  BY <1>1, <1>2, BatchAssumption DEF BatchHeld, Empty, Batched, CreditWoken
<1>7. QED
  BY <1>3, <1>4, <1>5, <1>6 DEF DataInv

LEMMA DataStep ==
  TypeInv /\ DataInv /\ [Next]_vars
    => DataInv' /\ [Queue!Next]_<<Backlog, hist.framed>>
<1> SUFFICES ASSUME TypeInv, DataInv, [Next]_vars
             PROVE  DataInv' /\ (Queue!Next \/ UNCHANGED <<Backlog, hist.framed>>)
  OBVIOUS
<1>1. CASE LifecycleStep
  BY <1>1, LifecycleKeepsData
<1>2. CASE WriterStep
  <2>1. CASE WriterIdles
    BY <2>1, WriterIdlesKeepsData
  <2>2. CASE WriterWaits
    BY <2>2, WriterWaitsKeepsData
  <2>3. CASE TakeBatch \/ WriterWakes
    BY <2>3, FillingKeepsData
  <2>4. CASE DataFramed
    BY <2>4, FramingKeepsData DEF Queue!Next
  <2>5. QED
    BY <1>2, <2>1, <2>2, <2>3, <2>4 DEF WriterStep, WriterIdles, WriterWaits
<1>3. CASE HandlerCall
  BY <1>3, HandlerCallKeepsData
<1>4. CASE \E h \in Handlers : HandlerStep(h)
  BY <1>4, HandlerStepKeepsData
<1>5. CASE TunStep
  BY <1>5, TunKeepsData DEF Queue!Next
<1>6. CASE CancelCtx \/ UNCHANGED vars
  <2>1. UNCHANGED <<port, wr, queue, hist>>
    BY <1>6 DEF CancelCtx, vars
  <2>2. OffsetsKept(port, port')
    BY <2>1 DEF OffsetsKept
  <2>3. QED
    BY <2>1, <2>2, QuietHandler
<1>7. QED
  BY <1>1, <1>2, <1>3, <1>4, <1>5, <1>6 DEF Next, Finished

(* The data path's invariant, from which the three results follow.          *)
THEOREM DataInvariant == Spec => []DataInv
BY DataInit, DataStep, TypeInvariant, PTL DEF Spec

(* The offsets that stall detection and Resume read agree with those of the *)
(* SDK, and no more is acknowledged than was sent (acknowledge,             *)
(* dataForReadyPath, beginResume).                                          *)
THEOREM OffsetsNeverDrift == Spec => []OffsetsAgree
<1>1. DataInv => OffsetsAgree
  BY DEF DataInv
<1>2. QED
  BY <1>1, DataInvariant, PTL

(* The writer never sleeps on credit it has: an ACK's token is there or was *)
(* taken (waitWriterWake).                                                  *)
THEOREM CreditIsNoticed == Spec => []CreditWakesWriter
<1>1. DataInv => CreditWakesWriter
  BY DEF DataInv, CreditWoken, CreditWakesWriter
<1>2. QED
  BY <1>1, DataInvariant, PTL

(* Refinement: whatever paths are lost and Resumed, the frames carry the    *)
(* packets the port accepted, in their order, each once.                    *)
THEOREM PortImplementsQueue == Spec => ImplementsPacketQueue
<1>1. Init => Queue!Init
  BY DataInit
<1>2. TypeInv /\ DataInv /\ [Next]_vars => [Queue!Next]_<<Backlog, hist.framed>>
  BY DataStep
<1>3. QED
  BY <1>1, <1>2, TypeInvariant, DataInvariant, PTL DEF Spec, ImplementsPacketQueue, Queue!Spec

-----------------------------------------------------------------------------
(* The frames on the wire                                                   *)

(* The writer holds a frame that is on no wire yet.                         *)
InHand == wr.pc \in {"send", "fail"}

(* Where the lifecycle has passed its first activateStream.                 *)
Started == {"main", "deactivate", "recover", "resume"} \cup Resuming

WriterStarted ==
  /\ wr.pc = "off" => port.epoch = 1 /\ port.sender.next = 0 /\ hist.sentUpTo[1] = 0
  /\ lc.pc \in Started => wr.pc # "off"

(* The SDK has the port's epoch but between beginResume and its Resume.     *)
SenderAdopts == lc.pc # "sdkResume" => port.sender.epoch = port.epoch

(* A frame in hand is the newest, and one of the current epoch was made for *)
(* the current target, after the Resume of that epoch.                      *)
FrameHeld ==
  InHand =>
    /\ wr.frame.to = port.sender.next /\ wr.frame.epoch <= port.epoch
    /\ wr.frame.epoch = port.epoch =>
         wr.frame.session = port.target /\ lc.pc \notin Resuming

(* A Resume has sent again what it notes as sent, up to what the SDK framed. *)
ReplayUnderWay ==
  lc.pc \in Resuming =>
    /\ hist.sentUpTo[port.epoch] = lc.replay.from
    /\ lc.pc # "sdkResume" => lc.replay.to = port.sender.next

SendsInOrder ==
  wr.pc = "send" =>
    \/ wr.frame.from = hist.sentUpTo[wr.frame.epoch]
    \/ wr.frame.epoch = 1 /\ <<wr.frame.session, 1>> \in hist.failed

(* With no frame in hand, a path that may carry Data has carried it all,    *)
(* unless it is the Open's and a failure of it was noted.                   *)
NothingMissing ==
  /\ ~(InHand /\ wr.frame.epoch = port.epoch)
  /\ port.epoch = 1 \/ port.readyState
  => \/ hist.sentUpTo[port.epoch] = port.sender.next
     \/ port.epoch = 1 /\ <<port.target, 1>> \in hist.failed

FrameInv ==
  /\ WriterStarted /\ SenderAdopts /\ FrameHeld
  /\ ReplayUnderWay /\ SendsInOrder /\ NothingMissing

-----------------------------------------------------------------------------
(* The lifecycle keeps the frames in order                                  *)

(* Steps of the lifecycle that neither aim the path nor replay.             *)
QuietLifecycle ==
  /\ lc.pc # "sdkResume" /\ UNCHANGED <<wr, hist>>
  /\ port'.target = port.target /\ port'.epoch = port.epoch
  /\ port'.sender = port.sender /\ (port'.readyState => port.readyState)
  /\ lc'.pc \in Resuming =>
       lc.pc \in Resuming /\ lc'.pc # "sdkResume" /\ lc'.replay = lc.replay
  /\ lc'.pc \in Started => lc.pc \in Started

LEMMA QuietKeepsFrames ==
  ASSUME FrameInv, QuietLifecycle
  PROVE  FrameInv'
<1>1. WriterStarted' /\ SenderAdopts'
  BY DEF FrameInv, QuietLifecycle, WriterStarted, SenderAdopts, Resuming
<1>2. FrameHeld' /\ ReplayUnderWay'
  BY DEF FrameInv, QuietLifecycle, FrameHeld, ReplayUnderWay, InHand
<1>3. SendsInOrder' /\ NothingMissing'
  BY DEF FrameInv, QuietLifecycle, SendsInOrder, NothingMissing, InHand
<1>4. QED
  BY <1>1, <1>2, <1>3 DEF FrameInv

LEMMA OpeningKeepsFrames ==
  ASSUME TypeInv, PathInv, FrameInv, OpenCandidate
  PROVE  FrameInv'
<1>1. /\ lc.pc = "open" /\ wr.pc = "off" /\ port.epoch = 1 /\ UNCHANGED <<wr, hist>>
      /\ port.sender.next = 0 /\ hist.sentUpTo[1] = 0
  BY DEF OpenCandidate, PathInv, WaitersHold, EpochsInTurn, Opening, FrameInv, WriterStarted
<1>2. /\ port'.epoch = port.epoch /\ port'.sender = port.sender
      /\ lc'.pc = "sendOpen"
  BY BeginSets DEF OpenCandidate, TypeInv, TypeOK, Lifecycle
<1>3. QED
  BY <1>1, <1>2 DEF FrameInv, WriterStarted, SenderAdopts, FrameHeld, ReplayUnderWay,
     SendsInOrder, NothingMissing, InHand, Started, Resuming

LEMMA ActivationKeepsFrames ==
  ASSUME TypeInv, FrameInv, ActivateStream
  PROVE  FrameInv'
<1>1. /\ lc.pc = "activate" /\ lc'.pc = "main" /\ UNCHANGED <<port, hist>>
      /\ wr'.frame = wr.frame
      /\ wr'.pc = IF wr.pc = "off" THEN "idle" ELSE wr.pc
  BY DEF ActivateStream, TypeInv, TypeOK, Lifecycle, Writer
<1>2. InHand' <=> InHand
  BY <1>1 DEF InHand
<1>3. WriterStarted' /\ SenderAdopts'
  BY <1>1 DEF FrameInv, WriterStarted, SenderAdopts
<1>4. FrameHeld' /\ ReplayUnderWay' /\ SendsInOrder' /\ NothingMissing'
  BY <1>1, <1>2 DEF FrameInv, FrameHeld, ReplayUnderWay, SendsInOrder, NothingMissing, Resuming
<1>5. QED
  BY <1>3, <1>4 DEF FrameInv

(* A new epoch begins with what the peer has acknowledged.                  *)
LEMMA NewEpochKeepsFrames ==
  ASSUME TypeInv, FrameInv, ResumeCandidate
  PROVE  FrameInv'
<1>1. /\ port \in Port /\ hist \in History /\ lc \in Lifecycle /\ wr \in Writer
      /\ port.epoch \in Epochs
  BY DEF TypeInv, TypeOK, EpochsUsed
<1>2. port.epoch \in Nat /\ port.epoch >= 1 /\ port.epoch + 1 \in Epochs
  BY <1>1, BoundsAssumption DEF Epochs, ResumeCandidate
<1>3. /\ port'.epoch = port.epoch + 1 /\ port'.sender = port.sender /\ ~port'.readyState
      /\ lc.pc = "resume" /\ wr' = wr
  BY <1>1, BeginSets DEF ResumeCandidate
<1>4. lc'.pc = "sdkResume" /\ lc'.replay.from = port.lastAck
  BY <1>1 DEF ResumeCandidate, Lifecycle
<1>5. /\ hist'.failed = hist.failed /\ hist'.sentUpTo[port.epoch + 1] = port.lastAck
      /\ \A e \in Epochs \ {port.epoch + 1} : hist'.sentUpTo[e] = hist.sentUpTo[e]
  BY <1>1, <1>2 DEF ResumeCandidate, SentTo, History
<1>6. InHand => wr.frame.epoch <= port.epoch /\ wr.frame.epoch \in Nat
  BY <1>1 DEF FrameInv, FrameHeld, Writer, Frame
<1>7. WriterStarted' /\ SenderAdopts' /\ ReplayUnderWay'
  BY <1>2, <1>3, <1>4, <1>5 DEF FrameInv, WriterStarted, SenderAdopts, ReplayUnderWay, Started
<1>8. FrameHeld' /\ NothingMissing'
  BY <1>2, <1>3, <1>6 DEF FrameInv, FrameHeld, NothingMissing, InHand
<1>9. SendsInOrder'
  <2>1. SUFFICES ASSUME wr.pc = "send"
                 PROVE  hist'.sentUpTo[wr.frame.epoch] = hist.sentUpTo[wr.frame.epoch]
    BY <1>3, <1>5 DEF FrameInv, SendsInOrder
  <2>2. wr.frame.epoch \in Epochs \ {port.epoch + 1}
    BY <1>2, <1>6, <2>1 DEF InHand, TypeInv, FrameAddressed
  <2>3. QED
    BY <1>5, <2>2
<1>10. QED
  BY <1>7, <1>8, <1>9 DEF FrameInv

LEMMA SdkResumeKeepsFrames ==
  ASSUME TypeInv, FrameInv, SdkResume
  PROVE  FrameInv'
<1>1. /\ lc.pc = "sdkResume" /\ lc'.pc = "sendResume" /\ UNCHANGED <<wr, hist>>
      /\ lc'.replay.from = lc.replay.from /\ lc'.replay.to = port.sender.next
  BY DEF SdkResume, TypeInv, TypeOK, Lifecycle
<1>2. /\ port'.target = port.target /\ port'.epoch = port.epoch
      /\ port'.readyState = port.readyState
      /\ port'.sender.epoch = port.epoch /\ port'.sender.next = port.sender.next
  BY DEF SdkResume, SenderResume, TypeInv, TypeOK, Port, Sender
<1>3. InHand' <=> InHand
  BY <1>1 DEF InHand
<1>4. WriterStarted' /\ SenderAdopts' /\ ReplayUnderWay'
  BY <1>1, <1>2 DEF FrameInv, WriterStarted, SenderAdopts, ReplayUnderWay, Started, Resuming
<1>5. FrameHeld' /\ SendsInOrder' /\ NothingMissing'
  BY <1>1, <1>2, <1>3 DEF FrameInv, FrameHeld, SendsInOrder, NothingMissing, Resuming
<1>6. QED
  BY <1>4, <1>5 DEF FrameInv

(* While a Resume is under way the writer holds no frame of its epoch.      *)
LEMMA ReplayKeepsFrames ==
  ASSUME TypeInv, PathInv, FrameInv, lc.pc = "replay", UNCHANGED <<port, wr>>,
         lc' = [lc EXCEPT !.replay.from = @ + 1], SentTo(port.epoch, lc'.replay.from)
  PROVE  FrameInv'
<1>1. /\ hist \in History /\ lc \in Lifecycle /\ port.epoch \in Epochs
      /\ port.epoch > 1 /\ ~port.readyState
  BY DEF TypeInv, TypeOK, EpochsUsed, PathInv, EpochsInTurn, Resuming
<1>2. lc'.pc = lc.pc /\ lc'.replay.to = lc.replay.to
  BY <1>1 DEF Lifecycle
<1>3. /\ hist'.failed = hist.failed /\ hist'.sentUpTo[port.epoch] = lc'.replay.from
      /\ \A e \in Epochs \ {port.epoch} : hist'.sentUpTo[e] = hist.sentUpTo[e]
  BY <1>1 DEF SentTo, History
<1>4. WriterStarted' /\ SenderAdopts' /\ ReplayUnderWay'
  BY <1>1, <1>2, <1>3 DEF FrameInv, WriterStarted, SenderAdopts, ReplayUnderWay, Started, Resuming
<1>5. FrameHeld' /\ NothingMissing'
  BY <1>1, <1>2 DEF FrameInv, FrameHeld, NothingMissing, InHand
<1>6. SendsInOrder'
  <2>1. SUFFICES ASSUME wr.pc = "send"
                 PROVE  hist'.sentUpTo[wr.frame.epoch] = hist.sentUpTo[wr.frame.epoch]
    BY <1>3 DEF FrameInv, SendsInOrder
  <2>2. wr.frame.epoch \in Epochs \ {port.epoch}
    BY <2>1 DEF FrameInv, FrameHeld, InHand, Resuming, TypeInv, FrameAddressed
  <2>3. QED
    BY <1>3, <2>2
<1>7. QED
  BY <1>4, <1>5, <1>6 DEF FrameInv

(* A Resume ends with all replayed.                                         *)
LEMMA ResumingEndsInOrder ==
  ASSUME TypeInv, PathInv, FrameInv, lc.pc = "replay", lc.replay.from = lc.replay.to,
         port' = BecomeReady(port), lc' = [lc EXCEPT !.pc = "activate"],
         UNCHANGED <<wr, hist>>
  PROVE  FrameInv'
<1>1. /\ port'.target = port.target /\ port'.epoch = port.epoch
      /\ port'.sender = port.sender /\ lc'.pc = "activate"
  BY DEF BecomeReady, TypeInv, TypeOK, Port, Lifecycle
<1>2. hist.sentUpTo[port.epoch] = port.sender.next
  BY DEF FrameInv, ReplayUnderWay, Resuming
<1>3. InHand' <=> InHand
  BY DEF InHand
<1>4. WriterStarted' /\ SenderAdopts' /\ ReplayUnderWay'
  BY <1>1 DEF FrameInv, WriterStarted, SenderAdopts, ReplayUnderWay, Started, Resuming
<1>5. FrameHeld' /\ SendsInOrder' /\ NothingMissing'
  BY <1>1, <1>2, <1>3 DEF FrameInv, FrameHeld, SendsInOrder, NothingMissing, Resuming
<1>6. QED
  BY <1>4, <1>5 DEF FrameInv

LEMMA LifecycleKeepsFrames ==
  ASSUME TypeInv, PathInv, FrameInv, LifecycleStep
  PROVE  FrameInv'
<1>0. port \in Port /\ lc \in Lifecycle
  BY DEF TypeInv, TypeOK
<1> USE DEF Started, Resuming, Lifecycle, Goto, NextTry, Exit, GiveUp
<1>1. CASE UNCHANGED port /\ QuietLifecycle
  BY <1>1, QuietKeepsFrames
<1>2. SendOpen \/ OpenTimeout \/ OpenAnswered \/ RunStreamLeaves \/ OpenExhausted
        \/ DeactivateStream => UNCHANGED port /\ QuietLifecycle
  <2>1. SendOpen => UNCHANGED port /\ QuietLifecycle
    BY <1>0 DEF SendOpen, QuietLifecycle
  <2>2. OpenTimeout => UNCHANGED port /\ QuietLifecycle
    BY <1>0 DEF OpenTimeout, QuietLifecycle
  <2>3. OpenAnswered => UNCHANGED port /\ QuietLifecycle
    BY <1>0 DEF OpenAnswered, QuietLifecycle
  <2>4. RunStreamLeaves => UNCHANGED port /\ QuietLifecycle
    BY <1>0 DEF RunStreamLeaves, QuietLifecycle
  <2>5. OpenExhausted \/ DeactivateStream => UNCHANGED port /\ QuietLifecycle
    BY <1>0 DEF OpenExhausted, DeactivateStream, QuietLifecycle
  <2>6. QED
    BY <2>1, <2>2, <2>3, <2>4, <2>5
<1>3. ResolveForResume \/ ResumeGivesUp \/ SendResume \/ ResumeTimeout \/ LeaveOutlet
        \/ Unregister => UNCHANGED port /\ QuietLifecycle
  BY <1>0 DEF ResolveForResume, ResumeGivesUp, SendResume, ResumeTimeout, LeaveOutlet,
     Unregister, QuietLifecycle
<1>4. OpenRejected \/ TakeLost \/ ResumeAnswered \/ ResumeRejected \/ EndStream
        => QuietLifecycle
  <2>1. OpenRejected => QuietLifecycle
    BY <1>0 DEF OpenRejected, Port, QuietLifecycle
  <2>2. TakeLost => QuietLifecycle
    BY <1>0 DEF TakeLost, Port, QuietLifecycle
  <2>3. ResumeAnswered => QuietLifecycle
    BY <1>0 DEF ResumeAnswered, Port, QuietLifecycle
  <2>4. ResumeRejected => QuietLifecycle
    BY <1>0 DEF ResumeRejected, Port, QuietLifecycle
  <2>5. EndStream => QuietLifecycle
    BY <1>0 DEF EndStream, ClosePort, Port, QuietLifecycle
  <2>6. QED
    BY <2>1, <2>2, <2>3, <2>4, <2>5
<1>5. CASE ReplayFrame
  <2>1. CASE lc' = [lc EXCEPT !.replay.from = @ + 1] /\ SentTo(port.epoch, lc'.replay.from)
    BY <1>5, <2>1, ReplayKeepsFrames DEF ReplayFrame
  <2>2. CASE NextTry("resume") /\ UNCHANGED hist
    BY <1>0, <1>1, <1>5, <2>2 DEF ReplayFrame, QuietLifecycle
  <2>3. QED
    BY <1>5, <2>1, <2>2 DEF ReplayFrame
<1>6. CASE FinishResume
  <2>1. CASE ResumeComplete(port, port.target, port.epoch)
    BY <1>6, <2>1, ResumingEndsInOrder DEF FinishResume, CompleteResume
  <2>2. CASE ~ResumeComplete(port, port.target, port.epoch)
    <3>1. QuietLifecycle
      BY <1>0, <1>6, <2>2 DEF FinishResume, CompleteResume, Port, QuietLifecycle
    <3>2. QED
      BY <3>1, QuietKeepsFrames
  <2>3. QED
    BY <2>1, <2>2
<1>7. QED
  BY <1>1, <1>2, <1>3, <1>4, <1>5, <1>6, QuietKeepsFrames, OpeningKeepsFrames,
     ActivationKeepsFrames, NewEpochKeepsFrames, SdkResumeKeepsFrames DEF LifecycleStep

-----------------------------------------------------------------------------
(* So do the writer, the handlers and the TUN reader                        *)

(* A goroutine other than the lifecycle that frames and sends nothing.      *)
NothingSent ==
  /\ hist'.sentUpTo = hist.sentUpTo /\ hist.failed \subseteq hist'.failed
  /\ port'.sender.next = port.sender.next /\ port'.sender.epoch = port.sender.epoch

LEMMA OthersKeepFrames ==
  ASSUME FrameInv, OtherStep, NothingSent,
         wr'.pc = "off" <=> wr.pc = "off",
         \/ wr'.pc = wr.pc /\ wr'.frame = wr.frame
         \/ ~InHand /\ ~InHand'
  PROVE  FrameInv'
<1>1. /\ lc' = lc /\ port'.target = port.target /\ port'.epoch = port.epoch
      /\ port'.readyState => port.readyState \/ port.epoch = 1
  BY DEF OtherStep, OtherPort
<1>2. InHand' <=> InHand
  BY DEF InHand
<1>3. WriterStarted' /\ SenderAdopts' /\ ReplayUnderWay'
  BY <1>1 DEF FrameInv, WriterStarted, SenderAdopts, ReplayUnderWay, NothingSent
<1>4. FrameHeld' /\ SendsInOrder'
  BY <1>1, <1>2 DEF FrameInv, FrameHeld, SendsInOrder, NothingSent, InHand
<1>5. NothingMissing'
  BY <1>1, <1>2 DEF FrameInv, NothingMissing, NothingSent
<1>6. QED
  BY <1>3, <1>4, <1>5 DEF FrameInv

(* A frame is made on a ready path, which has carried all there was.        *)
LEMMA FramingKeepsFrames ==
  ASSUME TypeInv, PathInv, FrameInv, WriterStep, DataFramed
  PROVE  FrameInv'
<1>1. /\ port \in Port /\ wr \in Writer /\ hist \in History
      /\ wr.pc = "data" /\ port.readyState /\ lc' = lc
  BY DEF DataFramed, TypeInv, TypeOK, WriterStep
<1>2. lc.pc \notin Resuming /\ port.sender.epoch = port.epoch
  BY <1>1 DEF PathInv, EpochsInTurn, FrameInv, SenderAdopts, Resuming
<1>3. /\ wr'.pc = "send" /\ wr'.frame.session = port.target
      /\ wr'.frame.epoch = port.epoch /\ wr'.frame.from = port.sender.next
      /\ wr'.frame.to = port'.sender.next
  BY <1>1, <1>2 DEF DataFramed, Writer
<1>4. hist'.sentUpTo = hist.sentUpTo /\ hist'.failed = hist.failed
  BY <1>1 DEF DataFramed, History
<1>5. OtherStep /\ port'.sender.epoch = port.sender.epoch
  BY <1>1, WriterIsOther, WriterKeepsPath DEF PathInv, SamePath
<1>6. port'.target = port.target /\ port'.epoch = port.epoch /\ port.epoch \in Nat
  BY <1>1, <1>5 DEF OtherStep, OtherPort, Port
<1>7. WriterStarted' /\ SenderAdopts' /\ ReplayUnderWay'
  BY <1>1, <1>2, <1>3, <1>5, <1>6 DEF WriterStarted, SenderAdopts, ReplayUnderWay
<1>8. FrameHeld' /\ NothingMissing'
  BY <1>1, <1>2, <1>3, <1>6 DEF FrameHeld, NothingMissing, InHand
<1>9. SendsInOrder'
  BY <1>1, <1>3, <1>4 DEF FrameInv, NothingMissing, SendsInOrder, InHand
<1>10. QED
  BY <1>7, <1>8, <1>9 DEF FrameInv

LEMMA SendingKeepsFrames ==
  ASSUME TypeInv, FrameInv, WriterStep, SendData
  PROVE  FrameInv'
<1>1. /\ wr \in Writer /\ hist \in History /\ wr.pc = "send" /\ UNCHANGED <<lc, port>>
      /\ wr.frame.epoch \in Epochs
  BY DEF SendData, TypeInv, TypeOK, FrameAddressed, WriterStep
<1>2. CASE WGoto("fail") /\ UNCHANGED hist
  <2>1. wr'.pc = "fail" /\ wr'.frame = wr.frame
    BY <1>1, <1>2 DEF WGoto, Writer
  <2>2. QED
    BY <1>1, <1>2, <2>1 DEF FrameInv, WriterStarted, SenderAdopts, FrameHeld,
       ReplayUnderWay, SendsInOrder, NothingMissing, InHand
<1>3. CASE WGoto("idle") /\ SentTo(wr.frame.epoch, wr.frame.to)
  <2>1. wr'.pc = "idle"
    BY <1>1, <1>3 DEF WGoto, Writer
  <2>2. /\ hist'.failed = hist.failed /\ hist'.sentUpTo[wr.frame.epoch] = port.sender.next
        /\ \A e \in Epochs \ {wr.frame.epoch} : hist'.sentUpTo[e] = hist.sentUpTo[e]
    BY <1>1, <1>3 DEF SentTo, History, FrameInv, FrameHeld, InHand
  <2>3. port.epoch \in Epochs
    BY DEF TypeInv, EpochsUsed
  <2>4. WriterStarted' /\ SenderAdopts' /\ FrameHeld' /\ SendsInOrder'
    BY <1>1, <2>1 DEF FrameInv, WriterStarted, SenderAdopts, FrameHeld, SendsInOrder, InHand
  <2>5. ReplayUnderWay'
    BY <1>1, <2>2, <2>3 DEF FrameInv, ReplayUnderWay, FrameHeld, InHand
  <2>6. NothingMissing'
    BY <1>1, <2>1, <2>2, <2>3 DEF FrameInv, NothingMissing, InHand
  <2>7. QED
    BY <2>4, <2>5, <2>6 DEF FrameInv
<1>4. QED
  BY <1>2, <1>3 DEF SendData

(* A frame whose send failed leaves a hole, but behind a failed path.       *)
LEMMA SendFailKeepsFrames ==
  ASSUME TypeInv, PathInv, FrameInv, WriterStep, SendFail
  PROVE  FrameInv'
<1>1. /\ port \in Port /\ wr \in Writer /\ hist \in History /\ wr.pc = "fail" /\ lc' = lc
  BY DEF SendFail, TypeInv, TypeOK, WriterStep
<1>2. wr'.pc \in {"signal", "idle"}
  BY <1>1 DEF SendFail, WGoto, Writer
<1>3. OtherStep
  BY WriterIsOther DEF PathInv
<1>4. /\ port'.target = port.target /\ port'.epoch = port.epoch
      /\ port'.readyState => port.readyState \/ port.epoch = 1
  BY <1>3 DEF OtherStep, OtherPort
<1>5. port'.sender = port.sender
  BY <1>1, TakeDownKeeps DEF SendFail, FailPath
<1>6. /\ hist'.sentUpTo = hist.sentUpTo /\ hist.failed \subseteq hist'.failed
      /\ Aims(port, wr.frame.session, wr.frame.epoch) =>
           <<port.target, port.epoch>> \in hist'.failed
  BY <1>1 DEF SendFail, NoteFailed, Failed, History
<1>7. Aims(port, wr.frame.session, wr.frame.epoch) => ~port'.readyState
  BY <1>1, TakeDownKeeps DEF SendFail, FailPath
<1>8. WriterStarted' /\ SenderAdopts' /\ FrameHeld' /\ SendsInOrder' /\ ReplayUnderWay'
  BY <1>1, <1>2, <1>4, <1>5, <1>6 DEF FrameInv, WriterStarted, SenderAdopts, FrameHeld,
     SendsInOrder, ReplayUnderWay, InHand
<1>9. NothingMissing'
  <2>1. CASE Aims(port, wr.frame.session, wr.frame.epoch)
    BY <1>4, <1>6, <1>7, <2>1 DEF NothingMissing
  <2>2. CASE ~Aims(port, wr.frame.session, wr.frame.epoch)
    <3>1. wr.frame.epoch # port.epoch
      BY <1>1, <2>2 DEF Aims, FrameInv, FrameHeld, InHand
    <3>2. QED
      BY <1>4, <1>5, <1>6, <3>1 DEF FrameInv, NothingMissing, InHand
  <2>3. QED
    BY <2>1, <2>2
<1>10. QED
  BY <1>8, <1>9 DEF FrameInv

(* The SDK's offset moves with the stream's payload.                        *)
LEMMA UnframedOffset ==
  ASSUME DataInv, DataInv', hist'.framed = hist.framed
  PROVE  port'.sender.next = port.sender.next
BY DEF DataInv, OffsetsAgree

LEMMA WriterKeepsFrames ==
  ASSUME TypeInv, PathInv, DataInv, FrameInv, WriterStep
  PROVE  FrameInv'
<1> USE DEF TypeInv, TypeOK
<1>1. OtherStep /\ port'.sender.epoch = port.sender.epoch
  BY WriterIsOther, WriterKeepsPath DEF PathInv, SamePath
<1>2. CASE IdleTick \/ IdleFail \/ ReadPath \/ SeePathReady \/ DataPathGone \/ DataNoCredit
  <2>1. wr.pc \in {"idle", "idleFail", "path", "wait", "data"}
    BY <1>2 DEF IdleTick, IdleFail, ReadPath, SeePathReady, DataPathGone, DataNoCredit
  <2>2. wr'.pc \in {"idle", "idleFail", "path", "wait", "data", "full", "signal"}
    BY <1>2 DEF IdleTick, IdleFail, ReadPath, SeePathReady, DataPathGone, DataNoCredit,
       Writer, WGoto
  <2>3. hist'.sentUpTo = hist.sentUpTo /\ hist.failed \subseteq hist'.failed
    BY <1>2 DEF IdleTick, IdleFail, ReadPath, SeePathReady, DataPathGone, DataNoCredit,
       NoteFailed, Failed, History
  <2>4. port'.sender.next = port.sender.next
    BY <1>2, WriterIdlesKeepsData, WriterWaitsKeepsData, UnframedOffset
       DEF WriterIdles, WriterWaits
  <2>5. QED
    BY <1>1, <2>1, <2>2, <2>3, <2>4, OthersKeepFrames DEF NothingSent, InHand
<1>3. CASE \/ CreditPathGone \/ AwaitCredit \/ CreditStalls \/ CreditFail
           \/ WriterSignals \/ WriterQuits
  <2>1. wr.pc \in {"full", "fullFail", "signal", "idle", "wait", "wake"}
    BY <1>3 DEF CreditPathGone, AwaitCredit, CreditStalls, CreditFail, WriterSignals, WriterQuits
  <2>2. wr'.pc \in {"path", "wake", "fullFail", "signal", "idle", "exit"}
    BY <1>3 DEF CreditPathGone, AwaitCredit, CreditStalls, CreditFail, WriterSignals,
       WriterQuits, Writer, WGoto
  <2>3. hist'.sentUpTo = hist.sentUpTo /\ hist.failed \subseteq hist'.failed
    BY <1>3 DEF CreditPathGone, AwaitCredit, CreditStalls, CreditFail, WriterSignals,
       WriterQuits, NoteFailed, Failed, History
  <2>4. port'.sender.next = port.sender.next
    BY <1>3, WriterIdlesKeepsData, WriterWaitsKeepsData, UnframedOffset
       DEF WriterIdles, WriterWaits
  <2>5. QED
    BY <1>1, <2>1, <2>2, <2>3, <2>4, OthersKeepFrames DEF NothingSent, InHand
<1>4. CASE TakeBatch \/ WriterWakes
  <2>1. wr.pc \in {"idle", "wake"} /\ wr'.pc = "path" /\ hist' = hist
    BY <1>4, BatchType DEF TakeBatch, WriterWakes
  <2>2. port'.sender.next = port.sender.next
    BY <1>4 DEF TakeBatch, WriterWakes, Port
  <2>3. QED
    BY <1>1, <2>1, <2>2, OthersKeepFrames DEF NothingSent, InHand
<1>5. QED
  BY <1>2, <1>3, <1>4, FramingKeepsFrames, SendingKeepsFrames, SendFailKeepsFrames
     DEF WriterStep

LEMMA HandlersKeepFrames ==
  ASSUME TypeInv, PathInv, DataInv, FrameInv,
         HandlerCall \/ \E h \in Handlers : HandlerStep(h)
  PROVE  FrameInv'
<1>1. OtherStep
  BY HandlerCallIsOther, HandlerStepIsOther DEF PathInv
<1>2. SameAim /\ UNCHANGED wr
  BY HandlerCallKeepsAim, HandlerStepKeepsAim DEF HandlerCall, HandlerStep
<1>3. port'.sender.next = port.sender.next
  BY HandlerCallKeepsData, HandlerStepKeepsData, UnframedOffset
<1>4. hist'.sentUpTo = hist.sentUpTo /\ hist.failed \subseteq hist'.failed
  BY DEF TypeInv, TypeOK, HandlerCall, HandlerStep, OnOpenAck, OnPeerOpen, OnPeerResume,
     OnStreamSendResult, OnAck, OnDisconnect, CloseForRestart, MarkPathLost,
     HandlerSignals, CheckReady, DeleteActive, DropPreferred, NoteFailed, Failed, History
<1>5. QED
  BY <1>1, <1>2, <1>3, <1>4, OthersKeepFrames DEF SameAim, NothingSent

LEMMA IdlingKeepsFrames ==
  ASSUME FrameInv, UNCHANGED <<port, lc, wr>>, hist'.sentUpTo = hist.sentUpTo,
         hist'.failed = hist.failed
  PROVE  FrameInv'
BY DEF FrameInv, WriterStarted, SenderAdopts, FrameHeld, ReplayUnderWay, SendsInOrder,
   NothingMissing, InHand

-----------------------------------------------------------------------------
(* Every frame in its place                                                 *)

LEMMA FrameInit == Init => FrameInv
<1> SUFFICES ASSUME Init
             PROVE  FrameInv
  OBVIOUS
<1>1. /\ lc.pc = "open" /\ wr.pc = "off" /\ port.epoch = 1 /\ port.sender.epoch = 1
      /\ port.sender.next = 0
  BY DEF Init, NewPort
<1>2. hist.sentUpTo[1] = 0
  BY BoundsAssumption DEF Init, Epochs
<1>3. QED
  BY <1>1, <1>2 DEF FrameInv, WriterStarted, SenderAdopts, FrameHeld, ReplayUnderWay,
     SendsInOrder, NothingMissing, InHand, Started, Resuming

LEMMA FrameStep ==
  TypeInv /\ PathInv /\ DataInv /\ FrameInv /\ [Next]_vars => FrameInv'
<1> SUFFICES ASSUME TypeInv, PathInv, DataInv, FrameInv, [Next]_vars
             PROVE  FrameInv'
  OBVIOUS
<1>1. CASE LifecycleStep
  BY <1>1, LifecycleKeepsFrames
<1>2. CASE WriterStep
  BY <1>2, WriterKeepsFrames
<1>3. CASE HandlerCall \/ \E h \in Handlers : HandlerStep(h)
  BY <1>3, HandlersKeepFrames
<1>4. CASE TunStep
  <2>1. hist'.sentUpTo = hist.sentUpTo /\ hist'.failed = hist.failed
    BY <1>4 DEF TunStep, TunLooksUp, EnqueueReady, TypeInv, TypeOK, History
  <2>2. QED
    BY <1>4, <2>1, IdlingKeepsFrames DEF TunStep
<1>5. CASE CancelCtx \/ UNCHANGED vars
  BY <1>5, IdlingKeepsFrames DEF CancelCtx, vars
<1>6. QED
  BY <1>1, <1>2, <1>3, <1>4, <1>5 DEF Next, Finished

(* The invariant of the frames: what each epoch has carried, what a Resume  *)
(* has sent again and what the writer holds.                                *)
THEOREM FrameInvariant == Spec => []FrameInv
BY FrameInit, FrameStep, PathInvariant, DataInvariant, PTL DEF Spec

(* The Data of an epoch reaches the wire in sequence: no new frame overtakes *)
(* the replay of a Resume or follows a hole, and a resumed path is ready    *)
(* only after all that was outstanding was sent again (recoverStream,       *)
(* dataForReadyPath, writeStreamLoop).                                      *)
THEOREM DataAlwaysInSequence == Spec => []DataInSequence
<1>1. TypeInv /\ FrameInv => FramesInOrder
  BY DEF FrameInv, SendsInOrder, FramesInOrder
<1>2. TypeInv /\ FrameInv => ReplayIsComplete
  BY DEF FrameInv, NothingMissing, ReplayIsComplete, InHand
<1>3. TypeInv /\ FrameInv => DataInSequence
  BY <1>1, <1>2 DEF DataInSequence
<1>4. QED
  BY <1>3, FrameInvariant, TypeInvariant, PTL

=============================================================================
