----------------------------- MODULE StreamPort -----------------------------
(***************************************************************************)
(* One outbound stream port of one peer, from its registration in          *)
(* streamPorts to the close that ends runStream, and every goroutine that  *)
(* touches it (internal/tun/stream.go):                                    *)
(*                                                                         *)
(*   lc      the lifecycle, runStream and recoverStream: Open, activate,   *)
(*           watch for a loss, Resume, give up                             *)
(*   wr      writeStreamLoop: batch, frame, send, notice stalled ACKs      *)
(*   reader  OnStream on the SDK's one reader: OpenAck, Ack, and the       *)
(*           peer's own Open and Resume                                    *)
(*   events  OnStreamSendResult and OnDisconnect                           *)
(*   tun     readTUNLoop, handing packets to the active stream             *)
(*                                                                         *)
(* A step is what one goroutine does between two points where another can  *)
(* act: a critical section, a channel operation, a call of the SDK.  The   *)
(* peer and the network are outside: an answer to a frame that was sent    *)
(* comes late, more than once, or never.                                   *)
(***************************************************************************)
EXTENDS StreamPath

CONSTANTS BatchMax,     \* packets that fit one Data frame
          QueueSize,    \* transport.send_queue_size
          MaxEpoch,     \* bound: Resume attempts end at this epoch
          MaxPackets,   \* bound: packets the TUN reader hands over
          MaxFaults,    \* bound: failures reported, and the cancel of the context
          MaxOpenAcks   \* bound: OpenAcks delivered

(* A full batch fits the smallest credit: 128 KiB against at least 256 KiB.  *)
ASSUME BatchAssumption ==
  /\ BatchMax \in Nat \ {0} /\ BatchMax <= Window
  /\ \A w \in Windows : w = 0 \/ BatchMax <= w
ASSUME BoundsAssumption ==
  /\ QueueSize \in Nat \ {0} /\ MaxEpoch \in Nat \ {0} /\ MaxPackets \in Nat
  /\ MaxFaults \in Nat /\ MaxOpenAcks \in Nat

VARIABLES
  port,        \* the streamPort
  ctxDone,     \* the context of streamLoop is cancelled
  active,      \* activeStreams[peer] is this port
  preferred,   \* preferredStreams[peer]
  lc,          \* the lifecycle: where it stands and its local variables
  wr,          \* the writer: where it stands and its local variables
  queue,       \* the packets queued, by number
  hd,          \* the handlers: where each stands, the session it was told of
  tun,         \* where the TUN reader stands
  wire,        \* <<session, epoch>> pairs some frame was sent on
  hist,        \* history, for the properties: see History
  spent        \* how much of each bound was used

vars == <<port, ctxDone, active, preferred, lc, wr, queue, hd, tun, wire, hist, spent>>

Handlers == {"reader", "events"}
Epochs   == 1 .. MaxEpoch
NoStall  == [session |-> NoSession, epoch |-> 0, ack |-> 0, window |-> 0]
Stall    == [session : AnySession, epoch : Nat, ack : Nat, window : Nat]
NoFrame  == [session |-> NoSession, epoch |-> 0, from |-> 0, to |-> 0]
Frame    == [session : AnySession, epoch : Nat, from : Nat, to : Nat]

Lifecycle ==
  [pc : {"open", "sendOpen", "waitOpen", "activate", "main", "deactivate",
         "recover", "resume", "sdkResume", "sendResume", "waitResume", "replay",
         "exit", "unregister", "close", "ended"},
   cands  : Seq(Sessions),      \* candidates left, the current one first
   first  : AnySession,         \* preferredSession, as runStream read it
   chan   : Nat,                \* the ready channel beginOpen gave it
   active : BOOLEAN,            \* its local variable active
   replay : [from : Nat, to : Nat],   \* outstanding data to send again
   result : {"none", "Stopped", "Restart", "Fallback"}]

Writer ==
  [pc : {"off", "idle", "idleFail", "path", "wait", "data", "full", "fullFail",
         "wake", "send", "fail", "signal", "exit"},
   chan : Nat,                  \* the ready channel it waits on
   frame : Frame,               \* the frame it sends
   pending : Seq(Nat), overflow : Seq(Nat),
   stalled : Stall, idleStalled : Stall]

Handler == [pc : {"idle", "mark", "signal", "check", "delete", "prefer", "close"},
            session : AnySession]

History ==
  [handed   : Nat,              \* packets queued so far
   framed   : Seq(Nat),         \* the stream's payload so far
   sentUpTo : [Epochs -> Nat],  \* where the frames sent at an epoch end
   failed   : SUBSET (AnySession \X Nat)]  \* paths a failure was accepted for

TypeOK ==
  /\ port \in Port
  /\ ctxDone \in BOOLEAN /\ active \in BOOLEAN /\ preferred \in AnySession
  /\ lc \in Lifecycle /\ wr \in Writer /\ queue \in Seq(Nat)
  /\ hd \in [Handlers -> Handler] /\ tun \in {"idle", "got"}
  /\ wire \subseteq Sessions \X Epochs /\ hist \in History
  /\ spent \in [faults : Nat, openAcks : Nat]

(* transientStreamSessions: what a resolution may return, in its order.     *)
Candidates ==
  {s \in UNION {[1 .. n -> Sessions] : n \in 0 .. Cardinality(Sessions)} :
     \A i, j \in DOMAIN s : s[i] = s[j] => i = j}

(* runStream has chosen its candidates, the preferred session alone if      *)
(* there is one, and has registered the port.                               *)
Init ==
  /\ port = NewPort
  /\ ctxDone = FALSE /\ active = FALSE /\ preferred \in AnySession
  /\ \E c \in Candidates :
       /\ IF preferred = NoSession THEN c # << >> ELSE c = <<preferred>>
       /\ lc = [pc |-> "open", cands |-> c, first |-> preferred, chan |-> 0,
                active |-> FALSE, replay |-> [from |-> 0, to |-> 0],
                result |-> "none"]
  /\ wr = [pc |-> "off", chan |-> 0, frame |-> NoFrame, pending |-> << >>,
           overflow |-> << >>, stalled |-> NoStall, idleStalled |-> NoStall]
  /\ queue = << >>
  /\ hd = [h \in Handlers |-> [pc |-> "idle", session |-> NoSession]]
  /\ tun = "idle" /\ wire = {}
  /\ hist = [handed |-> 0, framed |-> << >>, failed |-> {},
             sentUpTo |-> [e \in Epochs |-> 0]]
  /\ spent = [faults |-> 0, openAcks |-> 0]

-----------------------------------------------------------------------------
(* Two mutexes are held across steps: deactivateStreamIfNotReady keeps r.mu *)
(* from its look at readyState to its delete, and OnStream keeps streamMu   *)
(* from requestRestart's unlock of pathMu to its close.                     *)
MuFree       == \A h \in Handlers : hd[h].pc # "delete"
StreamMuFree == hd["reader"].pc # "close"

PortCtxDone == ctxDone \/ port.done
Registered  == lc.pc \notin {"close", "ended"}

Goto(step)    == lc' = [lc EXCEPT !.pc = step]
NextTry(step) == lc' = [lc EXCEPT !.pc = step, !.cands = Tail(@)]
Exit(result)  == lc' = [lc EXCEPT !.pc = "exit", !.result = result]
GiveUp        == Exit(IF ctxDone THEN "Stopped" ELSE "Restart")

Sent(s, e)    == wire' = wire \cup {<<s, e>>}
SentTo(e, to) == hist' = [hist EXCEPT !.sentUpTo[e] = to]
Failed        == hist' = [hist EXCEPT !.failed = @ \cup {<<port.target, port.epoch>>}]

-----------------------------------------------------------------------------
(* The lifecycle                                                            *)

OpenCandidate ==
  /\ lc.pc = "open" /\ lc.cands # << >>
  /\ port' = BeginOpen(port, Head(lc.cands))
  /\ lc' = [lc EXCEPT !.pc = "sendOpen", !.chan = port'.ready]
  /\ UNCHANGED <<active, preferred, wr, wire, hist>>

SendOpen ==
  /\ lc.pc = "sendOpen"
  /\ \/ Sent(port.target, 1) /\ Goto("waitOpen")
     \/ UNCHANGED wire /\ NextTry("open")
  /\ UNCHANGED <<port, active, preferred, wr, hist>>

(* The select after an Open: rejected, too slow, or answered.               *)
OpenRejected ==
  /\ lc.pc = "waitOpen" /\ port.attemptErr
  /\ port' = [port EXCEPT !.attemptErr = FALSE]
  /\ NextTry("open")
  /\ UNCHANGED <<active, preferred, wr, wire, hist>>

OpenTimeout ==
  /\ lc.pc = "waitOpen"
  /\ NextTry("open")
  /\ UNCHANGED <<port, active, preferred, wr, wire, hist>>

OpenAnswered ==
  /\ lc.pc = "waitOpen" /\ lc.chan \in port.closed
  /\ Goto("activate")
  /\ UNCHANGED <<port, active, preferred, wr, wire, hist>>

(* Mutant: neither select has a case for the restart.                       *)
RunStreamLeavesOnlyWithCtx ==
  /\ lc.pc \in {"waitOpen", "main"}
  /\ ctxDone /\ Exit("Stopped")
  /\ UNCHANGED <<port, active, preferred, wr, wire, hist>>

(* The cases of the Open select and of the main one that end runStream.     *)
RunStreamLeaves ==
  /\ lc.pc \in {"waitOpen", "main"}
  /\ \/ port.restart /\ Exit("Restart")
     \/ port.done /\ Exit(IF port.restart THEN "Restart" ELSE "Stopped")
     \/ ctxDone /\ Exit("Stopped")
  /\ UNCHANGED <<port, active, preferred, wr, wire, hist>>

OpenExhausted ==
  /\ lc.pc = "open" /\ lc.cands = << >> /\ StreamMuFree
  /\ preferred' = IF preferred = lc.first THEN NoSession ELSE preferred
  /\ Exit("Fallback")
  /\ UNCHANGED <<port, active, wr, wire, hist>>

(* activateStream; after the Open, the writer is started.                   *)
ActivateStream ==
  /\ lc.pc = "activate" /\ MuFree
  /\ active' = TRUE
  /\ lc' = [lc EXCEPT !.pc = "main", !.active = TRUE]
  /\ wr' = [wr EXCEPT !.pc = IF @ = "off" THEN "idle" ELSE @]
  /\ UNCHANGED <<port, preferred, wire, hist>>

TakeLost ==
  /\ lc.pc = "main" /\ port.lost
  /\ port' = [port EXCEPT !.lost = FALSE]
  /\ Goto("deactivate")
  /\ UNCHANGED <<active, preferred, wr, wire, hist>>

DeactivateStream ==
  /\ lc.pc = "deactivate" /\ MuFree
  /\ active' = (active /\ ~lc.active)
  /\ lc' = [lc EXCEPT !.pc = "recover", !.active = FALSE]
  /\ UNCHANGED <<port, preferred, wr, wire, hist>>

(* recoverStream resolves the peer.  Bound: it fails at MaxEpoch.           *)
ResolveForResume ==
  /\ lc.pc = "recover"
  /\ \/ GiveUp
     \/ /\ ~PortCtxDone
        /\ \E c \in Candidates :
             /\ port.epoch + Len(c) <= MaxEpoch
             /\ lc' = [lc EXCEPT !.pc = "resume", !.cands = c]
  /\ UNCHANGED <<port, active, preferred, wr, wire, hist>>

ResumeGivesUp ==
  /\ \/ lc.pc = "resume" /\ (lc.cands = << >> \/ PortCtxDone)
     \/ lc.pc = "waitResume" /\ PortCtxDone
  /\ GiveUp
  /\ UNCHANGED <<port, active, preferred, wr, wire, hist>>

(* nextEpoch and beginResume; only the lifecycle changes the epoch.         *)
ResumeCandidate ==
  /\ lc.pc = "resume" /\ lc.cands # << >> /\ ~PortCtxDone
  /\ port.epoch < MaxEpoch
  /\ port' = BeginResume(port, Head(lc.cands), port.epoch + 1)
  /\ SentTo(port.epoch + 1, port.lastAck)
  /\ lc' = [lc EXCEPT !.pc = "sdkResume",
                      !.replay = [from |-> port.lastAck, to |-> port.lastAck]]
  /\ UNCHANGED <<active, preferred, wr, wire>>

(* The SDK's Resume returns every frame from lastAck on.                    *)
SdkResume ==
  /\ lc.pc = "sdkResume"
  /\ port' = SenderResume(port, port.epoch)
  /\ lc' = [lc EXCEPT !.pc = "sendResume", !.replay.to = port.sender.next]
  /\ UNCHANGED <<active, preferred, wr, wire, hist>>

SendResume ==
  /\ lc.pc = "sendResume"
  /\ \/ Sent(port.target, port.epoch) /\ Goto("waitResume")
     \/ UNCHANGED wire /\ NextTry("resume")
  /\ UNCHANGED <<port, active, preferred, wr, hist>>

ResumeAnswered ==
  /\ lc.pc = "waitResume" /\ port.resumeTok
  /\ port' = [port EXCEPT !.resumeTok = FALSE]
  /\ Goto("replay")
  /\ UNCHANGED <<active, preferred, wr, wire, hist>>

ResumeRejected ==
  /\ lc.pc = "waitResume" /\ port.attemptErr
  /\ port' = [port EXCEPT !.attemptErr = FALSE]
  /\ NextTry("resume")
  /\ UNCHANGED <<active, preferred, wr, wire, hist>>

ResumeTimeout ==
  /\ lc.pc = "waitResume"
  /\ NextTry("resume")
  /\ UNCHANGED <<port, active, preferred, wr, wire, hist>>

(* One outstanding packet is sent again; if that fails, so does the attempt. *)
ReplayFrame ==
  /\ lc.pc = "replay" /\ lc.replay.from < lc.replay.to
  /\ \/ lc' = [lc EXCEPT !.replay.from = @ + 1] /\ SentTo(port.epoch, lc'.replay.from)
     \/ NextTry("resume") /\ UNCHANGED hist
  /\ UNCHANGED <<port, active, preferred, wr, wire>>

FinishResume ==
  /\ lc.pc = "replay" /\ lc.replay.from = lc.replay.to
  /\ port' = CompleteResume(port, port.target, port.epoch)
  /\ IF ResumeComplete(port, port.target, port.epoch)
     THEN Goto("activate") ELSE NextTry("resume")
  /\ UNCHANGED <<active, preferred, wr, wire, hist>>

(* runStream's deferred steps.                                              *)
LeaveOutlet ==
  /\ lc.pc = "exit" /\ MuFree
  /\ active' = (active /\ ~lc.active)
  /\ Goto("unregister")
  /\ UNCHANGED <<port, preferred, wr, wire, hist>>

Unregister ==
  /\ lc.pc = "unregister" /\ StreamMuFree
  /\ Goto("close")
  /\ UNCHANGED <<port, active, preferred, wr, wire, hist>>

EndStream ==
  /\ lc.pc = "close"
  /\ port' = ClosePort(port)
  /\ Goto("ended")
  /\ UNCHANGED <<active, preferred, wr, wire, hist>>

LifecycleStep ==
  /\ \/ OpenCandidate \/ SendOpen \/ OpenRejected \/ OpenTimeout \/ OpenAnswered
     \/ RunStreamLeaves \/ OpenExhausted \/ ActivateStream \/ TakeLost
     \/ DeactivateStream \/ ResolveForResume \/ ResumeGivesUp \/ ResumeCandidate
     \/ SdkResume \/ SendResume \/ ResumeAnswered \/ ResumeRejected
     \/ ResumeTimeout \/ ReplayFrame \/ FinishResume \/ LeaveOutlet \/ Unregister
     \/ EndStream
  /\ UNCHANGED <<ctxDone, queue, hd, tun, spent>>

-----------------------------------------------------------------------------
(* The writer                                                               *)

WGoto(step) == wr' = [wr EXCEPT !.pc = step]

(* encodeStreamBatch and appendStreamBatch: queued packets join the batch b *)
(* until the queue is empty or one does not fit, which overflows.           *)
FillBatch(b, q) ==
  \E k \in 0 .. Len(q) :
    LET overflow == IF k = Len(q) THEN << >> ELSE <<q[k + 1]>>
    IN  /\ Len(b) + k <= BatchMax
        /\ wr' = [wr EXCEPT !.pc = "path", !.pending = b \o SubSeq(q, 1, k),
                            !.overflow = overflow]
        /\ queue' = SubSeq(q, k + 1 + Len(overflow), Len(q))

TakeBatch ==
  /\ wr.pc = "idle"
  /\ \/ wr.overflow # << >> /\ FillBatch(wr.overflow, queue)
     \/ /\ wr.overflow = << >> /\ queue # << >>
        /\ FillBatch(<<Head(queue)>>, Tail(queue))
  /\ UNCHANGED <<port, wire, hist>>

(* Mutant: the tick remembers what is outstanding and never compares.       *)
IdleTickNeverFails ==
  /\ wr.pc = "idle" /\ wr.overflow = << >>
  /\ \/ ~Outstanding(port) /\ wr' = [wr EXCEPT !.idleStalled = NoStall]
     \/ Outstanding(port) /\ wr' = [wr EXCEPT !.idleStalled = Progress(port)]
  /\ UNCHANGED <<port, queue, wire, hist>>

(* The ackCheck tick: remember what is outstanding, or find that nothing    *)
(* moved for the length of the timeout.                                     *)
IdleTick ==
  /\ wr.pc = "idle" /\ wr.overflow = << >>
  /\ \/ ~Outstanding(port) /\ wr' = [wr EXCEPT !.idleStalled = NoStall]
     \/ Outstanding(port) /\ wr' = [wr EXCEPT !.idleStalled = Progress(port)]
     \/ Outstanding(port) /\ wr.idleStalled = Progress(port) /\ WGoto("idleFail")
  /\ UNCHANGED <<port, queue, wire, hist>>

(* failPath and failPathIfAckUnchanged as the writer calls them: on to      *)
(* signalPathLost if they took a ready path down, else to next.             *)
TakenDown == port.readyState /\ ~port'.readyState
NoteFailed(hit) == IF hit THEN Failed ELSE UNCHANGED hist

IdleFail ==
  /\ wr.pc = "idleFail"
  /\ port' = FailPathIfAckUnchanged(port, wr.idleStalled)
  /\ NoteFailed(wr.idleStalled = Progress(port))
  /\ wr' = [wr EXCEPT !.pc = IF TakenDown THEN "signal" ELSE "idle",
                      !.idleStalled = NoStall]
  /\ UNCHANGED <<queue, wire>>

ReadPath ==
  /\ wr.pc = "path"
  /\ wr' = [wr EXCEPT !.pc = "wait", !.chan = port.ready]
  /\ UNCHANGED <<port, queue, wire, hist>>

SeePathReady ==
  /\ wr.pc = "wait" /\ wr.chan \in port.closed
  /\ WGoto("data")
  /\ UNCHANGED <<port, queue, wire, hist>>

(* dataForReadyPath: the path is gone, there is no credit, or a frame.       *)
DataPathGone ==
  /\ wr.pc = "data" /\ ~port.readyState
  /\ WGoto("path")
  /\ UNCHANGED <<port, queue, wire, hist>>

DataNoCredit ==
  /\ wr.pc = "data" /\ port.readyState /\ ~HasCredit(port, Len(wr.pending))
  /\ wr' = [wr EXCEPT !.pc = "full", !.frame = [NoFrame EXCEPT !.session = port.target]]
  /\ UNCHANGED <<port, queue, wire, hist>>

DataFramed ==
  /\ wr.pc = "data" /\ port.readyState /\ HasCredit(port, Len(wr.pending))
  /\ port' = DataForReadyPath(port, Len(wr.pending))
  /\ wr' = [wr EXCEPT !.pc = "send", !.pending = << >>, !.stalled = NoStall,
                      !.frame = [session |-> port.target,
                                 epoch |-> port.sender.epoch,
                                 from |-> port.sender.next,
                                 to |-> port'.sender.next]]
  /\ hist' = [hist EXCEPT !.framed = @ \o wr.pending]
  /\ UNCHANGED <<queue, wire>>

(* No credit: ackProgress, and whether anything moved since the last look.  *)
CreditPathGone ==
  /\ wr.pc = "full"
  /\ ~port.readyState \/ port.target # wr.frame.session
  /\ wr' = [wr EXCEPT !.pc = "path", !.stalled = NoStall]
  /\ UNCHANGED <<port, queue, wire, hist>>

AwaitCredit ==
  /\ wr.pc = "full" /\ port.readyState /\ port.target = wr.frame.session
  /\ wr' = [wr EXCEPT !.pc = "wake", !.stalled = Progress(port)]
  /\ UNCHANGED <<port, queue, wire, hist>>

CreditStalls ==
  /\ wr.pc = "full" /\ port.readyState /\ port.target = wr.frame.session
  /\ wr.stalled = Progress(port)
  /\ WGoto("fullFail")
  /\ UNCHANGED <<port, queue, wire, hist>>

(* Mutant: the batch that waited for credit is dropped with the path.       *)
CreditFailForgets ==
  /\ wr.pc = "fullFail"
  /\ port' = FailPathIfAckUnchanged(port, wr.stalled)
  /\ NoteFailed(wr.stalled = Progress(port))
  /\ wr' = [wr EXCEPT !.pc = IF TakenDown THEN "signal" ELSE "idle",
                      !.stalled = NoStall, !.pending = << >>]
  /\ UNCHANGED <<queue, wire>>

CreditFail ==
  /\ wr.pc = "fullFail"
  /\ port' = FailPathIfAckUnchanged(port, wr.stalled)
  /\ NoteFailed(wr.stalled = Progress(port))
  /\ wr' = [wr EXCEPT !.pc = IF TakenDown THEN "signal" ELSE "path",
                      !.stalled = NoStall]
  /\ UNCHANGED <<queue, wire>>

(* waitWriterWake ends by the token or by its timer; the backlog joins the  *)
(* batch unless a packet has overflowed already.                            *)
WriterWakes ==
  /\ wr.pc = "wake"
  /\ \E w \in {FALSE, port.wake} : port' = [port EXCEPT !.wake = w]
  /\ \/ wr.overflow = << >> /\ FillBatch(wr.pending, queue)
     \/ wr.overflow # << >> /\ WGoto("path") /\ UNCHANGED queue
  /\ UNCHANGED <<wire, hist>>

(* The frame goes to the SDK outside every lock; an error is a failPath.     *)
SendData ==
  /\ wr.pc = "send"
  /\ \/ /\ Sent(wr.frame.session, wr.frame.epoch)
        /\ SentTo(wr.frame.epoch, wr.frame.to)
        /\ WGoto("idle")
     \/ WGoto("fail") /\ UNCHANGED <<wire, hist>>
  /\ UNCHANGED <<port, queue>>

(* Mutant: the error of a send is dropped.                                  *)
SendFailIgnored ==
  /\ wr.pc = "fail"
  /\ WGoto("idle")
  /\ UNCHANGED <<port, queue, wire, hist>>

SendFail ==
  /\ wr.pc = "fail"
  /\ port' = FailPath(port, wr.frame.session, wr.frame.epoch)
  /\ NoteFailed(Aims(port, wr.frame.session, wr.frame.epoch))
  /\ WGoto(IF TakenDown THEN "signal" ELSE "idle")
  /\ UNCHANGED <<queue, wire>>

WriterSignals ==
  /\ wr.pc = "signal"
  /\ port' = SignalPathLost(port)
  /\ WGoto(IF wr.pending = << >> THEN "idle" ELSE "path")
  /\ UNCHANGED <<queue, wire, hist>>

WriterQuits ==
  /\ \/ wr.pc = "idle" /\ wr.overflow = << >> /\ port.done
     \/ wr.pc = "wait" /\ port.done
     \/ wr.pc = "wake" /\ PortCtxDone
  /\ WGoto("exit")
  /\ UNCHANGED <<port, queue, wire, hist>>

WriterStep ==
  /\ \/ TakeBatch \/ IdleTick \/ IdleFail \/ ReadPath \/ SeePathReady
     \/ DataPathGone \/ DataNoCredit \/ DataFramed \/ CreditPathGone
     \/ AwaitCredit \/ CreditStalls \/ CreditFail \/ WriterWakes \/ SendData
     \/ SendFail \/ WriterSignals \/ WriterQuits
  /\ UNCHANGED <<ctxDone, active, preferred, lc, hd, tun, spent>>

-----------------------------------------------------------------------------
(* The handlers.  The port was looked up in streamPorts first, so a handler *)
(* may still act on it after it was unregistered.                           *)

HandlerFree(h) == hd[h].pc = "idle" /\ lc.pc # "ended"
HGoto(h, step) == hd' = [hd EXCEPT ![h].pc = step]
Spend(bound)   == spent' = [spent EXCEPT ![bound] = @ + 1]

(* How far the peer may have received.                                      *)
Delivered(offset) == \E e \in Epochs : offset <= hist.sentUpTo[e]

(* OpenAck, Ack: those that do not match the path change nothing.           *)
OnOpenAck(s) ==
  /\ HandlerFree("reader") /\ <<s, 1>> \in wire
  /\ spent.openAcks < MaxOpenAcks /\ Spend("openAcks")
  /\ OpenAckAccepted(port, s, 1)
  /\ port' = AcceptOpenAck(port)
  /\ UNCHANGED <<active, preferred, hd, hist>>

OnAck(s, e, offset, window) ==
  /\ HandlerFree("reader") /\ <<s, e>> \in wire /\ Delivered(offset)
  /\ AckAccepted(port, s, e, offset)
  /\ port' = Acknowledge(port, offset, window)
  /\ UNCHANGED <<active, preferred, hd, hist, spent>>

(* The peer's own Open, from session s: prefer s, and restart a port that   *)
(* aims elsewhere.  restart is closed under pathMu, the port after it.       *)
OnPeerOpen(s) ==
  /\ HandlerFree("reader") /\ Registered
  /\ preferred' = s
  /\ port' = RequestRestart(port, s)
  /\ IF port'.restart # port.restart THEN HGoto("reader", "close") ELSE UNCHANGED hd
  /\ UNCHANGED <<active, hist, spent>>

CloseForRestart ==
  /\ hd["reader"].pc = "close"
  /\ port' = ClosePort(port)
  /\ HGoto("reader", "idle")
  /\ UNCHANGED <<active, preferred, hist, spent>>

(* The peer's Resume, from session s: prefer s, and if the port aims        *)
(* elsewhere its path is lost; the look and the loss are two steps.         *)
OnPeerResume(s) ==
  /\ HandlerFree("reader") /\ Registered
  /\ spent.faults < MaxFaults /\ Spend("faults")
  /\ preferred' = s
  /\ IF port.target # s THEN HGoto("reader", "mark") ELSE UNCHANGED hd
  /\ UNCHANGED <<port, active, hist>>

(* Mutant: a handler that takes a path down does not signal it.             *)
AfterTakeDownSilent == "check"

(* What follows a handler's TakeDown: signalPathLost if the path was ready, *)
(* then deactivateStreamIfNotReady.                                         *)
AfterTakeDown == IF TakenDown THEN "signal" ELSE "check"

MarkPathLost ==
  /\ hd["reader"].pc = "mark"
  /\ port' = MarkPathLostWithError(port, TRUE)
  /\ Failed
  /\ HGoto("reader", AfterTakeDown)
  /\ UNCHANGED <<active, preferred, spent>>

(* markAllStreamPathsLost, with or without a reason.                        *)
OnDisconnect(err) ==
  /\ HandlerFree("events")
  /\ spent.faults < MaxFaults /\ Spend("faults")
  /\ port' = MarkPathLostWithError(port, err)
  /\ NoteFailed(err \/ port.readyState)
  /\ HGoto("events", AfterTakeDown)
  /\ UNCHANGED <<active, preferred>>

(* The asynchronous failure of a frame sent on <<s, e>>.                    *)
OnStreamSendResult(s, e) ==
  /\ HandlerFree("events") /\ <<s, e>> \in wire
  /\ spent.faults < MaxFaults /\ Spend("faults")
  /\ Aims(port, s, e)
  /\ port' = FailPath(port, s, e)
  /\ Failed
  /\ hd' = [hd EXCEPT !["events"] = [pc |-> AfterTakeDown, session |-> s]]
  /\ UNCHANGED <<active, preferred>>

HandlerSignals(h) ==
  /\ hd[h].pc = "signal"
  /\ port' = SignalPathLost(port)
  /\ HGoto(h, "check")
  /\ UNCHANGED <<active, preferred, hist, spent>>

(* deactivateStreamIfNotReady: the look at readyState, then the delete; a   *)
(* send result goes on to the preferred session.                            *)
AfterCheck(h) == IF hd[h].session # NoSession THEN "prefer" ELSE "idle"

(* Mutant: the stream is taken out without a look at readyState.            *)
CheckReadyBlind(h) ==
  /\ hd[h].pc = "check" /\ MuFree
  /\ HGoto(h, IF active THEN "delete" ELSE AfterCheck(h))
  /\ UNCHANGED <<port, active, preferred, hist, spent>>

CheckReady(h) ==
  /\ hd[h].pc = "check" /\ MuFree
  /\ HGoto(h, IF active /\ ~port.readyState THEN "delete" ELSE AfterCheck(h))
  /\ UNCHANGED <<port, active, preferred, hist, spent>>

DeleteActive(h) ==
  /\ hd[h].pc = "delete"
  /\ active' = FALSE
  /\ HGoto(h, AfterCheck(h))
  /\ UNCHANGED <<port, preferred, hist, spent>>

DropPreferred(h) ==
  /\ hd[h].pc = "prefer" /\ StreamMuFree
  /\ preferred' = IF Registered /\ preferred = hd[h].session
                  THEN NoSession ELSE preferred
  /\ hd' = [hd EXCEPT ![h] = [pc |-> "idle", session |-> NoSession]]
  /\ UNCHANGED <<port, active, hist, spent>>

(* A handler is called; a handler goes on.                                  *)
HandlerCall ==
  /\ \/ \E s \in Sessions : OnOpenAck(s) \/ OnPeerOpen(s) \/ OnPeerResume(s)
     \/ \E s \in Sessions, e \in Epochs : OnStreamSendResult(s, e)
     \/ \E s \in Sessions, e \in Epochs, offset \in 0 .. MaxPackets, w \in Windows :
          OnAck(s, e, offset, w)
     \/ \E err \in BOOLEAN : OnDisconnect(err)
  /\ UNCHANGED <<ctxDone, lc, wr, queue, tun, wire>>

HandlerStep(h) ==
  /\ \/ h = "reader" /\ (CloseForRestart \/ MarkPathLost)
     \/ HandlerSignals(h) \/ CheckReady(h) \/ DeleteActive(h) \/ DropPreferred(h)
  /\ UNCHANGED <<ctxDone, lc, wr, queue, tun, wire>>

-----------------------------------------------------------------------------
(* The TUN reader takes the active stream under r.mu, then offers it the    *)
(* packet; one it refuses goes to the relay.                                *)
TunLooksUp ==
  /\ tun = "idle" /\ MuFree /\ active /\ hist.handed < MaxPackets
  /\ tun' = "got"
  /\ UNCHANGED <<queue, hist>>

EnqueueReady ==
  /\ tun = "got"
  /\ tun' = "idle"
  /\ IF port.readyState /\ Len(queue) < QueueSize
     THEN /\ queue' = Append(queue, hist.handed + 1)
          /\ hist' = [hist EXCEPT !.handed = @ + 1]
     ELSE UNCHANGED <<queue, hist>>

TunStep ==
  /\ TunLooksUp \/ EnqueueReady
  /\ UNCHANGED <<port, ctxDone, active, preferred, lc, wr, hd, wire, spent>>

CancelCtx ==
  /\ ~ctxDone /\ lc.pc # "ended"
  /\ spent.faults < MaxFaults /\ Spend("faults")
  /\ ctxDone' = TRUE
  /\ UNCHANGED <<port, active, preferred, lc, wr, queue, hd, tun, wire, hist>>

(* Nothing is left to do: every goroutine of the port has returned.         *)
Finished ==
  /\ lc.pc = "ended" /\ wr.pc \in {"off", "exit"} /\ tun = "idle"
  /\ \A h \in Handlers : hd[h].pc = "idle"
  /\ UNCHANGED vars

Next ==
  \/ LifecycleStep \/ WriterStep \/ HandlerCall
  \/ \E h \in Handlers : HandlerStep(h)
  \/ TunStep \/ CancelCtx \/ Finished

Spec == Init /\ [][Next]_vars

(* Every goroutine goes on while it can.  A select that is offered a choice *)
(* again and again takes each case in the end, and time passes: an ACK that *)
(* never comes is found missing.  Answers, failures and packets are free to *)
(* stay away.                                                               *)
Fairness ==
  /\ WF_vars(LifecycleStep) /\ WF_vars(WriterStep) /\ WF_vars(TunStep)
  /\ \A h \in Handlers : WF_vars(HandlerStep(h))
  /\ SF_vars(WriterStep /\ CreditStalls) /\ SF_vars(WriterStep /\ WriterQuits)

FairSpec == Spec /\ Fairness

-----------------------------------------------------------------------------
(* Properties                                                               *)

(* Some goroutine took the path down and has not sent the lost token yet.   *)
Signalling == wr.pc = "signal" \/ \E h \in Handlers : hd[h].pc = "signal"

(* The path is ready exactly while its ready channel is closed: no method   *)
(* closes a channel twice, which would panic, and none replaces a closed    *)
(* channel while readyState says TRUE.                                      *)
ReadyChannelAgrees == port.readyState <=> port.ready \in port.closed

(* Nobody waits on a ready channel that can no longer be closed: a waiter   *)
(* holds a closed channel or the current one, however often the path was    *)
(* replaced since it read the field (currentPath, beginOpen).               *)
WaitersNotStranded ==
  /\ wr.pc = "wait" => wr.chan \in port.closed \/ wr.chan = port.ready
  /\ lc.pc = "waitOpen" => lc.chan \in port.closed \/ lc.chan = port.ready

(* The ready channel tells its waiters the truth, whichever of them it is.  *)
ReadyChannelHolds == ReadyChannelAgrees /\ WaitersNotStranded

(* A path that goes down while the lifecycle watches it, or is about to, is *)
(* never overlooked: the lost token is there or on its way, although the    *)
(* token is coalesced and is sent after the unlock (signalPathLost).        *)
LossIsNoticed ==
  /\ \/ lc.pc \in {"activate", "main"}
     \/ lc.pc = "waitOpen" /\ lc.chan \in port.closed
  /\ ~port.readyState
  => port.lost \/ Signalling

(* While the lifecycle serves a ready path with no loss pending, the stream *)
(* is the peer's outlet: a handler of an earlier loss that is late with its *)
(* deactivateStreamIfNotReady does not take a recovered stream out.         *)
ReadyStreamIsOutlet ==
  lc.pc = "main" /\ port.readyState /\ ~port.lost /\ ~Signalling => active

(* The stream is the outlet only while its lifecycle is there to notice a   *)
(* loss: Relay has the traffic during Open, during recovery and after.      *)
OutletIsWatched == active => lc.pc \in {"main", "deactivate", "exit"}

(* The entry in activeStreams follows the path, both ways.                  *)
OutletFollowsPath == ReadyStreamIsOutlet /\ OutletIsWatched

(* A Resume attempt for which a failure was accepted never becomes ready    *)
(* again, whatever answers come late (docs/stream-mode.md: an asynchronous  *)
(* send error eliminates the candidate).                                    *)
FailedPathStaysDown ==
  port.readyState /\ port.epoch > 1 => <<port.target, port.epoch>> \notin hist.failed

(* A new Data frame goes to the wire right after the last frame of its      *)
(* epoch: it neither overtakes the replay of a Resume nor leaves a hole     *)
(* behind a send that failed.                                               *)
FramesInOrder ==
  wr.pc = "send" /\ (wr.frame.epoch > 1 \/ <<wr.frame.session, 1>> \notin hist.failed)
    => wr.frame.from = hist.sentUpTo[wr.frame.epoch]

(* When a resumed path is ready, all that was outstanding has been sent     *)
(* again at its epoch.                                                      *)
ReplayIsComplete ==
  port.readyState /\ port.epoch > 1 /\ wr.pc \notin {"send", "fail"}
    => hist.sentUpTo[port.epoch] = port.sender.next

(* So the peer gets the Data of an epoch in sequence, replay and new alike. *)
DataInSequence == FramesInOrder /\ ReplayIsComplete

(* The port is a queue of packets: the batch, the overflow packet and the   *)
(* queue are, in this order, what was accepted and is in no frame yet.      *)
Backlog == wr.pending \o wr.overflow \o queue

Queue == INSTANCE PacketQueue WITH backlog <- Backlog, stream <- hist.framed

(* Whatever the writer does with full windows, lost paths and batches that  *)
(* overflow, frames carry the accepted packets in their order, each once    *)
(* (encodeStreamBatch, appendStreamBatch, writeStreamLoop).                 *)
ImplementsPacketQueue == Queue!Spec

(* The offsets the port keeps agree with the SDK's: stall detection and     *)
(* Resume, which use lastAck and lastSent, never see more acknowledged than *)
(* sent, nor an ACK the sender refused.                                     *)
OffsetsAgree ==
  /\ port.lastAck = port.sender.base /\ port.lastSent = port.sender.next
  /\ port.lastAck <= port.lastSent /\ port.lastSent = Len(hist.framed)

(* A writer that goes to wait for credit and has it by then has been woken, *)
(* also by an ACK that came between its look and its wait.                  *)
CreditWakesWriter ==
  wr.pc \in {"full", "wake"} /\ port.readyState /\ HasCredit(port, Len(wr.pending))
    => port.wake

(* A stall takes a path down only if the peer acknowledged nothing between  *)
(* the observation and the failure.                                         *)
StallSparesProgress ==
  [][wr.pc \in {"idleFail", "fullFail"} /\ wr'.pc = "signal"
       => Progress(port) = IF wr.pc = "idleFail" THEN wr.idleStalled
                           ELSE wr.stalled]_vars

(* A lost path is recovered or its runStream returns.                       *)
LossIsHandled ==
  lc.pc = "main" /\ ~port.readyState ~> port.readyState \/ lc.pc = "ended"

(* Data that stays unacknowledged is found out, with the window full or     *)
(* the queue empty: it is acknowledged, the path is taken down, or closed.  *)
SilenceIsDetected == Outstanding(port) ~> ~Outstanding(port) \/ port.done

(* A restart request ends runStream, wherever its lifecycle stands, and the *)
(* writer with it, whatever that waits for.                                 *)
RestartEndsStream ==
  port.restart ~> lc.pc = "ended" /\ wr.pc \in {"off", "exit"}

=============================================================================
