----------------------------- MODULE StreamPath -----------------------------
(***************************************************************************)
(* The outbound half of one stream to one peer: the fields of streamPort   *)
(* (internal/tun/stream.go) that pathMu guards, the channels its goroutines *)
(* meet on, and one operator per method, from the port before to the port  *)
(* after.  Each method holds pathMu from its first read to its last write;  *)
(* what follows its unlock (signalPathLost, close) is an operator of its    *)
(* own, a later step of the goroutine that called it.                      *)
(*                                                                         *)
(* An offset counts packets, and a channel is numbered when it is made.    *)
(***************************************************************************)
EXTENDS Integers, Sequences, FiniteSets

CONSTANTS Sessions,       \* the sessions the peer may be reachable at
          NoSession,      \* the zero SessionRef
          Window,         \* the credit a new stream starts with
          Windows         \* the credits the peer's acknowledgements grant

ASSUME SessionsAssumption == IsFiniteSet(Sessions) /\ NoSession \notin Sessions
ASSUME WindowAssumption   == Window \in Nat \ {0} /\ Windows \subseteq Nat

AnySession == Sessions \cup {NoSession}

(* The SDK's StreamSenderState: what is outstanding is [base, next).        *)
Sender == [epoch : Nat, base : Nat, next : Nat, window : Nat]

Port ==
  [target      : AnySession,    \* targetSession
   epoch       : Nat,           \* 1 for Open, one more for each Resume
   readyState  : BOOLEAN,       \* Data may be framed
   ready       : Nat,           \* the current ready channel
   closed      : SUBSET Nat,    \* the ready channels that were closed
   attemptErr  : BOOLEAN,       \* attemptErr (capacity one) holds an error
   resumeReady : BOOLEAN,       \* resumeReady is not nil
   resumeTok   : BOOLEAN,       \* the Resume's channel holds its token
   lastAck     : Nat,
   lastWindow  : Nat,
   lastSent    : Nat,
   sender      : Sender,
   lost        : BOOLEAN,       \* lost holds its one token
   wake        : BOOLEAN,       \* wake holds its one token
   restart     : BOOLEAN,       \* restart is closed
   done        : BOOLEAN]       \* the context is cancelled, done is closed

(* The port runStream builds.                                              *)
NewPort ==
  [target |-> NoSession, epoch |-> 1, readyState |-> FALSE, ready |-> 0,
   closed |-> {}, attemptErr |-> FALSE, resumeReady |-> FALSE,
   resumeTok |-> FALSE, lastAck |-> 0, lastWindow |-> 0, lastSent |-> 0,
   sender |-> [epoch |-> 1, base |-> 0, next |-> 0, window |-> Window],
   lost |-> FALSE, wake |-> FALSE, restart |-> FALSE, done |-> FALSE]

Larger(a, b) == IF a > b THEN a ELSE b

HasCredit(p, n) == p.sender.next - p.sender.base + n <= p.sender.window

Aims(p, s, e) == p.target = s /\ p.epoch = e

(* What stall detection watches, and whether there is anything to watch     *)
(* (outstandingAckProgress, ackProgress).                                   *)
Progress(p) == [session |-> p.target, epoch |-> p.epoch,
                ack |-> p.lastAck, window |-> p.lastWindow]

Outstanding(p) == p.readyState /\ p.lastSent > p.lastAck

-----------------------------------------------------------------------------
BeginOpen(p, s) ==
  [p EXCEPT !.target = s, !.readyState = FALSE, !.ready = @ + 1,
            !.resumeReady = FALSE, !.attemptErr = FALSE]

(* Becoming ready closes the ready channel; a second close would panic.     *)
BecomeReady(p) ==
  [p EXCEPT !.readyState = TRUE, !.closed = @ \cup {p.ready}]

OpenAckAccepted(p, s, e) == Aims(p, s, e) /\ ~p.readyState

AcceptOpenAck(p) == BecomeReady(p)

(* The common part of failPath, failPathIfAckUnchanged and                  *)
(* markPathLostWithError: a path that is ready goes down and gets a fresh   *)
(* ready channel; an attempt that is not ready yet is told of the error.     *)
TakeDown(p, err) ==
  IF p.readyState THEN [p EXCEPT !.readyState = FALSE, !.ready = @ + 1]
  ELSE [p EXCEPT !.attemptErr = @ \/ err]

FailPath(p, s, e) == IF Aims(p, s, e) THEN TakeDown(p, TRUE) ELSE p

FailPathIfAckUnchanged(p, seen) ==
  IF Progress(p) = seen THEN TakeDown(p, TRUE) ELSE p

MarkPathLostWithError(p, err) == TakeDown(p, err)

(* Mutant: only the writer is woken.                                        *)
SignalPathLostToWriter(p) == [p EXCEPT !.wake = TRUE]

(* Two sends that never block, after the unlock.                            *)
SignalPathLost(p) == [p EXCEPT !.lost = TRUE, !.wake = TRUE]

(* Mutant of BeginResume: it always makes a new ready channel.              *)
BeginResumeNewChannel(p, s, e) ==
  [p EXCEPT !.target = s, !.epoch = e, !.readyState = FALSE, !.ready = @ + 1,
            !.resumeReady = TRUE, !.resumeTok = FALSE, !.attemptErr = FALSE]

(* A ready channel that is still open is kept: the writer may wait on it.   *)
BeginResume(p, s, e) ==
  [p EXCEPT !.target = s, !.epoch = e, !.readyState = FALSE,
            !.ready = IF p.readyState THEN @ + 1 ELSE @,
            !.resumeReady = TRUE, !.resumeTok = FALSE, !.attemptErr = FALSE]

(* The SDK's Resume adopts the epoch; recoverStream calls it without pathMu. *)
SenderResume(p, e) == [p EXCEPT !.sender.epoch = e]

(* Mutant: the epoch of an ACK is not looked at.                            *)
AckOfAnyEpoch(p, s, e, offset) == p.target = s /\ offset <= p.sender.next

(* The SDK accepts an ACK of its epoch for data it framed.                  *)
AckAccepted(p, s, e, offset) ==
  Aims(p, s, e) /\ p.sender.epoch = e /\ offset <= p.sender.next

AcknowledgeWithoutWake(p, offset, window) ==
  [p EXCEPT !.sender.base = Larger(@, offset),
            !.sender.window = IF window > 0 THEN window ELSE @,
            !.lastAck = Larger(@, offset),
            !.lastWindow = IF window > 0 THEN window ELSE @,
            !.resumeTok = @ \/ p.resumeReady,
            !.resumeReady = FALSE]

Acknowledge(p, offset, window) ==
  [p EXCEPT !.sender.base = Larger(@, offset),
            !.sender.window = IF window > 0 THEN window ELSE @,
            !.lastAck = Larger(@, offset),
            !.lastWindow = IF window > 0 THEN window ELSE @,
            !.wake = TRUE,
            !.resumeTok = @ \/ p.resumeReady,
            !.resumeReady = FALSE]

(* Mutant: an error that waits in attemptErr is overlooked.                 *)
ResumeCompleteDespiteError(p, s, e) ==
  Aims(p, s, e) /\ ~p.readyState /\ ~p.resumeReady

ResumeComplete(p, s, e) ==
  Aims(p, s, e) /\ ~p.readyState /\ ~p.resumeReady /\ ~p.attemptErr

(* A refusal takes the attempt's error once it gets as far as looking.      *)
CompleteResume(p, s, e) ==
  IF ResumeComplete(p, s, e) THEN BecomeReady(p)
  ELSE [p EXCEPT !.attemptErr =
          @ /\ ~(Aims(p, s, e) /\ ~p.readyState /\ ~p.resumeReady)]

(* dataForReadyPath: the SDK frames n packets.                             *)
DataForReadyPath(p, n) ==
  [p EXCEPT !.sender.next = @ + n, !.lastSent = p.sender.next + n]

(* requestRestart up to its unlock; the close follows if it was the first.  *)
RequestRestart(p, s) == IF p.target = s THEN p ELSE [p EXCEPT !.restart = TRUE]

ClosePort(p) == [p EXCEPT !.done = TRUE]

=============================================================================
