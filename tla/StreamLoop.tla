----------------------------- MODULE StreamLoop -----------------------------
(***************************************************************************)
(* streamLoop of one peer (internal/tun/stream.go): one stream port after  *)
(* another for as long as the context lives, the sessions each of them is  *)
(* opened and resumed on, and the relay dial loop kept as a fallback.      *)
(* StreamPort looks into one port; here a port's path is up or down, its   *)
(* writer only notices that a session is dead, and what matters is what a  *)
(* port leaves to the next one: streamPorts, the outlet, the preference.   *)
(*                                                                         *)
(* A port is a record with an identity; the identity of a closed port that *)
(* nothing refers to any more is used again.  What nobody reads again, the *)
(* path of a closed port and the locals that are done with, is forgotten.  *)
(***************************************************************************)
EXTENDS Integers, FiniteSets, Sequences

CONSTANTS Ports, Sessions, None,
          ShouldDial,   \* shouldDial for this peer
          MaxEvents     \* bound: faults, frames of the peer and changes of it

ASSUME NoneAssumption == None \notin Ports \cup Sessions
ASSUME SessionsAssumption == IsFiniteSet(Sessions)
ASSUME DialAssumption == ShouldDial \in BOOLEAN
ASSUME BoundAssumption == MaxEvents \in Nat

VARIABLES
  ports,        \* the stream ports
  streamPorts,  \* streamPorts[peer]
  active,       \* activeStreams[peer]
  preferred,    \* preferredStreams[peer]
  lc,           \* the loop with runStream and recoverStream
  reader,       \* OnStream: where it stands and its port
  events,       \* OnDisconnect and OnStreamSendResult: the same, and the session
  dialer,       \* the fallback's dial loop
  dialCancelled,\* its context is cancelled
  run,          \* Run: "serving", "wait" after closePorts, "returned"
  ctxDone,      \* Run's context is cancelled
  alive,        \* the sessions the peer has
  kept,         \* the port whose receiver the peer has, or None
  spent         \* bounded events so far

net  == <<alive, kept>>
reg  == <<streamPorts, active, preferred>>
hds  == <<reader, events>>
back == <<dialer, dialCancelled>>
vars == <<ports, reg, lc, hds, back, run, ctxDone, net, spent>>

Port ==
  [target   : Sessions \cup {None},
   up       : BOOLEAN,   \* readyState
   opened   : BOOLEAN,   \* the ready channel of the last beginOpen is closed
   resumed  : BOOLEAN,   \* epoch > 1
   answered : BOOLEAN,   \* the Resume of this epoch is acknowledged
   failed   : BOOLEAN,   \* attemptErr holds an error
   lost     : BOOLEAN,   \* the lost token is there
   restart  : BOOLEAN,   \* restart is closed
   done     : BOOLEAN]   \* done is closed, the port's context cancelled

NewPort ==
  [target |-> None, up |-> FALSE, opened |-> FALSE, resumed |-> FALSE,
   answered |-> FALSE, failed |-> FALSE, lost |-> FALSE, restart |-> FALSE,
   done |-> FALSE]

(* A port that its loop closed: OnDisconnect, if it got hold of the port     *)
(* before, still compares the target.                                       *)
Closed(p) == [NewPort EXCEPT !.done = TRUE,
                !.target = IF events.port = p THEN ports[p].target ELSE None]

(* Where the loop stands, by what it has: no port; a port in streamPorts; a  *)
(* port taken out of it and not closed yet.                                 *)
IdleSteps == {"top", "choose", "resolve", "register", "sleep", "stop", "await", "ended"}
OpenSteps == {"open", "sendOpen", "waitOpen", "exhausted", "activate"}
ServeSteps == {"serve", "deactivate", "recover", "resume", "sendResume",
               "waitResume", "replay", "reactivate"}
RegisteredSteps == OpenSteps \cup ServeSteps \cup {"leave", "unregister"}
Results == {"none", "Restart", "Fallback", "Stopped"}

LoopState ==
  [pc : IdleSteps \cup RegisteredSteps \cup {"close"},
   port    : Ports \cup {None},
   cands   : Seq(Sessions),              \* candidates left
   first   : Sessions \cup {None},       \* preferredSession, as it was read
   serving : BOOLEAN,                    \* the local variable active
   result  : Results]

TypeOK ==
  /\ ports \in [Ports -> Port]
  /\ streamPorts \in Ports \cup {None} /\ active \in Ports \cup {None}
  /\ preferred \in Sessions \cup {None}
  /\ lc \in LoopState
  /\ lc.serving => lc.pc \in {"serve", "deactivate", "leave", "unregister", "close"}
  /\ reader \in [pc : {"idle", "close", "mark", "check"}, port : Ports \cup {None}]
  /\ events \in [pc : {"idle", "mark", "check", "forget"}, port : Ports \cup {None},
                 session : Sessions \cup {None}]
  /\ dialer \in {"off", "top", "connect", "hold", "ended"}
  /\ dialCancelled \in BOOLEAN /\ run \in {"serving", "wait", "returned"}
  /\ ctxDone \in BOOLEAN
  /\ alive \subseteq Sessions /\ kept \in Ports \cup {None} /\ spent \in 0 .. MaxEvents

Init ==
  /\ ports = [p \in Ports |-> [NewPort EXCEPT !.done = TRUE]]
  /\ streamPorts = None /\ active = None /\ preferred = None
  /\ lc = [pc |-> "top", port |-> None, cands |-> << >>, first |-> None,
           serving |-> FALSE, result |-> "none"]
  /\ reader = [pc |-> "idle", port |-> None]
  /\ events = [pc |-> "idle", port |-> None, session |-> None]
  /\ dialer = IF ShouldDial THEN "top" ELSE "off"
  /\ dialCancelled = FALSE /\ run = "serving" /\ ctxDone = FALSE
  /\ alive \in SUBSET Sessions /\ kept = None /\ spent = 0

-----------------------------------------------------------------------------
Spend == spent < MaxEvents /\ spent' = spent + 1

(* OnStream holds streamMu from requestRestart's first half to its close.    *)
StreamMuFree == reader.pc # "close"

Mine        == ports[lc.port]
PortCtxDone == ctxDone \/ Mine.done
Set(p, path) == ports' = [ports EXCEPT ![p] = path]

(* failPath and markPathLostWithError on a path they apply to.               *)
Failed(path) ==
  IF path.up THEN [path EXCEPT !.up = FALSE, !.lost = TRUE]
             ELSE [path EXCEPT !.failed = TRUE]

(* transientStreamSessions of what a resolution returns: the sessions of     *)
(* the peer in some order.                                                  *)
Orders(S) == {s \in [1 .. Cardinality(S) -> S] : \A i, j \in DOMAIN s : s[i] = s[j] => i = j}

Referenced == {streamPorts, active, lc.port, reader.port, events.port, kept}

Goto(step) == lc' = [lc EXCEPT !.pc = step]
Return(result) == lc' = [lc EXCEPT !.pc = "leave", !.result = result,
                                   !.cands = << >>, !.first = None]

-----------------------------------------------------------------------------
(* streamLoop and the first half of runStream                               *)

LoopTop ==
  /\ lc.pc = "top"
  /\ Goto(IF ctxDone THEN "stop" ELSE "choose")
  /\ UNCHANGED <<ports, reg, spent>>

ChooseCandidates ==
  /\ lc.pc = "choose" /\ StreamMuFree
  /\ lc' = IF preferred = None
           THEN [lc EXCEPT !.pc = "resolve", !.first = None]
           ELSE [lc EXCEPT !.pc = "register", !.first = preferred, !.cands = <<preferred>>]
  /\ UNCHANGED <<ports, reg, spent>>

(* No session, no answer or a cancelled context: runStream returns Fallback. *)
Resolve ==
  /\ lc.pc = "resolve"
  /\ \/ /\ ~ctxDone /\ alive # {} /\ UNCHANGED spent
        /\ \E order \in Orders(alive) : lc' = [lc EXCEPT !.pc = "register", !.cands = order]
     \/ /\ \/ (ctxDone \/ alive = {}) /\ UNCHANGED spent
           \/ ~ctxDone /\ alive # {} /\ Spend
        /\ Goto("sleep")
  /\ UNCHANGED <<ports, reg>>

(* A port is registered; a former one that was still there would be closed.  *)
(* newStreamID may fail first.  Any free identity is as good as another.    *)
Register ==
  /\ lc.pc = "register" /\ StreamMuFree
  /\ \/ /\ Ports \ Referenced # {} /\ UNCHANGED spent
        /\ LET p == CHOOSE q \in Ports \ Referenced : TRUE IN
           /\ ports' = [q \in Ports |-> IF q = p THEN NewPort
                                        ELSE IF q = streamPorts THEN [ports[q] EXCEPT !.done = TRUE]
                                        ELSE ports[q]]
           /\ streamPorts' = p
           /\ lc' = [lc EXCEPT !.pc = "open", !.port = p]
     \/ Goto("sleep") /\ Spend /\ UNCHANGED <<ports, streamPorts>>
  /\ UNCHANGED <<active, preferred>>

BeginOpen ==
  /\ lc.pc = "open"
  /\ \/ /\ lc.cands = << >> /\ Goto("exhausted") /\ UNCHANGED ports
     \/ /\ lc.cands # << >> /\ Goto("sendOpen")
        /\ Set(lc.port, [Mine EXCEPT !.target = Head(lc.cands), !.up = FALSE,
                                     !.opened = FALSE, !.failed = FALSE])
  /\ UNCHANGED <<reg, spent>>

NextCandidate(step) == lc' = [lc EXCEPT !.pc = step, !.cands = Tail(@)]

(* The send on a cancelled context fails, or was just in time.               *)
SendOpen ==
  /\ lc.pc = "sendOpen"
  /\ \/ Goto("waitOpen") /\ UNCHANGED spent
     \/ PortCtxDone /\ NextCandidate("open") /\ UNCHANGED spent
     \/ ~PortCtxDone /\ NextCandidate("open") /\ Spend
  /\ UNCHANGED <<ports, reg>>

(* The three channels both selects of runStream share.                       *)
ReturnsWhenClosed ==
  \/ ctxDone /\ Return("Stopped")
  \/ Mine.restart /\ Return("Restart")
  \/ Mine.done /\ Return(IF Mine.restart THEN "Restart" ELSE "Stopped")

(* A live session that the Open reached answers in time, unless the network  *)
(* fails it.                                                                *)
WaitOpen ==
  /\ lc.pc = "waitOpen"
  /\ \/ Mine.opened /\ Goto("activate") /\ UNCHANGED spent
     \/ Mine.failed /\ NextCandidate("open") /\ UNCHANGED spent
     \/ Mine.target \notin alive /\ NextCandidate("open") /\ UNCHANGED spent
     \/ Mine.target \in alive /\ NextCandidate("open") /\ Spend
     \/ ReturnsWhenClosed /\ UNCHANGED spent
  /\ UNCHANGED <<ports, reg>>

(* Mutant: a preference that failed is kept.                                 *)
KeepFailedPreference ==
  /\ lc.pc = "exhausted" /\ StreamMuFree
  /\ Return("Fallback")
  /\ UNCHANGED <<ports, reg, spent>>

(* A preference that failed is dropped, unless it was replaced meanwhile.    *)
DropFailedPreference ==
  /\ lc.pc = "exhausted" /\ StreamMuFree
  /\ preferred' = IF lc.first # None /\ preferred = lc.first THEN None ELSE preferred
  /\ Return("Fallback")
  /\ UNCHANGED <<ports, streamPorts, active, spent>>

ActivateStream ==
  /\ lc.pc \in {"activate", "reactivate"}
  /\ active' = lc.port
  /\ lc' = [lc EXCEPT !.pc = "serve", !.serving = TRUE, !.cands = << >>, !.first = None]
  /\ UNCHANGED <<ports, streamPorts, preferred, spent>>

-----------------------------------------------------------------------------
(* The second half of runStream, and recoverStream                          *)

Serve ==
  /\ lc.pc = "serve"
  /\ \/ ReturnsWhenClosed /\ UNCHANGED ports
     \/ /\ Mine.lost /\ Goto("deactivate")
        /\ Set(lc.port, [Mine EXCEPT !.lost = FALSE])
  /\ UNCHANGED <<reg, spent>>

Outlet == IF active = lc.port THEN None ELSE active

DeactivateLost ==
  /\ lc.pc = "deactivate"
  /\ active' = Outlet
  /\ lc' = [lc EXCEPT !.pc = "recover", !.serving = FALSE]
  /\ UNCHANGED <<ports, streamPorts, preferred, spent>>

(* recoverStream returned false.                                             *)
GiveUp == Return(IF ctxDone THEN "Stopped" ELSE "Restart")

Recover ==
  /\ lc.pc = "recover"
  /\ \/ /\ ~PortCtxDone /\ UNCHANGED spent
        /\ \E order \in Orders(alive) : lc' = [lc EXCEPT !.pc = "resume", !.cands = order]
     \/ PortCtxDone /\ GiveUp /\ UNCHANGED spent
     \/ ~PortCtxDone /\ GiveUp /\ Spend
  /\ UNCHANGED <<ports, reg>>

BeginResume ==
  /\ lc.pc = "resume"
  /\ \/ (lc.cands = << >> \/ PortCtxDone) /\ GiveUp /\ UNCHANGED ports
     \/ /\ lc.cands # << >> /\ ~PortCtxDone /\ Goto("sendResume")
        /\ Set(lc.port, [Mine EXCEPT !.target = Head(lc.cands), !.up = FALSE,
                                     !.resumed = TRUE, !.answered = FALSE,
                                     !.failed = FALSE])
  /\ UNCHANGED <<reg, spent>>

SendResume ==
  /\ lc.pc = "sendResume"
  /\ \/ Goto("waitResume") /\ UNCHANGED spent
     \/ PortCtxDone /\ NextCandidate("resume") /\ UNCHANGED spent
     \/ ~PortCtxDone /\ NextCandidate("resume") /\ Spend
  /\ UNCHANGED <<ports, reg>>

(* The peer answers a Resume only of a stream it has a receiver of.          *)
WaitResume ==
  /\ lc.pc = "waitResume"
  /\ \/ Mine.answered /\ Goto("replay") /\ UNCHANGED spent
     \/ Mine.failed /\ NextCandidate("resume") /\ UNCHANGED spent
     \/ /\ Mine.target \notin alive \/ kept # lc.port
        /\ NextCandidate("resume") /\ UNCHANGED spent
     \/ Mine.target \in alive /\ kept = lc.port /\ NextCandidate("resume") /\ Spend
     \/ PortCtxDone /\ GiveUp /\ UNCHANGED spent
  /\ UNCHANGED <<ports, reg>>

(* The replay and completeResume, which an error in attemptErr refuses.      *)
CompleteResume ==
  /\ lc.pc = "replay"
  /\ \/ /\ ~Mine.failed /\ Goto("reactivate") /\ UNCHANGED spent
        /\ Set(lc.port, [Mine EXCEPT !.up = TRUE])
     \/ (Mine.failed \/ PortCtxDone) /\ NextCandidate("resume") /\ UNCHANGED <<ports, spent>>
     \/ ~Mine.failed /\ ~PortCtxDone /\ NextCandidate("resume") /\ Spend /\ UNCHANGED ports
  /\ UNCHANGED reg

-----------------------------------------------------------------------------
(* The deferred function of runStream, and the end of streamLoop            *)

(* Mutant of LeaveOutlet: the port stays the outlet.                         *)
LeaveOutletToTheNext ==
  /\ lc.pc = "leave"
  /\ Goto("unregister")
  /\ UNCHANGED <<ports, reg, spent>>

LeaveOutlet ==
  /\ lc.pc = "leave"
  /\ active' = IF lc.serving THEN Outlet ELSE active
  /\ Goto("unregister")
  /\ UNCHANGED <<ports, streamPorts, preferred, spent>>

Unregister ==
  /\ lc.pc = "unregister" /\ StreamMuFree
  /\ streamPorts' = IF streamPorts = lc.port THEN None ELSE streamPorts
  /\ Goto("close")
  /\ UNCHANGED <<ports, active, preferred, spent>>

AfterRun ==
  IF lc.result = "Stopped" THEN "stop" ELSE IF lc.result = "Fallback" THEN "sleep" ELSE "top"

ClosePort ==
  /\ lc.pc = "close"
  /\ Set(lc.port, Closed(lc.port))
  /\ lc' = [lc EXCEPT !.pc = AfterRun, !.port = None, !.result = "none", !.serving = FALSE]
  /\ UNCHANGED <<reg, spent>>

Sleep ==
  /\ lc.pc = "sleep"
  /\ Goto("top") \/ (ctxDone /\ Goto("stop"))
  /\ UNCHANGED <<ports, reg, spent>>

Loop ==
  /\ \/ LoopTop \/ ChooseCandidates \/ Resolve \/ Register \/ BeginOpen \/ SendOpen
     \/ WaitOpen \/ DropFailedPreference \/ ActivateStream \/ Serve \/ DeactivateLost
     \/ Recover \/ BeginResume \/ SendResume \/ WaitResume \/ CompleteResume
     \/ LeaveOutlet \/ Unregister \/ ClosePort \/ Sleep
  /\ UNCHANGED <<hds, back, run, ctxDone, net>>

(* stopFallback: cancel, then wait for the dial loop.                        *)
CancelFallback ==
  /\ lc.pc = "stop"
  /\ dialCancelled' = TRUE
  /\ Goto("await")
  /\ UNCHANGED dialer

(* Mutant of AwaitFallback: cancelled, the dial loop is left to itself.      *)
AwaitNothing ==
  /\ lc.pc = "await"
  /\ Goto("ended")
  /\ UNCHANGED back

AwaitFallback ==
  /\ lc.pc = "await" /\ dialer \in {"off", "ended"}
  /\ Goto("ended")
  /\ UNCHANGED back

StopFallback ==
  /\ CancelFallback \/ AwaitFallback
  /\ UNCHANGED <<ports, reg, hds, run, ctxDone, net, spent>>

-----------------------------------------------------------------------------
(* OnStream. An Open or a Resume may come from any session, also from one    *)
(* the peer has no more.                                                    *)

PeerOpens(s) ==
  /\ reader.pc = "idle" /\ run # "returned" /\ Spend
  /\ preferred' = s
  /\ LET p == streamPorts IN
       IF p # None /\ ports[p].target # s /\ ~ports[p].restart
       THEN /\ Set(p, [ports[p] EXCEPT !.restart = TRUE])
            /\ reader' = [pc |-> "close", port |-> p]
       ELSE UNCHANGED <<ports, reader>>
  /\ UNCHANGED <<streamPorts, active>>

CloseForRestart ==
  /\ reader.pc = "close"
  /\ Set(reader.port, [ports[reader.port] EXCEPT !.done = TRUE])
  /\ reader' = [pc |-> "idle", port |-> None]
  /\ UNCHANGED <<reg, spent>>

PeerResumes(s) ==
  /\ reader.pc = "idle" /\ run # "returned" /\ Spend
  /\ preferred' = s
  /\ reader' = IF streamPorts # None /\ ports[streamPorts].target # s
               THEN [pc |-> "mark", port |-> streamPorts] ELSE reader
  /\ UNCHANGED <<ports, streamPorts, active>>

MarkLost ==
  /\ reader.pc = "mark"
  /\ Set(reader.port, Failed(ports[reader.port]))
  /\ reader' = [reader EXCEPT !.pc = "check"]
  /\ UNCHANGED <<reg, spent>>

(* deactivateStreamIfNotReady                                               *)
OutletUnless(p) == IF active = p /\ ~ports[p].up THEN None ELSE active

CheckLost ==
  /\ reader.pc = "check"
  /\ active' = OutletUnless(reader.port)
  /\ reader' = [pc |-> "idle", port |-> None]
  /\ UNCHANGED <<ports, streamPorts, preferred, spent>>

Reader ==
  /\ \/ \E s \in Sessions : PeerOpens(s) \/ PeerResumes(s)
     \/ CloseForRestart \/ MarkLost \/ CheckLost
  /\ UNCHANGED <<lc, events, back, run, ctxDone, net>>

(* The OpenAck reaches the port: while the Open waits, or again later.       *)
OpenAcked ==
  /\ reader.pc = "idle" /\ streamPorts # None
  /\ LET path == ports[streamPorts] IN
       /\ path.target \in alive /\ ~path.resumed /\ ~path.up
       /\ \/ lc.pc = "waitOpen" /\ ~path.opened /\ UNCHANGED spent
          \/ kept = streamPorts /\ Spend
       /\ Set(streamPorts, [path EXCEPT !.up = TRUE, !.opened = TRUE])
  /\ kept' = streamPorts
  /\ UNCHANGED <<reg, lc, hds, back, run, ctxDone, alive>>

ResumeAcked ==
  /\ reader.pc = "idle" /\ lc.pc = "waitResume" /\ ~Mine.answered
  /\ Mine.target \in alive /\ kept = lc.port
  /\ Set(lc.port, [Mine EXCEPT !.answered = TRUE])
  /\ UNCHANGED <<reg, lc, hds, back, run, ctxDone, net, spent>>

-----------------------------------------------------------------------------
(* OnDisconnect and OnStreamSendResult: the port, read under streamMu, is    *)
(* marked after the unlock, then the outlet, then the preference.            *)

Report ==
  /\ events.pc = "idle" /\ StreamMuFree /\ streamPorts # None /\ Spend
  /\ \E s \in Sessions \cup {None} :
       events' = [pc |-> "mark", port |-> streamPorts, session |-> s]
  /\ UNCHANGED <<ports, reg>>

MarkReported ==
  /\ events.pc = "mark"
  /\ LET path == ports[events.port] IN
       \/ /\ events.session \in {None, path.target}
          /\ Set(events.port, Failed(path))
          /\ events' = [events EXCEPT !.pc = "check"]
       \/ /\ events.session \notin {None, path.target} /\ UNCHANGED ports
          /\ events' = [pc |-> "idle", port |-> None, session |-> None]
  /\ UNCHANGED <<reg, spent>>

CheckReported ==
  /\ events.pc = "check"
  /\ active' = OutletUnless(events.port)
  /\ events' = [events EXCEPT !.pc = "forget"]
  /\ UNCHANGED <<ports, streamPorts, preferred, spent>>

(* OnDisconnect forgets no preference.                                       *)
ForgetFailed ==
  /\ events.pc = "forget" /\ StreamMuFree
  /\ preferred' = IF streamPorts = events.port /\ preferred = events.session
                  THEN None ELSE preferred
  /\ events' = [pc |-> "idle", port |-> None, session |-> None]
  /\ UNCHANGED <<ports, streamPorts, active, spent>>

Events ==
  /\ Report \/ MarkReported \/ CheckReported \/ ForgetFailed
  /\ UNCHANGED <<lc, reader, back, run, ctxDone, net>>

(* The writer: packets to a session that is gone are never acknowledged.     *)
StallNoticed ==
  /\ lc.port # None /\ lc.pc \in ServeSteps
  /\ Mine.up /\ (Mine.target \notin alive \/ kept # lc.port)
  /\ Set(lc.port, Failed(Mine))
  /\ UNCHANGED <<reg, lc, hds, back, run, ctxDone, net, spent>>

-----------------------------------------------------------------------------
(* The fallback's dialLoop, Run, and the peer                               *)

(* Mutant: the dial loop does not look at its context.                       *)
DialTopForever ==
  /\ dialer = "top"
  /\ dialer' = "connect"

(* The sleep of the dial loop ends with its context, or in a look at it.     *)
DialTop ==
  /\ dialer = "top"
  /\ dialer' = IF ctxDone \/ dialCancelled THEN "ended" ELSE "connect"

DialConnect == dialer = "connect" /\ dialer' \in {"hold", "top"}

(* <-port.done: the relay connection fails.                                  *)
DialLost == dialer = "hold" /\ dialer' = "top"

Dialer ==
  /\ DialTop \/ DialConnect \/ DialLost
  /\ UNCHANGED <<ports, reg, lc, hds, dialCancelled, run, ctxDone, net, spent>>

(* closePorts, which closes the relay port the dial loop holds; wg.Wait.     *)
Run ==
  /\ \/ /\ run = "serving" /\ ctxDone /\ run' = "wait"
        /\ dialer' = IF dialer = "hold" THEN "top" ELSE dialer
     \/ run = "wait" /\ lc.pc = "ended" /\ run' = "returned" /\ UNCHANGED dialer
  /\ UNCHANGED <<ports, reg, lc, hds, dialCancelled, ctxDone, net, spent>>

Cancel ==
  /\ ~ctxDone
  /\ ctxDone' = TRUE
  /\ UNCHANGED <<ports, reg, lc, hds, back, run, net, spent>>

(* Sessions of the peer come and go; with its process goes its receiver.     *)
PeerChanges ==
  /\ Spend
  /\ alive' \in SUBSET Sessions
  /\ kept' \in {kept, None}
  /\ UNCHANGED <<ports, reg, lc, hds, back, run, ctxDone>>

(* Run has returned, and nothing of the peer is left.                        *)
Finished == run = "returned" /\ reader.pc = "idle" /\ events.pc = "idle" /\ UNCHANGED vars

Next ==
  \/ Loop \/ StopFallback \/ Reader \/ OpenAcked \/ ResumeAcked \/ Events
  \/ StallNoticed \/ Dialer \/ Run \/ Cancel \/ PeerChanges \/ Finished

Spec == Init /\ [][Next]_vars

(* Every goroutine goes on while it can; answers come; packets keep coming,  *)
(* so that a stall is noticed.  No bounded event has to happen, and nothing  *)
(* obliges a relay connection to end.                                       *)
Fairness ==
  /\ WF_vars(Loop /\ UNCHANGED spent) /\ WF_vars(StopFallback) /\ WF_vars(Run)
  /\ WF_vars(Reader /\ UNCHANGED spent) /\ WF_vars(Events /\ UNCHANGED spent)
  /\ WF_vars(OpenAcked /\ UNCHANGED spent) /\ WF_vars(ResumeAcked)
  /\ WF_vars(StallNoticed) /\ WF_vars(dialer # "hold" /\ Dialer)

FairSpec == Spec /\ Fairness

-----------------------------------------------------------------------------
(* Properties                                                               *)

(* Packets go to the port the loop has now, and only while it serves it,     *)
(* whatever the handlers of a former port still do: the outlet that one      *)
(* runStream leaves is gone before the next one registers.                   *)
OutletIsCurrentPort ==
  active # None =>
    active = lc.port /\ streamPorts = lc.port /\ lc.pc \in ServeSteps \cup {"leave"}

(* A port that is not closed is the one of the loop: every runStream closes  *)
(* its own, so that no writer outlives it, and Register finds none to close. *)
OnlyCurrentPortOpen ==
  /\ \A p \in Ports : ~ports[p].done => p = lc.port
  /\ streamPorts # None => streamPorts = lc.port

(* One port of the peer at a time, in the maps and out of them.              *)
OnePortAtATime == OutletIsCurrentPort /\ OnlyCurrentPortOpen

(* Only the cancelled context ends the loop: a restart that the peer asks    *)
(* for is never taken for a stop, wherever it meets runStream.               *)
LoopStaysUntilCancelled ==
  lc.result = "Stopped" \/ lc.pc \in {"stop", "await", "ended"} => ctxDone

(* The dial loop does not outlive streamLoop, nor streamLoop Run.            *)
FallbackEndsFirst ==
  /\ lc.pc = "ended" => dialer \in {"off", "ended"}
  /\ run = "returned" => lc.pc = "ended"

(* The ends come in order: the context, the dial loop, streamLoop, Run.      *)
EndsInOrder == LoopStaysUntilCancelled /\ FallbackEndsFirst

(* Whatever was lost, restarted, refused or preferred before: once the       *)
(* sessions of the peer stay what they are and the faults end, a peer that   *)
(* has a session gets an outlet on one of them and keeps it.                 *)
Served == active # None /\ ports[active].up /\ ports[active].target \in alive

StreamComesBack == <>[](ctxDone \/ alive = {} \/ Served)

(* A cancelled loop ends, except when the dial loop got a relay connection   *)
(* after closePorts had looked and holds on to it.                           *)
LateDial == run = "wait" /\ dialer = "hold"

LoopEnds == ctxDone ~> run = "returned" \/ LateDial

=============================================================================
