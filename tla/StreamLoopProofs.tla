-------------------------- MODULE StreamLoopProofs --------------------------
(***************************************************************************)
(* What StreamLoop keeps, for any number of ports, sessions and events.     *)
(*                                                                         *)
(* The invariant says who holds what: the loop has a port exactly between  *)
(* its registration and its close, streamPorts is that port until it is    *)
(* taken out, the outlet is that port while it is served, every other port *)
(* is closed, and the port itself is closed early only by a restart.       *)
(*                                                                         *)
(* Most steps of the loop stay with a registered port (Inside), move       *)
(* without one (Between), or belong to others (Beside); a lemma for each   *)
(* kind keeps the invariant, and each action is shown to be of its kind.   *)
(***************************************************************************)
EXTENDS StreamLoop, FiniteSetTheorems, TLAPS

PortIsHeld ==
  lc.port # None <=> lc.pc \in RegisteredSteps \cup {"close"}
RegisteredWhileHeld ==
  streamPorts = IF lc.pc \in RegisteredSteps THEN lc.port ELSE None
OthersClosed == \A p \in Ports : ~ports[p].done => p = lc.port
OutletServed ==
  active # None =>
    active = lc.port /\ lc.serving /\ lc.pc \in {"serve", "deactivate", "leave"}
ClosedForRestart ==
  lc.pc \in RegisteredSteps /\ ports[lc.port].done => ports[lc.port].restart
ReaderHolds ==
  /\ reader.pc # "idle" => reader.port \in Ports
  /\ reader.pc = "close" => reader.port = streamPorts /\ ports[reader.port].restart
CandidateLeft ==
  lc.pc \in {"sendOpen", "waitOpen", "sendResume", "waitResume", "replay"} => lc.cands # << >>
EventsHold == events.pc # "idle" => events.port \in Ports

Holds ==
  /\ PortIsHeld /\ RegisteredWhileHeld /\ OthersClosed /\ OutletServed
  /\ ClosedForRestart /\ ReaderHolds /\ EventsHold /\ CandidateLeft
Ends == LoopStaysUntilCancelled /\ FallbackEndsFirst

LoopInv == TypeOK /\ Holds /\ Ends

(* What a port has of its life, its restart and its close, stays.            *)
LifeKept ==
  /\ ports' \in [Ports -> Port]
  /\ \A p \in Ports : ports'[p].done = ports[p].done /\ ports'[p].restart = ports[p].restart

Beyond == UNCHANGED <<hds, back, run, ctxDone, net>>

Inside ==
  /\ lc.pc \in RegisteredSteps /\ lc'.pc \in RegisteredSteps
  /\ lc' \in LoopState /\ lc'.port = lc.port
  /\ lc'.serving => lc'.pc \in {"serve", "deactivate", "leave", "unregister"}
  /\ lc'.result = "Stopped" => ctxDone \/ lc.result = "Stopped"
  /\ CandidateLeft'
  /\ LifeKept
  /\ \/ active' = None
     \/ active' = active /\ lc'.serving = lc.serving
        /\ (lc.pc = "serve" => lc'.pc \in {"serve", "deactivate", "leave"})
        /\ lc.pc \notin {"deactivate", "leave"}
     \/ active' = lc.port /\ lc'.serving /\ lc'.pc = "serve"
  /\ streamPorts' = streamPorts /\ preferred' \in Sessions \cup {None}
  /\ spent' \in 0 .. MaxEvents

LEMMA InsideKeeps == LoopInv /\ Inside /\ Beyond => LoopInv'
<1> SUFFICES ASSUME LoopInv, Inside, Beyond PROVE LoopInv'
  OBVIOUS
<1>1. lc.port \in Ports
  BY DEF LoopInv, Holds, PortIsHeld, TypeOK, Inside, LoopState
<1>2. TypeOK'
  BY <1>1 DEF LoopInv, TypeOK, Inside, Beyond, hds, back, net, LifeKept
<1>3. PortIsHeld' /\ RegisteredWhileHeld' /\ OthersClosed' /\ EventsHold'
  BY DEF LoopInv, Holds, Inside, Beyond, hds, PortIsHeld, RegisteredWhileHeld,
         OthersClosed, EventsHold, LifeKept
<1>4. OutletServed'
  BY DEF LoopInv, Holds, Inside, OutletServed
<1>5. ClosedForRestart' /\ ReaderHolds'
  BY <1>1 DEF LoopInv, Holds, Inside, Beyond, hds, ClosedForRestart, ReaderHolds, LifeKept
<1>6. Ends'
  <2>1. lc'.pc \notin {"stop", "await", "ended"}
    BY DEF Inside, RegisteredSteps, OpenSteps, ServeSteps
  <2>2. run # "returned"
    BY DEF LoopInv, Ends, FallbackEndsFirst, Inside, RegisteredSteps, OpenSteps, ServeSteps
  <2> QED
    BY <2>1, <2>2 DEF LoopInv, Ends, Inside, Beyond, back, LoopStaysUntilCancelled,
                      FallbackEndsFirst
<1> QED
  BY <1>2, <1>3, <1>4, <1>5, <1>6 DEF LoopInv, Holds, Inside

-----------------------------------------------------------------------------
(* How lc and a port's record change.                                       *)

LEMMA SetKeeps ==
  ASSUME TypeOK, NEW p \in Ports, NEW path \in Port, Set(p, path),
         path.done = ports[p].done, path.restart = ports[p].restart
  PROVE  LifeKept
BY DEF TypeOK, Set, LifeKept

LEMMA FailedKeeps ==
  ASSUME NEW path \in Port
  PROVE  /\ Failed(path) \in Port
         /\ Failed(path).done = path.done /\ Failed(path).restart = path.restart
BY DEF Port, Failed

Steps == IdleSteps \cup RegisteredSteps \cup {"close"}

LEMMA Gone ==
  ASSUME lc \in LoopState, NEW step \in Steps, Goto(step)
  PROVE  /\ lc' \in LoopState /\ lc'.pc = step /\ lc'.port = lc.port
         /\ lc'.cands = lc.cands /\ lc'.serving = lc.serving /\ lc'.result = lc.result
BY DEF LoopState, Goto, Steps

LEMMA TriedNext ==
  ASSUME lc \in LoopState, lc.cands # << >>, NEW step \in Steps, NextCandidate(step)
  PROVE  /\ lc' \in LoopState /\ lc'.pc = step /\ lc'.port = lc.port
         /\ lc'.serving = lc.serving /\ lc'.result = lc.result
<1>1. Tail(lc.cands) \in Seq(Sessions) BY DEF LoopState
<1> QED BY <1>1 DEF LoopState, NextCandidate, Steps

LEMMA Returned ==
  ASSUME lc \in LoopState, NEW result \in Results, Return(result)
  PROVE  /\ lc' \in LoopState /\ lc'.pc = "leave" /\ lc'.port = lc.port
         /\ lc'.serving = lc.serving /\ lc'.result = result
<1>1. << >> \in Seq(Sessions)
  OBVIOUS
<1> QED BY <1>1 DEF LoopState, Return, RegisteredSteps

LEMMA OrdersAreSeqs ==
  ASSUME NEW S \in SUBSET Sessions, NEW order \in Orders(S)
  PROVE  order \in Seq(Sessions)
<1>1. Cardinality(S) \in Nat BY SessionsAssumption, FS_Subset, FS_CardinalityType
<1> QED BY <1>1 DEF Orders

LEMMA Holding ==
  ASSUME LoopInv, lc.pc \in RegisteredSteps
  PROVE  /\ TypeOK /\ lc \in LoopState /\ lc.port \in Ports /\ Mine \in Port
         /\ lc.serving => lc.pc \in {"serve", "deactivate", "leave", "unregister"}
         /\ lc.pc \notin {"serve", "deactivate", "leave"} => active = None
         /\ active # None => active = lc.port /\ lc.serving
         /\ streamPorts = lc.port
         /\ Mine.done => Mine.restart
         /\ lc.result = "Stopped" => ctxDone
         /\ spent \in 0 .. MaxEvents /\ preferred \in Sessions \cup {None}
         /\ CandidateLeft
<1>1. lc.port \in Ports
  BY DEF LoopInv, TypeOK, LoopState, Holds, PortIsHeld
<1>2. lc.pc # "close"
  BY DEF RegisteredSteps, OpenSteps, ServeSteps
<1> QED
  BY <1>1, <1>2 DEF LoopInv, TypeOK, Holds, OutletServed, RegisteredWhileHeld, ClosedForRestart,
              Ends, LoopStaysUntilCancelled, Mine

-----------------------------------------------------------------------------
(* The steps of the loop that stay with the registered port.                 *)

LEMMA Spending == ASSUME spent \in 0 .. MaxEvents, Spend PROVE spent' \in 0 .. MaxEvents
BY BoundAssumption DEF Spend

LEMMA BeginOpenInside == LoopInv /\ BeginOpen => Inside
<1> SUFFICES ASSUME LoopInv, BeginOpen PROVE Inside
  OBVIOUS
<1> USE DEF RegisteredSteps, OpenSteps, ServeSteps
<1>1. lc.pc = "open" /\ lc.pc \in RegisteredSteps
  BY DEF BeginOpen
<1>2. CASE lc.cands = << >> /\ Goto("exhausted") /\ UNCHANGED ports
  BY <1>1, <1>2, Holding, Gone DEF BeginOpen, Inside, LifeKept, Steps, reg, TypeOK, CandidateLeft
<1>3. CASE lc.cands # << >> /\ Goto("sendOpen") /\ Set(lc.port, [Mine EXCEPT !.target = Head(lc.cands), !.up = FALSE, !.opened = FALSE, !.failed = FALSE])
  <2>1. Head(lc.cands) \in Sessions
    BY <1>1, <1>3, Holding DEF LoopState
  <2>2. LifeKept
    <3> DEFINE path == [Mine EXCEPT !.target = Head(lc.cands), !.up = FALSE, !.opened = FALSE, !.failed = FALSE]
    <3>1. path \in Port /\ path.done = Mine.done /\ path.restart = Mine.restart
      BY <1>1, <2>1, Holding DEF Port
    <3> HIDE DEF path
    <3> QED BY <1>1, <1>3, <3>1, Holding, SetKeeps DEF Mine, path
  <2> QED
    BY <1>1, <1>3, <2>2, Holding, Gone DEF BeginOpen, Inside, Steps, reg, CandidateLeft
<1> QED BY <1>2, <1>3 DEF BeginOpen

LEMMA SendOpenInside == LoopInv /\ SendOpen => Inside
<1> SUFFICES ASSUME LoopInv, SendOpen PROVE Inside
  OBVIOUS
<1> USE DEF RegisteredSteps, OpenSteps, ServeSteps
<1>1. lc.pc = "sendOpen" /\ lc.pc \in RegisteredSteps /\ spent' \in 0 .. MaxEvents
  BY Holding, Spending DEF SendOpen
<1>2. Goto("waitOpen") \/ NextCandidate("open")
  BY DEF SendOpen
<1> QED
  BY <1>1, <1>2, Holding, Gone, TriedNext
  DEF SendOpen, Inside, LifeKept, Steps, reg, TypeOK, CandidateLeft

LEMMA ReturnsInside ==
  ASSUME LoopInv, lc.pc \in {"waitOpen", "serve"}, ReturnsWhenClosed, spent' \in 0 .. MaxEvents,
         UNCHANGED <<ports, reg>>
  PROVE  Inside
<1> USE DEF RegisteredSteps, OpenSteps, ServeSteps
<1>1. PICK result \in {"Restart", "Stopped"} : Return(result) /\ (result = "Stopped" => ctxDone)
  BY Holding DEF ReturnsWhenClosed
<1> QED
  BY <1>1, Holding, Returned DEF Inside, LifeKept, Steps, reg, TypeOK, CandidateLeft, Results

LEMMA WaitOpenInside == LoopInv /\ WaitOpen => Inside
<1> SUFFICES ASSUME LoopInv, WaitOpen PROVE Inside
  OBVIOUS
<1> USE DEF RegisteredSteps, OpenSteps, ServeSteps
<1>1. lc.pc = "waitOpen" /\ lc.pc \in RegisteredSteps /\ spent' \in 0 .. MaxEvents
  BY Holding, Spending DEF WaitOpen
<1>2. Goto("activate") \/ NextCandidate("open") \/ ReturnsWhenClosed
  BY DEF WaitOpen
<1>3. CASE ReturnsWhenClosed
  BY <1>1, <1>3, ReturnsInside DEF WaitOpen
<1>4. CASE Goto("activate") \/ NextCandidate("open")
  BY <1>1, <1>4, Holding, Gone, TriedNext
  DEF WaitOpen, Inside, LifeKept, Steps, reg, TypeOK, CandidateLeft
<1> QED BY <1>2, <1>3, <1>4

LEMMA DropFailedPreferenceInside == LoopInv /\ DropFailedPreference => Inside
<1> SUFFICES ASSUME LoopInv, DropFailedPreference PROVE Inside
  OBVIOUS
<1> USE DEF RegisteredSteps, OpenSteps, ServeSteps
<1>1. lc.pc = "exhausted" /\ lc.pc \in RegisteredSteps
  BY DEF DropFailedPreference
<1> QED
  BY <1>1, Holding, Returned
  DEF DropFailedPreference, Inside, LifeKept, Steps, reg, TypeOK, CandidateLeft, Results

LEMMA ActivateStreamInside == LoopInv /\ ActivateStream => Inside
<1> SUFFICES ASSUME LoopInv, ActivateStream PROVE Inside
  OBVIOUS
<1> USE DEF RegisteredSteps, OpenSteps, ServeSteps
<1>1. lc.pc \in {"activate", "reactivate"} /\ lc.pc \in RegisteredSteps
  BY DEF ActivateStream
<1>2. lc' \in LoopState /\ lc'.pc = "serve" /\ lc'.port = lc.port /\ lc'.serving
      /\ lc'.result = lc.result
  <2>1. << >> \in Seq(Sessions)
    OBVIOUS
  <2> QED BY <1>1, <2>1, Holding DEF ActivateStream, LoopState
<1> QED
  BY <1>1, <1>2, Holding DEF ActivateStream, Inside, LifeKept, Steps, reg, TypeOK, CandidateLeft

LEMMA ServeInside == LoopInv /\ Serve => Inside
<1> SUFFICES ASSUME LoopInv, Serve PROVE Inside
  OBVIOUS
<1> USE DEF RegisteredSteps, OpenSteps, ServeSteps
<1>1. lc.pc = "serve" /\ lc.pc \in RegisteredSteps
  BY DEF Serve
<1>2. CASE ReturnsWhenClosed /\ UNCHANGED ports
  BY <1>1, <1>2, Holding, ReturnsInside DEF Serve
<1>3. CASE Goto("deactivate") /\ Set(lc.port, [Mine EXCEPT !.lost = FALSE])
  <2>1. LifeKept
    <3> DEFINE path == [Mine EXCEPT !.lost = FALSE]
    <3>1. path \in Port /\ path.done = Mine.done /\ path.restart = Mine.restart
      BY <1>1, Holding DEF Port
    <3> HIDE DEF path
    <3> QED BY <1>1, <1>3, <3>1, Holding, SetKeeps DEF Mine, path
  <2> QED
    BY <1>1, <1>3, <2>1, Holding, Gone DEF Serve, Inside, Steps, reg, CandidateLeft
<1> QED BY <1>2, <1>3 DEF Serve

LEMMA DeactivateLostInside == LoopInv /\ DeactivateLost => Inside
<1> SUFFICES ASSUME LoopInv, DeactivateLost PROVE Inside
  OBVIOUS
<1> USE DEF RegisteredSteps, OpenSteps, ServeSteps
<1>1. lc.pc = "deactivate" /\ lc.pc \in RegisteredSteps
  BY DEF DeactivateLost
<1>2. lc' \in LoopState /\ lc'.pc = "recover" /\ lc'.port = lc.port /\ ~lc'.serving
      /\ lc'.result = lc.result
  BY <1>1, Holding DEF DeactivateLost, LoopState
<1> QED
  BY <1>1, <1>2, Holding DEF DeactivateLost, Outlet, Inside, LifeKept, Steps, reg, TypeOK, CandidateLeft

LEMMA GiveUpInside ==
  ASSUME LoopInv, lc.pc \in {"recover", "resume", "waitResume"}, GiveUp, spent' \in 0 .. MaxEvents,
         UNCHANGED <<ports, reg>>
  PROVE  Inside
<1> USE DEF RegisteredSteps, OpenSteps, ServeSteps
<1>1. PICK result \in {"Restart", "Stopped"} : Return(result) /\ (result = "Stopped" => ctxDone)
  BY DEF GiveUp
<1> QED
  BY <1>1, Holding, Returned DEF Inside, LifeKept, Steps, reg, TypeOK, CandidateLeft, Results

LEMMA RecoverInside == LoopInv /\ Recover => Inside
<1> SUFFICES ASSUME LoopInv, Recover PROVE Inside
  OBVIOUS
<1> USE DEF RegisteredSteps, OpenSteps, ServeSteps
<1>1. lc.pc = "recover" /\ lc.pc \in RegisteredSteps /\ spent' \in 0 .. MaxEvents
  BY Holding, Spending DEF Recover
<1>2. CASE GiveUp
  BY <1>1, <1>2, GiveUpInside DEF Recover
<1>3. CASE \E order \in Orders(alive) : lc' = [lc EXCEPT !.pc = "resume", !.cands = order]
  <2>1. PICK order \in Orders(alive) : lc' = [lc EXCEPT !.pc = "resume", !.cands = order]
    BY <1>3
  <2>2. order \in Seq(Sessions)
    BY <1>1, Holding, OrdersAreSeqs DEF TypeOK
  <2>3. lc' \in LoopState /\ lc'.pc = "resume" /\ lc'.port = lc.port
        /\ lc'.serving = lc.serving /\ lc'.result = lc.result
    BY <1>1, <2>1, <2>2, Holding DEF LoopState
  <2> QED
    BY <1>1, <2>3, Holding DEF Recover, Inside, LifeKept, Steps, reg, TypeOK, CandidateLeft
<1> QED BY <1>2, <1>3 DEF Recover

LEMMA BeginResumeInside == LoopInv /\ BeginResume => Inside
<1> SUFFICES ASSUME LoopInv, BeginResume PROVE Inside
  OBVIOUS
<1> USE DEF RegisteredSteps, OpenSteps, ServeSteps
<1>1. lc.pc = "resume" /\ lc.pc \in RegisteredSteps
  BY DEF BeginResume
<1>2. CASE GiveUp /\ UNCHANGED ports
  BY <1>1, <1>2, Holding, GiveUpInside DEF BeginResume
<1>3. CASE lc.cands # << >> /\ Goto("sendResume") /\ Set(lc.port, [Mine EXCEPT !.target = Head(lc.cands), !.up = FALSE, !.resumed = TRUE, !.answered = FALSE, !.failed = FALSE])
  <2>1. Head(lc.cands) \in Sessions
    BY <1>1, <1>3, Holding DEF LoopState
  <2>2. LifeKept
    <3> DEFINE path == [Mine EXCEPT !.target = Head(lc.cands), !.up = FALSE, !.resumed = TRUE, !.answered = FALSE, !.failed = FALSE]
    <3>1. path \in Port /\ path.done = Mine.done /\ path.restart = Mine.restart
      BY <1>1, <2>1, Holding DEF Port
    <3> HIDE DEF path
    <3> QED BY <1>1, <1>3, <3>1, Holding, SetKeeps DEF Mine, path
  <2> QED
    BY <1>1, <1>3, <2>2, Holding, Gone DEF BeginResume, Inside, Steps, reg, CandidateLeft
<1> QED BY <1>2, <1>3 DEF BeginResume

LEMMA SendResumeInside == LoopInv /\ SendResume => Inside
<1> SUFFICES ASSUME LoopInv, SendResume PROVE Inside
  OBVIOUS
<1> USE DEF RegisteredSteps, OpenSteps, ServeSteps
<1>1. lc.pc = "sendResume" /\ lc.pc \in RegisteredSteps /\ spent' \in 0 .. MaxEvents
  BY Holding, Spending DEF SendResume
<1>2. Goto("waitResume") \/ NextCandidate("resume")
  BY DEF SendResume
<1> QED
  BY <1>1, <1>2, Holding, Gone, TriedNext
  DEF SendResume, Inside, LifeKept, Steps, reg, TypeOK, CandidateLeft

LEMMA WaitResumeInside == LoopInv /\ WaitResume => Inside
<1> SUFFICES ASSUME LoopInv, WaitResume PROVE Inside
  OBVIOUS
<1> USE DEF RegisteredSteps, OpenSteps, ServeSteps
<1>1. lc.pc = "waitResume" /\ lc.pc \in RegisteredSteps /\ spent' \in 0 .. MaxEvents
  BY Holding, Spending DEF WaitResume
<1>2. Goto("replay") \/ NextCandidate("resume") \/ GiveUp
  BY DEF WaitResume
<1>3. CASE GiveUp
  BY <1>1, <1>3, GiveUpInside DEF WaitResume
<1>4. CASE Goto("replay") \/ NextCandidate("resume")
  BY <1>1, <1>4, Holding, Gone, TriedNext
  DEF WaitResume, Inside, LifeKept, Steps, reg, TypeOK, CandidateLeft
<1> QED BY <1>2, <1>3, <1>4

LEMMA CompleteResumeInside == LoopInv /\ CompleteResume => Inside
<1> SUFFICES ASSUME LoopInv, CompleteResume PROVE Inside
  OBVIOUS
<1> USE DEF RegisteredSteps, OpenSteps, ServeSteps
<1>1. lc.pc = "replay" /\ lc.pc \in RegisteredSteps /\ spent' \in 0 .. MaxEvents
  BY Holding, Spending DEF CompleteResume
<1>2. CASE Goto("reactivate") /\ Set(lc.port, [Mine EXCEPT !.up = TRUE])
  <2>1. LifeKept
    <3> DEFINE path == [Mine EXCEPT !.up = TRUE]
    <3>1. path \in Port /\ path.done = Mine.done /\ path.restart = Mine.restart
      BY <1>1, Holding DEF Port
    <3> HIDE DEF path
    <3> QED BY <1>1, <1>2, <3>1, Holding, SetKeeps DEF Mine, path
  <2> QED
    BY <1>1, <1>2, <2>1, Holding, Gone DEF CompleteResume, Inside, Steps, reg, CandidateLeft
<1>3. CASE NextCandidate("resume") /\ UNCHANGED ports
  BY <1>1, <1>3, Holding, TriedNext
  DEF CompleteResume, Inside, LifeKept, Steps, reg, TypeOK, CandidateLeft
<1> QED BY <1>2, <1>3 DEF CompleteResume

LEMMA LeaveOutletInside == LoopInv /\ LeaveOutlet => Inside
<1> SUFFICES ASSUME LoopInv, LeaveOutlet PROVE Inside
  OBVIOUS
<1> USE DEF RegisteredSteps, OpenSteps, ServeSteps
<1>1. lc.pc = "leave" /\ lc.pc \in RegisteredSteps
  BY DEF LeaveOutlet
<1>2. active' = None
  BY <1>1, Holding DEF LeaveOutlet, Outlet
<1> QED
  BY <1>1, <1>2, Holding, Gone
  DEF LeaveOutlet, Inside, LifeKept, Steps, reg, TypeOK, CandidateLeft

-----------------------------------------------------------------------------
(* The steps of the loop without a port.                                    *)

Between ==
  /\ lc.pc \in IdleSteps \ {"ended"} /\ lc'.pc \in IdleSteps \ {"ended"}
  /\ lc' \in LoopState /\ lc'.port = lc.port /\ lc'.serving = lc.serving
  /\ lc'.result = lc.result
  /\ lc'.pc \in {"stop", "await"} => ctxDone
  /\ UNCHANGED <<ports, streamPorts, active, preferred, hds, dialer, run, ctxDone, net>>
  /\ dialCancelled' \in BOOLEAN /\ spent' \in 0 .. MaxEvents

LEMMA BetweenKeeps == LoopInv /\ Between => LoopInv'
<1> SUFFICES ASSUME LoopInv, Between PROVE LoopInv'
  OBVIOUS
<1> USE DEF IdleSteps, RegisteredSteps, OpenSteps, ServeSteps
<1>1. lc.port = None /\ active = None /\ streamPorts = None /\ ~lc.serving
  BY DEF LoopInv, TypeOK, LoopState, Holds, PortIsHeld, OutletServed, RegisteredWhileHeld, Between
<1>2. TypeOK'
  BY <1>1 DEF LoopInv, TypeOK, Between, hds, net
<1>3. Holds'
  BY <1>1 DEF LoopInv, Holds, Between, hds, PortIsHeld, RegisteredWhileHeld, OthersClosed,
              OutletServed, ClosedForRestart, ReaderHolds, EventsHold, CandidateLeft
<1>4. Ends'
  BY DEF LoopInv, Ends, Between, LoopStaysUntilCancelled, FallbackEndsFirst
<1> QED
  BY <1>2, <1>3, <1>4 DEF LoopInv

LEMMA Waiting ==
  ASSUME LoopInv
  PROVE  /\ lc \in LoopState /\ spent \in 0 .. MaxEvents /\ dialCancelled \in BOOLEAN
         /\ preferred \in Sessions \cup {None} /\ alive \in SUBSET Sessions
         /\ lc.pc \in {"stop", "await", "ended"} \/ lc.result = "Stopped" => ctxDone
BY DEF LoopInv, TypeOK, Ends, LoopStaysUntilCancelled

LEMMA LoopTopBetween == LoopInv /\ LoopTop /\ Beyond => Between
BY Waiting, Gone DEF LoopTop, Beyond, Between, IdleSteps, Steps, reg, back

LEMMA ChooseCandidatesBetween == LoopInv /\ ChooseCandidates /\ Beyond => Between
<1> SUFFICES ASSUME LoopInv, ChooseCandidates, Beyond PROVE Between
  OBVIOUS
<1>1. CASE preferred = None
  <2>1. lc' \in LoopState /\ lc'.pc = "resolve" /\ lc'.port = lc.port
        /\ lc'.serving = lc.serving /\ lc'.result = lc.result
    BY <1>1, Waiting DEF ChooseCandidates, LoopState, IdleSteps
  <2> QED
    BY <2>1, Waiting DEF ChooseCandidates, Beyond, Between, IdleSteps, reg, back
<1>2. CASE preferred # None
  <2>1. <<preferred>> \in Seq(Sessions)
    BY <1>2, Waiting
  <2>2. lc' \in LoopState /\ lc'.pc = "register" /\ lc'.port = lc.port
        /\ lc'.serving = lc.serving /\ lc'.result = lc.result
    BY <1>2, <2>1, Waiting DEF ChooseCandidates, LoopState, IdleSteps
  <2> QED
    BY <2>2, Waiting DEF ChooseCandidates, Beyond, Between, IdleSteps, reg, back
<1> QED BY <1>1, <1>2

LEMMA ResolveBetween == LoopInv /\ Resolve /\ Beyond => Between
<1> SUFFICES ASSUME LoopInv, Resolve, Beyond PROVE Between
  OBVIOUS
<1>1. spent' \in 0 .. MaxEvents /\ lc.pc = "resolve" /\ UNCHANGED <<ports, reg>>
  BY Waiting, Spending DEF Resolve
<1>2. CASE Goto("sleep")
  BY <1>1, <1>2, Waiting, Gone DEF Beyond, Between, IdleSteps, Steps, reg, back
<1>3. CASE \E order \in Orders(alive) : lc' = [lc EXCEPT !.pc = "register", !.cands = order]
  <2>1. PICK order \in Orders(alive) : lc' = [lc EXCEPT !.pc = "register", !.cands = order]
    BY <1>3
  <2>2. order \in Seq(Sessions)
    BY Waiting, OrdersAreSeqs
  <2>3. lc' \in LoopState /\ lc'.pc = "register" /\ lc'.port = lc.port
        /\ lc'.serving = lc.serving /\ lc'.result = lc.result
    BY <2>1, <2>2, Waiting DEF LoopState, IdleSteps
  <2> QED
    BY <1>1, <2>3, Waiting DEF Beyond, Between, IdleSteps, reg, back
<1> QED BY <1>2, <1>3 DEF Resolve

LEMMA SleepBetween == LoopInv /\ Sleep /\ Beyond => Between
BY Waiting, Gone DEF Sleep, Beyond, Between, IdleSteps, Steps, reg, back

LEMMA CancelFallbackBetween ==
  LoopInv /\ CancelFallback /\ UNCHANGED <<ports, reg, hds, run, ctxDone, net, spent>> => Between
BY Waiting, Gone DEF CancelFallback, Between, IdleSteps, Steps, reg

-----------------------------------------------------------------------------
(* The four steps that take up or give up the port, or end the loop.         *)

LEMMA RegisterKeeps == LoopInv /\ Register /\ Beyond => LoopInv'
<1> SUFFICES ASSUME LoopInv, Register, Beyond PROVE LoopInv'
  OBVIOUS
<1>1. spent' \in 0 .. MaxEvents /\ lc.pc = "register" /\ UNCHANGED <<active, preferred>>
  BY Waiting, Spending DEF Register
<1>2. CASE Goto("sleep") /\ UNCHANGED <<ports, streamPorts>>
  <2>1. Between
    BY <1>1, <1>2, Waiting, Gone DEF Beyond, Between, IdleSteps, Steps, back
  <2> QED BY <2>1, BetweenKeeps
<1>3. ASSUME NEW p \in Ports \ Referenced,
             ports' = [q \in Ports |-> IF q = p THEN NewPort
                                      ELSE IF q = streamPorts THEN [ports[q] EXCEPT !.done = TRUE]
                                      ELSE ports[q]],
             streamPorts' = p, lc' = [lc EXCEPT !.pc = "open", !.port = p]
      PROVE  LoopInv'
  <2> USE DEF IdleSteps, RegisteredSteps, OpenSteps, ServeSteps
  <2>1. lc.pc = "register" /\ lc.port = None /\ active = None /\ streamPorts = None
        /\ ~lc.serving
    BY DEF Register, LoopInv, TypeOK, LoopState, Holds, PortIsHeld, OutletServed,
           RegisteredWhileHeld
  <2>2. lc' \in LoopState /\ lc'.pc = "open" /\ lc'.port = p /\ ~lc'.serving
        /\ lc'.result = lc.result
    BY <1>3, <2>1, Waiting DEF LoopState
  <2>3. NewPort \in Port /\ ~NewPort.done
    BY DEF NewPort, Port
  <2>4. /\ ports' \in [Ports -> Port] /\ ports'[p] = NewPort
        /\ \A q \in Ports : q # p => ports'[q] = ports[q]
    BY <1>3, <2>1, <2>3, NoneAssumption DEF LoopInv, TypeOK
  <2>5. TypeOK'
    BY <1>1, <1>3, <2>1, <2>2, <2>4 DEF LoopInv, TypeOK, Beyond, hds, back, net
  <2>6. PortIsHeld' /\ RegisteredWhileHeld' /\ OutletServed' /\ CandidateLeft'
    BY <1>1, <1>3, <2>1, <2>2, NoneAssumption
    DEF PortIsHeld, RegisteredWhileHeld, OutletServed, CandidateLeft
  <2>7. OthersClosed' /\ ClosedForRestart'
    BY <1>3, <2>1, <2>2, <2>3, <2>4, NoneAssumption
    DEF LoopInv, Holds, OthersClosed, ClosedForRestart
  <2>8. ReaderHolds' /\ EventsHold'
    BY <1>3, <2>1 DEF LoopInv, Holds, ReaderHolds, EventsHold, Register, StreamMuFree, Beyond, hds
  <2>9. Ends'
    BY <2>1, <2>2 DEF LoopInv, Ends, Beyond, back, LoopStaysUntilCancelled, FallbackEndsFirst
  <2> QED
    BY <2>5, <2>6, <2>7, <2>8, <2>9 DEF LoopInv, Holds
<1>4. PICK p : p = CHOOSE q \in Ports \ Referenced : TRUE
  OBVIOUS
<1>5. Ports \ Referenced # {} => p \in Ports \ Referenced
  BY <1>4
<1>6. CASE Goto("sleep") /\ UNCHANGED <<ports, streamPorts>>
  BY <1>2, <1>6
<1>7. CASE ~(Goto("sleep") /\ UNCHANGED <<ports, streamPorts>>)
  <2>1. /\ Ports \ Referenced # {}
        /\ ports' = [q \in Ports |-> IF q = p THEN NewPort
                                     ELSE IF q = streamPorts THEN [ports[q] EXCEPT !.done = TRUE]
                                     ELSE ports[q]]
        /\ streamPorts' = p /\ lc' = [lc EXCEPT !.pc = "open", !.port = p]
    BY <1>4, <1>7, Zenon DEF Register
  <2> QED BY <1>3, <1>5, <2>1
<1> QED BY <1>6, <1>7

LEMMA UnregisterKeeps == LoopInv /\ Unregister /\ Beyond => LoopInv'
<1> SUFFICES ASSUME LoopInv, Unregister, Beyond PROVE LoopInv'
  OBVIOUS
<1> USE DEF RegisteredSteps, OpenSteps, ServeSteps
<1>1. lc.pc = "unregister" /\ lc.pc \in RegisteredSteps /\ reader.pc # "close"
  BY DEF Unregister, StreamMuFree
<1>2. lc' \in LoopState /\ lc'.pc = "close" /\ lc'.port = lc.port
      /\ lc'.serving = lc.serving /\ lc'.result = lc.result
  BY <1>1, Waiting, Gone DEF Unregister, Steps
<1>3. streamPorts' = None /\ active' = None /\ ports' = ports
  BY <1>1, Holding DEF Unregister
<1>4. TypeOK'
  BY <1>2, <1>3 DEF LoopInv, TypeOK, Unregister, Beyond, hds, back, net
<1>5. Holds'
  BY <1>1, <1>2, <1>3, Holding, NoneAssumption
  DEF LoopInv, Holds, Beyond, hds, PortIsHeld, RegisteredWhileHeld, OthersClosed,
      OutletServed, ClosedForRestart, ReaderHolds, EventsHold, CandidateLeft
<1>6. Ends'
  BY <1>1, <1>2 DEF LoopInv, Ends, Beyond, back, LoopStaysUntilCancelled, FallbackEndsFirst
<1> QED BY <1>4, <1>5, <1>6 DEF LoopInv

LEMMA ClosePortKeeps == LoopInv /\ ClosePort /\ Beyond => LoopInv'
<1> SUFFICES ASSUME LoopInv, ClosePort, Beyond PROVE LoopInv'
  OBVIOUS
<1> USE DEF IdleSteps, RegisteredSteps, OpenSteps, ServeSteps
<1>1. /\ lc.pc = "close" /\ lc.port \in Ports /\ Mine \in Port
      /\ streamPorts = None /\ active = None
  BY DEF ClosePort, LoopInv, TypeOK, LoopState, Holds, PortIsHeld, RegisteredWhileHeld,
         OutletServed, Mine
<1>2. reader.pc # "close"
  BY <1>1, NoneAssumption DEF LoopInv, Holds, ReaderHolds
<1>3. /\ lc' \in LoopState /\ lc'.pc = AfterRun /\ lc'.port = None /\ ~lc'.serving
      /\ lc'.result = "none"
  BY Waiting DEF ClosePort, LoopState, AfterRun, Results
<1>4. AfterRun \in {"top", "sleep", "stop"} /\ (AfterRun = "stop" => ctxDone)
  BY Waiting DEF AfterRun
<1>5. Closed(lc.port) \in Port /\ Closed(lc.port).done
  BY <1>1 DEF Closed, NewPort, Port, Mine
<1>6. /\ ports' \in [Ports -> Port]
      /\ ports'[lc.port].done
      /\ \A p \in Ports : ports[p].done => ports'[p].done
  BY <1>1, <1>5 DEF ClosePort, Set, LoopInv, TypeOK
<1>7. TypeOK'
  BY <1>1, <1>3, <1>6 DEF LoopInv, TypeOK, ClosePort, reg, Beyond, hds, back, net
<1>8. PortIsHeld' /\ RegisteredWhileHeld' /\ OutletServed' /\ CandidateLeft' /\ ClosedForRestart'
  BY <1>1, <1>3, <1>4, NoneAssumption
  DEF ClosePort, reg, PortIsHeld, RegisteredWhileHeld, OutletServed, CandidateLeft, ClosedForRestart
<1>9. OthersClosed' /\ ReaderHolds' /\ EventsHold'
  BY <1>1, <1>2, <1>6, NoneAssumption
  DEF LoopInv, Holds, ClosePort, reg, Beyond, hds, OthersClosed, ReaderHolds, EventsHold
<1>10. Ends'
  BY <1>1, <1>3, <1>4 DEF LoopInv, Ends, Beyond, back, LoopStaysUntilCancelled, FallbackEndsFirst
<1> QED BY <1>7, <1>8, <1>9, <1>10 DEF LoopInv, Holds

LEMMA AwaitFallbackKeeps ==
  LoopInv /\ AwaitFallback /\ UNCHANGED <<ports, reg, hds, run, ctxDone, net, spent>> => LoopInv'
<1> SUFFICES ASSUME LoopInv, AwaitFallback, UNCHANGED <<ports, reg, hds, run, ctxDone, net, spent>>
             PROVE LoopInv'
  OBVIOUS
<1> USE DEF IdleSteps, RegisteredSteps, OpenSteps, ServeSteps
<1>1. lc.pc = "await" /\ lc' \in LoopState /\ lc'.pc = "ended" /\ lc'.port = lc.port
      /\ lc'.serving = lc.serving /\ lc'.result = lc.result
  BY Waiting, Gone DEF AwaitFallback, Steps
<1>2. lc.port = None /\ active = None /\ streamPorts = None /\ ~lc.serving
  BY <1>1 DEF LoopInv, TypeOK, LoopState, Holds, PortIsHeld, OutletServed, RegisteredWhileHeld
<1>3. TypeOK'
  BY <1>1, <1>2 DEF LoopInv, TypeOK, AwaitFallback, reg, hds, back, net
<1>4. Holds'
  BY <1>1, <1>2 DEF LoopInv, Holds, reg, hds, PortIsHeld, RegisteredWhileHeld, OthersClosed,
                    OutletServed, ClosedForRestart, ReaderHolds, EventsHold, CandidateLeft
<1>5. Ends'
  BY <1>1, Waiting DEF LoopInv, Ends, AwaitFallback, back, LoopStaysUntilCancelled, FallbackEndsFirst
<1> QED BY <1>3, <1>4, <1>5 DEF LoopInv

-----------------------------------------------------------------------------
(* The steps of the others. A port is closed by them only for a restart.     *)

LivesOn ==
  \A p \in Ports : /\ ports[p].done => ports'[p].done
                   /\ ports[p].restart => ports'[p].restart
                   /\ ports'[p].done => ports[p].done \/ ports'[p].restart

Beside ==
  /\ TypeOK' /\ ReaderHolds' /\ EventsHold' /\ LivesOn
  /\ lc' = lc /\ streamPorts' = streamPorts /\ active' \in {active, None}
  /\ ctxDone => ctxDone'
  /\ dialer \in {"off", "ended"} => dialer' = dialer
  /\ run' = "returned" => run = "returned" \/ lc.pc = "ended"

LEMMA BesideKeeps == LoopInv /\ Beside => LoopInv'
<1> SUFFICES ASSUME LoopInv, Beside PROVE LoopInv'
  OBVIOUS
<1>1. lc.pc \in RegisteredSteps => lc.port \in Ports
  BY Holding
<1>2. Holds'
  BY <1>1 DEF LoopInv, Holds, Beside, LivesOn, PortIsHeld, RegisteredWhileHeld, OthersClosed,
              OutletServed, ClosedForRestart, CandidateLeft
<1>3. Ends'
  BY DEF LoopInv, Ends, Beside, TypeOK, LoopStaysUntilCancelled, FallbackEndsFirst
<1> QED BY <1>2, <1>3 DEF LoopInv, Beside

LEMMA LifeKeptLivesOn == LifeKept => LivesOn
BY DEF LifeKept, LivesOn

LEMMA Registered ==
  ASSUME LoopInv, streamPorts # None
  PROVE  streamPorts \in Ports /\ streamPorts = lc.port /\ lc.pc \in RegisteredSteps
BY DEF LoopInv, TypeOK, Holds, RegisteredWhileHeld

LEMMA PeerOpensBeside ==
  ASSUME LoopInv, NEW s \in Sessions, PeerOpens(s),
         UNCHANGED <<lc, events, back, run, ctxDone, net>>
  PROVE  Beside
<1>1. spent' \in 0 .. MaxEvents
  BY Waiting, Spending DEF PeerOpens
<1>2. CASE UNCHANGED <<ports, reader>>
  BY <1>1, <1>2 DEF PeerOpens, LoopInv, TypeOK, Holds, ReaderHolds, EventsHold, Beside, LivesOn, hds, back, net, reg
<1>3. CASE /\ streamPorts # None
           /\ Set(streamPorts, [ports[streamPorts] EXCEPT !.restart = TRUE])
           /\ reader' = [pc |-> "close", port |-> streamPorts]
  <2> DEFINE path == [ports[streamPorts] EXCEPT !.restart = TRUE]
  <2>1. streamPorts \in Ports /\ ports[streamPorts] \in Port
    BY <1>3, Registered DEF LoopInv, TypeOK
  <2>2. path \in Port /\ path.restart /\ path.done = ports[streamPorts].done
    BY <2>1 DEF Port
  <2> HIDE DEF path
  <2>3. /\ ports' \in [Ports -> Port] /\ ports'[streamPorts] = path
        /\ \A p \in Ports : p # streamPorts => ports'[p] = ports[p]
    BY <1>3, <2>1, <2>2 DEF Set, LoopInv, TypeOK, path
  <2>4. LivesOn
    BY <2>2, <2>3 DEF LivesOn
  <2> QED
    BY <1>1, <1>3, <2>1, <2>2, <2>3, <2>4 DEF PeerOpens, LoopInv, TypeOK, Holds, ReaderHolds, EventsHold, Beside, hds, back, net, reg
<1> QED BY <1>2, <1>3 DEF PeerOpens

LEMMA CloseForRestartBeside ==
  ASSUME LoopInv, CloseForRestart,
         UNCHANGED <<lc, events, back, run, ctxDone, net>>
  PROVE  Beside
<1> DEFINE path == [ports[reader.port] EXCEPT !.done = TRUE]
<1>1. reader.pc = "close" /\ reader.port \in Ports /\ ports[reader.port] \in Port
      /\ ports[reader.port].restart
  BY DEF CloseForRestart, LoopInv, TypeOK, Holds, ReaderHolds
<1>2. path \in Port /\ path.restart /\ path.done
  BY <1>1 DEF Port
<1> HIDE DEF path
<1>3. /\ ports' \in [Ports -> Port] /\ ports'[reader.port] = path
      /\ \A p \in Ports : p # reader.port => ports'[p] = ports[p]
  BY <1>1, <1>2 DEF CloseForRestart, Set, LoopInv, TypeOK, path
<1>4. LivesOn
  BY <1>2, <1>3 DEF LivesOn
<1> QED
  BY <1>3, <1>4 DEF CloseForRestart, LoopInv, TypeOK, Holds, ReaderHolds, EventsHold, Beside, hds, back, net, reg

LEMMA PeerResumesBeside ==
  ASSUME LoopInv, NEW s \in Sessions, PeerResumes(s),
         UNCHANGED <<lc, events, back, run, ctxDone, net>>
  PROVE  Beside
<1>1. spent' \in 0 .. MaxEvents
  BY Waiting, Spending DEF PeerResumes
<1>2. streamPorts # None => streamPorts \in Ports
  BY Registered
<1>3. reader' = reader \/ (streamPorts # None /\ reader' = [pc |-> "mark", port |-> streamPorts])
  BY DEF PeerResumes
<1> QED
  BY <1>1, <1>2, <1>3 DEF PeerResumes, LoopInv, TypeOK, Holds, ReaderHolds, EventsHold, Beside, LivesOn, hds, back, net, reg

LEMMA MarkLostBeside ==
  ASSUME LoopInv, MarkLost,
         UNCHANGED <<lc, events, back, run, ctxDone, net>>
  PROVE  Beside
<1>1. reader.port \in Ports /\ ports[reader.port] \in Port
  BY DEF MarkLost, LoopInv, TypeOK, Holds, ReaderHolds
<1>2. LifeKept
  BY <1>1, FailedKeeps, SetKeeps DEF MarkLost, LoopInv
<1>3. LivesOn /\ ports' \in [Ports -> Port]
  BY <1>2, LifeKeptLivesOn DEF LifeKept
<1>4. reader' = [pc |-> "check", port |-> reader.port]
  BY DEF MarkLost, LoopInv, TypeOK
<1> QED
  BY <1>1, <1>3, <1>4 DEF MarkLost, LoopInv, TypeOK, Holds, ReaderHolds, EventsHold, Beside, hds, back, net, reg

LEMMA CheckLostBeside ==
  ASSUME LoopInv, CheckLost,
         UNCHANGED <<lc, events, back, run, ctxDone, net>>
  PROVE  Beside
<1>1. active' \in {active, None}
  BY DEF CheckLost, OutletUnless
<1> QED
  BY <1>1 DEF CheckLost, LoopInv, TypeOK, Holds, ReaderHolds, EventsHold, Beside, LivesOn, hds, back, net, reg

LEMMA OpenAckedBeside == ASSUME LoopInv, OpenAcked PROVE Beside
<1> DEFINE path == [ports[streamPorts] EXCEPT !.up = TRUE, !.opened = TRUE]
<1>1. streamPorts \in Ports /\ ports[streamPorts] \in Port
  BY Registered DEF OpenAcked, LoopInv, TypeOK
<1>2. path \in Port /\ path.done = ports[streamPorts].done
      /\ path.restart = ports[streamPorts].restart
  BY <1>1 DEF Port
<1>3. Set(streamPorts, path)
  BY DEF OpenAcked
<1> HIDE DEF path
<1>4. LivesOn /\ ports' \in [Ports -> Port]
  BY <1>1, <1>2, <1>3, SetKeeps, LifeKeptLivesOn DEF LifeKept, LoopInv
<1>5. spent' \in 0 .. MaxEvents
  BY Waiting, Spending DEF OpenAcked
<1> QED
  BY <1>1, <1>4, <1>5 DEF OpenAcked, LoopInv, TypeOK, Holds, ReaderHolds, EventsHold, Beside, hds, back, net, reg

LEMMA ResumeAckedBeside == ASSUME LoopInv, ResumeAcked PROVE Beside
<1> DEFINE path == [Mine EXCEPT !.answered = TRUE]
<1>1. lc.pc \in RegisteredSteps
  BY DEF ResumeAcked, RegisteredSteps, ServeSteps
<1>2. path \in Port /\ path.done = Mine.done /\ path.restart = Mine.restart
  BY <1>1, Holding DEF Port
<1>3. Set(lc.port, path)
  BY DEF ResumeAcked
<1> HIDE DEF path
<1>4. LivesOn /\ ports' \in [Ports -> Port]
  BY <1>1, <1>2, <1>3, Holding, SetKeeps, LifeKeptLivesOn DEF LifeKept, LoopInv, Mine
<1> QED
  BY <1>4 DEF ResumeAcked, LoopInv, TypeOK, Holds, ReaderHolds, EventsHold, Beside, hds, back, net, reg

LEMMA StallNoticedBeside == ASSUME LoopInv, StallNoticed PROVE Beside
<1>1. lc.pc \in RegisteredSteps
  BY DEF StallNoticed, RegisteredSteps
<1>2. LivesOn /\ ports' \in [Ports -> Port]
  BY <1>1, Holding, FailedKeeps, SetKeeps, LifeKeptLivesOn DEF StallNoticed, LifeKept, LoopInv, Mine
<1>3. UNCHANGED <<reg, lc, hds, back, run, ctxDone, net, spent>>
  BY DEF StallNoticed
<1> QED
  BY <1>2, <1>3 DEF LoopInv, TypeOK, Holds, ReaderHolds, EventsHold, Beside, LivesOn, hds, back, net, reg

LEMMA ReportBeside ==
  ASSUME LoopInv, Report,
         UNCHANGED <<lc, reader, back, run, ctxDone, net>>
  PROVE  Beside
<1>1. spent' \in 0 .. MaxEvents /\ streamPorts \in Ports
  BY Waiting, Spending, Registered DEF Report
<1>2. PICK s \in Sessions \cup {None} :
        events' = [pc |-> "mark", port |-> streamPorts, session |-> s]
  BY DEF Report
<1> QED
  BY <1>1, <1>2 DEF Report, LoopInv, TypeOK, Holds, ReaderHolds, EventsHold, Beside, LivesOn, hds, back, net, reg

LEMMA MarkReportedBeside ==
  ASSUME LoopInv, MarkReported,
         UNCHANGED <<lc, reader, back, run, ctxDone, net>>
  PROVE  Beside
<1>1. events.port \in Ports /\ ports[events.port] \in Port
  BY DEF MarkReported, LoopInv, TypeOK, Holds, EventsHold
<1>4. UNCHANGED <<reg, spent>>
  BY DEF MarkReported
<1>2. CASE events' = [events EXCEPT !.pc = "check"] /\ Set(events.port, Failed(ports[events.port]))
  <2>1. LivesOn /\ ports' \in [Ports -> Port]
    BY <1>1, <1>2, FailedKeeps, SetKeeps, LifeKeptLivesOn DEF LifeKept, LoopInv
  <2>2. events' = [pc |-> "check", port |-> events.port, session |-> events.session]
    BY <1>2 DEF LoopInv, TypeOK
  <2> QED
    BY <1>1, <1>4, <2>1, <2>2 DEF LoopInv, TypeOK, Holds, ReaderHolds, EventsHold, Beside, LivesOn, hds, back, net, reg
<1>3. CASE events' = [pc |-> "idle", port |-> None, session |-> None] /\ UNCHANGED ports
  BY <1>3 DEF MarkReported, LoopInv, TypeOK, Holds, ReaderHolds, EventsHold, Beside, LivesOn, hds, back, net, reg
<1> QED BY <1>2, <1>3 DEF MarkReported

LEMMA CheckReportedBeside ==
  ASSUME LoopInv, CheckReported,
         UNCHANGED <<lc, reader, back, run, ctxDone, net>>
  PROVE  Beside
<1>1. active' \in {active, None}
  BY DEF CheckReported, OutletUnless
<1>2. events' = [pc |-> "forget", port |-> events.port, session |-> events.session]
  BY DEF CheckReported, LoopInv, TypeOK
<1> QED
  BY <1>1, <1>2 DEF CheckReported, LoopInv, TypeOK, Holds, ReaderHolds, EventsHold, Beside, LivesOn, hds, back, net, reg

LEMMA ForgetFailedBeside ==
  ASSUME LoopInv, ForgetFailed,
         UNCHANGED <<lc, reader, back, run, ctxDone, net>>
  PROVE  Beside
<1>1. preferred' \in Sessions \cup {None}
  BY Waiting DEF ForgetFailed
<1> QED
  BY <1>1 DEF ForgetFailed, LoopInv, TypeOK, Holds, ReaderHolds, EventsHold, Beside, LivesOn, hds, back, net, reg

LEMMA DialerBeside == ASSUME LoopInv, Dialer PROVE Beside
BY DEF Dialer, DialTop, DialConnect, DialLost, LoopInv, TypeOK, Holds, ReaderHolds, EventsHold, Beside, LivesOn, hds, back, net, reg

LEMMA RunBeside == ASSUME LoopInv, Run PROVE Beside
BY DEF Run, LoopInv, TypeOK, Holds, ReaderHolds, EventsHold, Beside, LivesOn, hds, back, net, reg

LEMMA CancelBeside == ASSUME LoopInv, Cancel PROVE Beside
BY DEF Cancel, LoopInv, TypeOK, Holds, ReaderHolds, EventsHold, Beside, LivesOn, hds, back, net, reg

LEMMA PeerChangesBeside == ASSUME LoopInv, PeerChanges PROVE Beside
<1>1. spent' \in 0 .. MaxEvents
  BY Waiting, Spending DEF PeerChanges
<1> QED
  BY <1>1 DEF PeerChanges, LoopInv, TypeOK, Holds, ReaderHolds, EventsHold, Beside, LivesOn, hds, back, net, reg

LEMMA UnchangedBeside == ASSUME LoopInv, UNCHANGED vars PROVE Beside
BY DEF vars, LoopInv, TypeOK, Holds, ReaderHolds, EventsHold, Beside, LivesOn, hds, back, net, reg

-----------------------------------------------------------------------------
LEMMA InitHolds == Init => LoopInv
<1> SUFFICES ASSUME Init PROVE LoopInv
  OBVIOUS
<1> USE NoneAssumption, BoundAssumption, DialAssumption
<1>1. [NewPort EXCEPT !.done = TRUE] \in Port /\ [NewPort EXCEPT !.done = TRUE].done
  BY DEF NewPort, Port
<1>2. TypeOK
  <2>1. ports \in [Ports -> Port]
    BY <1>1 DEF Init
  <2>2. lc \in LoopState /\ ~lc.serving
    <3>1. << >> \in Seq(Sessions) OBVIOUS
    <3> QED BY <3>1 DEF Init, LoopState, IdleSteps, Results
  <2>3. /\ streamPorts = None /\ active = None /\ preferred = None /\ kept = None
        /\ reader = [pc |-> "idle", port |-> None]
        /\ events = [pc |-> "idle", port |-> None, session |-> None]
    BY DEF Init
  <2>4. /\ dialer \in {"off", "top"} /\ dialCancelled = FALSE /\ run = "serving"
        /\ ctxDone = FALSE /\ alive \in SUBSET Sessions /\ spent \in 0 .. MaxEvents
    BY DEF Init
  <2> QED
    BY <2>1, <2>2, <2>3, <2>4 DEF TypeOK
<1>3. Holds /\ Ends
  BY <1>1 DEF Init, Holds, Ends, PortIsHeld, RegisteredWhileHeld, OthersClosed, OutletServed,
              ClosedForRestart, ReaderHolds, EventsHold, CandidateLeft, RegisteredSteps,
              OpenSteps, ServeSteps, LoopStaysUntilCancelled, FallbackEndsFirst
<1> QED BY <1>2, <1>3 DEF LoopInv

LEMMA NextKeeps == LoopInv /\ [Next]_vars => LoopInv'
<1> SUFFICES ASSUME LoopInv, [Next]_vars PROVE LoopInv'
  OBVIOUS
<1>1. CASE Loop
  <2>1. Beyond
    BY <1>1 DEF Loop, Beyond
  <2>2. CASE \/ BeginOpen \/ SendOpen \/ WaitOpen \/ DropFailedPreference \/ ActivateStream
             \/ Serve \/ DeactivateLost \/ Recover \/ BeginResume \/ SendResume \/ WaitResume
             \/ CompleteResume \/ LeaveOutlet
    BY <2>1, <2>2, InsideKeeps, BeginOpenInside, SendOpenInside, WaitOpenInside,
       DropFailedPreferenceInside, ActivateStreamInside, ServeInside, DeactivateLostInside,
       RecoverInside, BeginResumeInside, SendResumeInside, WaitResumeInside,
       CompleteResumeInside, LeaveOutletInside
  <2>3. CASE LoopTop \/ ChooseCandidates \/ Resolve \/ Sleep
    BY <2>1, <2>3, BetweenKeeps, LoopTopBetween, ChooseCandidatesBetween, ResolveBetween,
       SleepBetween
  <2>4. CASE Register \/ Unregister \/ ClosePort
    BY <2>1, <2>4, RegisterKeeps, UnregisterKeeps, ClosePortKeeps
  <2> QED BY <1>1, <2>2, <2>3, <2>4 DEF Loop
<1>2. CASE StopFallback
  BY <1>2, BetweenKeeps, CancelFallbackBetween, AwaitFallbackKeeps DEF StopFallback
<1>3. CASE Reader
  <2>1. Beside
    BY <1>3, PeerOpensBeside, PeerResumesBeside, CloseForRestartBeside, MarkLostBeside,
       CheckLostBeside DEF Reader
  <2> QED BY <2>1, BesideKeeps
<1>4. CASE Events
  <2>1. Beside
    BY <1>4, ReportBeside, MarkReportedBeside, CheckReportedBeside, ForgetFailedBeside DEF Events
  <2> QED BY <2>1, BesideKeeps
<1>5. CASE OpenAcked \/ ResumeAcked \/ StallNoticed \/ Dialer \/ Run \/ Cancel \/ PeerChanges
  BY <1>5, BesideKeeps, OpenAckedBeside, ResumeAckedBeside, StallNoticedBeside, DialerBeside,
     RunBeside, CancelBeside, PeerChangesBeside
<1>6. CASE Finished \/ UNCHANGED vars
  BY <1>6, BesideKeeps, UnchangedBeside DEF Finished
<1> QED BY <1>1, <1>2, <1>3, <1>4, <1>5, <1>6 DEF Next

(* The invariant, and with it the type of every variable of streamLoop.      *)
THEOREM LoopInvariant == Spec => []LoopInv
<1> QED BY InitHolds, NextKeeps, PTL DEF Spec

(* TypeOK: every variable of streamLoop has its type.                        *)
THEOREM LoopTypeCorrect == Spec => []TypeOK
<1>1. LoopInv => TypeOK BY DEF LoopInv
<1> QED BY <1>1, LoopInvariant, PTL

(* Whatever the handlers of a former port do, packets go to the port the     *)
(* loop serves, or to none, and no runStream leaves an open port or a        *)
(* registration to the next one.                                             *)
THEOREM AlwaysOnePort == Spec => []OnePortAtATime
<1>1. LoopInv => OutletIsCurrentPort
  BY DEF LoopInv, Holds, OutletServed, RegisteredWhileHeld, OutletIsCurrentPort,
         RegisteredSteps, ServeSteps
<1>2. LoopInv => OnlyCurrentPortOpen
  BY DEF LoopInv, Holds, OthersClosed, RegisteredWhileHeld, OnlyCurrentPortOpen
<1>3. LoopInv => OnePortAtATime
  BY <1>1, <1>2 DEF OnePortAtATime
<1> QED BY <1>3, LoopInvariant, PTL

(* streamLoop stops for its context alone, its dial loop before it, Run      *)
(* after it.                                                                 *)
THEOREM LoopEndsInOrder == Spec => []EndsInOrder
<1>1. LoopInv => EndsInOrder
  BY DEF LoopInv, Ends, EndsInOrder
<1> QED BY <1>1, LoopInvariant, PTL

=============================================================================
