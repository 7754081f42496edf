----------------------------- MODULE RelayPorts -----------------------------
(***************************************************************************)
(* The relay connections of one peer (internal/tun/runtime.go): the        *)
(* registry relayPorts with the selected outbound port ports[user], the    *)
(* dial loop, the SDK's calls for incoming and for closed connections, the *)
(* loops of each port, and the shutdown in Run.                            *)
(*                                                                         *)
(* The SDK is outside: a connection may fail at any time, and once it is   *)
(* closed, for whatever reason, its OnClose callback runs, also when it    *)
(* was registered after the close.  A relay ID is a number; connections    *)
(* are numbered in the order they are made.                                *)
(***************************************************************************)
EXTENDS Integers, FiniteSets

CONSTANTS RelayIds,   \* relay IDs, ordered as the code orders the strings
          MaxConns    \* bound: connections made altogether

ASSUME RelayIdsAssumption == RelayIds \subseteq Nat
ASSUME MaxConnsAssumption == MaxConns \in Nat \ {0}

None  == 0
Conns == 1 .. MaxConns

VARIABLES
  made,       \* connections made so far
  relayId,    \* RelayID() of each
  conn,       \* "none", "open" or "closed"
  hooked,     \* OnClose is registered and the port's loops run
  notified,   \* the OnClose callback ran
  done,       \* the port's done channel is closed
  relayPorts, \* relayPorts[user]: by relay ID, a port or None
  selected,   \* ports[user]
  dialer,     \* dialLoop: where it stands and its port
  acceptor,   \* acceptRelay: where it stands and its port
  run,        \* where Run stands
  snapshot,   \* the ports closePorts has still to close
  seen,       \* history: what was registered when closePorts looked
  ctxDone     \* Run's context is cancelled

connVars == <<made, relayId, conn>>
portVars == <<hooked, notified, done>>
regVars  == <<relayPorts, selected>>
vars == <<connVars, portVars, regVars, dialer, acceptor, run, snapshot, seen, ctxDone>>

DialSteps   == {"top", "connect", "register", "hook", "wait", "sleep", "ended"}
AcceptSteps == {"idle", "register", "hook"}
RunSteps    == {"serving", "closePorts", "wait", "closeClient", "returned"}

TypeOK ==
  /\ made \in 0 .. MaxConns
  /\ relayId \in [Conns -> RelayIds \cup {None}]
  /\ conn \in [Conns -> {"none", "open", "closed"}]
  /\ hooked \subseteq Conns /\ notified \subseteq hooked /\ done \subseteq Conns
  /\ relayPorts \in [RelayIds -> Conns \cup {None}]
  /\ selected \in Conns \cup {None}
  /\ dialer \in [pc : DialSteps, port : Conns \cup {None}]
  /\ acceptor \in [pc : AcceptSteps, port : Conns \cup {None}]
  /\ run \in RunSteps /\ snapshot \subseteq Conns /\ seen \subseteq Conns
  /\ ctxDone \in BOOLEAN

Init ==
  /\ made = 0 /\ relayId = [c \in Conns |-> None]
  /\ conn = [c \in Conns |-> "none"]
  /\ hooked = {} /\ notified = {} /\ done = {}
  /\ relayPorts = [i \in RelayIds |-> None] /\ selected = None
  /\ dialer = [pc |-> "top", port |-> None]
  /\ acceptor = [pc |-> "idle", port |-> None]
  /\ run = "serving" /\ snapshot = {} /\ seen = {} /\ ctxDone = FALSE

-----------------------------------------------------------------------------
Registered == {relayPorts[i] : i \in RelayIds} \ {None}

(* The port with the lowest relay ID of a set of ports.                     *)
Lowest(ports) ==
  IF ports = {} THEN None
  ELSE CHOOSE p \in ports : \A q \in ports : relayId[p] <= relayId[q]

(* A connection with relay ID i is made.                                    *)
Connected(i) ==
  /\ made < MaxConns
  /\ made' = made + 1
  /\ relayId' = [relayId EXCEPT ![made + 1] = i]
  /\ conn' = [conn EXCEPT ![made + 1] = "open"]

(* close: closeDone, then Abort of the connection.                          *)
Close(ports) ==
  /\ done' = done \cup ports
  /\ conn' = [c \in Conns |-> IF c \in ports THEN "closed" ELSE conn[c]]

(* registerPort up to its unlock.                                           *)
Taken(p) == relayPorts[relayId[p]] # None

Insert(p) ==
  /\ relayPorts' = [relayPorts EXCEPT ![relayId[p]] = p]
  /\ selected' = IF selected = None \/ relayId[p] < relayId[selected]
                 THEN p ELSE selected

UnregisterWithoutPromotion(p) ==
  /\ p \in hooked \ notified /\ conn[p] = "closed"
  /\ notified' = notified \cup {p}
  /\ relayPorts' = [relayPorts EXCEPT ![relayId[p]] = IF @ = p THEN None ELSE @]
  /\ selected' = IF selected = p THEN None ELSE selected
  /\ done' = done \cup {p}
  /\ UNCHANGED <<connVars, hooked, dialer, acceptor, run, snapshot, seen, ctxDone>>

UnregisterStillSelected(p) ==
  /\ p \in hooked \ notified /\ conn[p] = "closed"
  /\ notified' = notified \cup {p}
  /\ relayPorts' = [relayPorts EXCEPT ![relayId[p]] = IF @ = p THEN None ELSE @]
  /\ done' = done \cup {p}
  /\ UNCHANGED <<connVars, hooked, selected, dialer, acceptor, run, snapshot, seen, ctxDone>>

(* unregisterPort, run by the OnClose callback.                             *)
UnregisterPort(p) ==
  /\ p \in hooked \ notified /\ conn[p] = "closed"
  /\ notified' = notified \cup {p}
  /\ relayPorts' = [relayPorts EXCEPT ![relayId[p]] = IF @ = p THEN None ELSE @]
  /\ selected' = IF selected = p THEN Lowest(Registered \ {p}) ELSE selected
  /\ done' = done \cup {p}
  /\ UNCHANGED <<connVars, hooked, dialer, acceptor, run, snapshot, seen, ctxDone>>

(* readRelayLoop or writeRelayLoop of p finds an error: of the connection,  *)
(* of a batch, of the device.                                               *)
PortLoopFails(p) ==
  /\ p \in hooked \ done
  /\ Close({p})
  /\ UNCHANGED <<made, relayId, hooked, notified, regVars, dialer, acceptor,
                 run, snapshot, seen, ctxDone>>

(* The peer or the network ends the connection.                             *)
ConnFails(p) ==
  /\ conn[p] = "open"
  /\ conn' = [conn EXCEPT ![p] = "closed"]
  /\ UNCHANGED <<made, relayId, portVars, regVars, dialer, acceptor, run,
                 snapshot, seen, ctxDone>>

-----------------------------------------------------------------------------
(* dialLoop                                                                 *)

DialGoto(step) == dialer' = [dialer EXCEPT !.pc = step]

DialTop ==
  /\ dialer.pc = "top"
  /\ DialGoto(IF ctxDone THEN "ended" ELSE "connect")
  /\ UNCHANGED <<connVars, portVars, regVars>>

(* Connect answers; what follows may find the context cancelled meanwhile.   *)
DialConnects ==
  /\ dialer.pc = "connect" /\ ~ctxDone
  /\ \E i \in RelayIds : Connected(i)
  /\ dialer' = [pc |-> "register", port |-> made + 1]
  /\ UNCHANGED <<portVars, regVars>>

DialFails ==
  /\ dialer.pc = "connect"
  /\ DialGoto("sleep")
  /\ UNCHANGED <<connVars, portVars, regVars>>

(* Mutant of DialRegisters: a refused connection is left open.              *)
DialRefusedLeftOpen ==
  /\ dialer.pc = "register"
  /\ \/ /\ Taken(dialer.port)
        /\ DialGoto("wait")
        /\ UNCHANGED <<conn, done, regVars>>
     \/ /\ ~Taken(dialer.port) /\ Insert(dialer.port)
        /\ DialGoto("hook")
        /\ UNCHANGED <<conn, done>>
  /\ UNCHANGED <<made, relayId, hooked, notified>>

(* A second connection with the relay ID of a registered one is closed.     *)
DialRegisters ==
  /\ dialer.pc = "register"
  /\ \/ /\ Taken(dialer.port) /\ Close({dialer.port})
        /\ DialGoto("wait")
        /\ UNCHANGED regVars
     \/ /\ ~Taken(dialer.port) /\ Insert(dialer.port)
        /\ DialGoto("hook")
        /\ UNCHANGED <<conn, done>>
  /\ UNCHANGED <<made, relayId, hooked, notified>>

DialHooks ==
  /\ dialer.pc = "hook"
  /\ hooked' = hooked \cup {dialer.port}
  /\ DialGoto("wait")
  /\ UNCHANGED <<connVars, notified, done, regVars>>

(* <-port.done, which the context does not interrupt.                       *)
DialWaits ==
  /\ dialer.pc = "wait" /\ dialer.port \in done
  /\ DialGoto("sleep")
  /\ UNCHANGED <<connVars, portVars, regVars>>

DialSleeps ==
  /\ dialer.pc = "sleep"
  /\ DialGoto("top") \/ (ctxDone /\ DialGoto("ended"))
  /\ UNCHANGED <<connVars, portVars, regVars>>

Dial ==
  /\ \/ DialTop \/ DialConnects \/ DialFails \/ DialRegisters \/ DialHooks
     \/ DialWaits \/ DialSleeps
  /\ UNCHANGED <<acceptor, run, snapshot, seen, ctxDone>>

-----------------------------------------------------------------------------
(* acceptRelay, called by the SDK with an incoming connection of the peer.  *)

Incoming ==
  /\ acceptor.pc = "idle" /\ run # "returned"
  /\ \E i \in RelayIds : Connected(i)
  /\ acceptor' = [pc |-> "register", port |-> made + 1]
  /\ UNCHANGED <<portVars, regVars, dialer, run, snapshot, seen, ctxDone>>

AcceptRegisters ==
  /\ acceptor.pc = "register"
  /\ \/ /\ Taken(acceptor.port) /\ Close({acceptor.port})
        /\ acceptor' = [pc |-> "idle", port |-> None]
        /\ UNCHANGED regVars
     \/ /\ ~Taken(acceptor.port) /\ Insert(acceptor.port)
        /\ acceptor' = [acceptor EXCEPT !.pc = "hook"]
        /\ UNCHANGED <<conn, done>>
  /\ UNCHANGED <<made, relayId, hooked, notified>>

AcceptHooks ==
  /\ acceptor.pc = "hook"
  /\ hooked' = hooked \cup {acceptor.port}
  /\ acceptor' = [pc |-> "idle", port |-> None]
  /\ UNCHANGED <<connVars, notified, done, regVars>>

Accept ==
  /\ AcceptRegisters \/ AcceptHooks
  /\ UNCHANGED <<dialer, run, snapshot, seen, ctxDone>>

-----------------------------------------------------------------------------
(* Run after <-ctx.Done(): closePorts under r.mu, then each close, then     *)
(* wg.Wait for the peer's loop, then the deferred client.Close.             *)

(* Mutant: closePorts looks at the selected port alone.                     *)
RunSnapshotsSelected ==
  /\ run = "serving" /\ ctxDone
  /\ snapshot' = {selected} \ {None}
  /\ seen' = Registered
  /\ run' = "closePorts"
  /\ UNCHANGED <<connVars, portVars>>

RunSnapshots ==
  /\ run = "serving" /\ ctxDone
  /\ snapshot' = Registered \cup ({selected} \ {None})
  /\ seen' = Registered
  /\ run' = "closePorts"
  /\ UNCHANGED <<connVars, portVars>>

RunCloses ==
  /\ run = "closePorts"
  /\ \/ \E p \in snapshot : Close({p}) /\ snapshot' = snapshot \ {p} /\ UNCHANGED run
     \/ snapshot = {} /\ run' = "wait" /\ UNCHANGED <<conn, done, snapshot>>
  /\ UNCHANGED <<made, relayId, hooked, notified, seen>>

RunWaits ==
  /\ run = "wait" /\ dialer.pc = "ended"
  /\ run' = "closeClient"
  /\ UNCHANGED <<connVars, portVars, snapshot, seen>>

RunReturns ==
  /\ run = "closeClient"
  /\ conn' = [c \in Conns |-> IF conn[c] = "open" THEN "closed" ELSE conn[c]]
  /\ run' = "returned"
  /\ UNCHANGED <<made, relayId, portVars, snapshot, seen>>

Run ==
  /\ RunSnapshots \/ RunCloses \/ RunWaits \/ RunReturns
  /\ UNCHANGED <<regVars, dialer, acceptor, ctxDone>>

Cancel ==
  /\ ~ctxDone
  /\ ctxDone' = TRUE
  /\ UNCHANGED <<connVars, portVars, regVars, dialer, acceptor, run, snapshot, seen>>

(* Run has returned and the SDK calls nothing any more.                     *)
Finished ==
  /\ run = "returned" /\ acceptor.pc = "idle"
  /\ UNCHANGED vars

Next ==
  \/ Dial \/ Incoming \/ Accept \/ Run \/ Cancel \/ Finished
  \/ \E p \in Conns : UnregisterPort(p) \/ PortLoopFails(p) \/ ConnFails(p)

Spec == Init /\ [][Next]_vars

(* Every goroutine goes on while it can; the loops of a port whose          *)
(* connection is closed find out; the SDK runs the callbacks.  Nothing      *)
(* obliges the peer or the network to end a connection.                     *)
Fairness ==
  /\ WF_vars(Dial) /\ WF_vars(Accept) /\ WF_vars(Run)
  /\ \A p \in Conns :
       /\ WF_vars(UnregisterPort(p))
       /\ WF_vars(conn[p] = "closed" /\ PortLoopFails(p))

FairSpec == Spec /\ Fairness

-----------------------------------------------------------------------------
(* Properties                                                               *)

(* The outbound port is the registered one with the lowest relay ID, on     *)
(* both ends the same, and there is one while any connection is registered  *)
(* (registerPort, unregisterPort).                                          *)
SelectedIsLowest == selected = Lowest(Registered)

(* A live connection stays registered, selected or not, so that it keeps    *)
(* receiving and can be promoted; a refused duplicate is not left open.     *)
LivePortIsRegistered ==
  \A p \in Conns :
    /\ conn[p] = "open"
    /\ p \notin {dialer.port, acceptor.port} \/ p \in hooked
    => p \in Registered

(* The registry and the outbound path agree with the live connections.      *)
RegistryAgrees == SelectedIsLowest /\ LivePortIsRegistered

(* The dial loop waits only for a port that something still closes: one     *)
(* that registerPort refused is closed already, the others are registered   *)
(* and leave the registry by unregisterPort, which closes them.              *)
DialerNotStranded ==
  dialer.pc = "wait" => dialer.port \in done \cup Registered

(* A port whose connection is closed leaves the registry, so the outbound   *)
(* path is not left on a dead connection while another is up.               *)
DeadPortIsReplaced ==
  \A p \in Conns : conn[p] = "closed" /\ selected = p ~> selected # p

(* Shutdown completes, except for one case: the dial loop waits on a        *)
(* connection that it registered after closePorts had looked.               *)
LateDial ==
  /\ run \in {"closePorts", "wait"} /\ dialer.pc = "wait"
  /\ conn[dialer.port] = "open" /\ dialer.port \notin seen \cup done

ShutdownWithoutLateDial == ctxDone ~> run = "returned" \/ LateDial

(* Shutdown completes: the tests say of a lifecycle whose context was       *)
(* cancelled that it must not be found still running ("peer loops did not   *)
(* stop", runtime_test.go).                                                 *)
ShutdownCompletes == ctxDone ~> run = "returned"

=============================================================================
