-------------------------- MODULE RelayPortsProofs --------------------------
(***************************************************************************)
(* What the relay registry keeps, for any relay IDs and any number of      *)
(* connections.                                                            *)
(***************************************************************************)
EXTENDS RelayPorts, WellFoundedInduction, TLAPS

(* Ports are stored under their relay ID; those with a callback and those    *)
(* that are closed were made; a port is closed with its connection.         *)
RegistryHolds ==
  /\ \A c \in 1 .. made : relayId[c] \in RelayIds
  /\ \A i \in RelayIds : relayPorts[i] # None =>
       relayPorts[i] \in 1 .. made /\ relayId[relayPorts[i]] = i
  /\ hooked \cup done \subseteq 1 .. made
  /\ \A c \in done : conn[c] = "closed"

(* The selected port, without reference to Lowest.                          *)
SelectedHolds ==
  IF Registered = {} THEN selected = None
  ELSE selected \in Registered /\ \A q \in Registered : relayId[selected] <= relayId[q]

(* A port on its way through registerPort belongs to one caller and has no  *)
(* callback yet, so nothing takes it out of the registry.                   *)
DialerHolds ==
  /\ dialer.pc \in {"register", "hook"} =>
       dialer.port \in (1 .. made) \ hooked /\ dialer.port # acceptor.port
  /\ dialer.pc = "hook" => dialer.port \in Registered
  /\ dialer.pc \in {"top", "connect", "sleep", "ended"} => dialer.port \in done \cup {None}

AcceptorHolds ==
  /\ acceptor.pc = "idle" => acceptor.port = None
  /\ acceptor.pc # "idle" => acceptor.port \in (1 .. made) \ hooked
  /\ acceptor.pc = "hook" => acceptor.port \in Registered

RelayInv ==
  /\ TypeOK /\ RegistryHolds /\ SelectedHolds /\ DialerHolds /\ AcceptorHolds
  /\ LivePortIsRegistered /\ DialerNotStranded /\ snapshot \subseteq 1 .. made

-----------------------------------------------------------------------------
(* The registry as a set of ports                                           *)

LEMMA SmallestExists ==
  ASSUME NEW T \in SUBSET Nat, T # {}
  PROVE  \E x \in T : \A y \in T : x <= y
<1>1. PICK x \in T : \A y \in T : <<y, x>> \notin OpToRel(<, Nat)
  BY NatLessThanWellFounded, WFMin
<1>2. \A y \in T : ~(y < x)
  BY <1>1 DEF OpToRel
<1>3. QED
  BY <1>2

LEMMA RegisteredFacts ==
  ASSUME TypeOK, RegistryHolds
  PROVE  /\ Registered \subseteq 1 .. made /\ Registered \subseteq Conns
         /\ None \notin Registered
         /\ \A p \in Registered : relayId[p] \in RelayIds /\ relayPorts[relayId[p]] = p
         /\ \A p \in Conns : p \notin Registered => \A i \in RelayIds : relayPorts[i] # p
BY MaxConnsAssumption DEF TypeOK, RegistryHolds, Registered, Conns, None

LEMMA LowestHolds ==
  ASSUME TypeOK, RegistryHolds, NEW S \in SUBSET Registered, S # {}
  PROVE  Lowest(S) \in S /\ \A q \in S : relayId[Lowest(S)] <= relayId[q]
<1> DEFINE T == {relayId[p] : p \in S}
<1>1. T \in SUBSET Nat /\ T # {}
  <2>1. \A p \in S : relayId[p] \in RelayIds
    BY RegisteredFacts
  <2>2. QED
    BY <2>1, RelayIdsAssumption
<1>2. PICK x \in T : \A y \in T : x <= y
  BY <1>1, SmallestExists
<1>3. \E p \in S : \A q \in S : relayId[p] <= relayId[q]
  BY <1>2
<1>4. QED
  BY <1>3 DEF Lowest

LEMMA SelectedAgrees ==
  ASSUME TypeOK, RegistryHolds, SelectedHolds
  PROVE  SelectedIsLowest
<1>1. CASE Registered = {}
  BY <1>1 DEF SelectedHolds, SelectedIsLowest, Lowest
<1>2. CASE Registered # {}
  <2> DEFINE l == Lowest(Registered)
  <2>1. l \in Registered /\ \A q \in Registered : relayId[l] <= relayId[q]
    BY <1>2, LowestHolds
  <2>2. selected \in Registered /\ \A q \in Registered : relayId[selected] <= relayId[q]
    BY <1>2 DEF SelectedHolds
  <2>3. relayId[l] = relayId[selected]
    <3>1. relayId[l] \in Nat /\ relayId[selected] \in Nat
      BY <2>1, <2>2, RegisteredFacts, RelayIdsAssumption
    <3>2. relayId[l] <= relayId[selected] /\ relayId[selected] <= relayId[l]
      BY <2>1, <2>2
    <3>3. QED
      BY <3>1, <3>2
  <2>4. QED
    BY <2>1, <2>2, <2>3, RegisteredFacts DEF SelectedIsLowest
<1>3. QED
  BY <1>1, <1>2

-----------------------------------------------------------------------------
(* What registerPort, unregisterPort and a new connection do to it          *)

LEMMA InsertKeeps ==
  ASSUME RelayInv, NEW p \in 1 .. made, ~Taken(p), Insert(p),
         UNCHANGED <<made, relayId, hooked>>, UNCHANGED <<conn, done>>
  PROVE  /\ relayPorts' \in [RelayIds -> Conns \cup {None}]
         /\ selected' \in Conns \cup {None}
         /\ Registered' = Registered \cup {p}
         /\ RegistryHolds' /\ SelectedHolds'
<1> USE DEF RelayInv
<1>1. p \in Conns /\ p # None /\ relayId[p] \in RelayIds /\ relayPorts[relayId[p]] = None
  BY MaxConnsAssumption DEF TypeOK, RegistryHolds, Taken, Conns, None
<1>2. relayPorts' = [relayPorts EXCEPT ![relayId[p]] = p]
  BY DEF Insert
<1>3. relayPorts' \in [RelayIds -> Conns \cup {None}]
  BY <1>1, <1>2 DEF TypeOK
<1>4. \A i \in RelayIds : relayPorts'[i] = IF i = relayId[p] THEN p ELSE relayPorts[i]
  BY <1>1, <1>2 DEF TypeOK
<1>5. Registered' = Registered \cup {p}
  BY <1>1, <1>4 DEF Registered
<1>6. RegistryHolds'
  BY <1>1, <1>4 DEF RegistryHolds
<1>7. selected' \in Conns \cup {None}
  BY <1>1 DEF Insert, TypeOK
<1>8. SelectedHolds'
  <2>1. \A q \in Registered' : relayId[q] \in Int
    <3>1. \A q \in Registered' : relayId[q] \in RelayIds
      BY <1>1, <1>5, RegisteredFacts
    <3>2. \A i \in RelayIds : i \in Int
      BY RelayIdsAssumption
    <3>3. QED
      BY <3>1, <3>2, Zenon
  <2>2. CASE Registered = {}
    BY <1>1, <1>5, <2>1, <2>2 DEF SelectedHolds, Insert
  <2>3. CASE Registered # {}
    <3>1. selected \in Registered /\ selected # None
          /\ \A q \in Registered : relayId[selected] <= relayId[q]
      BY <2>3, RegisteredFacts DEF SelectedHolds
    <3>2. QED
      BY <1>1, <1>5, <2>1, <3>1 DEF SelectedHolds, Insert
  <2>4. QED
    BY <2>2, <2>3
<1>9. QED
  BY <1>3, <1>5, <1>6, <1>7, <1>8

LEMMA RemoveKeeps ==
  ASSUME RelayInv, NEW p \in Conns, UnregisterPort(p)
  PROVE  /\ relayPorts' \in [RelayIds -> Conns \cup {None}]
         /\ selected' \in Conns \cup {None}
         /\ Registered' = Registered \ {p}
         /\ RegistryHolds' /\ SelectedHolds'
<1> USE DEF RelayInv
<1>1. /\ p # None /\ relayId[p] \in RelayIds /\ conn[p] = "closed"
      /\ UNCHANGED <<made, relayId, conn, hooked>> /\ done' = done \cup {p}
  BY DEF UnregisterPort, RegistryHolds, connVars, Conns, None
<1>2. \A i \in RelayIds :
        relayPorts'[i] = IF i = relayId[p] /\ relayPorts[i] = p THEN None ELSE relayPorts[i]
  BY <1>1 DEF UnregisterPort, TypeOK
<1>3. relayPorts' \in [RelayIds -> Conns \cup {None}]
  BY <1>1 DEF UnregisterPort, TypeOK
<1>4. Registered' = Registered \ {p}
  BY <1>1, <1>2 DEF Registered, RegistryHolds
<1>5. RegistryHolds'
  <2>1. p \in 1 .. made
    BY DEF UnregisterPort, RegistryHolds
  <2>2. QED
    BY <1>1, <1>2, <2>1 DEF RegistryHolds, None
<1>6. Registered \ {p} # {} =>
        /\ Lowest(Registered \ {p}) \in Registered \ {p}
        /\ \A q \in Registered \ {p} : relayId[Lowest(Registered \ {p})] <= relayId[q]
  BY LowestHolds
<1>7. Registered \ {p} = {} => Lowest(Registered \ {p}) = None
  BY DEF Lowest
<1>8. selected' = IF selected = p THEN Lowest(Registered \ {p}) ELSE selected
  BY DEF UnregisterPort
<1>9. selected' \in Conns \cup {None}
  BY <1>6, <1>7, <1>8, RegisteredFacts DEF TypeOK
<1>10. SelectedHolds'
  <2>1. CASE selected = p
    BY <1>1, <1>4, <1>6, <1>7, <1>8, <2>1 DEF SelectedHolds
  <2>2. CASE selected # p
    BY <1>1, <1>4, <1>8, <2>2 DEF SelectedHolds
  <2>3. QED
    BY <2>1, <2>2
<1>11. QED
  BY <1>3, <1>4, <1>5, <1>9, <1>10

LEMMA ConnectedKeeps ==
  ASSUME RelayInv, NEW i \in RelayIds, Connected(i), UNCHANGED <<portVars, regVars>>
  PROVE  /\ made' = made + 1 /\ made' \in 1 .. MaxConns
         /\ relayId' \in [Conns -> RelayIds \cup {None}]
         /\ conn' \in [Conns -> {"none", "open", "closed"}]
         /\ \A c \in Conns : c # made + 1 => conn'[c] = conn[c]
         /\ Registered' = Registered
         /\ RegistryHolds' /\ SelectedHolds'
<1> USE DEF RelayInv
<1>1. /\ made' = made + 1 /\ made' \in 1 .. MaxConns
      /\ made \in 0 .. MaxConns /\ made + 1 \in Conns
      /\ relayId' = [relayId EXCEPT ![made + 1] = i]
      /\ conn' = [conn EXCEPT ![made + 1] = "open"]
      /\ UNCHANGED <<hooked, notified, done, relayPorts, selected>>
  BY MaxConnsAssumption DEF Connected, TypeOK, Conns, portVars, regVars
<1>2. \A c \in 1 .. made : relayId'[c] = relayId[c]
  BY <1>1 DEF TypeOK, Conns
<1>3. Registered' = Registered
  BY <1>1 DEF Registered
<1>4. RegistryHolds'
  <2>1. \A c \in 1 .. made' : relayId'[c] \in RelayIds
    BY <1>1, <1>2 DEF RegistryHolds, TypeOK
  <2>2. \A j \in RelayIds : relayPorts'[j] # None =>
          relayPorts'[j] \in 1 .. made' /\ relayId'[relayPorts'[j]] = j
    BY <1>1, <1>2 DEF RegistryHolds
  <2>3. hooked' \cup done' \subseteq 1 .. made'
    BY <1>1 DEF RegistryHolds
  <2>4. \A c \in done' : conn'[c] = "closed"
    <3>1. made + 1 \notin done
      BY <1>1 DEF RegistryHolds
    <3>2. QED
      BY <1>1, <3>1 DEF RegistryHolds, TypeOK
  <2>5. QED
    BY <2>1, <2>2, <2>3, <2>4 DEF RegistryHolds
<1>5. SelectedHolds'
  BY <1>1, <1>2, <1>3, RegisteredFacts DEF SelectedHolds
<1>6. QED
  BY <1>1, <1>3, <1>4, <1>5 DEF TypeOK

LEMMA SameRegistry ==
  ASSUME RelayInv, UNCHANGED <<made, relayId, hooked, relayPorts, selected>>,
         done' \subseteq 1 .. made, \A c \in done' : conn'[c] = "closed"
  PROVE  Registered' = Registered /\ RegistryHolds' /\ SelectedHolds'
<1>1. Registered' = Registered
  BY DEF Registered
<1>2. RegistryHolds'
  BY DEF RegistryHolds, RelayInv
<1>3. SelectedHolds'
  BY <1>1 DEF SelectedHolds, RelayInv
<1>4. QED
  BY <1>1, <1>2, <1>3

LEMMA CloseKeeps ==
  ASSUME RelayInv, NEW ps \in SUBSET (1 .. made), Close(ps),
         UNCHANGED <<made, relayId, hooked, relayPorts, selected>>
  PROVE  /\ done' = done \cup ps /\ done' \subseteq Conns
         /\ conn' \in [Conns -> {"none", "open", "closed"}]
         /\ \A c \in Conns : conn'[c] = "open" => conn[c] = "open" /\ c \notin ps
         /\ \A c \in Conns : conn[c] = "closed" => conn'[c] = "closed"
         /\ Registered' = Registered /\ RegistryHolds' /\ SelectedHolds'
<1>1. ps \subseteq Conns
  BY MaxConnsAssumption DEF RelayInv, TypeOK, Conns
<1>2. /\ done' = done \cup ps /\ done' \subseteq Conns
      /\ conn' \in [Conns -> {"none", "open", "closed"}]
      /\ \A c \in Conns : conn'[c] = IF c \in ps THEN "closed" ELSE conn[c]
  BY <1>1 DEF Close, RelayInv, TypeOK
<1>3. done' \subseteq 1 .. made /\ \A c \in done' : conn'[c] = "closed"
  BY <1>1, <1>2 DEF RelayInv, RegistryHolds, TypeOK
<1>4. QED
  BY <1>2, <1>3, SameRegistry

-----------------------------------------------------------------------------
(* The SDK, the loops of a port, Run and the context                        *)

LEMMA UnregisterKeeps ==
  ASSUME RelayInv, NEW p \in Conns, UnregisterPort(p)
  PROVE  RelayInv'
<1> USE RemoveKeeps DEF RelayInv
<1>1. /\ p \in hooked /\ conn[p] = "closed" /\ p \notin notified
      /\ notified' = notified \cup {p} /\ done' = done \cup {p}
      /\ UNCHANGED <<made, relayId, conn, hooked, dialer, acceptor, run, snapshot, seen,
                     ctxDone>>
  BY DEF UnregisterPort, connVars
<1>2. TypeOK'
  BY <1>1 DEF TypeOK
<1>3. DialerHolds' /\ AcceptorHolds'
  BY <1>1 DEF DialerHolds, AcceptorHolds
<1>4. LivePortIsRegistered'
  BY <1>1 DEF LivePortIsRegistered
<1>5. DialerNotStranded'
  BY <1>1 DEF DialerNotStranded
<1>6. QED
  BY <1>1, <1>2, <1>3, <1>4, <1>5

(* A step that closes ports and moves neither caller of registerPort.       *)
LEMMA ClosingKeeps ==
  ASSUME RelayInv, NEW ps \in SUBSET (1 .. made), Close(ps),
         UNCHANGED <<made, relayId, hooked, notified, relayPorts, selected, dialer,
                     acceptor, seen, ctxDone>>,
         run' \in RunSteps, snapshot' \in SUBSET snapshot
  PROVE  RelayInv'
<1> USE CloseKeeps DEF RelayInv
<1>1. TypeOK'
  BY DEF TypeOK
<1>2. DialerHolds' /\ AcceptorHolds'
  BY DEF DialerHolds, AcceptorHolds
<1>3. LivePortIsRegistered'
  BY DEF LivePortIsRegistered
<1>4. DialerNotStranded'
  BY DEF DialerNotStranded
<1>5. QED
  BY <1>1, <1>2, <1>3, <1>4

(* A step that moves neither caller and only takes connections down.        *)
LEMMA FailingKeeps ==
  ASSUME RelayInv,
         UNCHANGED <<made, relayId, hooked, notified, done, relayPorts, selected, dialer,
                     acceptor>>,
         conn' \in [Conns -> {"none", "open", "closed"}],
         \A c \in Conns : conn'[c] = conn[c] \/ conn'[c] = "closed",
         run' \in RunSteps, snapshot' \in SUBSET (1 .. made), seen' \in SUBSET Conns,
         ctxDone' \in BOOLEAN
  PROVE  RelayInv'
<1> USE DEF RelayInv
<1>1. done' \subseteq 1 .. made /\ \A c \in done' : conn'[c] = "closed"
  BY DEF RegistryHolds, TypeOK
<1>2. Registered' = Registered /\ RegistryHolds' /\ SelectedHolds'
  BY <1>1, SameRegistry
<1>3. TypeOK'
  <2>1. snapshot' \subseteq Conns
    BY MaxConnsAssumption DEF TypeOK, Conns
  <2>2. QED
    BY <2>1 DEF TypeOK
<1>4. DialerHolds' /\ AcceptorHolds'
  BY <1>2 DEF DialerHolds, AcceptorHolds
<1>5. LivePortIsRegistered'
  BY <1>2 DEF LivePortIsRegistered
<1>6. DialerNotStranded'
  BY <1>2 DEF DialerNotStranded
<1>7. QED
  BY <1>2, <1>3, <1>4, <1>5, <1>6

LEMMA PortLoopKeeps ==
  ASSUME RelayInv, NEW p \in Conns, PortLoopFails(p)
  PROVE  RelayInv'
<1>1. {p} \in SUBSET (1 .. made)
  BY DEF PortLoopFails, RelayInv, RegistryHolds
<1>2. QED
  BY <1>1, ClosingKeeps DEF PortLoopFails, regVars, RelayInv, TypeOK

LEMMA ConnFailsKeeps ==
  ASSUME RelayInv, NEW p \in Conns, ConnFails(p)
  PROVE  RelayInv'
<1>1. /\ conn' \in [Conns -> {"none", "open", "closed"}]
      /\ \A c \in Conns : conn'[c] = conn[c] \/ conn'[c] = "closed"
  BY DEF ConnFails, RelayInv, TypeOK
<1>2. QED
  BY <1>1, FailingKeeps DEF ConnFails, portVars, regVars, RelayInv, TypeOK

LEMMA RunKeeps ==
  ASSUME RelayInv, Run
  PROVE  RelayInv'
<1> USE DEF RelayInv
<1>1. UNCHANGED <<relayPorts, selected, dialer, acceptor, ctxDone>>
  BY DEF Run, regVars
<1>2. CASE RunSnapshots
  <2>1. snapshot' \in SUBSET (1 .. made) /\ seen' \in SUBSET Conns
    <3>1. selected # None => selected \in Registered
      BY DEF SelectedHolds
    <3>2. QED
      BY <1>2, <3>1, RegisteredFacts DEF RunSnapshots
  <2>2. QED
    BY <1>1, <1>2, <2>1, FailingKeeps
       DEF RunSnapshots, connVars, portVars, TypeOK, RunSteps
<1>3. CASE RunCloses
  <2>1. UNCHANGED <<made, relayId, hooked, notified, seen>> /\ run' \in RunSteps
    BY <1>3 DEF RunCloses, RunSteps
  <2>2. CASE \E p \in snapshot : Close({p}) /\ snapshot' = snapshot \ {p} /\ UNCHANGED run
    <3>1. PICK p \in snapshot : Close({p}) /\ snapshot' = snapshot \ {p}
      BY <2>2
    <3>2. {p} \in SUBSET (1 .. made) /\ snapshot' \in SUBSET snapshot
      BY <3>1
    <3>3. QED
      BY <1>1, <2>1, <3>1, <3>2, ClosingKeeps
  <2>3. CASE UNCHANGED <<conn, done, snapshot>>
    BY <1>1, <2>1, <2>3, FailingKeeps DEF TypeOK
  <2>4. QED
    BY <1>3, <2>2, <2>3 DEF RunCloses
<1>4. CASE RunWaits
  BY <1>1, <1>4, FailingKeeps DEF RunWaits, connVars, portVars, TypeOK, RunSteps
<1>5. CASE RunReturns
  <2>1. /\ conn' \in [Conns -> {"none", "open", "closed"}]
        /\ \A c \in Conns : conn'[c] = conn[c] \/ conn'[c] = "closed"
    BY <1>5 DEF RunReturns, TypeOK
  <2>2. QED
    BY <1>1, <1>5, <2>1, FailingKeeps DEF RunReturns, portVars, TypeOK, RunSteps
<1>6. QED
  BY <1>2, <1>3, <1>4, <1>5 DEF Run

LEMMA RestKeeps ==
  ASSUME RelayInv, Cancel \/ Finished \/ UNCHANGED vars
  PROVE  RelayInv'
<1>1. /\ UNCHANGED <<made, relayId, conn, hooked, notified, done, relayPorts, selected,
                     dialer, acceptor, run, snapshot, seen>>
      /\ ctxDone' \in BOOLEAN
  BY DEF Cancel, Finished, vars, connVars, portVars, regVars, RelayInv, TypeOK
<1>2. QED
  BY <1>1, FailingKeeps DEF RelayInv, TypeOK

-----------------------------------------------------------------------------
(* The two callers of registerPort                                          *)

(* The dial loop goes on without touching the registry.                     *)
LEMMA DialMovesKeeps ==
  ASSUME RelayInv, DialTop \/ DialFails \/ DialWaits \/ DialSleeps,
         UNCHANGED <<acceptor, run, snapshot, seen, ctxDone>>
  PROVE  RelayInv'
<1> USE DEF RelayInv
<1>1. /\ UNCHANGED <<made, relayId, conn, hooked, notified, done, relayPorts, selected>>
      /\ dialer' \in [pc : {"top", "connect", "sleep", "ended"}, port : Conns \cup {None}]
      /\ dialer'.port = dialer.port /\ dialer.port \in done \cup {None}
  BY DEF DialTop, DialFails, DialWaits, DialSleeps, DialGoto, connVars, portVars, regVars,
     DialerHolds, TypeOK
<1>2. Registered' = Registered /\ RegistryHolds' /\ SelectedHolds'
  BY <1>1, SameRegistry DEF RegistryHolds
<1>3. TypeOK'
  BY <1>1 DEF TypeOK, DialSteps
<1>4. DialerHolds' /\ AcceptorHolds' /\ DialerNotStranded'
  BY <1>1, <1>2 DEF DialerHolds, AcceptorHolds, DialerNotStranded
<1>5. LivePortIsRegistered'
  BY <1>1, <1>2 DEF LivePortIsRegistered
<1>6. QED
  BY <1>1, <1>2, <1>3, <1>4, <1>5

LEMMA DialConnectsKeeps ==
  ASSUME RelayInv, DialConnects, UNCHANGED <<acceptor, run, snapshot, seen, ctxDone>>
  PROVE  RelayInv'
<1> USE DEF RelayInv
<1>1. /\ UNCHANGED <<portVars, regVars>>
      /\ UNCHANGED <<hooked, notified, done, relayPorts, selected>>
      /\ dialer' = [pc |-> "register", port |-> made + 1]
      /\ dialer.port \in done \cup {None}
  BY DEF DialConnects, portVars, regVars, DialerHolds
<1>2. PICK i \in RelayIds : Connected(i)
  BY DEF DialConnects
<1>3. /\ made' = made + 1 /\ made' \in 1 .. MaxConns
      /\ relayId' \in [Conns -> RelayIds \cup {None}]
      /\ conn' \in [Conns -> {"none", "open", "closed"}]
      /\ \A c \in Conns : c # made + 1 => conn'[c] = conn[c]
      /\ Registered' = Registered /\ RegistryHolds' /\ SelectedHolds'
  BY <1>1, <1>2, ConnectedKeeps
<1>4. made \in Nat /\ made + 1 \in Conns
  BY <1>3, MaxConnsAssumption DEF TypeOK, Conns
<1>5. TypeOK'
  BY <1>1, <1>3, <1>4 DEF TypeOK, DialSteps
<1>6. made + 1 \notin hooked /\ made + 1 # acceptor.port
  BY <1>4 DEF RegistryHolds, AcceptorHolds, TypeOK, None, AcceptSteps
<1>7. DialerHolds' /\ DialerNotStranded'
  BY <1>1, <1>3, <1>4, <1>6 DEF DialerHolds, DialerNotStranded
<1>8. AcceptorHolds'
  BY <1>1, <1>3, <1>4 DEF AcceptorHolds
<1>9. LivePortIsRegistered'
  <2> SUFFICES ASSUME NEW p \in Conns, conn'[p] = "open",
                      p \notin {dialer'.port, acceptor'.port} \/ p \in hooked'
               PROVE  p \in Registered'
    BY DEF LivePortIsRegistered
  <2>1. p # made + 1 /\ conn[p] = "open"
    BY <1>1, <1>3, <1>6
  <2>2. p # dialer.port
    BY <1>1, <2>1, MaxConnsAssumption DEF RegistryHolds, Conns, None
  <2>3. QED
    BY <1>1, <1>3, <2>1, <2>2 DEF LivePortIsRegistered
<1>10. snapshot' \subseteq 1 .. made'
  BY <1>3, <1>4
<1>11. QED
  BY <1>3, <1>5, <1>7, <1>8, <1>9, <1>10

LEMMA DialRegistersKeeps ==
  ASSUME RelayInv, DialRegisters, UNCHANGED <<acceptor, run, snapshot, seen, ctxDone>>
  PROVE  RelayInv'
<1> DEFINE p == dialer.port
<1> USE DEF RelayInv
<1>1. /\ dialer.pc = "register" /\ p \in 1 .. made /\ p \notin hooked /\ p # acceptor.port
      /\ UNCHANGED <<made, relayId, hooked, notified>>
      /\ p \in Conns
  BY MaxConnsAssumption DEF DialRegisters, DialerHolds, TypeOK, Conns
<1>2. CASE Taken(p) /\ Close({p}) /\ DialGoto("wait") /\ UNCHANGED regVars
  <2>1. UNCHANGED <<relayPorts, selected>> /\ {p} \in SUBSET (1 .. made)
        /\ dialer' = [dialer EXCEPT !.pc = "wait"]
    BY <1>1, <1>2 DEF regVars, DialGoto
  <2>2. /\ done' = done \cup {p} /\ done' \subseteq Conns
        /\ conn' \in [Conns -> {"none", "open", "closed"}]
        /\ \A c \in Conns : conn'[c] = "open" => conn[c] = "open" /\ c \notin {p}
        /\ Registered' = Registered /\ RegistryHolds' /\ SelectedHolds'
    BY <1>1, <1>2, <2>1, CloseKeeps
  <2>3. TypeOK'
    BY <1>1, <2>1, <2>2 DEF TypeOK, DialSteps
  <2>4. DialerHolds' /\ AcceptorHolds' /\ DialerNotStranded'
    BY <1>1, <2>1, <2>2 DEF DialerHolds, AcceptorHolds, DialerNotStranded, TypeOK
  <2>5. LivePortIsRegistered'
    BY <1>1, <2>1, <2>2 DEF LivePortIsRegistered, TypeOK
  <2>6. QED
    BY <1>1, <2>2, <2>3, <2>4, <2>5
<1>3. CASE ~Taken(p) /\ Insert(p) /\ DialGoto("hook") /\ UNCHANGED <<conn, done>>
  <2>1. /\ relayPorts' \in [RelayIds -> Conns \cup {None}]
        /\ selected' \in Conns \cup {None}
        /\ Registered' = Registered \cup {p}
        /\ RegistryHolds' /\ SelectedHolds'
    BY <1>1, <1>3, InsertKeeps
  <2>2. dialer' = [dialer EXCEPT !.pc = "hook"] /\ UNCHANGED <<conn, done>>
    BY <1>3 DEF DialGoto
  <2>3. TypeOK'
    BY <1>1, <2>1, <2>2 DEF TypeOK, DialSteps
  <2>4. DialerHolds' /\ AcceptorHolds' /\ DialerNotStranded'
    BY <1>1, <2>1, <2>2 DEF DialerHolds, AcceptorHolds, DialerNotStranded, TypeOK
  <2>5. LivePortIsRegistered'
    BY <1>1, <2>1, <2>2 DEF LivePortIsRegistered, TypeOK
  <2>6. QED
    BY <1>1, <2>1, <2>3, <2>4, <2>5
<1>4. QED
  BY <1>2, <1>3 DEF DialRegisters

LEMMA DialHooksKeeps ==
  ASSUME RelayInv, DialHooks, UNCHANGED <<acceptor, run, snapshot, seen, ctxDone>>
  PROVE  RelayInv'
<1> USE DEF RelayInv
<1>1. /\ dialer.pc = "hook" /\ dialer' = [dialer EXCEPT !.pc = "wait"]
      /\ hooked' = hooked \cup {dialer.port}
      /\ UNCHANGED <<made, relayId, conn, notified, done, relayPorts, selected>>
      /\ dialer.port \in 1 .. made /\ dialer.port \in Registered
      /\ dialer.port # acceptor.port
  BY DEF DialHooks, DialGoto, connVars, regVars, DialerHolds
<1>2. Registered' = Registered
  BY <1>1 DEF Registered
<1>3. RegistryHolds' /\ SelectedHolds'
  BY <1>1, <1>2 DEF RegistryHolds, SelectedHolds
<1>4. TypeOK'
  BY <1>1, RegisteredFacts DEF TypeOK, DialSteps
<1>5. DialerHolds' /\ AcceptorHolds' /\ DialerNotStranded'
  BY <1>1, <1>2 DEF DialerHolds, AcceptorHolds, DialerNotStranded, TypeOK
<1>6. LivePortIsRegistered'
  BY <1>1, <1>2 DEF LivePortIsRegistered, TypeOK
<1>7. QED
  BY <1>1, <1>3, <1>4, <1>5, <1>6

LEMMA IncomingKeeps ==
  ASSUME RelayInv, Incoming
  PROVE  RelayInv'
<1> USE DEF RelayInv
<1>1. /\ UNCHANGED <<portVars, regVars, dialer, run, snapshot, seen, ctxDone>>
      /\ UNCHANGED <<hooked, notified, done, relayPorts, selected>>
      /\ acceptor.pc = "idle" /\ acceptor.port = None
      /\ acceptor' = [pc |-> "register", port |-> made + 1]
  BY DEF Incoming, portVars, regVars, AcceptorHolds
<1>2. PICK i \in RelayIds : Connected(i)
  BY DEF Incoming
<1>3. /\ made' = made + 1 /\ made' \in 1 .. MaxConns
      /\ relayId' \in [Conns -> RelayIds \cup {None}]
      /\ conn' \in [Conns -> {"none", "open", "closed"}]
      /\ \A c \in Conns : c # made + 1 => conn'[c] = conn[c]
      /\ Registered' = Registered /\ RegistryHolds' /\ SelectedHolds'
  BY <1>1, <1>2, ConnectedKeeps
<1>4. made \in Nat /\ made + 1 \in Conns /\ made + 1 \notin hooked
  BY <1>3, MaxConnsAssumption DEF TypeOK, Conns, RegistryHolds
<1>5. TypeOK'
  BY <1>1, <1>3, <1>4 DEF TypeOK, AcceptSteps
<1>6. DialerHolds' /\ DialerNotStranded'
  BY <1>1, <1>3, <1>4 DEF DialerHolds, DialerNotStranded
<1>7. AcceptorHolds'
  BY <1>1, <1>3, <1>4 DEF AcceptorHolds
<1>8. LivePortIsRegistered'
  BY <1>1, <1>3, <1>4, MaxConnsAssumption DEF LivePortIsRegistered, Conns, None
<1>9. snapshot' \subseteq 1 .. made'
  BY <1>1, <1>3, <1>4
<1>10. QED
  BY <1>3, <1>5, <1>6, <1>7, <1>8, <1>9

LEMMA AcceptKeeps ==
  ASSUME RelayInv, Accept
  PROVE  RelayInv'
<1> DEFINE p == acceptor.port
<1> USE DEF RelayInv
<1>1. /\ UNCHANGED <<dialer, run, snapshot, seen, ctxDone>>
      /\ UNCHANGED <<made, relayId, notified>>
      /\ acceptor.pc \in {"register", "hook"}
      /\ p \in 1 .. made /\ p \notin hooked /\ p \in Conns
  BY MaxConnsAssumption
     DEF Accept, AcceptRegisters, AcceptHooks, connVars, AcceptorHolds, TypeOK, Conns
<1>2. CASE AcceptRegisters
  <2>1. UNCHANGED hooked /\ acceptor.pc = "register"
    BY <1>2 DEF AcceptRegisters
  <2>2. CASE Close({p}) /\ acceptor' = [pc |-> "idle", port |-> None] /\ UNCHANGED regVars
    <3>1. UNCHANGED <<relayPorts, selected>> /\ {p} \in SUBSET (1 .. made)
      BY <1>1, <2>2 DEF regVars
    <3>2. /\ done' = done \cup {p} /\ done' \subseteq Conns
          /\ conn' \in [Conns -> {"none", "open", "closed"}]
          /\ \A c \in Conns : conn'[c] = "open" => conn[c] = "open" /\ c \notin {p}
          /\ Registered' = Registered /\ RegistryHolds' /\ SelectedHolds'
      BY <1>1, <2>1, <2>2, <3>1, CloseKeeps
    <3>3. TypeOK'
      BY <1>1, <2>1, <2>2, <3>1, <3>2 DEF TypeOK, AcceptSteps
    <3>4. DialerHolds' /\ DialerNotStranded'
      <4>1. dialer.pc \in {"register", "hook"} => dialer.port # None
        BY DEF DialerHolds, None
      <4>2. QED
        BY <1>1, <2>1, <2>2, <3>2, <4>1 DEF DialerHolds, DialerNotStranded
    <3>5. AcceptorHolds' /\ LivePortIsRegistered'
      BY <1>1, <2>1, <2>2, <3>2 DEF AcceptorHolds, LivePortIsRegistered
    <3>6. QED
      BY <1>1, <3>2, <3>3, <3>4, <3>5
  <2>3. CASE ~Taken(p) /\ Insert(p) /\ acceptor' = [acceptor EXCEPT !.pc = "hook"]
             /\ UNCHANGED <<conn, done>>
    <3>1. /\ relayPorts' \in [RelayIds -> Conns \cup {None}]
          /\ selected' \in Conns \cup {None}
          /\ Registered' = Registered \cup {p}
          /\ RegistryHolds' /\ SelectedHolds'
      BY <1>1, <2>1, <2>3, InsertKeeps
    <3>2. TypeOK'
      BY <1>1, <2>1, <2>3, <3>1 DEF TypeOK, AcceptSteps
    <3>3. DialerHolds' /\ DialerNotStranded' /\ AcceptorHolds'
      BY <1>1, <2>1, <2>3, <3>1
         DEF DialerHolds, DialerNotStranded, AcceptorHolds, TypeOK
    <3>4. LivePortIsRegistered'
      BY <1>1, <2>1, <2>3, <3>1 DEF LivePortIsRegistered, TypeOK
    <3>5. QED
      BY <1>1, <3>1, <3>2, <3>3, <3>4
  <2>4. QED
    BY <1>2, <2>2, <2>3 DEF AcceptRegisters
<1>3. CASE AcceptHooks
  <2>1. /\ hooked' = hooked \cup {p} /\ acceptor' = [pc |-> "idle", port |-> None]
        /\ UNCHANGED <<conn, done, relayPorts, selected>> /\ p \in Registered
    BY <1>3 DEF AcceptHooks, connVars, regVars, AcceptorHolds
  <2>2. Registered' = Registered
    BY <2>1 DEF Registered
  <2>3. RegistryHolds' /\ SelectedHolds'
    BY <1>1, <2>1, <2>2 DEF RegistryHolds, SelectedHolds
  <2>4. TypeOK'
    BY <1>1, <2>1 DEF TypeOK, AcceptSteps
  <2>5. DialerHolds' /\ DialerNotStranded' /\ AcceptorHolds'
    <3>1. dialer.pc \in {"register", "hook"} => dialer.port # None
      BY DEF DialerHolds, None
    <3>2. QED
      BY <1>1, <2>1, <2>2, <3>1 DEF DialerHolds, DialerNotStranded, AcceptorHolds
  <2>6. LivePortIsRegistered'
    BY <1>1, <2>1, <2>2 DEF LivePortIsRegistered
  <2>7. QED
    BY <1>1, <2>3, <2>4, <2>5, <2>6
<1>4. QED
  BY <1>2, <1>3 DEF Accept

-----------------------------------------------------------------------------
(* The invariant is inductive.                                              *)

LEMMA InitRelay == Init => RelayInv
<1> SUFFICES ASSUME Init PROVE RelayInv
  OBVIOUS
<1>1. Registered = {}
  BY DEF Init, Registered
<1>2. TypeOK
  <2>1. /\ relayId \in [Conns -> RelayIds \cup {None}]
        /\ conn \in [Conns -> {"none", "open", "closed"}]
        /\ relayPorts \in [RelayIds -> Conns \cup {None}]
    BY DEF Init
  <2>2. /\ dialer \in [pc : DialSteps, port : Conns \cup {None}]
        /\ acceptor \in [pc : AcceptSteps, port : Conns \cup {None}]
    BY DEF Init, DialSteps, AcceptSteps
  <2>3. made \in 0 .. MaxConns /\ run \in RunSteps
    BY MaxConnsAssumption DEF Init, RunSteps
  <2>4. QED
    BY <2>1, <2>2, <2>3 DEF Init, TypeOK
<1>3. RegistryHolds /\ SelectedHolds
  BY <1>1 DEF Init, RegistryHolds, SelectedHolds
<1>4. DialerHolds /\ AcceptorHolds /\ LivePortIsRegistered /\ DialerNotStranded
  BY DEF Init, DialerHolds, AcceptorHolds, LivePortIsRegistered, DialerNotStranded
<1>5. QED
  BY <1>2, <1>3, <1>4 DEF RelayInv, Init

LEMMA NextRelay ==
  ASSUME RelayInv, [Next]_vars
  PROVE  RelayInv'
<1>1. CASE Dial
  BY <1>1, DialMovesKeeps, DialConnectsKeeps, DialRegistersKeeps, DialHooksKeeps DEF Dial
<1>2. CASE Incoming \/ Accept \/ Run
  BY <1>2, IncomingKeeps, AcceptKeeps, RunKeeps
<1>3. CASE Cancel \/ Finished \/ UNCHANGED vars
  BY <1>3, RestKeeps
<1>4. CASE \E p \in Conns : UnregisterPort(p) \/ PortLoopFails(p) \/ ConnFails(p)
  BY <1>4, UnregisterKeeps, PortLoopKeeps, ConnFailsKeeps
<1>5. QED
  BY <1>1, <1>2, <1>3, <1>4 DEF Next

(* Registry, dial loop, accepting side and shutdown keep the strengthened    *)
(* invariant.                                                               *)
THEOREM RelayInvariant == Spec => []RelayInv
BY InitRelay, NextRelay, PTL DEF Spec

(* Every variable of the relay registry, its loops and Run has its type, for *)
(* any relay IDs and number of connections.                                 *)
THEOREM RelayTypeCorrect == Spec => []TypeOK
<1>1. RelayInv => TypeOK
  BY DEF RelayInv
<1>2. QED
  BY <1>1, RelayInvariant, PTL

(* The outbound port is always the registered one with the lowest relay ID,  *)
(* a live connection is registered, and a refused one is not left open.      *)
THEOREM RegistryAlwaysAgrees == Spec => []RegistryAgrees
<1>1. RelayInv => SelectedIsLowest
  BY SelectedAgrees DEF RelayInv
<1>2. RelayInv => LivePortIsRegistered
  BY DEF RelayInv
<1>3. RelayInv => RegistryAgrees
  BY <1>1, <1>2 DEF RegistryAgrees
<1>4. QED
  BY <1>3, RelayInvariant, PTL

(* The dial loop waits only for a port that is closed or registered.        *)
THEOREM DialerIsNeverStranded == Spec => []DialerNotStranded
<1>1. RelayInv => DialerNotStranded
  BY DEF RelayInv
<1>2. QED
  BY <1>1, RelayInvariant, PTL

=============================================================================
