---------------------------- MODULE OverlayLease ----------------------------
(***************************************************************************)
(* The lease of an overlay address (kvclient.go, lease.go, dynamic.go and  *)
(* the start and the end of Run in runtime.go).  Each node takes an        *)
(* address of a pool from a key-value store, renews its record on a ticker *)
(* and deletes the record when it stops.  The store is external: it        *)
(* applies a transaction if the compared revision is the record's.  A      *)
(* request may fail, or be applied after its sender gave it up; a process  *)
(* may die at any step.  Time is counted in minutes, by one clock.         *)
(***************************************************************************)
EXTENDS Naturals, FiniteSets

CONSTANTS Node,          \* the users that share the store
          NoNode,        \* no user
          Static,        \* those with overlay.static_address
          Pool,          \* the number of addresses from pool_start to pool_end
          LeaseDuration, \* overlay.lease_duration, in minutes
          Timely,        \* the times below bound what the nodes do
          ScanTime,      \* from the start of acquire to its transaction, in minutes
          StopTime,      \* from the end of the context to the release, in minutes
          MaxTime, MaxStarts, MaxFaults

ASSUME LeaseAssumption ==
  /\ Static \subseteq Node /\ NoNode \notin Node
  /\ Pool \in Nat \ {0} /\ LeaseDuration \in Nat \ {0}
  /\ Timely \in BOOLEAN /\ ScanTime \in Nat /\ StopTime \in Nat
  /\ MaxTime \in Nat /\ MaxStarts \in Nat /\ MaxFaults \in Nat

VARIABLES clock,
          kv,       \* the record of each address, Absent where there is none
          revision, \* the store's revision
          node,     \* the process of each node
          late,     \* requests that nobody waits for and that may be applied yet
          starts, faults,
          lapsed    \* addresses that some node held beyond its lease: history

vars == <<clock, kv, revision, node, late, starts, faults, lapsed>>

Addresses == 1 .. Pool
NoAddress == 0

(* A transaction: it compares the revision of the key, 0 for "exists:       *)
(* false", and puts the sender's value or, for a release, deletes the key.  *)
Request == [kind : {"acquire", "renew", "release"}, from : Node,
            addr : Addresses, rev : Nat, expires : Nat]
NoRequest == [kind |-> "none"]

Record == [owner : Node, expires : Nat, rev : Nat \ {0}, suffixed : BOOLEAN]
Absent == [owner |-> NoNode, expires |-> 0, rev |-> 0, suffixed |-> FALSE]

(* One run of the program: req is the transaction of acquire or of          *)
(* releaseLease, renewal that of renewOverlayLease; until is the expiry the *)
(* node knows of, peers what discoverOverlayPeers found; now is read when   *)
(* acquire starts, and stands for the end of the context once that came.    *)
Process == [pc     : {"down", "get", "txn", "discover", "up", "releaseGet", "release"},
            now    : Nat, ip : Addresses \cup {Pool + 1},
            lease  : Addresses \cup {NoAddress}, until : Nat,
            due    : Nat, renewing : BOOLEAN,
            req    : Request \cup {NoRequest},
            renewal : Request \cup {NoRequest},
            peers  : SUBSET Addresses]

Down == [pc |-> "down", now |-> 0, ip |-> 1, lease |-> NoAddress,
         until |-> 0, due |-> 0, renewing |-> FALSE, req |-> NoRequest,
         renewal |-> NoRequest, peers |-> {}]

Init ==
  /\ clock = 0 /\ revision = 0 /\ starts = 0 /\ faults = 0
  /\ kv = [a \in Addresses |-> Absent]
  /\ node = [n \in Node |-> Down]
  /\ late = {} /\ lapsed = {}

-----------------------------------------------------------------------------
(* The store                                                                *)

Matches(r) == kv[r.addr].rev = r.rev

Written(r) ==
  IF r.kind = "release" THEN Absent
  ELSE [owner |-> r.from, expires |-> r.expires, rev |-> revision + 1,
        suffixed |-> r.kind = "renew"]

Apply(r) ==
  IF Matches(r)
  THEN kv' = [kv EXCEPT ![r.addr] = Written(r)] /\ revision' = revision + 1
  ELSE UNCHANGED <<kv, revision>>

ApplyLate(r) ==
  /\ r \in late /\ late' = late \ {r}
  /\ Apply(r)
  /\ UNCHANGED <<clock, node, starts, faults>>

-----------------------------------------------------------------------------
(* A node                                                                   *)

Become(n, p) == node' = [node EXCEPT ![n] = p]

Pending(p) == {p.req, p.renewal} \ {NoRequest}

(* The process is gone; its requests may still be on their way.             *)
Ends(n) ==
  /\ Become(n, Down)
  /\ late' = late \cup Pending(node[n])

FaultAllowed == faults < MaxFaults /\ faults' = faults + 1

(* Run, up to the start of acquire: now is read once, before the scan.      *)
Start(n) ==
  /\ node[n].pc = "down" /\ starts < MaxStarts /\ starts' = starts + 1
  /\ Become(n, [Down EXCEPT !.now = clock,
                            !.pc = IF n \in Static THEN "discover" ELSE "get",
                            !.renewing = n \in Static])
  /\ UNCHANGED <<clock, kv, revision, late, faults>>

(* Mutant: the expiry that was read is not looked at.                       *)
LeasedOverlooked(a, now) == FALSE

Leased(a, now) == kv[a].rev # 0 /\ kv[a].expires > now

AcquireRequest(n, a) ==
  [kind |-> "acquire", from |-> n, addr |-> a, rev |-> kv[a].rev,
   expires |-> node[n].now + LeaseDuration]

AcquireSkips(n) ==
  /\ node[n].pc = "get" /\ node[n].ip \in Addresses
  /\ Leased(node[n].ip, node[n].now)
  /\ Become(n, [node[n] EXCEPT !.ip = @ + 1])
  /\ UNCHANGED <<clock, kv, revision, late, starts, faults>>

AcquireGet(n) ==
  /\ node[n].pc = "get" /\ node[n].ip \in Addresses
  /\ ~Leased(node[n].ip, node[n].now)
  /\ Become(n, [node[n] EXCEPT !.pc = "txn", !.req = AcquireRequest(n, node[n].ip)])
  /\ UNCHANGED <<clock, kv, revision, late, starts, faults>>

(* "kv address pool exhausted": Run returns.                                *)
AcquireExhausted(n) ==
  /\ node[n].pc = "get" /\ node[n].ip = Pool + 1
  /\ Ends(n)
  /\ UNCHANGED <<clock, kv, revision, starts, faults>>

(* Mutant: the ticker runs at the lease's own period.                       *)
IntervalWholeLease == LeaseDuration

(* The interval of the renewal ticker: at least a minute.                   *)
Interval == IF LeaseDuration \div 3 < 1 THEN 1 ELSE LeaseDuration \div 3

(* Mutant: an answered transaction counts as a successful one.              *)
AcquiredUnchecked(n) ==
  /\ node[n].pc = "txn"
  /\ Apply(node[n].req)
  /\ Become(n, [node[n] EXCEPT !.pc = "discover", !.lease = node[n].req.addr,
                               !.until = node[n].req.expires, !.req = NoRequest,
                               !.now = 0, !.ip = 1,
                               !.due = clock + Interval, !.renewing = TRUE])
  /\ UNCHANGED <<clock, late, starts, faults>>

(* The address is the node's; its renewal ticker starts.                    *)
Acquired(n) ==
  /\ node[n].pc = "txn" /\ Matches(node[n].req)
  /\ Apply(node[n].req)
  /\ Become(n, [node[n] EXCEPT !.pc = "discover", !.lease = node[n].req.addr,
                               !.until = node[n].req.expires, !.req = NoRequest,
                               !.now = 0, !.ip = 1,
                               !.due = clock + Interval, !.renewing = TRUE])
  /\ UNCHANGED <<clock, late, starts, faults>>

(* The compare failed: the next address.                                    *)
AcquireLoses(n) ==
  /\ node[n].pc = "txn" /\ ~Matches(node[n].req)
  /\ Become(n, [node[n] EXCEPT !.pc = "get", !.ip = @ + 1, !.req = NoRequest])
  /\ UNCHANGED <<clock, kv, revision, late, starts, faults>>

(* No answer to the transaction counts as a failed compare.                 *)
AcquireTimeout(n) ==
  /\ node[n].pc = "txn" /\ FaultAllowed
  /\ late' = late \cup {node[n].req}
  /\ Become(n, [node[n] EXCEPT !.pc = "get", !.ip = @ + 1, !.req = NoRequest])
  /\ UNCHANGED <<clock, kv, revision, starts>>

(* An error of a get or of the list, of OpenTUN or configureTUNRoutes, or a *)
(* crash: the process ends and leaves its record behind.                    *)
Dies(n) ==
  /\ node[n].pc # "down" /\ FaultAllowed
  /\ Ends(n)
  /\ UNCHANGED <<clock, kv, revision, starts>>

(* Mutant: the node does not leave itself out.                              *)
FoundWithSelf(n) == {a \in Addresses : kv[a].rev # 0 /\ kv[a].expires >= clock}

(* discoverOverlayPeers: one unexpired record of each other user, in the    *)
(* order of a map.                                                          *)
Found(n) == {a \in Addresses : /\ kv[a].rev # 0 /\ kv[a].owner # n
                               /\ kv[a].expires >= clock}

OnePerUser(n) ==
  {s \in SUBSET Found(n) :
     \A a \in Found(n) : \E b \in s : /\ kv[b].owner = kv[a].owner
                                      /\ \A c \in s : kv[c].owner = kv[a].owner => c = b}

(* A renewed record holds the address with its "/32", to which discovery    *)
(* adds another: newRouteTable refuses the route and Run returns.           *)
Discover(n) ==
  /\ node[n].pc = "discover"
  /\ \E s \in OnePerUser(n) :
       IF \E a \in s : kv[a].suffixed THEN Ends(n)
       ELSE Become(n, [node[n] EXCEPT !.pc = "up", !.peers = s]) /\ UNCHANGED late
  /\ UNCHANGED <<clock, kv, revision, starts, faults>>

(* renew, up to its transaction: it compares with the revision it has just  *)
(* read, whoever wrote it.                                                  *)
RenewRequest(n, a) ==
  [kind |-> "renew", from |-> n, addr |-> a, rev |-> kv[a].rev,
   expires |-> clock + LeaseDuration]

NextDue(n) == node[n].due + Interval * ((clock - node[n].due) \div Interval + 1)

RenewDue(n) == node[n].renewing /\ node[n].renewal = NoRequest /\ clock >= node[n].due

RenewGet(n) ==
  /\ RenewDue(n)
  /\ LET a == node[n].lease IN
     Become(n, [node[n] EXCEPT !.due = NextDue(n),
                  !.renewal = IF a # NoAddress /\ kv[a].rev # 0
                              THEN RenewRequest(n, a) ELSE NoRequest])
  /\ UNCHANGED <<clock, kv, revision, late, starts, faults>>

RenewFails(n) ==
  /\ RenewDue(n) /\ FaultAllowed
  /\ Become(n, [node[n] EXCEPT !.due = NextDue(n)])
  /\ UNCHANGED <<clock, kv, revision, late, starts>>

Renewed(n) ==
  /\ node[n].renewal # NoRequest
  /\ Apply(node[n].renewal)
  /\ Become(n, [node[n] EXCEPT !.renewal = NoRequest,
                  !.until = IF Matches(node[n].renewal)
                            THEN node[n].renewal.expires ELSE @])
  /\ UNCHANGED <<clock, late, starts, faults>>

RenewTimeout(n) ==
  /\ node[n].renewal # NoRequest /\ FaultAllowed
  /\ late' = late \cup {node[n].renewal}
  /\ Become(n, [node[n] EXCEPT !.renewal = NoRequest])
  /\ UNCHANGED <<clock, kv, revision, starts>>

(* The context ends: the renewals stop, Run waits and then releases.        *)
Stop(n) ==
  /\ node[n].pc = "up"
  /\ late' = late \cup Pending(node[n])
  /\ Become(n, [node[n] EXCEPT !.pc = "releaseGet", !.now = clock,
                               !.renewing = FALSE, !.renewal = NoRequest])
  /\ UNCHANGED <<clock, kv, revision, starts, faults>>

(* Before that point of Run the context's end makes the step under way fail.*)
StopEarly(n) ==
  /\ node[n].pc \in {"get", "txn", "discover"}
  /\ Ends(n)
  /\ UNCHANGED <<clock, kv, revision, starts, faults>>

ReleaseRequest(n, a) ==
  [kind |-> "release", from |-> n, addr |-> a, rev |-> kv[a].rev, expires |-> 0]

ReleaseGet(n) ==
  /\ node[n].pc = "releaseGet"
  /\ LET a == node[n].lease IN
     IF a = NoAddress \/ kv[a].rev = 0 THEN Ends(n)
     ELSE /\ Become(n, [node[n] EXCEPT !.pc = "release", !.req = ReleaseRequest(n, a)])
          /\ UNCHANGED late
  /\ UNCHANGED <<clock, kv, revision, starts, faults>>

Released(n) ==
  /\ node[n].pc = "release"
  /\ Apply(node[n].req)
  /\ Become(n, Down)
  /\ UNCHANGED <<clock, late, starts, faults>>

-----------------------------------------------------------------------------
(* How long things take.  The expiry is fixed before the pool is scanned,   *)
(* two requests an address; a renewal is two requests, each bounded by the  *)
(* request timeout, and does not take a minute; from the end of the context *)
(* Run waits for its loops before it releases.  A discovery may take any    *)
(* time, the renewals go on beside it, and a release that was sent is one   *)
(* of a node that counts on its address no more.                            *)
ScanOver(p) == p.pc \in {"get", "txn"} /\ clock >= p.now + ScanTime
StopOver(p) == p.pc = "releaseGet" /\ clock >= p.now + StopTime
RenewalDue(n) == node[n].renewal # NoRequest \/ RenewDue(n)

Tick ==
  /\ clock < MaxTime /\ clock' = clock + 1
  /\ Timely => \A n \in Node :
                 ~ScanOver(node[n]) /\ ~StopOver(node[n]) /\ ~RenewalDue(n)
  /\ UNCHANGED <<kv, revision, node, late, starts, faults>>

AcquireStep(n) ==
  \/ AcquireSkips(n) \/ AcquireGet(n) \/ AcquireExhausted(n)
  \/ Acquired(n) \/ AcquireLoses(n)

ReleaseStep(n) == ReleaseGet(n) \/ Released(n)

RenewStep(n) == RenewGet(n) \/ Renewed(n)

NodeStep(n) ==
  \/ AcquireStep(n) \/ Discover(n) \/ RenewStep(n) \/ ReleaseStep(n)
  \/ Start(n) \/ Stop(n) \/ StopEarly(n) \/ Dies(n)
  \/ AcquireTimeout(n) \/ RenewFails(n) \/ RenewTimeout(n)

(* From the acquisition to the release the node counts on its address.      *)
Holds(p) == p.pc \in {"discover", "up", "releaseGet"} /\ p.lease # NoAddress

Overdue(p, now) == Holds(p) /\ p.until <= now

NoteLapses ==
  lapsed' = lapsed \cup {a \in Addresses :
               \E n \in Node : node'[n].lease = a /\ Overdue(node'[n], clock')}

Next ==
  /\ (\E n \in Node : NodeStep(n)) \/ (\E r \in late : ApplyLate(r)) \/ Tick
  /\ NoteLapses

Spec == Init /\ [][Next]_vars

-----------------------------------------------------------------------------
TypeOK ==
  /\ clock \in Nat /\ revision \in Nat /\ starts \in Nat /\ faults \in Nat
  /\ kv \in [Addresses -> Record \cup {Absent}]
  /\ node \in [Node -> Process]
  /\ late \subseteq Request
  /\ lapsed \subseteq Addresses

(* An address that nobody held beyond its lease has the record of each node *)
(* that counts on it, good for as long as the node knows or longer:         *)
(* neither an acquire that scanned the pool, nor a renewal or a release     *)
(* that was applied late took it away (the compares of kvclient.go).        *)
HolderOnRecord ==
  \A n \in Node : LET p == node[n] IN
    Holds(p) /\ p.lease \notin lapsed =>
      kv[p.lease].owner = n /\ kv[p.lease].expires >= p.until

(* So such an address has one holder, whatever fails or dies.               *)
OneHolderUnlessLapsed ==
  \A m, n \in Node :
    /\ Holds(node[m]) /\ Holds(node[n]) /\ node[m].lease = node[n].lease
    /\ node[m].lease \notin lapsed
    => m = n

(* Until something fails, two nodes never count on the same address.        *)
OneHolder ==
  faults = 0 =>
    \A m, n \in Node :
      Holds(node[m]) /\ Holds(node[n]) /\ node[m].lease = node[n].lease => m = n

(* Until something fails no node holds an address beyond its lease: the     *)
(* renewals come in time, if the lease is longer than the scan, an interval *)
(* and the way to the release together.                                     *)
NeverLapses == faults = 0 => lapsed = {}

(* A node does not route an address that it holds to a peer.                *)
OwnAddressNotRouted ==
  \A n \in Node : LET p == node[n] IN
    p.pc = "up" /\ p.lease # NoAddress /\ p.lease \notin lapsed => p.lease \notin p.peers

Live(a) == kv[a].rev # 0 /\ kv[a].expires > clock

(* A record that has not expired passes to another node only where a lease  *)
(* has lapsed.                                                              *)
NoLiveTakeover ==
  [][\A a \in Addresses :
       /\ Live(a) /\ kv'[a].rev # 0 /\ a \notin lapsed
       => kv'[a].owner = kv[a].owner]_vars

=============================================================================
