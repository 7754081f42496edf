---------------------------- MODULE Configuration ----------------------------
(***************************************************************************)
(* The configuration of two nodes that are each other's peer, from the file *)
(* a user edits to the loops Run starts (internal/tun/config.go, dynamic.go,*)
(* runPeer and shouldDial in runtime.go): defaults, validation, the same    *)
(* once more when Run begins, and the peers that discovery adds.            *)
(*                                                                         *)
(* Numbers are the code's, durations in seconds.  Of a text only what the   *)
(* code looks at is kept: whether it is there, whether it parses.  A user   *)
(* is <<node_id, user_id>>.                                                 *)
(***************************************************************************)
EXTENDS Integers, Sequences, FiniteSets

CONSTANTS Nodes,      \* the two nodes
          User,       \* the user of each, which it gets by logging in
          Base,       \* the file each node's user begins with
          Inputs,     \* the values a field may be edited to
          Found,      \* what the list of leases may hold: sets of users
          DefaultStreamWindow,  \* the SDK's
          MaxEdits    \* bound: fields edited

VARIABLES cfg,        \* the configuration of each node
          stage,      \* "edit", "accepted", "rejected", "running"
          edits       \* fields edited so far

configVars == <<cfg, stage, edits>>

KiB == 1024
NoUser == <<0, 0>>

(* Limits of the frames the packets go into (stream.go, batch.go).          *)
StreamFrameMax == 128 * KiB
TunBatchMax    == 128 * KiB
TunBatchOverhead    == 5 + 4
StreamBatchOverhead == 4 + 2

Modes    == {"auto", "stream", "relay"}
Policies == {"auto", "always", "never"}

Numbers ==
  [requestTimeout |-> 10, pingInterval |-> 30, leaseDuration |-> 600, mtu |-> 1400,
   txQueueLength |-> 500, sendQueueSize |-> 4096, maxPacketBytes |-> 65535,
   dialRetryInterval |-> 3, relayWindowSize |-> 32, streamWindowBytes |-> DefaultStreamWindow]

(* What the YAML parser makes of the fields; "bad" is every other text.     *)
Words(known) == known \cup {"", "bad"}

Credentials == [password : {"none", "plain", "hashed"}, node : Int, user : Int, name : BOOLEAN]

Entry == [name : BOOLEAN, user : Int \X Int, routes : {"none", "valid", "bad"},
          mode : Words(Modes), policy : Words(Policies)]

Flags == {"baseURL", "overlay", "database", "static", "pool", "congestion", "addresses"}

HasType(f, v) ==
  /\ f \in DOMAIN Numbers => v \in Int
  /\ f = "mode" => v \in Words(Modes)
  /\ f = "peers" => v \in Seq(Entry)
  /\ f = "credentials" => v \in Credentials
  /\ f \in Flags => v \in BOOLEAN

Fields == DOMAIN Numbers \cup Flags \cup {"credentials", "mode", "peers"}

File(c) == /\ c = [f \in Fields |-> c[f]]
           /\ \A f \in Fields : HasType(f, c[f])

(* The tests load files that leave the window out (config_test.go).         *)
ASSUME DefaultWindowAssumption ==
  /\ DefaultStreamWindow \in Nat
  /\ 256 * KiB <= DefaultStreamWindow
  /\ DefaultStreamWindow <= 64 * 1024 * KiB

(* Two nodes log in as two users; a lease whose user has an ID that is not  *)
(* positive is passed over.                                                 *)
ASSUME ConfigAssumption ==
  /\ User \in [Nodes -> Int \X Int] /\ \A n, m \in Nodes : User[n] = User[m] => n = m
  /\ Base = [n \in Nodes |-> Base[n]] /\ \A n \in Nodes : File(Base[n])
  /\ \A f \in DOMAIN Inputs : f \in Fields /\ \A v \in Inputs[f] : HasType(f, v)
  /\ \A users \in Found : IsFiniteSet(users) /\ users \subseteq (Nat \ {0}) \X (Nat \ {0})

ApplyDefaults(c) ==
  [f \in DOMAIN c |->
     CASE f \in DOMAIN Numbers -> IF c[f] = 0 THEN Numbers[f] ELSE c[f]
       [] f = "mode" -> IF c.mode = "" THEN "auto" ELSE c.mode
       [] f = "peers" -> [i \in DOMAIN c.peers |->
                            IF c.peers[i].policy = "" THEN [c.peers[i] EXCEPT !.policy = "auto"]
                            ELSE c.peers[i]]
       [] OTHER -> c[f]]

-----------------------------------------------------------------------------
(* Validate                                                                 *)

(* The password and exactly one, whole, of ID and name.                     *)
ValidCredentials(k) ==
  /\ k.password \in {"plain", "hashed"}
  /\ (k.node # 0 \/ k.user # 0) # k.name
  /\ (k.node # 0 \/ k.user # 0) => (k.node # 0 /\ k.user # 0)

ValidOverlay(c) ==
  c.overlay => c.database /\ (c.static \/ c.pool) /\ c.leaseDuration >= 60

(* Mutant: only the sign of the window is looked at.                        *)
ValidTransportUnbounded(c) ==
  /\ c.mode \in Modes /\ c.sendQueueSize >= 1
  /\ c.mtu <= c.maxPacketBytes /\ c.maxPacketBytes <= 65535
  /\ c.dialRetryInterval > 0
  /\ c.relayWindowSize \in 1 .. 256 /\ c.streamWindowBytes > 0

ValidTransport(c) ==
  /\ c.mode \in Modes /\ c.sendQueueSize >= 1
  /\ c.mtu <= c.maxPacketBytes /\ c.maxPacketBytes <= 65535
  /\ c.dialRetryInterval > 0
  /\ c.relayWindowSize \in 1 .. 256
  /\ 256 * KiB <= c.streamWindowBytes /\ c.streamWindowBytes <= 64 * 1024 * KiB

ValidMode(p) == p.mode = "" \/ p.mode \in Modes

ValidPeer(p) ==
  /\ p.name /\ p.user[1] # 0 /\ p.user[2] # 0
  /\ ValidMode(p) /\ p.policy \in Policies
  /\ p.routes = "valid"

Distinct(peers) ==
  \A i, j \in DOMAIN peers : peers[i].user = peers[j].user => i = j

ValidTUN(c) ==
  /\ 576 <= c.mtu /\ c.mtu <= 65535
  /\ 1 <= c.txQueueLength /\ c.txQueueLength <= 100000

Valid(c) ==
  /\ c.baseURL /\ ValidCredentials(c.credentials) /\ ValidOverlay(c)
  /\ ValidTUN(c) /\ c.congestion /\ ValidTransport(c) /\ c.addresses
  /\ Distinct(c.peers) /\ \A i \in DOMAIN c.peers : ValidPeer(c.peers[i])

-----------------------------------------------------------------------------
(* Peers and who dials                                                      *)

DiscoveredPeer(u) ==
  [name |-> TRUE, user |-> u, routes |-> "valid", mode |-> "", policy |-> "auto"]

(* discoverOverlayPeers: one entry for each user that is not known, in the  *)
(* order of a map.                                                          *)
DiscoverPeers(c, self, users) ==
  LET known == {c.peers[i].user : i \in DOMAIN c.peers}
      new   == users \ (known \cup {self})
      found == {o \in [1 .. Cardinality(new) -> new] :
                  \A i, j \in DOMAIN o : o[i] = o[j] => i = j}
  IN  {c.peers \o [i \in DOMAIN o |-> DiscoveredPeer(o[i])] : o \in found}

EffectiveMode(c, p) == IF p.mode = "" THEN c.mode ELSE p.mode

(* Mutant of Precedes: users of one node do not dial each other.            *)
PrecedesByNode(u, v) == u[1] < v[1]

Precedes(u, v) == u[1] < v[1] \/ (u[1] = v[1] /\ u[2] < v[2])

ShouldDial(local, remote, policy) ==
  policy = "always" \/ (policy # "never" /\ Precedes(local, remote))

(* requestAttemptTimeout: the deadline of a request, whatever was given.    *)
AttemptTimeout(c) == IF c.requestTimeout > 0 THEN c.requestTimeout ELSE 10

(* runPeer, streamLoop: in every mode the dial loop runs on the side that   *)
(* should dial, alone or beside the stream loop.                            *)
Dials(n, v) ==
  \E i \in DOMAIN cfg[n].peers :
    cfg[n].peers[i].user = v /\ ShouldDial(User[n], v, cfg[n].peers[i].policy)

-----------------------------------------------------------------------------
Accepted(n) == stage[n] \in {"accepted", "running"}

ConfigInit == cfg = Base /\ stage = [n \in Nodes |-> "edit"] /\ edits = 0

Edit(n) ==
  /\ stage[n] = "edit" /\ edits < MaxEdits
  /\ \E f \in DOMAIN Inputs : \E v \in Inputs[f] :
       cfg' = [cfg EXCEPT ![n][f] = v]
  /\ edits' = edits + 1
  /\ UNCHANGED stage

(* LoadConfig; check-config ends here.                                      *)
Load(n) ==
  /\ stage[n] = "edit"
  /\ LET c == ApplyDefaults(cfg[n])
     IN  /\ cfg' = [cfg EXCEPT ![n] = c]
         /\ stage' = [stage EXCEPT ![n] = IF Valid(c) THEN "accepted" ELSE "rejected"]
  /\ UNCHANGED edits

(* Run: defaults and validation again, then discovery.                      *)
Start(n) ==
  /\ stage[n] = "accepted"
  /\ LET c == ApplyDefaults(cfg[n])
     IN  IF ~Valid(c) THEN stage' = [stage EXCEPT ![n] = "rejected"] /\ UNCHANGED cfg
         ELSE /\ \E users \in Found :
                   IF ~c.overlay THEN cfg' = [cfg EXCEPT ![n] = c]
                   ELSE \E peers \in DiscoverPeers(c, User[n], users) :
                          cfg' = [cfg EXCEPT ![n] = [c EXCEPT !.peers = peers]]
              /\ stage' = [stage EXCEPT ![n] = "running"]
  /\ UNCHANGED edits

ConfigNext == \E n \in Nodes : Edit(n) \/ Load(n) \/ Start(n)

ConfigSpec == ConfigInit /\ [][ConfigNext]_configVars

-----------------------------------------------------------------------------
(* Properties                                                               *)

(* What is accepted keeps to the limits that the data path relies on: a full *)
(* stream frame fits the window, so that it can ever be sent; the longest    *)
(* packet fits a frame of either kind, so that no loop has to drop it; a     *)
(* lease lasts a minute, every attempt has a deadline, and every mode and    *)
(* policy is one that runPeer knows.                                         *)
AcceptedSuitsDataPath ==
  \A n \in Nodes : Accepted(n) =>
    /\ StreamFrameMax <= cfg[n].streamWindowBytes
    /\ cfg[n].maxPacketBytes + StreamBatchOverhead <= StreamFrameMax
    /\ cfg[n].maxPacketBytes + TunBatchOverhead <= TunBatchMax
    /\ cfg[n].overlay => cfg[n].leaseDuration >= 60
    /\ AttemptTimeout(cfg[n]) > 0
    /\ \A i \in DOMAIN cfg[n].peers : LET p == cfg[n].peers[i] IN
         EffectiveMode(cfg[n], p) \in Modes /\ p.policy \in Policies

(* Two nodes that list each other with the policy auto, given, by default or *)
(* through discovery, make one connection: exactly one of them dials         *)
(* (docs/stream-mode.md: the side that dial_policy selects).                 *)
AutoPeer(n, m) ==
  \E i \in DOMAIN cfg[n].peers :
    cfg[n].peers[i].user = User[m] /\ cfg[n].peers[i].policy = "auto"

ExactlyOneDials ==
  \A n, m \in Nodes :
    n # m /\ stage[n] = "running" /\ stage[m] = "running" /\ AutoPeer(n, m) /\ AutoPeer(m, n)
      => (Dials(n, User[m]) <=> ~Dials(m, User[n]))

(* Run starts one runPeer for each user, though configured and discovered    *)
(* peers may overlap: two would fight over one entry of streamPorts.         *)
OneLoopPerUser == \A n \in Nodes : stage[n] = "running" => Distinct(cfg[n].peers)

(* So two nodes make one connection and serve it by one loop at each end.    *)
OneConnectionPerPair == ExactlyOneDials /\ OneLoopPerUser

=============================================================================
