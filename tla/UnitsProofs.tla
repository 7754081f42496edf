---------------------------- MODULE UnitsProofs ----------------------------
(***************************************************************************)
(* Lookup finds the longest prefix, for addresses of any width and any      *)
(* number of routes: nothing of NetContains matters, the order of the table *)
(* alone makes the first hit the longest.  What the configuration promises  *)
(* the rest of the program, for any users, files and edits.  And what the   *)
(* codecs make of any packets and of any bytes.                             *)
(***************************************************************************)
EXTENDS RouteTable, Configuration, PacketCodecs, WellFoundedInduction, FiniteSetTheorems,
        SequenceTheorems, TLAPS

(* The table is the configuration in the order of SliceStable, the peers    *)
(* are known, and the answer to the packet is the longest match.            *)
TableInv ==
  /\ routes \in Seq(Text)
  /\ state = "none" => packet = NoPacket
  /\ state = "built" => \E o \in Order(routes) :
                          table = [i \in DOMAIN routes |-> routes[o[i]]]
  /\ LongestPrefixWins

LEMMA LeastIndex ==
  ASSUME NEW S, S \subseteq Nat, S # {}
  PROVE  \E x \in S : \A y \in S : x <= y
<1>1. PICK x \in S : \A y \in S : ~(<<y, x>> \in OpToRel(<, Nat))
  BY NatLessThanWellFounded, WFMin
<1>2. \A y \in S : ~(y < x)
  BY <1>1 DEF OpToRel
<1>3. QED
  BY <1>2

LEMMA LengthIsNumber ==
  ASSUME NEW t \in Text
  PROVE  t.len \in Int
BY RouteAssumption DEF Text

(* The first hit in the table is the longest match in the configuration.    *)
LEMMA FirstHitIsLongest ==
  ASSUME routes \in Seq(Text), NEW p,
         NEW o \in Order(routes), table = [i \in DOMAIN routes |-> routes[o[i]]],
         NEW a, a \in IF Lookup(p) = {} THEN {None} ELSE Lookup(p)
  PROVE  \/ a = None /\ \A i \in DOMAIN routes :
                          ~(HasDestination(p) /\ NetContains(routes[i], p.dst))
         \/ \E i \in DOMAIN routes :
              /\ a = routes[i].peer
              /\ HasDestination(p) /\ NetContains(routes[i], p.dst)
              /\ \A j \in DOMAIN routes :
                   HasDestination(p) /\ NetContains(routes[j], p.dst) =>
                     \/ routes[j].len < routes[i].len
                     \/ routes[j].len = routes[i].len /\ i <= j
<1> DEFINE D == DOMAIN routes
           hits == {i \in D : HasDestination(p) /\ NetContains(table[i], p.dst)}
           first == {j \in hits : \A k \in hits : j <= k}
<1>1. D \subseteq Nat /\ DOMAIN table = D /\ \A i \in D : table[i] = routes[o[i]]
  OBVIOUS
<1>2. /\ o \in [D -> D]
      /\ \A j \in D : \E i \in D : o[i] = j
      /\ \A i, j \in D : i < j => Before(routes, o[i], o[j])
  BY DEF Order
<1>3. Lookup(p) = {table[i].peer : i \in first}
  BY <1>1 DEF Lookup
<1>4. CASE hits = {}
  <2>1. a = None
    BY <1>3, <1>4
  <2>2. ASSUME NEW j \in D, HasDestination(p), NetContains(routes[j], p.dst)
        PROVE  FALSE
    <3>1. PICK i \in D : o[i] = j
      BY <1>2
    <3>2. QED
      BY <1>1, <1>4, <2>2, <3>1
  <2>3. QED
    BY <2>1, <2>2
<1>5. CASE hits # {}
  <2>1. hits \subseteq Nat
    BY <1>1
  <2>2. \E x \in hits : \A y \in hits : x <= y
    BY <1>5, <2>1, LeastIndex
  <2>3. first # {}
    BY <2>2
  <2>4. PICK f \in first : a = table[f].peer
    <3>1. Lookup(p) # {}
      <4>1. PICK x : x \in first
        BY <2>3
      <4>2. QED
        BY ONLY <1>3, <4>1
    <3>2. a \in Lookup(p)
      BY <3>1
    <3>3. QED
      BY ONLY <1>3, <3>2
  <2>5. /\ f \in D /\ HasDestination(p) /\ NetContains(routes[o[f]], p.dst)
        /\ a = routes[o[f]].peer /\ o[f] \in D
    BY <1>1, <1>2, <2>4
  <2>6. ASSUME NEW j \in D, HasDestination(p), NetContains(routes[j], p.dst)
        PROVE  \/ routes[j].len < routes[o[f]].len
               \/ routes[j].len = routes[o[f]].len /\ o[f] <= j
    <3>1. PICK i \in D : o[i] = j
      BY <1>2
    <3>2. i \in hits
      BY <1>1, <2>6, <3>1
    <3>3. f <= i
      BY <2>4, <3>2
    <3>4. CASE f = i
      BY <1>1, <2>5, <3>1, <3>4
    <3>5. CASE f < i
      <4>1. Before(routes, o[f], j)
        BY <1>2, <2>5, <3>1, <3>5
      <4>2. routes[j].len \in Int /\ routes[o[f]].len \in Int /\ j \in Int /\ o[f] \in Int
        BY <1>1, <2>5, LengthIsNumber
      <4>3. QED
        BY <4>1, <4>2 DEF Before
    <3>6. QED
      BY <1>1, <2>5, <3>3, <3>4, <3>5
  <2>7. QED
    BY <2>5, <2>6
<1>6. QED
  BY <1>4, <1>5

LEMMA TableInvStep == TableInv /\ [Next]_vars => TableInv'
<1> SUFFICES ASSUME TableInv, [Next]_vars
             PROVE  TableInv'
  OBVIOUS
<1>1. CASE Configure
  BY <1>1 DEF Configure, TableInv, LongestPrefixWins
<1>2. CASE NewRouteTable
  <2>1. routes' = routes /\ packet' = packet /\ packet = NoPacket /\ state' # "none"
    BY <1>2 DEF NewRouteTable, TableInv
  <2>2. state' = "built" =>
          \E o \in Order(routes) : table' = [i \in DOMAIN routes |-> routes[o[i]]]
    BY <1>2 DEF NewRouteTable
  <2>3. QED
    BY <2>1, <2>2 DEF TableInv, LongestPrefixWins
<1>3. CASE ReadPacket
  <2>1. /\ UNCHANGED <<routes, table, state>> /\ state = "built"
        /\ answer' \in IF Lookup(packet') = {} THEN {None} ELSE Lookup(packet')
    BY <1>3 DEF ReadPacket
  <2>2. PICK o \in Order(routes) : table = [i \in DOMAIN routes |-> routes[o[i]]]
    BY <2>1 DEF TableInv
  <2>3. PICK p, a : p = packet' /\ a = answer'
    OBVIOUS
  <2>4. /\ routes \in Seq(Text)
        /\ a \in IF Lookup(p) = {} THEN {None} ELSE Lookup(p)
    BY <2>1, <2>3 DEF TableInv
  <2>5. \/ a = None /\ \A i \in DOMAIN routes :
                         ~(HasDestination(p) /\ NetContains(routes[i], p.dst))
        \/ \E i \in DOMAIN routes :
             /\ a = routes[i].peer
             /\ HasDestination(p) /\ NetContains(routes[i], p.dst)
             /\ \A j \in DOMAIN routes :
                  HasDestination(p) /\ NetContains(routes[j], p.dst) =>
                    \/ routes[j].len < routes[i].len
                    \/ routes[j].len = routes[i].len /\ i <= j
    BY <2>2, <2>4, FirstHitIsLongest
  <2>6. LongestPrefixWins'
    BY <2>1, <2>3, <2>5 DEF LongestPrefixWins, Covers
  <2>7. QED
    BY <2>1, <2>2, <2>6 DEF TableInv
<1>4. CASE UNCHANGED vars
  BY <1>4 DEF vars, TableInv, LongestPrefixWins, Covers
<1>5. QED
  BY <1>1, <1>2, <1>3, <1>4 DEF Next

(* The table is always in the order that makes the first hit the longest.   *)
THEOREM TableInvariant == Spec => []TableInv
<1>1. Init => TableInv
  BY DEF Init, TableInv, LongestPrefixWins
<1>2. QED
  BY <1>1, TableInvStep, PTL DEF Spec

(* Longest-prefix match, for every configuration (README.md:3).             *)
THEOREM LongestPrefix == Spec => []LongestPrefixWins
<1>1. TableInv => LongestPrefixWins
  BY DEF TableInv
<1>2. QED
  BY <1>1, TableInvariant, PTL

-----------------------------------------------------------------------------
(* Configuration                                                            *)

(* Every node has a file with all its fields, and one that was accepted     *)
(* still passes Validate, with the peers that discovery added.              *)
ConfigInv ==
  /\ cfg = [n \in Nodes |-> cfg[n]]
  /\ \A n \in Nodes : File(cfg[n])
  /\ stage \in [Nodes -> {"edit", "accepted", "rejected", "running"}]
  /\ \A n \in Nodes : Accepted(n) => Valid(cfg[n])

LEMMA NumbersAreIntegers ==
  /\ \A f \in DOMAIN Numbers : Numbers[f] \in Int
  /\ DOMAIN Numbers = {"requestTimeout", "pingInterval", "leaseDuration", "mtu",
       "txQueueLength", "sendQueueSize", "maxPacketBytes", "dialRetryInterval",
       "relayWindowSize", "streamWindowBytes"}
  /\ "mode" \notin DOMAIN Numbers /\ "peers" \notin DOMAIN Numbers
<1>1. DOMAIN Numbers = {"requestTimeout", "pingInterval", "leaseDuration", "mtu",
       "txQueueLength", "sendQueueSize", "maxPacketBytes", "dialRetryInterval",
       "relayWindowSize", "streamWindowBytes"}
  BY DEF Numbers
<1>2. /\ Numbers["requestTimeout"] = 10 /\ Numbers["pingInterval"] = 30
      /\ Numbers["leaseDuration"] = 600 /\ Numbers["mtu"] = 1400
      /\ Numbers["txQueueLength"] = 500 /\ Numbers["sendQueueSize"] = 4096
      /\ Numbers["maxPacketBytes"] = 65535 /\ Numbers["dialRetryInterval"] = 3
      /\ Numbers["relayWindowSize"] = 32
      /\ Numbers["streamWindowBytes"] = DefaultStreamWindow
  BY DEF Numbers
<1>3. DefaultStreamWindow \in Int
  BY DefaultWindowAssumption
<1>4. QED
  BY <1>1, <1>2, <1>3

LEMMA DefaultsTyped ==
  ASSUME NEW c, File(c)
  PROVE  File(ApplyDefaults(c))
<1> DEFINE d == ApplyDefaults(c)
           D == DOMAIN Numbers
<1>1. DOMAIN c = Fields /\ D \subseteq Fields /\ "mode" \in Fields /\ "peers" \in Fields
  BY DEF File, Fields
<1>2. d = [f \in Fields |->
             CASE f \in D -> IF c[f] = 0 THEN Numbers[f] ELSE c[f]
               [] f = "mode" -> IF c.mode = "" THEN "auto" ELSE c.mode
               [] f = "peers" -> [i \in DOMAIN c.peers |->
                      IF c.peers[i].policy = "" THEN [c.peers[i] EXCEPT !.policy = "auto"]
                      ELSE c.peers[i]]
               [] OTHER -> c[f]]
  BY <1>1 DEF ApplyDefaults
<1> HIDE DEF d, D
<1>3. DOMAIN d = Fields /\ d = [f \in Fields |-> d[f]]
  <2> DEFINE e(f) ==
        CASE f \in D -> IF c[f] = 0 THEN Numbers[f] ELSE c[f]
          [] f = "mode" -> IF c.mode = "" THEN "auto" ELSE c.mode
          [] f = "peers" -> [i \in DOMAIN c.peers |->
                 IF c.peers[i].policy = "" THEN [c.peers[i] EXCEPT !.policy = "auto"]
                 ELSE c.peers[i]]
          [] OTHER -> c[f]
  <2>1. d = [f \in Fields |-> e(f)]
    BY <1>2
  <2> HIDE DEF e
  <2>2. QED
    BY <2>1
<1>4. "mode" \notin D /\ "peers" \notin D
  BY NumbersAreIntegers DEF D
<1>5. ASSUME NEW f \in Fields, f \in D
      PROVE  d[f] = IF c[f] = 0 THEN Numbers[f] ELSE c[f]
  BY <1>2, <1>4, <1>5
<1>6. d["mode"] = IF c.mode = "" THEN "auto" ELSE c.mode
  BY <1>1, <1>2, <1>4
<1>7. d["peers"] = [i \in DOMAIN c.peers |->
                      IF c.peers[i].policy = "" THEN [c.peers[i] EXCEPT !.policy = "auto"]
                      ELSE c.peers[i]]
  BY <1>1, <1>2, <1>4
<1>8. ASSUME NEW f \in Fields, f \notin D, f # "mode", f # "peers"
      PROVE  d[f] = c[f]
  BY <1>2, <1>8
<1>9. d["peers"] \in Seq(Entry)
  <2>1. c.peers \in Seq(Entry)
    BY <1>1 DEF File, HasType
  <2>2. PICK s, e : s = c.peers /\ e = d["peers"]
    OBVIOUS
  <2>3. e = [i \in DOMAIN s |->
               IF s[i].policy = "" THEN [s[i] EXCEPT !.policy = "auto"] ELSE s[i]]
    BY <1>7, <2>2
  <2>4. \A p \in Entry : [p EXCEPT !.policy = "auto"] \in Entry
    BY DEF Entry, Words, Policies
  <2>5. e \in Seq(Entry)
    <3>1. ASSUME NEW i \in DOMAIN s
          PROVE  e[i] \in Entry
      <4>1. s[i] \in Entry
        BY <2>1, <2>2
      <4>2. e[i] = IF s[i].policy = "" THEN [s[i] EXCEPT !.policy = "auto"] ELSE s[i]
        BY <2>3
      <4>3. QED
        BY <2>4, <4>1, <4>2
    <3>2. DOMAIN e = DOMAIN s /\ e = [i \in DOMAIN s |-> e[i]]
      <4> DEFINE g(i) == IF s[i].policy = "" THEN [s[i] EXCEPT !.policy = "auto"] ELSE s[i]
      <4>1. e = [i \in DOMAIN s |-> g(i)]
        BY <2>3
      <4> HIDE DEF g
      <4>2. QED
        BY <4>1
    <3>3. DOMAIN s = 1 .. Len(s) /\ Len(s) \in Nat
      BY <2>1, <2>2
    <3>4. e \in [1 .. Len(s) -> Entry]
      BY <3>1, <3>2, <3>3
    <3>5. QED
      BY <3>3, <3>4
  <2>6. QED
    BY <2>2, <2>5
<1>10. \A f \in Fields : HasType(f, c[f])
  BY DEF File
<1>11. ASSUME NEW f \in Fields
       PROVE  HasType(f, d[f])
  <2>1. CASE f \in D
    <3>1. d[f] \in Int
      BY <1>5, <1>10, <2>1, NumbersAreIntegers DEF HasType, D
    <3>2. f \notin Flags /\ f # "mode" /\ f # "peers" /\ f # "credentials"
      BY <2>1, NumbersAreIntegers DEF D, Flags
    <3>3. QED
      BY <3>1, <3>2 DEF HasType
  <2>2. CASE f = "mode"
    <3>1. c.mode \in Words(Modes) /\ d[f] \in Words(Modes)
      BY <1>1, <1>6, <1>10, <2>2 DEF HasType, Words, Modes
    <3>2. QED
      BY <1>4, <2>2, <3>1 DEF HasType, D, Flags
  <2>3. CASE f = "peers"
    BY <1>4, <1>9, <2>3 DEF HasType, D, Flags
  <2>4. CASE f \notin D /\ f # "mode" /\ f # "peers"
    BY <1>8, <1>10, <2>4
  <2>5. QED
    BY <2>1, <2>2, <2>3, <2>4
<1>12. QED
  BY <1>3, <1>11 DEF File, d

LEMMA FieldsTyped ==
  ASSUME NEW c, File(c)
  PROVE  /\ DOMAIN c = Fields /\ "peers" \in Fields /\ c.peers \in Seq(Entry)
         /\ c.maxPacketBytes \in Int /\ c.streamWindowBytes \in Int
<1>1. DOMAIN c = Fields
  BY DEF File
<1>2. "peers" \in Fields /\ "maxPacketBytes" \in Fields /\ "streamWindowBytes" \in Fields
  BY NumbersAreIntegers DEF Fields
<1>3. HasType("peers", c["peers"])
  BY <1>2 DEF File
<1>4. HasType("maxPacketBytes", c["maxPacketBytes"])
  BY <1>2 DEF File
<1>5. HasType("streamWindowBytes", c["streamWindowBytes"])
  BY <1>2 DEF File
<1>6. c.peers \in Seq(Entry)
  BY <1>3 DEF HasType
<1>7. c.maxPacketBytes \in Int /\ c.streamWindowBytes \in Int
  BY <1>4, <1>5, NumbersAreIntegers DEF HasType
<1>8. QED
  BY <1>1, <1>2, <1>6, <1>7

LEMMA DiscoveredIsValid ==
  ASSUME NEW u \in (Nat \ {0}) \X (Nat \ {0})
  PROVE  /\ DiscoveredPeer(u) \in Entry /\ DiscoveredPeer(u).user = u
         /\ ValidPeer(DiscoveredPeer(u))
<1>1. PICK a \in Nat \ {0}, b \in Nat \ {0} : u = <<a, b>>
  OBVIOUS
<1>2. u \in Int \X Int /\ u[1] # 0 /\ u[2] # 0
  BY <1>1
<1>3. QED
  BY <1>2 DEF DiscoveredPeer, Entry, ValidPeer, ValidMode, Policies, Modes, Words

LEMMA Appended ==
  ASSUME NEW S, NEW p \in Seq(S), NEW n \in Nat, NEW s \in [1 .. n -> S]
  PROVE  /\ p \o s \in Seq(S) /\ DOMAIN p = 1 .. Len(p) /\ Len(p) \in Nat
         /\ DOMAIN (p \o s) = 1 .. (Len(p) + n)
         /\ \A i \in 1 .. Len(p) : (p \o s)[i] = p[i]
         /\ \A i \in DOMAIN (p \o s) : i \notin 1 .. Len(p) =>
              i - Len(p) \in 1 .. n /\ (p \o s)[i] = s[i - Len(p)]
<1>1. s \in Seq(S) /\ Len(s) = n
  OBVIOUS
<1>2. QED
  BY <1>1

(* Discovery appends entries of users that no entry had, each once.         *)
LEMMA DiscoveryKeepsValid ==
  ASSUME NEW c, File(c), Valid(c), NEW self, NEW users \in Found,
         NEW peers \in DiscoverPeers(c, self, users)
  PROVE  /\ File([c EXCEPT !.peers = peers])
         /\ Valid([c EXCEPT !.peers = peers])
<1> DEFINE known == {c.peers[i].user : i \in DOMAIN c.peers}
           new == users \ (known \cup {self})
           N == Cardinality(new)
           k == Len(c.peers)
           d == [c EXCEPT !.peers = peers]
<1>1. c.peers \in Seq(Entry) /\ "peers" \in Fields /\ DOMAIN c = Fields
  BY FieldsTyped
<1>2. Distinct(c.peers) /\ \A i \in DOMAIN c.peers : ValidPeer(c.peers[i])
  BY Zenon DEF Valid
<1>3. PICK o \in [1 .. N -> new] :
        /\ \A i, j \in DOMAIN o : o[i] = o[j] => i = j
        /\ peers = c.peers \o [i \in DOMAIN o |-> DiscoveredPeer(o[i])]
  BY DEF DiscoverPeers
<1>4. N \in Nat
  BY ConfigAssumption, FS_Subset, FS_CardinalityType
<1>5. \A u \in new : u \notin known /\ u \in (Nat \ {0}) \X (Nat \ {0})
  BY ConfigAssumption
<1> HIDE DEF N, new, known
<1>6. PICK s : s = [i \in 1 .. N |-> DiscoveredPeer(o[i])]
  OBVIOUS
<1>7. /\ peers = c.peers \o s /\ DOMAIN o = 1 .. N
      /\ \A i \in 1 .. N : o[i] \in new /\ s[i] = DiscoveredPeer(o[i])
  BY <1>3, <1>6
<1>8. \A i \in 1 .. N : /\ s[i] \in Entry /\ ValidPeer(s[i])
                        /\ s[i].user = o[i] /\ o[i] \notin known
  BY <1>5, <1>7, DiscoveredIsValid
<1>9. s \in [1 .. N -> Entry]
  BY <1>6, <1>8
<1>10. /\ peers \in Seq(Entry) /\ DOMAIN c.peers = 1 .. k /\ k \in Nat
       /\ DOMAIN peers = 1 .. (k + N)
       /\ \A i \in 1 .. k : peers[i] = c.peers[i]
       /\ \A i \in DOMAIN peers : i \notin 1 .. k =>
            i - k \in 1 .. N /\ peers[i] = s[i - k]
  BY <1>1, <1>4, <1>7, <1>9, Appended
<1>11. \A i \in DOMAIN peers : i \in 1 .. k =>
         peers[i].user \in known /\ ValidPeer(peers[i])
  BY <1>2, <1>10 DEF known
<1>12. \A i \in DOMAIN peers : i \notin 1 .. k =>
         /\ i - k \in 1 .. N /\ peers[i].user = o[i - k]
         /\ peers[i].user \notin known /\ ValidPeer(peers[i])
  BY <1>8, <1>10
<1>13. Distinct(peers)
  <2> SUFFICES ASSUME NEW i \in DOMAIN peers, NEW j \in DOMAIN peers,
                      peers[i].user = peers[j].user
               PROVE  i = j
    BY DEF Distinct
  <2>1. CASE i \in 1 .. k /\ j \in 1 .. k
    <3>1. c.peers[i].user = c.peers[j].user
      BY <1>10, <2>1
    <3>2. QED
      BY <1>2, <1>10, <2>1, <3>1 DEF Distinct
  <2>2. CASE (i \in 1 .. k) # (j \in 1 .. k)
    BY <1>11, <1>12, <2>2
  <2>3. CASE i \notin 1 .. k /\ j \notin 1 .. k
    <3>1. /\ i - k \in DOMAIN o /\ j - k \in DOMAIN o /\ o[i - k] = o[j - k]
      BY <1>7, <1>12, <2>3
    <3>2. i - k = j - k
      BY <1>3, <3>1
    <3>3. i \in Int /\ j \in Int /\ k \in Int
      BY <1>4, <1>10
    <3>4. QED
      BY <3>2, <3>3
  <2>4. QED
    BY <2>1, <2>2, <2>3
<1>14. /\ d = [f \in Fields |-> d[f]] /\ d.peers = peers
       /\ \A f \in Fields : f # "peers" => d[f] = c[f]
  BY <1>1
<1>15. File(d)
  <2>1. HasType("peers", peers)
    BY <1>10, NumbersAreIntegers DEF HasType, Flags
  <2>2. \A f \in Fields : HasType(f, c[f])
    BY DEF File
  <2>3. \A f \in Fields : HasType(f, d[f])
    BY <1>14, <2>1, <2>2
  <2> HIDE DEF d
  <2>4. QED
    BY <1>14, <2>3 DEF File
<1>16. Valid(d)
  <2>1. /\ d.baseURL = c.baseURL /\ d.credentials = c.credentials /\ d.overlay = c.overlay
        /\ d.database = c.database /\ d.static = c.static /\ d.pool = c.pool
        /\ d.leaseDuration = c.leaseDuration /\ d.mtu = c.mtu /\ d.congestion = c.congestion
        /\ d.txQueueLength = c.txQueueLength /\ d.addresses = c.addresses
    BY <1>14, NumbersAreIntegers DEF Fields, Flags
  <2>2. /\ d.mode = c.mode /\ d.sendQueueSize = c.sendQueueSize
        /\ d.maxPacketBytes = c.maxPacketBytes /\ d.dialRetryInterval = c.dialRetryInterval
        /\ d.relayWindowSize = c.relayWindowSize /\ d.streamWindowBytes = c.streamWindowBytes
    BY <1>14, NumbersAreIntegers DEF Fields, Flags
  <2>3. d.peers = peers /\ \A i \in DOMAIN peers : ValidPeer(peers[i])
    BY <1>11, <1>12, <1>14
  <2> HIDE DEF d
  <2>4. /\ c.baseURL /\ ValidCredentials(c.credentials) /\ ValidOverlay(c)
        /\ ValidTUN(c) /\ c.congestion /\ ValidTransport(c) /\ c.addresses
    BY Zenon DEF Valid
  <2>5. ValidOverlay(d)
    BY <2>1, <2>4, Zenon DEF ValidOverlay
  <2>6. ValidTransport(d)
    <3>1. d.mtu = c.mtu
      BY <2>1
    <3>2. ValidTransport(c)
      BY <2>4, Zenon
    <3>3. QED
      BY <2>2, <3>1, <3>2 DEF ValidTransport
  <2>7. ValidTUN(d)
    <3>1. d.mtu = c.mtu /\ d.txQueueLength = c.txQueueLength
      BY <2>1
    <3>2. ValidTUN(c)
      BY <2>4, Zenon
    <3>3. QED
      BY <3>1, <3>2 DEF ValidTUN
  <2>8. QED
    BY <1>13, <2>1, <2>3, <2>4, <2>5, <2>6, <2>7, Zenon DEF Valid
<1>17. QED
  BY <1>15, <1>16

LEMMA ConfigInvStep == ConfigInv /\ [ConfigNext]_configVars => ConfigInv'
<1> SUFFICES ASSUME ConfigInv, [ConfigNext]_configVars
             PROVE  ConfigInv'
  OBVIOUS
<1>1. ASSUME NEW n \in Nodes, NEW c, NEW g, cfg' = [cfg EXCEPT ![n] = c],
             stage' = [stage EXCEPT ![n] = g], File(c),
             g \in {"edit", "accepted", "rejected", "running"},
             g \in {"accepted", "running"} => Valid(c)
      PROVE  ConfigInv'
  BY <1>1 DEF ConfigInv, Accepted
<1>2. ASSUME NEW n \in Nodes, Edit(n)
      PROVE  ConfigInv'
  <2>1. PICK f \in DOMAIN Inputs : \E v \in Inputs[f] : cfg' = [cfg EXCEPT ![n][f] = v]
    BY <1>2 DEF Edit
  <2>2. PICK v \in Inputs[f] : cfg' = [cfg EXCEPT ![n][f] = v]
    BY <2>1
  <2>3. f \in Fields /\ HasType(f, v)
    BY ConfigAssumption
  <2>4. File(cfg[n])
    BY DEF ConfigInv
  <2> DEFINE c == [cfg[n] EXCEPT ![f] = v]
  <2>5. c = [x \in Fields |-> c[x]] /\ \A x \in Fields : c[x] = IF x = f THEN v ELSE cfg[n][x]
    BY <2>3, <2>4 DEF File
  <2>6. File(c)
    BY <2>3, <2>4, <2>5 DEF File
  <2>7. cfg' = [cfg EXCEPT ![n] = c]
    BY <2>2
  <2> HIDE DEF c
  <2>8. stage' = [stage EXCEPT ![n] = "edit"] /\ stage[n] = "edit"
    BY <1>2 DEF Edit, ConfigInv
  <2>9. QED
    BY <1>1, <2>6, <2>7, <2>8
<1>3. ASSUME NEW n \in Nodes, Load(n)
      PROVE  ConfigInv'
  <2>1. PICK c : c = ApplyDefaults(cfg[n])
    OBVIOUS
  <2>2. /\ cfg' = [cfg EXCEPT ![n] = c]
        /\ stage' = [stage EXCEPT ![n] = IF Valid(c) THEN "accepted" ELSE "rejected"]
    BY <1>3, <2>1 DEF Load
  <2>3. File(c)
    BY <2>1, DefaultsTyped DEF ConfigInv
  <2>4. CASE Valid(c)
    BY <1>1, <2>2, <2>3, <2>4
  <2>5. CASE ~Valid(c)
    BY <1>1, <2>2, <2>3, <2>5
  <2>6. QED
    BY <2>4, <2>5
<1>4. ASSUME NEW n \in Nodes, Start(n)
      PROVE  ConfigInv'
  <2>1. PICK c : c = ApplyDefaults(cfg[n])
    OBVIOUS
  <2>2. File(c) /\ File(cfg[n])
    BY <2>1, DefaultsTyped DEF ConfigInv
  <2>3. CASE ~Valid(c)
    <3>1. stage' = [stage EXCEPT ![n] = "rejected"] /\ cfg' = cfg
      BY <1>4, <2>1, <2>3 DEF Start
    <3>2. cfg' = [cfg EXCEPT ![n] = cfg[n]]
      BY <3>1 DEF ConfigInv
    <3>3. QED
      BY <1>1, <2>2, <3>1, <3>2
  <2>4. CASE Valid(c)
    <3>1. /\ stage' = [stage EXCEPT ![n] = "running"]
          /\ \E users \in Found :
               IF ~c.overlay THEN cfg' = [cfg EXCEPT ![n] = c]
               ELSE \E peers \in DiscoverPeers(c, User[n], users) :
                      cfg' = [cfg EXCEPT ![n] = [c EXCEPT !.peers = peers]]
      BY <1>4, <2>1, <2>4 DEF Start
    <3>2. CASE cfg' = [cfg EXCEPT ![n] = c]
      BY <1>1, <2>2, <2>4, <3>1, <3>2
    <3>3. CASE cfg' # [cfg EXCEPT ![n] = c]
      <4>1. PICK users \in Found :
              \E peers \in DiscoverPeers(c, User[n], users) :
                cfg' = [cfg EXCEPT ![n] = [c EXCEPT !.peers = peers]]
        BY <3>1, <3>3
      <4>2. PICK peers \in DiscoverPeers(c, User[n], users) :
              cfg' = [cfg EXCEPT ![n] = [c EXCEPT !.peers = peers]]
        BY <4>1
      <4>3. PICK d : d = [c EXCEPT !.peers = peers]
        OBVIOUS
      <4>4. File(d) /\ Valid(d)
        BY <2>2, <2>4, <4>3, DiscoveryKeepsValid
      <4>5. QED
        BY <1>1, <3>1, <4>2, <4>3, <4>4
    <3>4. QED
      BY <3>2, <3>3
  <2>5. QED
    BY <2>3, <2>4
<1>5. CASE UNCHANGED configVars
  BY <1>5 DEF configVars, ConfigInv, Accepted
<1>6. QED
  BY <1>2, <1>3, <1>4, <1>5 DEF ConfigNext

(* A file that was accepted passes Validate until the program ends, also    *)
(* with the peers that discovery adds to it.                                *)
THEOREM AcceptedStaysValid == ConfigSpec => []ConfigInv
<1>1. ConfigInit => ConfigInv
  BY ConfigAssumption DEF ConfigInit, ConfigInv, Accepted
<1>2. QED
  BY <1>1, ConfigInvStep, PTL DEF ConfigSpec

(* Whatever the files hold, what is accepted keeps to the limits that the   *)
(* data path relies on (config.go:197, stream.go:16, batch.go:12).          *)
THEOREM AcceptedAlwaysSuits == ConfigSpec => []AcceptedSuitsDataPath
<1>1. ConfigInv => AcceptedSuitsDataPath
  <2> SUFFICES ASSUME ConfigInv, NEW n \in Nodes, Accepted(n)
               PROVE  /\ StreamFrameMax <= cfg[n].streamWindowBytes
                      /\ cfg[n].maxPacketBytes + StreamBatchOverhead <= StreamFrameMax
                      /\ cfg[n].maxPacketBytes + TunBatchOverhead <= TunBatchMax
                      /\ cfg[n].overlay => cfg[n].leaseDuration >= 60
                      /\ AttemptTimeout(cfg[n]) > 0
                      /\ \A i \in DOMAIN cfg[n].peers : LET p == cfg[n].peers[i] IN
                           EffectiveMode(cfg[n], p) \in Modes /\ p.policy \in Policies
    BY DEF AcceptedSuitsDataPath
  <2>1. PICK c : c = cfg[n]
    OBVIOUS
  <2>2. File(c) /\ Valid(c)
    BY <2>1 DEF ConfigInv
  <2>3. /\ c.maxPacketBytes \in Int /\ c.streamWindowBytes \in Int
    BY <2>2, FieldsTyped
  <2>4. /\ StreamFrameMax <= c.streamWindowBytes
        /\ c.maxPacketBytes + StreamBatchOverhead <= StreamFrameMax
        /\ c.maxPacketBytes + TunBatchOverhead <= TunBatchMax
    BY <2>2, <2>3 DEF Valid, ValidTransport, StreamFrameMax, StreamBatchOverhead,
                      TunBatchOverhead, TunBatchMax, KiB
  <2>5. c.overlay => c.leaseDuration >= 60
    BY <2>2 DEF Valid, ValidOverlay
  <2>6. AttemptTimeout(c) > 0
    BY DEF AttemptTimeout
  <2>7. \A i \in DOMAIN c.peers :
          EffectiveMode(c, c.peers[i]) \in Modes /\ c.peers[i].policy \in Policies
    <3>1. ValidTransport(c) /\ \A i \in DOMAIN c.peers : ValidPeer(c.peers[i])
      BY <2>2, Zenon DEF Valid
    <3>2. c.mode \in Modes
      BY <3>1 DEF ValidTransport
    <3>3. QED
      BY <3>1, <3>2 DEF ValidPeer, ValidMode, EffectiveMode
  <2>8. QED
    BY <2>1, <2>4, <2>5, <2>6, <2>7
<1>2. QED
  BY <1>1, AcceptedStaysValid, PTL

LEMMA OneOfTwoPrecedes ==
  ASSUME NEW n \in Nodes, NEW m \in Nodes, n # m
  PROVE  Precedes(User[n], User[m]) <=> ~Precedes(User[m], User[n])
<1>1. /\ User[n] \in Int \X Int /\ User[m] \in Int \X Int /\ User[n] # User[m]
  BY ConfigAssumption
<1>2. PICK a, b, c, d : /\ a \in Int /\ b \in Int /\ c \in Int /\ d \in Int
                        /\ User[n] = <<a, b>> /\ User[m] = <<c, d>>
  BY <1>1
<1>3. a # c \/ b # d
  BY <1>1, <1>2
<1>4. QED
  BY <1>2, <1>3 DEF Precedes

LEMMA AutoDials ==
  ASSUME ConfigInv, NEW n \in Nodes, NEW m \in Nodes, Accepted(n), AutoPeer(n, m)
  PROVE  Dials(n, User[m]) <=> Precedes(User[n], User[m])
<1>1. Distinct(cfg[n].peers)
  BY DEF ConfigInv, Valid
<1>2. PICK i \in DOMAIN cfg[n].peers :
        cfg[n].peers[i].user = User[m] /\ cfg[n].peers[i].policy = "auto"
  BY DEF AutoPeer
<1>3. \A j \in DOMAIN cfg[n].peers : cfg[n].peers[j].user = User[m] => j = i
  BY <1>1, <1>2 DEF Distinct
<1>4. Dials(n, User[m]) <=> ShouldDial(User[n], User[m], "auto")
  BY <1>2, <1>3 DEF Dials
<1>5. QED
  BY <1>4 DEF ShouldDial

(* With transport policy auto, two nodes that list each other make one      *)
(* connection, served by one loop at each end, whoever they are and         *)
(* whatever discovery added.                                                *)
THEOREM OneConnectionAlways == ConfigSpec => []OneConnectionPerPair
<1>1. ConfigInv => OneConnectionPerPair
  <2> SUFFICES ASSUME ConfigInv
               PROVE  OneConnectionPerPair
    OBVIOUS
  <2>1. ASSUME NEW n \in Nodes, NEW m \in Nodes, n # m, stage[n] = "running",
               stage[m] = "running", AutoPeer(n, m), AutoPeer(m, n)
        PROVE  Dials(n, User[m]) <=> ~Dials(m, User[n])
    BY <2>1, AutoDials, OneOfTwoPrecedes DEF Accepted
  <2>2. ASSUME NEW n \in Nodes, stage[n] = "running"
        PROVE  Distinct(cfg[n].peers)
    BY <2>2 DEF ConfigInv, Accepted, Valid
  <2>3. QED
    BY <2>1, <2>2 DEF OneConnectionPerPair, ExactlyOneDials, OneLoopPerUser
<1>2. QED
  BY <1>1, AcceptedStaysValid, PTL

-----------------------------------------------------------------------------
(* Codecs: induction over a number, and functions defined by it             *)

(* Induction, for a set: its least missing number would follow one of its   *)
(* own.                                                                     *)
LEMMA StepByStep ==
  ASSUME NEW N \in Nat, NEW T, 0 \in T, \A n \in 0 .. N - 1 : n \in T => n + 1 \in T
  PROVE  0 .. N \subseteq T
<1> SUFFICES ASSUME (0 .. N) \ T # {}
             PROVE  FALSE
  OBVIOUS
<1>1. PICK x \in (0 .. N) \ T : \A y \in (0 .. N) \ T : x <= y
  <2>1. (0 .. N) \ T \subseteq Nat
    OBVIOUS
  <2>2. QED
    BY <2>1, LeastIndex
<1>2. x # 0 /\ x - 1 \in 0 .. N - 1 /\ (x - 1) + 1 = x
  BY <1>1
<1>3. x - 1 \in T
  BY <1>1, <1>2
<1>4. QED
  BY <1>1, <1>2, <1>3

(* g unfolds F from start: each value is what F makes of the one before.    *)
Unfolds(g, S, N, start, F) ==
  /\ g \in [0 .. N -> S] /\ g[0] = start
  /\ \A n \in 1 .. N : g[n] = F[<<n, g[n - 1]>>]

(* There is such a function.                                                *)
LEMMA Recursion ==
  ASSUME NEW S, NEW N \in Nat, NEW start \in S, NEW F \in [(1 .. N) \X S -> S]
  PROVE  \E g : Unfolds(g, S, N, start, F)
<1> DEFINE T == {k \in 0 .. N : \E g : Unfolds(g, S, k, start, F)}
<1>1. 0 \in T
  <2>1. Unfolds([n \in 0 .. 0 |-> start], S, 0, start, F)
    BY DEF Unfolds
  <2>2. \E g : Unfolds(g, S, 0, start, F)
    BY <2>1
  <2>3. QED
    BY <2>2
<1>2. ASSUME NEW k \in 0 .. N - 1, k \in T
      PROVE  k + 1 \in T
  <2>1. PICK g : Unfolds(g, S, k, start, F)
    BY <1>2
  <2> DEFINE h == [n \in 0 .. k + 1 |-> IF n = k + 1 THEN F[<<n, g[k]>>] ELSE g[n]]
  <2>2. g[k] \in S /\ F[<<k + 1, g[k]>>] \in S
    BY <2>1 DEF Unfolds
  <2>3. h \in [0 .. k + 1 -> S] /\ h[0] = start
    BY <2>1, <2>2 DEF Unfolds
  <2>4. \A n \in 1 .. k + 1 : h[n] = F[<<n, h[n - 1]>>]
    <3> TAKE n \in 1 .. k + 1
    <3>1. CASE n = k + 1
      BY <3>1
    <3>2. CASE n \in 1 .. k
      BY <3>2, <2>1 DEF Unfolds
    <3>3. QED
      BY <3>1, <3>2
  <2>5. Unfolds(h, S, k + 1, start, F)
    BY <2>3, <2>4 DEF Unfolds
  <2> HIDE DEF h
  <2>6. \E f : Unfolds(f, S, k + 1, start, F)
    BY <2>5
  <2>7. QED
    BY <2>6
<1>3. N \in T
  <2> HIDE DEF T
  <2>1. 0 .. N \subseteq T
    BY <1>1, <1>2, StepByStep
  <2>2. QED
    BY <2>1
<1>4. QED
  BY <1>3

(* And a function that does so where its values are known to be in S has    *)
(* them there.                                                              *)
LEMMA Unfolded ==
  ASSUME NEW S, NEW N \in Nat, NEW start \in S, NEW F \in [(1 .. N) \X S -> S],
         NEW g, g = [n \in 0 .. N |-> g[n]], g[0] = start,
         \A n \in 1 .. N : g[n - 1] \in S => g[n] = F[<<n, g[n - 1]>>]
  PROVE  Unfolds(g, S, N, start, F)
<1> DEFINE T == {n \in 0 .. N : g[n] \in S}
<1>1. 0 \in T
  OBVIOUS
<1>2. ASSUME NEW n \in 0 .. N - 1, n \in T PROVE n + 1 \in T
  <2>1. n + 1 \in 1 .. N /\ (n + 1) - 1 = n /\ g[n] \in S
    BY <1>2
  <2>2. g[n + 1] = F[<<n + 1, g[n]>>]
    BY <2>1
  <2>3. QED
    BY <2>1, <2>2
<1> HIDE DEF T
<1>3. 0 .. N \subseteq T
  BY <1>1, <1>2, StepByStep
<1>4. \A n \in 0 .. N : g[n] \in S
  BY <1>3 DEF T
<1>5. g \in [0 .. N -> S]
  BY <1>4
<1>6. \A n \in 1 .. N : g[n] = F[<<n, g[n - 1]>>]
  <2> TAKE n \in 1 .. N
  <2>1. n - 1 \in 0 .. N
    OBVIOUS
  <2>2. g[n - 1] \in S
    BY <1>4, <2>1
  <2>3. QED
    BY <2>2
<1>7. QED
  BY <1>5, <1>6 DEF Unfolds

-----------------------------------------------------------------------------
(* Numbers                                                                  *)

(* The quotient and the rest.                                               *)
LEMMA Euclid ==
  ASSUME NEW R \in Nat, R > 0, NEW n \in Nat
  PROVE  n \div R \in Nat /\ (n % R) \in 0 .. R - 1 /\ n = R * (n \div R) + (n % R)
OBVIOUS

(* There is only one way to divide.                                         *)
LEMMA OnlyParts ==
  ASSUME NEW R \in Nat, R > 0, NEW v \in Nat, NEW w \in Nat,
         NEW b \in 0 .. R - 1, NEW c \in 0 .. R - 1, R * v + b = R * w + c
  PROVE  v = w /\ b = c
OBVIOUS

LEMMA Commutes == ASSUME NEW R \in Nat, NEW v \in Nat PROVE R * v \in Nat /\ R * v = v * R
OBVIOUS

LEMMA RadixIs == Radix \in Nat /\ Radix > 0
BY CodecAssumption

(* A number is its last byte and what is before it.                         *)
LEMMA Parts ==
  ASSUME NEW n \in Nat
  PROVE  /\ n \div Radix \in Nat /\ (n % Radix) \in Byte
         /\ n = (n \div Radix) * Radix + (n % Radix)
BY RadixIs, Euclid, Commutes DEF Byte

(* A byte put after a number is its last.                                   *)
LEMMA Whole ==
  ASSUME NEW v \in Nat, NEW b \in Byte
  PROVE  /\ v * Radix + b \in Nat
         /\ (v * Radix + b) \div Radix = v /\ (v * Radix + b) % Radix = b
<1>1. PICK n \in Nat : n = v * Radix + b /\ n = Radix * v + b
  BY RadixIs, Commutes DEF Byte
<1>2. /\ n \div Radix \in Nat /\ (n % Radix) \in 0 .. Radix - 1
      /\ n = Radix * (n \div Radix) + (n % Radix)
  BY RadixIs, Euclid
<1>3. n \div Radix = v /\ n % Radix = b
  BY <1>1, <1>2, RadixIs, OnlyParts DEF Byte
<1>4. QED
  BY <1>1, <1>3

(* What is before the last byte grows with the number.                      *)
LEMMA PartsGrow ==
  ASSUME NEW R \in Nat, R > 0, NEW m \in Nat, NEW n \in Nat, m <= n
  PROVE  m \div R <= n \div R
OBVIOUS

(* Shift loses a byte at a time.                                            *)
LEMMA ShiftIs ==
  ASSUME NEW n \in Nat, NEW width \in Nat
  PROVE  /\ Shift(n, width) \in [0 .. width -> Nat]
         /\ Shift(n, width)[0] = n
         /\ \A j \in 1 .. width : Shift(n, width)[j] = Shift(n, width)[j - 1] \div Radix
<1> DEFINE Shifted(g) == [j \in 0 .. width |-> IF j = 0 THEN n ELSE g[j - 1] \div Radix]
<1>1. PICK F \in [(1 .. width) \X Nat -> Nat] :
        \A j \in 1 .. width, v \in Nat : F[<<j, v>>] = v \div Radix
  <2>1. [x \in (1 .. width) \X Nat |-> x[2] \div Radix] \in [(1 .. width) \X Nat -> Nat]
    BY Parts
  <2>2. QED
    BY <2>1
<1>2. ASSUME NEW g
      PROVE  /\ DOMAIN Shifted(g) = 0 .. width /\ Shifted(g)[0] = n
             /\ \A j \in 1 .. width : Shifted(g)[j] = g[j - 1] \div Radix
             /\ Shifted(g) = [j \in 0 .. width |-> Shifted(g)[j]]
  OBVIOUS
<1>3. PICK g : Unfolds(g, Nat, width, n, F)
  BY Recursion
<1>4. g = Shifted(g)
  <2>1. ASSUME NEW j \in 1 .. width
        PROVE  g[j] = g[j - 1] \div Radix
    <3>1. g[j - 1] \in Nat /\ g[j] = F[<<j, g[j - 1]>>]
      BY <1>3 DEF Unfolds
    <3>2. QED
      BY <1>1, <3>1
  <2>2. \A j \in 0 .. width : g[j] = IF j = 0 THEN n ELSE g[j - 1] \div Radix
    BY <1>3, <2>1 DEF Unfolds
  <2>3. QED
    BY <1>3, <2>2 DEF Unfolds
<1>5. Shift(n, width) = CHOOSE s : s = Shifted(s)
  BY DEF Shift
<1> HIDE DEF Shifted
<1>6. PICK s : s = Shift(n, width) /\ s = Shifted(s)
  BY <1>4, <1>5
<1>7. /\ s[0] = n /\ s = [j \in 0 .. width |-> s[j]]
      /\ \A j \in 1 .. width : s[j] = s[j - 1] \div Radix
  BY <1>2, <1>6
<1>8. Unfolds(s, Nat, width, n, F)
  <2>1. ASSUME NEW j \in 1 .. width, s[j - 1] \in Nat
        PROVE  s[j] = F[<<j, s[j - 1]>>]
    <3>1. F[<<j, s[j - 1]>>] = s[j - 1] \div Radix
      BY <1>1, <2>1
    <3>2. QED
      BY <1>7, <3>1
  <2>2. QED
    BY <1>7, <2>1, Unfolded
<1>9. QED
  BY <1>6, <1>7, <1>8 DEF Unfolds

(* How many bytes a number takes: PutUint's bytes, and their count.         *)
LEMMA PutUintBytes ==
  ASSUME NEW n \in Nat, NEW width \in Nat
  PROVE  /\ PutUint(n, width) \in Seq(Byte) /\ Len(PutUint(n, width)) = width
         /\ \A i \in 1 .. width : PutUint(n, width)[i] = (Shift(n, width)[width - i] % Radix)
<1>1. \A i \in 1 .. width : (Shift(n, width)[width - i] % Radix) \in Byte
  <2> TAKE i \in 1 .. width
  <2>1. Shift(n, width)[width - i] \in Nat
    BY ShiftIs
  <2>2. QED
    BY <2>1, Parts
<1>2. PutUint(n, width) \in [1 .. width -> Byte]
  BY <1>1 DEF PutUint
<1>3. QED
  BY <1>2 DEF PutUint

(* What Uint has read after each byte.                                      *)
LEMMA UintIs ==
  ASSUME NEW bytes \in Seq(Byte)
  PROVE  \E v \in [0 .. Len(bytes) -> Nat] :
           /\ Uint(bytes) = v[Len(bytes)] /\ v[0] = 0
           /\ \A i \in 1 .. Len(bytes) : v[i] = v[i - 1] * Radix + bytes[i]
<1> DEFINE N == Len(bytes)
           Read(g) == [i \in 0 .. N |-> IF i = 0 THEN 0 ELSE g[i - 1] * Radix + bytes[i]]
<1>0. N \in Nat /\ \A i \in 1 .. N : bytes[i] \in Byte
  OBVIOUS
<1>1. PICK F \in [(1 .. N) \X Nat -> Nat] :
        \A i \in 1 .. N, v \in Nat : F[<<i, v>>] = v * Radix + bytes[i]
  <2>1. [x \in (1 .. N) \X Nat |-> x[2] * Radix + bytes[x[1]]] \in [(1 .. N) \X Nat -> Nat]
    BY <1>0, Whole
  <2>2. QED
    BY <2>1
<1>2. ASSUME NEW g
      PROVE  /\ DOMAIN Read(g) = 0 .. N /\ Read(g)[0] = 0
             /\ \A i \in 1 .. N : Read(g)[i] = g[i - 1] * Radix + bytes[i]
             /\ Read(g) = [i \in 0 .. N |-> Read(g)[i]]
  OBVIOUS
<1>3. PICK g : Unfolds(g, Nat, N, 0, F)
  BY <1>0, Recursion
<1>4. g = Read(g)
  <2>1. ASSUME NEW i \in 1 .. N
        PROVE  g[i] = g[i - 1] * Radix + bytes[i]
    <3> HIDE DEF N
    <3>1. g[i - 1] \in Nat /\ g[i] = F[<<i, g[i - 1]>>]
      BY <1>0, <1>3 DEF Unfolds
    <3>2. F[<<i, g[i - 1]>>] = g[i - 1] * Radix + bytes[i]
      BY <1>1, <3>1
    <3>3. QED
      BY <3>1, <3>2
  <2>2. \A i \in 0 .. N : g[i] = IF i = 0 THEN 0 ELSE g[i - 1] * Radix + bytes[i]
    BY <1>3, <2>1 DEF Unfolds
  <2>3. QED
    BY <1>3, <2>2 DEF Unfolds
<1>5. Uint(bytes) = (CHOOSE v : v = Read(v))[N]
  BY DEF Uint
<1> HIDE DEF Read
<1>6. PICK v : v = (CHOOSE u : u = Read(u)) /\ v = Read(v)
  BY <1>4
<1>7. /\ v[0] = 0 /\ v = [i \in 0 .. N |-> v[i]]
      /\ \A i \in 1 .. N : v[i] = v[i - 1] * Radix + bytes[i]
  BY <1>2, <1>6
<1>8. Unfolds(v, Nat, N, 0, F)
  <2>1. ASSUME NEW i \in 1 .. N, v[i - 1] \in Nat
        PROVE  v[i] = F[<<i, v[i - 1]>>]
    <3>1. F[<<i, v[i - 1]>>] = v[i - 1] * Radix + bytes[i]
      BY <1>1, <2>1
    <3>2. QED
      BY <1>7, <3>1
  <2> HIDE DEF N
  <2>2. QED
    BY <1>0, <1>7, <2>1, Unfolded
<1>9. v \in [0 .. N -> Nat] /\ Uint(bytes) = v[N]
  BY <1>5, <1>6, <1>8 DEF Unfolds
<1>10. QED
  BY <1>7, <1>9

(* A number that has room comes back, and so do bytes.                      *)
LEMMA UintOfPut ==
  ASSUME NEW n \in Nat, NEW width \in Nat, HasRoom(width, n)
  PROVE  Uint(PutUint(n, width)) = n
<1> DEFINE p == PutUint(n, width)
<1>1. PICK s \in [0 .. width -> Nat] :
        /\ s = Shift(n, width) /\ s[0] = n
        /\ \A j \in 1 .. width : s[j] = s[j - 1] \div Radix
  BY ShiftIs
<1>2. /\ p \in Seq(Byte) /\ Len(p) = width
      /\ \A i \in 1 .. width : p[i] = (s[width - i] % Radix)
  BY <1>1, PutUintBytes
<1> HIDE DEF p
<1>3. PICK v \in [0 .. width -> Nat] :
        /\ Uint(p) = v[width] /\ v[0] = 0
        /\ \A i \in 1 .. width : v[i] = v[i - 1] * Radix + p[i]
  BY <1>2, UintIs
<1> DEFINE T == {i \in 0 .. width : v[i] = s[width - i]}
<1>4. 0 \in T
  BY <1>1, <1>3 DEF HasRoom
<1>5. ASSUME NEW i \in 0 .. width - 1, i \in T
      PROVE  i + 1 \in T
  <2>1. /\ i + 1 \in 1 .. width /\ (i + 1) - 1 = i /\ width - i \in 1 .. width
        /\ (width - i) - 1 = width - (i + 1) /\ width - (i + 1) \in 0 .. width
    OBVIOUS
  <2>2. s[width - i] = s[width - (i + 1)] \div Radix
    BY <1>1, <2>1
  <2>3. v[i + 1] = v[i] * Radix + (s[width - (i + 1)] % Radix)
    BY <1>2, <1>3, <2>1
  <2>4. s[width - (i + 1)] \in Nat
    BY <2>1
  <2>5. s[width - (i + 1)] =
          (s[width - (i + 1)] \div Radix) * Radix + (s[width - (i + 1)] % Radix)
    BY <2>4, Parts
  <2>6. v[i] = s[width - i]
    BY <1>5
  <2>7. QED
    BY <2>1, <2>2, <2>3, <2>5, <2>6
<1> HIDE DEF T
<1>6. width \in T
  <2>1. 0 .. width \subseteq T
    BY <1>4, <1>5, StepByStep
  <2>2. QED
    BY <2>1
<1>7. QED
  BY <1>1, <1>3, <1>6 DEF T, p

LEMMA PutOfUint ==
  ASSUME NEW bytes \in Seq(Byte)
  PROVE  /\ Uint(bytes) \in Nat /\ HasRoom(Len(bytes), Uint(bytes))
         /\ PutUint(Uint(bytes), Len(bytes)) = bytes
<1>0. PICK width \in Nat : width = Len(bytes)
  OBVIOUS
<1>1. PICK v \in [0 .. width -> Nat] :
        /\ Uint(bytes) = v[width] /\ v[0] = 0
        /\ \A i \in 1 .. width : v[i] = v[i - 1] * Radix + bytes[i]
  BY <1>0, UintIs
<1>2. PICK n \in Nat : n = Uint(bytes) /\ n = v[width]
  BY <1>1
<1>3. PICK s \in [0 .. width -> Nat] :
        /\ s = Shift(n, width) /\ s[0] = n
        /\ \A j \in 1 .. width : s[j] = s[j - 1] \div Radix
  BY ShiftIs
<1>4. \A i \in 1 .. width : bytes[i] \in Byte
  BY <1>0
<1> DEFINE T == {j \in 0 .. width : s[j] = v[width - j]}
<1>5. 0 \in T
  BY <1>2, <1>3
<1>6. ASSUME NEW j \in 0 .. width - 1, j \in T
      PROVE  j + 1 \in T
  <2>1. /\ j + 1 \in 1 .. width /\ (j + 1) - 1 = j /\ width - j \in 1 .. width
        /\ (width - j) - 1 = width - (j + 1) /\ width - (j + 1) \in 0 .. width
    OBVIOUS
  <2>2. s[j + 1] = s[j] \div Radix
    BY <1>3, <2>1
  <2>3. v[width - j] = v[width - (j + 1)] * Radix + bytes[width - j]
    BY <1>1, <2>1
  <2>4. v[width - (j + 1)] \in Nat /\ bytes[width - j] \in Byte
    BY <1>4, <2>1
  <2>5. v[width - j] \div Radix = v[width - (j + 1)]
    BY <2>3, <2>4, Whole
  <2>6. s[j] = v[width - j]
    BY <1>6
  <2>7. QED
    BY <2>1, <2>2, <2>5, <2>6
<1> HIDE DEF T
<1>7. \A j \in 0 .. width : s[j] = v[width - j]
  BY <1>5, <1>6, StepByStep DEF T
<1>8. s[width] = 0
  BY <1>1, <1>7
<1>9. ASSUME NEW i \in 1 .. width
      PROVE  PutUint(n, width)[i] = bytes[i]
  <2>1. /\ width - i \in 0 .. width /\ width - (width - i) = i /\ i - 1 \in 0 .. width
        /\ v[i - 1] \in Nat /\ bytes[i] \in Byte
    BY <1>4
  <2>2. s[width - i] = v[i - 1] * Radix + bytes[i]
    BY <1>1, <1>7, <2>1
  <2>3. (s[width - i] % Radix) = bytes[i]
    BY <2>1, <2>2, Whole
  <2>4. QED
    BY <1>3, <2>3, PutUintBytes
<1>10. PutUint(n, width) = bytes
  <2>1. PutUint(n, width) \in Seq(Byte) /\ Len(PutUint(n, width)) = width
    BY PutUintBytes
  <2>2. QED
    BY <1>0, <1>9, <2>1
<1>11. QED
  BY <1>0, <1>2, <1>3, <1>8, <1>10 DEF HasRoom

(* Less needs no more room.                                                 *)
LEMMA RoomBelow ==
  ASSUME NEW m \in Nat, NEW n \in Nat, m <= n, NEW width \in Nat, HasRoom(width, n)
  PROVE  HasRoom(width, m)
<1>1. PICK s \in [0 .. width -> Nat] :
        /\ s = Shift(n, width) /\ s[0] = n
        /\ \A j \in 1 .. width : s[j] = s[j - 1] \div Radix
  BY ShiftIs
<1>2. PICK r \in [0 .. width -> Nat] :
        /\ r = Shift(m, width) /\ r[0] = m
        /\ \A j \in 1 .. width : r[j] = r[j - 1] \div Radix
  BY ShiftIs
<1> DEFINE T == {j \in 0 .. width : r[j] <= s[j]}
<1>3. 0 \in T
  BY <1>1, <1>2
<1>4. ASSUME NEW j \in 0 .. width - 1, j \in T
      PROVE  j + 1 \in T
  <2>1. j + 1 \in 1 .. width /\ (j + 1) - 1 = j /\ r[j] \in Nat /\ s[j] \in Nat
    OBVIOUS
  <2>2. r[j + 1] = r[j] \div Radix /\ s[j + 1] = s[j] \div Radix
    BY <1>1, <1>2, <2>1
  <2>3. r[j] \div Radix <= s[j] \div Radix
    BY <1>4, <2>1, RadixIs, PartsGrow
  <2>4. QED
    BY <2>1, <2>2, <2>3
<1> HIDE DEF T
<1>5. r[width] <= s[width]
  <2>1. 0 .. width \subseteq T
    BY <1>3, <1>4, StepByStep
  <2>2. QED
    BY <2>1 DEF T
<1>6. QED
  BY <1>1, <1>2, <1>5 DEF HasRoom

IsBatch(b, magic, width, ps) ==
  /\ b \in [0 .. Len(ps) -> Seq(Byte)] /\ b[0] = magic
  /\ \A n \in 1 .. Len(ps) : b[n] = b[n - 1] \o PutUint(Len(ps[n]), width) \o ps[n]

(* A batch is its predecessor, a length and the packet of that length.      *)
LEMMA BatchIs ==
  ASSUME NEW magic \in Seq(Byte), NEW width \in Nat, NEW ps \in Seq(Seq(Byte))
  PROVE  IsBatch(Batch(magic, width, ps), magic, width, ps)
<1> DEFINE Batched(g) == [n \in 0 .. Len(ps) |->
                            IF n = 0 THEN magic
                            ELSE g[n - 1] \o PutUint(Len(ps[n]), width) \o ps[n]]
<1>0. PICK N \in Nat : N = Len(ps) /\ DOMAIN ps = 1 .. N
  OBVIOUS
<1>1. ASSUME NEW n \in 1 .. N, NEW b \in Seq(Byte)
      PROVE  b \o PutUint(Len(ps[n]), width) \o ps[n] \in Seq(Byte)
  <2>1. ps[n] \in Seq(Byte) /\ Len(ps[n]) \in Nat
    BY <1>0
  <2>2. PutUint(Len(ps[n]), width) \in Seq(Byte)
    BY <2>1, PutUintBytes
  <2>3. QED
    BY <2>1, <2>2
<1>2. PICK F \in [(1 .. N) \X Seq(Byte) -> Seq(Byte)] :
        \A n \in 1 .. N, b \in Seq(Byte) :
          F[<<n, b>>] = b \o PutUint(Len(ps[n]), width) \o ps[n]
  <2> DEFINE G == [x \in (1 .. N) \X Seq(Byte) |->
                     x[2] \o PutUint(Len(ps[x[1]]), width) \o ps[x[1]]]
  <2>1. G \in [(1 .. N) \X Seq(Byte) -> Seq(Byte)]
    BY <1>1
  <2>2. \A n \in 1 .. N, b \in Seq(Byte) :
          G[<<n, b>>] = b \o PutUint(Len(ps[n]), width) \o ps[n]
    OBVIOUS
  <2> HIDE DEF G
  <2>3. QED
    BY <2>1, <2>2
<1>3. ASSUME NEW g
      PROVE  /\ DOMAIN Batched(g) = 0 .. N /\ Batched(g)[0] = magic
             /\ \A n \in 1 .. N :
                  Batched(g)[n] = g[n - 1] \o PutUint(Len(ps[n]), width) \o ps[n]
             /\ Batched(g) = [n \in 0 .. N |-> Batched(g)[n]]
  <2> DEFINE h == [n \in 0 .. N |-> IF n = 0 THEN magic
                                   ELSE g[n - 1] \o PutUint(Len(ps[n]), width) \o ps[n]]
  <2>1. Batched(g) = h
    BY <1>0
  <2> HIDE DEF Batched
  <2>2. DOMAIN h = 0 .. N /\ h[0] = magic /\ h = [n \in 0 .. N |-> h[n]]
    OBVIOUS
  <2>3. \A n \in 1 .. N : h[n] = g[n - 1] \o PutUint(Len(ps[n]), width) \o ps[n]
    <3> TAKE n \in 1 .. N
    <3>1. n \in 0 .. N /\ n # 0
      OBVIOUS
    <3>2. QED
      BY <3>1, Zenon
  <2> HIDE DEF h
  <2>4. QED
    BY <2>1, <2>2, <2>3
<1>4. PICK g : Unfolds(g, Seq(Byte), N, magic, F)
  BY Recursion
<1>5. g = Batched(g)
  <2>1. ASSUME NEW n \in 1 .. N
        PROVE  g[n] = g[n - 1] \o PutUint(Len(ps[n]), width) \o ps[n]
    <3>1. g[n - 1] \in Seq(Byte) /\ g[n] = F[<<n, g[n - 1]>>]
      BY <1>4 DEF Unfolds
    <3>2. F[<<n, g[n - 1]>>] = g[n - 1] \o PutUint(Len(ps[n]), width) \o ps[n]
      BY <1>2, <3>1
    <3>3. QED
      BY <3>1, <3>2
  <2>2. \A n \in 0 .. N : g[n] = Batched(g)[n]
    <3> TAKE n \in 0 .. N
    <3> HIDE DEF Batched
    <3>1. CASE n = 0
      BY <1>3, <1>4, <3>1 DEF Unfolds
    <3>2. CASE n \in 1 .. N
      BY <1>3, <2>1, <3>2
    <3>3. QED
      BY <3>1, <3>2
  <2>3. g = [n \in 0 .. N |-> g[n]]
    BY <1>4 DEF Unfolds
  <2> HIDE DEF Batched
  <2>4. QED
    BY <1>3, <2>2, <2>3
<1>6. Batch(magic, width, ps) = CHOOSE s : s = Batched(s)
  BY DEF Batch
<1> HIDE DEF Batched
<1>7. PICK s : s = Batch(magic, width, ps) /\ s = Batched(s)
  BY <1>5, <1>6
<1>8. /\ s[0] = magic /\ s = [n \in 0 .. N |-> s[n]]
      /\ \A n \in 1 .. N : s[n] = s[n - 1] \o PutUint(Len(ps[n]), width) \o ps[n]
  BY <1>3, <1>7
<1>9. Unfolds(s, Seq(Byte), N, magic, F)
  <2>1. ASSUME NEW n \in 1 .. N, s[n - 1] \in Seq(Byte)
        PROVE  s[n] = F[<<n, s[n - 1]>>]
    <3>1. F[<<n, s[n - 1]>>] = s[n - 1] \o PutUint(Len(ps[n]), width) \o ps[n]
      BY <1>2, <2>1
    <3>2. QED
      BY <1>8, <3>1
  <2>2. QED
    BY <1>8, <2>1, Unfolded
<1>10. s \in [0 .. N -> Seq(Byte)]
  BY <1>9 DEF Unfolds
<1>11. QED
  BY <1>0, <1>7, <1>8, <1>10 DEF IsBatch

(* What the decoder's turn at pos does.                                     *)
LEMMA AfterIs ==
  ASSUME NEW f \in Seq(Byte), NEW pos \in Nat, NEW width \in Nat, NEW max \in Nat
  PROVE  /\ After(f, pos, width, max) \in Nat
         /\ After(f, pos, width, max) >= pos
         /\ pos <= Len(f) => After(f, pos, width, max) <= Len(f)
         /\ pos = Len(f) => After(f, pos, width, max) = pos
         /\ After(f, pos, width, max) # pos =>
              /\ After(f, pos, width, max) - pos - width \in 1 .. max
              /\ SubSeq(f, pos + 1, pos + width)
                   = PutUint(After(f, pos, width, max) - pos - width, width)
<1>0. PICK N \in Nat : N = Len(f)
  OBVIOUS
<1> DEFINE bytes == SubSeq(f, pos + 1, pos + width)
           n == Uint(bytes)
           Takes == N - pos >= width /\ n # 0 /\ n <= max /\ n <= N - pos - width
<1>1. CASE Takes
  <2>1. bytes \in Seq(Byte) /\ Len(bytes) = width
    BY <1>0, <1>1
  <2> HIDE DEF bytes
  <2>2. n \in Nat /\ PutUint(n, width) = bytes
    BY <2>1, PutOfUint
  <2> HIDE DEF n
  <2>3. After(f, pos, width, max) = pos + width + n
    BY <1>0, <1>1 DEF After, n, bytes
  <2>4. (pos + width + n) - pos - width = n /\ pos + width + n # pos /\ pos + width + n > pos
    BY <1>1, <2>2
  <2>5. QED
    BY <1>0, <1>1, <2>2, <2>3, <2>4 DEF bytes
<1>2. CASE ~Takes
  <2>1. After(f, pos, width, max) = pos
    BY <1>0, <1>2 DEF After
  <2>2. QED
    BY <1>0, <2>1
<1>3. QED
  BY <1>1, <1>2

(* The end of the frame is its last turn.                                   *)
LEMMA AfterAll ==
  ASSUME NEW f \in Seq(Byte), NEW width \in Nat, NEW max \in Nat
  PROVE  After(f, Len(f), width, max) = Len(f)
<1>1. PICK pos \in Nat : pos = Len(f)
  BY LenProperties
<1>2. Uint(SubSeq(f, pos + 1, pos + width)) # 0 =>
        ~(pos - pos >= width /\ Uint(SubSeq(f, pos + 1, pos + width)) <= pos - pos - width)
  <2>1. CASE width = 0
    <3>1. PICK s : s = SubSeq(f, pos + 1, pos)
      OBVIOUS
    <3>2. s \in Seq(Byte)
      BY <1>1, <3>1, SubSeqEmpty, EmptySeq
    <3>3. Uint(s) \in Nat
      BY <3>2, PutOfUint
    <3>4. QED
      BY <2>1, <3>1, <3>3
  <2>2. CASE width # 0
    BY <2>2
  <2>3. QED
    BY <2>1, <2>2
<1>3. QED
  BY <1>1, <1>2 DEF After

(* And where it moves on.                                                   *)
LEMMA AfterEnds ==
  ASSUME NEW f \in Seq(Byte), NEW pos \in Nat, NEW width \in Nat, NEW max \in Nat,
         HasRoom(width, max), NEW b \in Nat, b <= Len(f), b - pos - width \in 1 .. max,
         SubSeq(f, pos + 1, pos + width) = PutUint(b - pos - width, width)
  PROVE  After(f, pos, width, max) = b
<1>1. PICK n \in Nat : n = b - pos - width /\ n <= max /\ n # 0 /\ pos + width + n = b
  OBVIOUS
<1>2. HasRoom(width, n)
  BY <1>1, RoomBelow
<1>3. Uint(SubSeq(f, pos + 1, pos + width)) = n
  <2>1. SubSeq(f, pos + 1, pos + width) = PutUint(n, width)
    BY <1>1
  <2>2. Uint(PutUint(n, width)) = n
    BY <1>2, UintOfPut
  <2>3. QED
    BY <2>1, <2>2
<1>4. Len(f) - pos >= width /\ n <= Len(f) - pos - width
  BY <1>1
<1>5. QED
  BY <1>1, <1>3, <1>4 DEF After

(* The decoder's position after each turn.                                  *)
IsEnds(e, f, magic, width, max) ==
  /\ e \in [0 .. Len(f) -> Nat] /\ e[0] = Len(magic)
  /\ \A k \in 1 .. Len(f) : e[k] = After(f, e[k - 1], width, max)

LEMMA EndsIs ==
  ASSUME NEW f \in Seq(Byte), NEW magic \in Seq(Byte), NEW width \in Nat, NEW max \in Nat
  PROVE  IsEnds(Ends(f, magic, width, max), f, magic, width, max)
<1> DEFINE Ended(g) == [k \in 0 .. Len(f) |->
                          IF k = 0 THEN Len(magic) ELSE After(f, g[k - 1], width, max)]
<1>0. PICK N \in Nat : N = Len(f)
  OBVIOUS
<1>1. PICK start \in Nat : start = Len(magic)
  OBVIOUS
<1>2. PICK F \in [(1 .. N) \X Nat -> Nat] :
        \A k \in 1 .. N, p \in Nat : F[<<k, p>>] = After(f, p, width, max)
  <2> DEFINE G == [x \in (1 .. N) \X Nat |-> After(f, x[2], width, max)]
  <2>1. G \in [(1 .. N) \X Nat -> Nat]
    BY AfterIs
  <2>2. \A k \in 1 .. N, p \in Nat : G[<<k, p>>] = After(f, p, width, max)
    OBVIOUS
  <2> HIDE DEF G
  <2>3. QED
    BY <2>1, <2>2
<1>3. ASSUME NEW g
      PROVE  /\ DOMAIN Ended(g) = 0 .. N /\ Ended(g)[0] = start
             /\ \A k \in 1 .. N : Ended(g)[k] = After(f, g[k - 1], width, max)
             /\ Ended(g) = [k \in 0 .. N |-> Ended(g)[k]]
  BY <1>0, <1>1
<1>4. PICK g : Unfolds(g, Nat, N, start, F)
  BY Recursion
<1>5. g = Ended(g)
  <2>1. ASSUME NEW k \in 1 .. N
        PROVE  g[k] = After(f, g[k - 1], width, max)
    <3>1. g[k - 1] \in Nat /\ g[k] = F[<<k, g[k - 1]>>]
      BY <1>4 DEF Unfolds
    <3>2. F[<<k, g[k - 1]>>] = After(f, g[k - 1], width, max)
      BY <1>2, <3>1
    <3>3. QED
      BY <3>1, <3>2
  <2>2. \A k \in 0 .. N : g[k] = Ended(g)[k]
    <3> TAKE k \in 0 .. N
    <3> HIDE DEF Ended
    <3>1. CASE k = 0
      BY <1>3, <1>4, <3>1 DEF Unfolds
    <3>2. CASE k \in 1 .. N
      BY <1>3, <2>1, <3>2
    <3>3. QED
      BY <3>1, <3>2
  <2>3. g = [k \in 0 .. N |-> g[k]]
    BY <1>4 DEF Unfolds
  <2> HIDE DEF Ended
  <2>4. QED
    BY <1>3, <2>2, <2>3
<1>6. Ends(f, magic, width, max) = CHOOSE s : s = Ended(s)
  BY DEF Ends
<1> HIDE DEF Ended
<1>7. PICK s : s = Ends(f, magic, width, max) /\ s = Ended(s)
  BY <1>5, <1>6
<1>8. /\ s[0] = start /\ s = [k \in 0 .. N |-> s[k]]
      /\ \A k \in 1 .. N : s[k] = After(f, s[k - 1], width, max)
  BY <1>3, <1>7
<1>9. Unfolds(s, Nat, N, start, F)
  <2>1. ASSUME NEW k \in 1 .. N, s[k - 1] \in Nat
        PROVE  s[k] = F[<<k, s[k - 1]>>]
    <3>1. F[<<k, s[k - 1]>>] = After(f, s[k - 1], width, max)
      BY <1>2, <2>1
    <3>2. QED
      BY <1>8, <3>1
  <2>2. QED
    BY <1>8, <2>1, Unfolded
<1>10. s \in [0 .. N -> Nat]
  BY <1>9 DEF Unfolds
<1>11. QED
  BY <1>0, <1>1, <1>7, <1>8, <1>10 DEF IsEnds

(* A part of a sequence, of which the library counts from 1.                *)
LEMMA SubSeqIs ==
  ASSUME NEW S, NEW s \in Seq(S), NEW m \in Nat, NEW n \in Nat, m <= n, n <= Len(s)
  PROVE  /\ SubSeq(s, m + 1, n) \in Seq(S) /\ Len(SubSeq(s, m + 1, n)) = n - m
         /\ \A x \in 1 .. n - m : SubSeq(s, m + 1, n)[x] = s[m + x]
<1>1. \A i \in m + 1 .. n : s[i] \in S
  BY ElementOfSeq, LenProperties
<1>2. /\ SubSeq(s, m + 1, n) \in Seq(S)
      /\ Len(SubSeq(s, m + 1, n)) = IF m + 1 <= n THEN n - (m + 1) + 1 ELSE 0
      /\ \A i \in 1 .. n - (m + 1) + 1 : SubSeq(s, m + 1, n)[i] = s[(m + 1) + i - 1]
  <2>1. m + 1 \in Int /\ n \in Int
    OBVIOUS
  <2>2. QED
    BY <1>1, <2>1, SubSeqProperties
<1>3. \A x \in 1 .. n - m : (m + 1) + x - 1 = m + x /\ x \in 1 .. n - (m + 1) + 1
  OBVIOUS
<1>4. QED
  BY <1>2, <1>3

(* What two sequences have in common at their beginning.                    *)
LEMMA SamePart ==
  ASSUME NEW S, NEW s \in Seq(S), NEW t \in Seq(S), NEW m \in Nat, NEW n \in Nat,
         m <= n, n <= Len(s), n <= Len(t), \A x \in 1 .. n : s[x] = t[x]
  PROVE  SubSeq(s, m + 1, n) = SubSeq(t, m + 1, n)
<1>1. \A x \in 1 .. n - m : m + x \in 1 .. n
  OBVIOUS
<1>2. PICK p, q : p = SubSeq(s, m + 1, n) /\ q = SubSeq(t, m + 1, n)
  OBVIOUS
<1>3. p \in Seq(S) /\ Len(p) = n - m /\ \A x \in 1 .. n - m : p[x] = s[m + x]
  BY <1>2, SubSeqIs
<1>4. q \in Seq(S) /\ Len(q) = n - m /\ \A x \in 1 .. n - m : q[x] = t[m + x]
  BY <1>2, SubSeqIs
<1>5. \A x \in 1 .. Len(p) : p[x] = q[x]
  BY <1>1, <1>3, <1>4
<1>6. p = q
  BY <1>3, <1>4, <1>5, SeqEqual
<1>7. QED
  BY <1>2, <1>6

(* What was put together can be taken apart.                                *)
LEMMA ThreeParts ==
  ASSUME NEW S, NEW a \in Seq(S), NEW p \in Seq(S), NEW q \in Seq(S)
  PROVE  /\ a \o p \o q \in Seq(S) /\ Len(a \o p \o q) = Len(a) + Len(p) + Len(q)
         /\ \A x \in 1 .. Len(a) : (a \o p \o q)[x] = a[x]
         /\ SubSeq(a \o p \o q, Len(a) + 1, Len(a) + Len(p)) = p
         /\ SubSeq(a \o p \o q, Len(a) + Len(p) + 1, Len(a) + Len(p) + Len(q)) = q
<1>1. PICK k \in Nat, l \in Nat, m \in Nat : k = Len(a) /\ l = Len(p) /\ m = Len(q)
  BY LenProperties
<1>2. PICK d, c : d = a \o p /\ c = d \o q
  OBVIOUS
<1>3. /\ d \in Seq(S) /\ Len(d) = k + l
      /\ \A x \in 1 .. k + l : d[x] = IF x <= k THEN a[x] ELSE p[x - k]
  BY <1>1, <1>2, ConcatProperties
<1>4. /\ c \in Seq(S) /\ Len(c) = k + l + m
      /\ \A x \in 1 .. k + l + m : c[x] = IF x <= k + l THEN d[x] ELSE q[x - (k + l)]
  BY <1>1, <1>2, <1>3, ConcatProperties
<1>5. \A x \in 1 .. k : c[x] = a[x]
  BY <1>3, <1>4
<1>6. \A x \in 1 .. l : c[k + x] = p[x]
  <2> TAKE x \in 1 .. l
  <2>1. /\ k + x \in 1 .. k + l /\ k + x \in 1 .. k + l + m /\ k + x <= k + l /\ ~(k + x <= k)
        /\ (k + x) - k = x
    OBVIOUS
  <2>2. QED
    BY <1>3, <1>4, <2>1
<1>7. \A x \in 1 .. m : c[(k + l) + x] = q[x]
  <2> TAKE x \in 1 .. m
  <2>1. /\ (k + l) + x \in 1 .. k + l + m /\ ~((k + l) + x <= k + l)
        /\ ((k + l) + x) - (k + l) = x
    OBVIOUS
  <2>2. QED
    BY <1>4, <2>1
<1>8. SubSeq(c, k + 1, k + l) = p
  <2>1. /\ k <= k + l /\ k + l <= Len(c) /\ (k + l) - k = l /\ k + l \in Nat
    BY <1>4
  <2>2. PICK r : r = SubSeq(c, k + 1, k + l)
    OBVIOUS
  <2>3. r \in Seq(S) /\ Len(r) = l /\ \A x \in 1 .. l : r[x] = c[k + x]
    <3>1. PICK h \in Nat : h = k + l
      BY <2>1
    <3>2. /\ r \in Seq(S) /\ Len(r) = h - k
          /\ \A x \in 1 .. h - k : r[x] = c[k + x]
      BY <1>4, <2>1, <2>2, <3>1, SubSeqIs
    <3>3. QED
      BY <2>1, <3>1, <3>2
  <2>4. Len(r) = Len(p) /\ \A x \in 1 .. Len(r) : r[x] = p[x]
    BY <1>1, <1>6, <2>3
  <2>5. r = p
    BY <2>3, <2>4, SeqEqual
  <2>6. QED
    BY <2>2, <2>5
<1>9. SubSeq(c, (k + l) + 1, k + l + m) = q
  <2>1. /\ k + l <= k + l + m /\ k + l + m <= Len(c) /\ (k + l + m) - (k + l) = m
        /\ k + l \in Nat /\ k + l + m \in Nat
    BY <1>4
  <2>2. PICK r : r = SubSeq(c, (k + l) + 1, k + l + m)
    OBVIOUS
  <2>3. r \in Seq(S) /\ Len(r) = m /\ \A x \in 1 .. m : r[x] = c[(k + l) + x]
    <3>1. PICK g \in Nat, h \in Nat : g = k + l /\ h = k + l + m
      BY <2>1
    <3>2. /\ r \in Seq(S) /\ Len(r) = h - g
          /\ \A x \in 1 .. h - g : r[x] = c[g + x]
      BY <1>4, <2>1, <2>2, <3>1, SubSeqIs
    <3>3. QED
      BY <2>1, <3>1, <3>2
  <2>4. Len(r) = Len(q) /\ \A x \in 1 .. Len(r) : r[x] = q[x]
    BY <1>1, <1>7, <2>3
  <2>5. r = q
    BY <2>3, <2>4, SeqEqual
  <2>6. QED
    BY <2>2, <2>5
<1>10. QED
  BY <1>1, <1>2, <1>4, <1>5, <1>8, <1>9

(* Every batch begins with those before it.                                 *)
Begins(a, b) == Len(a) <= Len(b) /\ \A x \in 1 .. Len(a) : b[x] = a[x]

LEMMA BatchParts ==
  ASSUME NEW magic \in Seq(Byte), NEW width \in Nat, NEW ps \in Seq(Seq(Byte)),
         NEW b, b = Batch(magic, width, ps), NEW n \in 0 .. Len(ps)
  PROVE  /\ b[n] \in Seq(Byte)
         /\ \A i \in 0 .. n : Begins(b[i], b[n])
<1>1. /\ b \in [0 .. Len(ps) -> Seq(Byte)] /\ b[0] = magic
      /\ \A k \in 1 .. Len(ps) : b[k] = b[k - 1] \o PutUint(Len(ps[k]), width) \o ps[k]
  <2>1. IsBatch(b, magic, width, ps)
    BY BatchIs
  <2>2. QED
    BY ONLY <2>1 DEF IsBatch
<1>2. PICK N \in Nat : N = Len(ps) /\ DOMAIN ps = 1 .. N
  OBVIOUS
<1> DEFINE AllBegin(k) == \A i \in 0 .. k : Begins(b[i], b[k])
           T == {k \in 0 .. N : AllBegin(k)}
<1>3. 0 \in T
  <2>1. b[0] \in Seq(Byte) /\ Len(b[0]) \in Nat
    BY <1>1
  <2>2. \A i \in 0 .. 0 : i = 0
    OBVIOUS
  <2>3. AllBegin(0)
    BY <2>1, <2>2 DEF Begins
  <2> HIDE DEF AllBegin
  <2>4. QED
    BY <2>3
<1>4. ASSUME NEW k \in 0 .. N - 1, k \in T
      PROVE  k + 1 \in T
  <2>1. k + 1 \in 1 .. N /\ (k + 1) - 1 = k /\ k \in 0 .. N /\ k + 1 \in 0 .. N
    OBVIOUS
  <2>2. PICK p \in Seq(Byte) : p = PutUint(Len(ps[k + 1]), width)
    <3>1. Len(ps[k + 1]) \in Nat
      BY <1>2, <2>1
    <3>2. QED
      BY <3>1, PutUintBytes
  <2>3. ps[k + 1] \in Seq(Byte) /\ b[k] \in Seq(Byte) /\ b[k + 1] \in Seq(Byte)
    <3>1. ps[k + 1] \in Seq(Byte)
      BY <1>2, <2>1, ElementOfSeq
    <3>2. b[k] \in Seq(Byte) /\ b[k + 1] \in Seq(Byte)
      BY <1>1, <1>2, <2>1
    <3>3. QED
      BY <3>1, <3>2
  <2>4. b[k + 1] = b[k] \o p \o ps[k + 1]
    <3>1. k + 1 \in 1 .. Len(ps)
      BY <1>2, <2>1
    <3>2. b[k + 1] = b[(k + 1) - 1] \o PutUint(Len(ps[k + 1]), width) \o ps[k + 1]
      BY <1>1, <3>1, Zenon
    <3>3. QED
      BY <2>1, <2>2, <3>2
  <2>5. /\ Len(b[k + 1]) = Len(b[k]) + Len(p) + Len(ps[k + 1])
        /\ \A x \in 1 .. Len(b[k]) : b[k + 1][x] = b[k][x]
    <3>1. PICK u, q : u = b[k] /\ q = ps[k + 1]
      OBVIOUS
    <3>2. u \in Seq(Byte) /\ q \in Seq(Byte) /\ p \in Seq(Byte)
      BY <2>2, <2>3, <3>1
    <3>3. /\ Len(u \o p \o q) = Len(u) + Len(p) + Len(q)
          /\ \A x \in 1 .. Len(u) : (u \o p \o q)[x] = u[x]
      BY <3>2, ThreeParts
    <3>4. QED
      BY <2>4, <3>1, <3>3
  <2>6. AllBegin(k)
    BY <1>4
  <2>7. AllBegin(k + 1)
    <3> SUFFICES ASSUME NEW i \in 0 .. k + 1
                 PROVE  /\ Len(b[i]) <= Len(b[k + 1])
                        /\ \A x \in 1 .. Len(b[i]) : b[k + 1][x] = b[i][x]
      BY DEF Begins
    <3>1. CASE i = k + 1
      BY <2>3, <3>1
    <3>2. CASE i \in 0 .. k
      <4>1. Len(b[i]) <= Len(b[k]) /\ \A x \in 1 .. Len(b[i]) : b[k][x] = b[i][x]
        BY <2>6, <3>2 DEF Begins
      <4>2. i \in 0 .. N
        BY <3>2
      <4>3. b[i] \in Seq(Byte)
        BY <1>1, <1>2, <4>2
      <4>4. Len(b[i]) \in Nat /\ Len(b[k]) \in Nat /\ Len(p) \in Nat /\ Len(ps[k + 1]) \in Nat
        <5>1. b[i] \in Seq(Byte) /\ b[k] \in Seq(Byte) /\ p \in Seq(Byte) /\ ps[k + 1] \in Seq(Byte)
          BY <2>2, <2>3, <4>3
        <5> HIDE <1>4
        <5>2. QED
          BY <5>1, LenProperties
      <4>5. \A x \in 1 .. Len(b[i]) : x \in 1 .. Len(b[k])
        BY <4>1, <4>4
      <4>6. Len(b[i]) <= Len(b[k + 1])
        <5>1. Len(b[k + 1]) = Len(b[k]) + Len(p) + Len(ps[k + 1])
          BY <2>5
        <5>2. \A u, v, w, x \in Nat : u <= v => u <= v + w + x
          OBVIOUS
        <5>3. Len(b[i]) <= Len(b[k]) + Len(p) + Len(ps[k + 1])
          BY <4>1, <4>4, <5>2
        <5>4. QED
          BY <5>1, <5>3
      <4>7. \A x \in 1 .. Len(b[i]) : b[k + 1][x] = b[i][x]
        BY <2>5, <4>1, <4>5
      <4>8. QED
        BY <4>6, <4>7
    <3>3. QED
      BY <3>1, <3>2
  <2> HIDE DEF AllBegin
  <2>8. QED
    BY <2>1, <2>7
<1> HIDE DEF T
<1>5. 0 .. N \subseteq T
  BY <1>3, <1>4, StepByStep
<1>6. QED
  BY <1>1, <1>2, <1>5 DEF T

(* f holds the packet i of ps as the batch b does.                          *)
InBatch(f, b, width, ps, i) ==
  /\ ps[i] \in Seq(Byte) /\ b[i - 1] \in Seq(Byte) /\ b[i] \in Seq(Byte)
  /\ Len(b[i]) = Len(b[i - 1]) + width + Len(ps[i]) /\ Len(b[i]) <= Len(f)
  /\ SubSeq(f, Len(b[i - 1]) + 1, Len(b[i - 1]) + width) = PutUint(Len(ps[i]), width)
  /\ SubSeq(f, Len(b[i - 1]) + width + 1, Len(b[i])) = ps[i]

(* Each packet is where its batch has put it.                               *)
LEMMA PacketInBatch ==
  ASSUME NEW magic \in Seq(Byte), NEW width \in Nat, NEW ps \in Seq(Seq(Byte)),
         NEW b, b = Batch(magic, width, ps), NEW n \in 0 .. Len(ps), NEW i \in 1 .. n
  PROVE  InBatch(b[n], b, width, ps, i)
<1>1. /\ b \in [0 .. Len(ps) -> Seq(Byte)]
      /\ \A k \in 1 .. Len(ps) : b[k] = b[k - 1] \o PutUint(Len(ps[k]), width) \o ps[k]
  <2>1. IsBatch(b, magic, width, ps)
    BY BatchIs
  <2>2. QED
    BY ONLY <2>1 DEF IsBatch
<1>2. PICK N \in Nat : N = Len(ps) /\ n \in 0 .. N /\ i \in 1 .. N /\ i \in 0 .. N /\ i - 1 \in 0 .. N
  OBVIOUS
<1>3. PICK a, q : a = b[i - 1] /\ q = ps[i]
  OBVIOUS
<1>4. q \in Seq(Byte) /\ Len(q) \in Nat
  BY <1>2, <1>3, ElementOfSeq
<1>5. a \in Seq(Byte) /\ b[i] \in Seq(Byte) /\ b[n] \in Seq(Byte)
  BY <1>1, <1>2, <1>3
<1>6. PICK p : p = PutUint(Len(q), width)
  OBVIOUS
<1>7. p \in Seq(Byte) /\ Len(p) = width
  BY <1>4, <1>6, PutUintBytes
<1>8. b[i] = a \o p \o q
  <2>1. b[i] = b[i - 1] \o PutUint(Len(ps[i]), width) \o ps[i]
    BY <1>1, <1>2, Zenon
  <2>2. QED
    BY <2>1, <1>3, <1>6
<1>9. PICK c : c = b[i]
  OBVIOUS
<1>10. /\ Len(c) = Len(a) + Len(p) + Len(q)
       /\ SubSeq(c, Len(a) + 1, Len(a) + Len(p)) = p
       /\ SubSeq(c, Len(a) + Len(p) + 1, Len(a) + Len(p) + Len(q)) = q
  <2>1. /\ Len(a \o p \o q) = Len(a) + Len(p) + Len(q)
        /\ SubSeq(a \o p \o q, Len(a) + 1, Len(a) + Len(p)) = p
        /\ SubSeq(a \o p \o q, Len(a) + Len(p) + 1, Len(a) + Len(p) + Len(q)) = q
    <3>1. a \in Seq(Byte) /\ p \in Seq(Byte) /\ q \in Seq(Byte)
      BY <1>4, <1>5, <1>7
    <3>2. QED
      BY <3>1, ThreeParts
  <2>2. QED
    BY <2>1, <1>8, <1>9
<1>11. Len(c) <= Len(b[n]) /\ \A x \in 1 .. Len(c) : b[n][x] = c[x]
  <2>1. i \in 0 .. n
    OBVIOUS
  <2>2. Begins(b[i], b[n])
    BY <2>1, BatchParts
  <2>3. QED
    BY <2>2, <1>9 DEF Begins
<1>12. PICK k \in Nat, l \in Nat : k = Len(a) /\ l = Len(q)
  <2>1. Len(a) \in Nat /\ Len(q) \in Nat
    BY <1>4, <1>5
  <2>2. QED
    BY <2>1
<1>13. PICK h \in Nat, g \in Nat : h = k + width /\ g = k + width + l
  OBVIOUS
<1>14. Len(c) = g /\ k <= h /\ h <= g /\ g <= Len(b[n]) /\ h <= Len(b[n]) /\ h <= Len(c)
  <2>1. Len(b[n]) \in Nat /\ Len(c) <= Len(b[n])
    BY <1>5, <1>11
  <2>2. Len(c) = k + width + l
    BY <1>7, <1>10, <1>12
  <2>3. QED
    BY <1>13, <2>1, <2>2
<1>15. SubSeq(b[n], k + 1, h) = SubSeq(c, k + 1, h)
  <2>1. \A x \in 1 .. h : b[n][x] = c[x]
    BY <1>11, <1>14
  <2>2. PICK t \in Seq(Byte) : t = b[n]
    BY <1>5
  <2>3. \A x \in 1 .. h : t[x] = c[x]
    BY <2>1, <2>2
  <2>4. c \in Seq(Byte) /\ k <= h /\ h <= Len(t) /\ h <= Len(c)
    BY <1>5, <1>9, <1>14, <2>2
  <2>5. QED
    BY <2>2, <2>3, <2>4, SamePart
<1>16. SubSeq(b[n], h + 1, g) = SubSeq(c, h + 1, g)
  <2>1. \A x \in 1 .. g : b[n][x] = c[x]
    BY <1>11, <1>14
  <2>2. PICK t \in Seq(Byte) : t = b[n]
    BY <1>5
  <2>3. \A x \in 1 .. g : t[x] = c[x]
    BY <2>1, <2>2
  <2>4. c \in Seq(Byte) /\ h <= g /\ g <= Len(t) /\ g <= Len(c)
    BY <1>5, <1>9, <1>14, <2>2
  <2>5. QED
    BY <2>2, <2>3, <2>4, SamePart
<1>17. SubSeq(b[n], k + 1, k + width) = p /\ SubSeq(b[n], k + width + 1, g) = q
  BY <1>7, <1>10, <1>12, <1>13, <1>15, <1>16
<1>18. QED
  BY <1>3, <1>4, <1>5, <1>6, <1>9, <1>12, <1>13, <1>14, <1>17 DEF InBatch

(* How far the turns go that move on.                                       *)
LEMMA TurnsAre ==
  ASSUME NEW N \in Nat, NEW e, NEW n \in 0 .. N, \A i \in 1 .. n : e[i] # e[i - 1],
         n < N => e[n + 1] = e[n]
  PROVE  Max({k \in 0 .. N : \A i \in 1 .. k : e[i] # e[i - 1]}) = n
<1> DEFINE S == {k \in 0 .. N : \A i \in 1 .. k : e[i] # e[i - 1]}
<1>1. n \in S
  OBVIOUS
<1>2. ASSUME NEW k \in S
      PROVE  n >= k
  <2>1. CASE k > n
    <3>1. n + 1 \in 1 .. k /\ (n + 1) - 1 = n /\ n < N
      BY <2>1
    <3>2. QED
      BY <3>1
  <2>2. QED
    BY <2>1
<1>3. S \subseteq Int
  OBVIOUS
<1> HIDE DEF S
<1>4. \A x \in S : (\A y \in S : x >= y) => x = n
  BY <1>1, <1>2, <1>3
<1>5. QED
  BY <1>1, <1>2, <1>4 DEF Max, S

(* And that they come to an end.                                            *)
LEMMA TurnsExist ==
  ASSUME NEW N \in Nat, NEW e
  PROVE  \E n \in 0 .. N : /\ n = Max({k \in 0 .. N : \A i \in 1 .. k : e[i] # e[i - 1]})
                           /\ \A i \in 1 .. n : e[i] # e[i - 1]
                           /\ n < N => e[n + 1] = e[n]
<1> DEFINE Stuck == {k \in 0 .. N : k < N => e[k + 1] = e[k]}
<1>1. PICK n \in Stuck : \A k \in Stuck : n <= k
  <2>1. N \in Stuck /\ Stuck \subseteq Nat
    OBVIOUS
  <2> HIDE DEF Stuck
  <2>2. QED
    BY <2>1, LeastIndex
<1>2. \A i \in 1 .. n : e[i] # e[i - 1]
  <2> SUFFICES ASSUME NEW i \in 1 .. n, e[i] = e[i - 1]
               PROVE  FALSE
    OBVIOUS
  <2>1. i - 1 \in 0 .. N /\ (i - 1) + 1 = i /\ ~(n <= i - 1)
    OBVIOUS
  <2>2. i - 1 \in Stuck
    BY <2>1
  <2>3. QED
    BY <1>1, <2>1, <2>2
<1>3. n \in 0 .. N /\ (n < N => e[n + 1] = e[n])
  OBVIOUS
<1>4. QED
  BY <1>2, <1>3, TurnsAre

(* The decoder takes a batch apart as it was put together.                  *)
LEMMA BatchDecodes ==
  ASSUME NEW magic \in Seq(Byte), NEW width \in Nat, NEW ps \in Seq(Seq(Byte)),
         NEW max \in Nat, HasRoom(width, max), NEW n \in 0 .. Len(ps),
         \A i \in 1 .. n : Len(ps[i]) \in 1 .. max
  PROVE  Packets(Batch(magic, width, ps)[n], magic, width, max)
           = [ok |-> TRUE, packets |-> SubSeq(ps, 1, n)]
<1>1. PICK b : b = Batch(magic, width, ps)
  OBVIOUS
<1>2. PICK f : f = b[n]
  OBVIOUS
<1>3. f \in Seq(Byte) /\ b[0] = magic
  BY <1>1, <1>2, BatchParts, BatchIs DEF IsBatch
<1>4. PICK N \in Nat : N = Len(f)
  BY <1>3
<1>5. PICK e : e = Ends(f, magic, width, max)
  OBVIOUS
<1>6. /\ e[0] = Len(magic) /\ e \in [0 .. N -> Nat]
      /\ \A k \in 1 .. N : e[k] = After(f, e[k - 1], width, max)
  <2>1. IsEnds(e, f, magic, width, max)
    BY <1>3, <1>5, EndsIs
  <2>2. QED
    BY <1>4, <2>1 DEF IsEnds
<1>0. n \in Nat
  OBVIOUS
<1>7. ASSUME NEW i \in 1 .. n
      PROVE  /\ ps[i] \in Seq(Byte) /\ b[i - 1] \in Seq(Byte) /\ b[i] \in Seq(Byte)
             /\ Len(b[i]) = Len(b[i - 1]) + width + Len(ps[i]) /\ Len(b[i]) <= N
             /\ SubSeq(f, Len(b[i - 1]) + 1, Len(b[i - 1]) + width)
                  = PutUint(Len(ps[i]), width)
             /\ SubSeq(f, Len(b[i - 1]) + width + 1, Len(b[i])) = ps[i]
  <2>1. InBatch(f, b, width, ps, i)
    BY <1>1, <1>2, PacketInBatch
  <2>2. QED
    BY <1>4, <2>1 DEF InBatch
<1>8. ASSUME NEW i \in 1 .. n
      PROVE  Len(b[i - 1]) < Len(b[i]) /\ After(f, Len(b[i - 1]), width, max) = Len(b[i])
  <2>1. PICK k \in Nat, l \in Nat, m \in Nat :
          k = Len(b[i - 1]) /\ l = Len(b[i]) /\ m = Len(ps[i])
    <3>1. Len(b[i - 1]) \in Nat /\ Len(b[i]) \in Nat /\ Len(ps[i]) \in Nat
      <4>1. b[i - 1] \in Seq(Byte) /\ b[i] \in Seq(Byte) /\ ps[i] \in Seq(Byte)
        BY <1>7
      <4>2. QED
        BY ONLY <4>1, LenProperties
    <3>2. QED
      BY <3>1
  <2>2. l = k + width + m /\ m \in 1 .. max /\ l <= N
    BY <1>7, <2>1
  <2>3. l - k - width = m /\ k < l
    BY <2>2
  <2>4. SubSeq(f, k + 1, k + width) = PutUint(l - k - width, width)
    BY <1>7, <2>1, <2>3
  <2>5. After(f, k, width, max) = l
    <3>1. l <= Len(f) /\ l - k - width \in 1 .. max
      BY <1>4, <2>2, <2>3
    <3>2. QED
      BY <1>3, <2>4, <3>1, AfterEnds
  <2>6. QED
    BY <2>1, <2>3, <2>5
<1>9. n \in Nat /\ \A i \in 0 .. n : Len(b[i]) >= i
  <2> DEFINE T == {i \in 0 .. n : Len(b[i]) >= i}
  <2>1. 0 \in T
    BY <1>3
  <2>2. ASSUME NEW i \in 0 .. n - 1, i \in T
        PROVE  i + 1 \in T
    <3>1. i + 1 \in 1 .. n /\ (i + 1) - 1 = i /\ i + 1 \in 0 .. n
      OBVIOUS
    <3>2. Len(b[i]) \in Nat /\ Len(b[i + 1]) \in Nat /\ Len(b[i]) < Len(b[i + 1])
      BY <1>7, <1>8, <3>1
    <3>3. Len(b[i]) >= i
      BY <2>2
    <3>4. Len(b[i + 1]) >= i + 1
      BY <3>2, <3>3
    <3>5. QED
      BY <3>1, <3>4
  <2> HIDE DEF T
  <2>3. 0 .. n \subseteq T
    BY <1>0, <2>1, <2>2, StepByStep
  <2>4. QED
    BY <2>3 DEF T
<1>10. n <= N
  BY <1>2, <1>4, <1>9
<1>11. \A i \in 0 .. n : e[i] = Len(b[i])
  <2> DEFINE T == {i \in 0 .. n : e[i] = Len(b[i])}
  <2>1. 0 \in T
    BY <1>3, <1>6
  <2>2. ASSUME NEW i \in 0 .. n - 1, i \in T
        PROVE  i + 1 \in T
    <3>1. i + 1 \in 1 .. n /\ (i + 1) - 1 = i /\ i + 1 \in 0 .. n /\ i + 1 \in 1 .. N
      BY <1>10
    <3>2. e[i + 1] = After(f, e[i], width, max)
      BY <1>6, <3>1
    <3>3. After(f, Len(b[i]), width, max) = Len(b[i + 1])
      BY <1>8, <3>1
    <3>4. e[i] = Len(b[i])
      BY <2>2
    <3>5. QED
      BY <3>1, <3>2, <3>3, <3>4
  <2> HIDE DEF T
  <2>3. 0 .. n \subseteq T
    BY <1>0, <2>1, <2>2, StepByStep
  <2>4. QED
    BY <2>3 DEF T
<1>12. e[n] = N
  BY <1>2, <1>4, <1>11
<1>13. n = Max({k \in 0 .. N : \A i \in 1 .. k : e[i] # e[i - 1]})
  <2>1. ASSUME NEW i \in 1 .. n
        PROVE  e[i] # e[i - 1]
    <3>1. i \in 0 .. n /\ i - 1 \in 0 .. n
      OBVIOUS
    <3>2. e[i] = Len(b[i]) /\ e[i - 1] = Len(b[i - 1])
      BY <1>11, <3>1
    <3>3. Len(b[i]) \in Nat /\ Len(b[i - 1]) \in Nat /\ Len(b[i - 1]) < Len(b[i])
      BY <1>7, <1>8
    <3>4. QED
      BY <3>2, <3>3
  <2>2. ASSUME n < N
        PROVE  e[n + 1] = e[n]
    <3>1. n + 1 \in 1 .. N /\ (n + 1) - 1 = n
      BY <2>2
    <3>2. e[n + 1] = After(f, N, width, max)
      BY <1>6, <1>12, <3>1
    <3>3. After(f, N, width, max) = N
      BY <1>3, <1>4, AfterIs
    <3>4. QED
      BY <1>12, <3>2, <3>3
  <2>3. n \in 0 .. N
    BY <1>10
  <2>4. QED
    BY <2>1, <2>2, <2>3, TurnsAre
<1>14. [k \in 1 .. n |-> SubSeq(f, e[k - 1] + width + 1, e[k])] = SubSeq(ps, 1, n)
  <2>1. PICK M \in Nat : M = Len(ps) /\ n <= M
    OBVIOUS
  <2>2. PICK r : r = SubSeq(ps, 0 + 1, n)
    OBVIOUS
  <2>3. r \in Seq(Seq(Byte)) /\ Len(r) = n - 0 /\ \A x \in 1 .. n - 0 : r[x] = ps[0 + x]
    <3>1. PICK S : S = Seq(Byte)
      OBVIOUS
    <3>2. ps \in Seq(S) /\ 0 <= n /\ n <= Len(ps) /\ 0 \in Nat
      BY <1>0, <2>1, <3>1
    <3>3. r \in Seq(S) /\ Len(r) = n - 0 /\ \A x \in 1 .. n - 0 : r[x] = ps[0 + x]
      BY <1>0, <2>2, <3>2, SubSeqIs
    <3>4. QED
      BY <3>1, <3>3
  <2> DEFINE g == [k \in 1 .. n |-> SubSeq(f, e[k - 1] + width + 1, e[k])]
  <2>4. ASSUME NEW k \in 1 .. n
        PROVE  g[k] = r[k]
    <3>1. k \in 0 .. n /\ k - 1 \in 0 .. n /\ k \in 1 .. n - 0 /\ 0 + k = k
      OBVIOUS
    <3>2. e[k] = Len(b[k]) /\ e[k - 1] = Len(b[k - 1])
      BY <1>11, <3>1
    <3>3. SubSeq(f, Len(b[k - 1]) + width + 1, Len(b[k])) = ps[k]
      BY <1>7
    <3>4. QED
      BY <2>3, <3>1, <3>2, <3>3
  <2>5. r = [k \in 1 .. n |-> r[k]] /\ g = [k \in 1 .. n |-> g[k]]
    <3>1. r \in [1 .. Len(r) -> Seq(Byte)] /\ Len(r) = n
      BY <1>0, <2>3, LenProperties
    <3>2. r = [k \in 1 .. n |-> r[k]]
      BY <3>1
    <3>3. g = [k \in 1 .. n |-> g[k]]
      OBVIOUS
    <3>4. QED
      BY <3>2, <3>3
  <2>6. g = r
    <3> HIDE DEF g
    <3>1. QED
      BY <2>4, <2>5
  <2>7. QED
    BY <2>2, <2>6
<1>15. Packets(f, magic, width, max) =
         [ok |-> e[n] = Len(f),
          packets |-> [k \in 1 .. n |-> SubSeq(f, e[k - 1] + width + 1, e[k])]]
  BY <1>4, <1>5, <1>13 DEF Packets
<1>16. QED
  BY <1>1, <1>2, <1>4, <1>12, <1>14, <1>15

(* The decoder's t turns over f, at e[0], e[1], ..., e[t].                  *)
Decodes(e, t, f, magic, width, max) ==
  /\ t \in 0 .. Len(f) /\ e \in [0 .. Len(f) -> Nat] /\ e[0] = Len(magic)
  /\ \A i \in 0 .. t : e[i] <= Len(f)
  /\ \A i \in 1 .. t : e[i] = After(f, e[i - 1], width, max) /\ e[i - 1] < e[i]
  /\ \A i, j \in 0 .. t : i < j => e[i] < e[j]
  /\ After(f, e[t], width, max) = e[t]
  /\ Packets(f, magic, width, max) =
       [ok      |-> e[t] = Len(f),
        packets |-> [k \in 1 .. t |-> SubSeq(f, e[k - 1] + width + 1, e[k])]]

(* Every frame that is long enough for the magic has such turns.            *)
LEMMA DecoderTurns ==
  ASSUME NEW f \in Seq(Byte), NEW magic \in Seq(Byte), NEW width \in Nat, NEW max \in Nat,
         Len(magic) <= Len(f)
  PROVE  \E e, t : Decodes(e, t, f, magic, width, max)
<1>1. PICK N \in Nat : N = Len(f)
  OBVIOUS
<1>2. PICK e : e = Ends(f, magic, width, max)
  OBVIOUS
<1>3. /\ e \in [0 .. N -> Nat] /\ e[0] = Len(magic)
      /\ \A k \in 1 .. N : e[k] = After(f, e[k - 1], width, max)
  <2>1. IsEnds(e, f, magic, width, max)
    BY <1>2, EndsIs
  <2>2. QED
    BY <1>1, <2>1 DEF IsEnds
<1>4. PICK t \in 0 .. N : /\ t = Max({k \in 0 .. N : \A i \in 1 .. k : e[i] # e[i - 1]})
                          /\ \A i \in 1 .. t : e[i] # e[i - 1]
                          /\ t < N => e[t + 1] = e[t]
  BY TurnsExist
<1>5. ASSUME NEW i \in 1 .. t
      PROVE  /\ i \in 1 .. N /\ i - 1 \in 0 .. N /\ i \in 0 .. N /\ e[i - 1] \in Nat /\ e[i] \in Nat
             /\ e[i] = After(f, e[i - 1], width, max) /\ e[i - 1] < e[i]
             /\ e[i - 1] <= N => e[i] <= N
  <2>1. i \in 1 .. N /\ i - 1 \in 0 .. N /\ i \in 0 .. N
    OBVIOUS
  <2>2. PICK p \in Nat, q \in Nat : p = e[i - 1] /\ q = e[i]
    BY <1>3, <2>1
  <2>3. q = After(f, p, width, max) /\ q # p
    BY <1>3, <1>4, <2>1, <2>2
  <2>4. q >= p /\ (p <= N => q <= N)
    BY <1>1, <2>3, AfterIs
  <2>5. QED
    BY <2>1, <2>2, <2>3, <2>4
<1>6. \A i \in 0 .. t : e[i] <= N
  <2> DEFINE T == {i \in 0 .. t : e[i] <= N}
  <2>1. 0 \in T
    BY <1>1, <1>3
  <2>2. ASSUME NEW i \in 0 .. t - 1, i \in T
        PROVE  i + 1 \in T
    <3>1. i + 1 \in 1 .. t /\ (i + 1) - 1 = i /\ i + 1 \in 0 .. t
      OBVIOUS
    <3>2. e[i] <= N
      BY <2>2
    <3>3. e[i + 1] <= N
      BY <1>5, <3>1, <3>2
    <3>4. QED
      BY <3>1, <3>3
  <2> HIDE DEF T
  <2>3. t \in Nat
    OBVIOUS
  <2>4. 0 .. t \subseteq T
    BY <2>1, <2>2, <2>3, StepByStep
  <2>5. QED
    BY <2>4 DEF T
<1>7. \A i, j \in 0 .. t : i < j => e[i] < e[j]
  <2> SUFFICES ASSUME NEW i \in 0 .. t
               PROVE  \A j \in 0 .. t : i < j => e[i] < e[j]
    OBVIOUS
  <2> DEFINE T == {j \in 0 .. t : i < j => e[i] < e[j]}
  <2>1. 0 \in T
    OBVIOUS
  <2>2. ASSUME NEW j \in 0 .. t - 1, j \in T
        PROVE  j + 1 \in T
    <3>1. /\ j + 1 \in 1 .. t /\ (j + 1) - 1 = j /\ j + 1 \in 0 .. t
          /\ i \in 0 .. N /\ j \in 0 .. N /\ j + 1 \in 0 .. N
      OBVIOUS
    <3>2. e[j] < e[j + 1]
      BY <1>5, <3>1
    <3>3. e[i] \in Nat /\ e[j] \in Nat /\ e[j + 1] \in Nat
      BY <1>3, <3>1
    <3>4. i < j => e[i] < e[j]
      BY <2>2
    <3>5. i < j + 1 => e[i] < e[j + 1]
      <4>1. CASE i = j
        BY <3>2, <4>1
      <4>2. CASE i < j
        BY <3>2, <3>3, <3>4, <4>2
      <4>3. CASE i > j
        BY <4>3
      <4>4. QED
        BY <4>1, <4>2, <4>3
    <3>6. QED
      BY <3>1, <3>5
  <2> HIDE DEF T
  <2>3. t \in Nat
    OBVIOUS
  <2>4. 0 .. t \subseteq T
    BY <2>1, <2>2, <2>3, StepByStep
  <2>5. QED
    BY <2>4 DEF T
<1>8. After(f, e[t], width, max) = e[t]
  <2>1. CASE t < N
    <3>1. t + 1 \in 1 .. N /\ (t + 1) - 1 = t
      BY <2>1
    <3>2. e[t + 1] = After(f, e[t], width, max)
      BY <1>3, <3>1
    <3>3. QED
      BY <1>4, <2>1, <3>2
  <2>2. CASE t = N
    <3> DEFINE T == {i \in 0 .. t : e[i] >= i}
    <3>1. 0 \in T
      BY <1>3
    <3>2. ASSUME NEW i \in 0 .. t - 1, i \in T
          PROVE  i + 1 \in T
      <4>1. i + 1 \in 1 .. t /\ (i + 1) - 1 = i /\ i + 1 \in 0 .. t
        OBVIOUS
      <4>2. e[i] \in Nat /\ e[i + 1] \in Nat /\ e[i] < e[i + 1]
        BY <1>5, <4>1
      <4>3. e[i] >= i
        BY <3>2
      <4>4. e[i + 1] >= i + 1
        BY <4>2, <4>3
      <4>5. QED
        BY <4>1, <4>4
    <3> HIDE DEF T
    <3>3. t \in Nat
      OBVIOUS
    <3>4. 0 .. t \subseteq T
      BY <3>1, <3>2, <3>3, StepByStep
    <3>5. e[t] >= N /\ e[t] <= N
      BY <1>6, <2>2, <3>4 DEF T
    <3>6. e[t] = N
      BY <1>3, <3>5
    <3>7. After(f, N, width, max) = N
      BY <1>1, AfterAll
    <3>8. QED
      BY <3>6, <3>7
  <2>3. QED
    BY <2>1, <2>2
<1>9. Packets(f, magic, width, max) =
        [ok      |-> e[t] = Len(f),
         packets |-> [k \in 1 .. t |-> SubSeq(f, e[k - 1] + width + 1, e[k])]]
  BY <1>1, <1>2, <1>4 DEF Packets
<1>10. \A i \in 1 .. t : e[i] = After(f, e[i - 1], width, max) /\ e[i - 1] < e[i]
  BY <1>5
<1>11. Decodes(e, t, f, magic, width, max)
  BY <1>1, <1>3, <1>6, <1>7, <1>8, <1>9, <1>10 DEF Decodes
<1>12. QED
  BY <1>11

(* The decoder's packets put together again are what it has read.           *)
LEMMA DecodedEncodes ==
  ASSUME NEW f \in Seq(Byte), NEW magic \in Seq(Byte), NEW width \in Nat, NEW max \in Nat,
         IsPrefix(magic, f), NEW e, NEW t, Decodes(e, t, f, magic, width, max),
         NEW ps, ps = Packets(f, magic, width, max).packets
  PROVE  /\ ps \in Seq(Seq(Byte)) /\ Len(ps) = t
         /\ Batch(magic, width, ps)[t] = SubSeq(f, 1, e[t])
<1>1. PICK N \in Nat : N = Len(f)
  OBVIOUS
<1>2. /\ t \in 0 .. N /\ e \in [0 .. N -> Nat] /\ e[0] = Len(magic)
      /\ \A i \in 0 .. t : e[i] <= N
      /\ \A i \in 1 .. t : e[i] = After(f, e[i - 1], width, max) /\ e[i - 1] < e[i]
      /\ ps = [k \in 1 .. t |-> SubSeq(f, e[k - 1] + width + 1, e[k])]
  BY <1>1 DEF Decodes
<1>3. ASSUME NEW i \in 1 .. t
      PROVE  \E p \in Nat, h \in Nat, q \in Nat :
               /\ p = e[i - 1] /\ h = p + width /\ q = e[i] /\ h <= q /\ q <= N
               /\ SubSeq(f, p + 1, h) = PutUint(q - h, width)
               /\ ps[i] = SubSeq(f, h + 1, q)
  <2>1. i \in 0 .. N /\ i - 1 \in 0 .. N /\ i \in 0 .. t
    BY <1>2
  <2>2. PICK p \in Nat, h \in Nat, q \in Nat : p = e[i - 1] /\ h = p + width /\ q = e[i]
    <3>1. e[i - 1] \in Nat /\ e[i] \in Nat /\ e[i - 1] + width \in Nat
      BY <1>2, <2>1
    <3>2. QED
      BY <3>1
  <2>3. q = After(f, p, width, max) /\ p < q /\ q <= N
    BY <1>2, <2>1, <2>2
  <2>4. q - p - width \in 1 .. max /\ SubSeq(f, p + 1, p + width) = PutUint(q - p - width, width)
    <3>1. After(f, p, width, max) # p
      BY <2>3
    <3>2. /\ After(f, p, width, max) - p - width \in 1 .. max
          /\ SubSeq(f, p + 1, p + width) = PutUint(After(f, p, width, max) - p - width, width)
      BY <3>1, AfterIs
    <3>3. QED
      BY <2>3, <3>2
  <2>5. q - p - width = q - h /\ h <= q
    <3>1. h = p + width /\ q - p - width >= 1
      BY <2>2, <2>4
    <3>2. QED
      BY <3>1
  <2>6. ps[i] = SubSeq(f, h + 1, q)
    BY <1>2, <2>2
  <2>7. SubSeq(f, p + 1, h) = PutUint(q - h, width)
    BY <2>2, <2>4, <2>5
  <2>8. QED
    BY <2>2, <2>3, <2>5, <2>6, <2>7
<1>4. ASSUME NEW i \in 1 .. t
      PROVE  ps[i] \in Seq(Byte)
  <2>1. PICK p \in Nat, h \in Nat, q \in Nat :
               /\ p = e[i - 1] /\ h = p + width /\ q = e[i] /\ h <= q /\ q <= N
               /\ SubSeq(f, p + 1, h) = PutUint(q - h, width)
               /\ ps[i] = SubSeq(f, h + 1, q)
    BY <1>3
  <2>2. h <= q /\ q <= Len(f)
    BY <1>1, <2>1
  <2>3. SubSeq(f, h + 1, q) \in Seq(Byte)
    BY <2>2, SubSeqIs
  <2>4. QED
    BY <2>1, <2>3
<1>5. ps \in Seq(Seq(Byte)) /\ Len(ps) = t
  <2>1. ps \in [1 .. t -> Seq(Byte)] /\ t \in Nat
    <3>1. DOMAIN ps = 1 .. t
      BY <1>2
    <3>2. ps = [k \in 1 .. t |-> ps[k]]
      BY <1>2, <3>1, Zenon
    <3>3. t \in Nat
      BY <1>2
    <3>4. QED
      BY <1>4, <3>2, <3>3
  <2>2. QED
    BY <2>1
<1>6. PICK b : b = Batch(magic, width, ps)
  OBVIOUS
<1>7. /\ b[0] = magic
      /\ \A n \in 1 .. t : b[n] = b[n - 1] \o PutUint(Len(ps[n]), width) \o ps[n]
  <2>1. IsBatch(b, magic, width, ps)
    BY <1>5, <1>6, BatchIs
  <2>2. QED
    BY <1>5, <2>1 DEF IsBatch
<1> DEFINE T == {i \in 0 .. t : b[i] = SubSeq(f, 1, e[i])}
<1>8. 0 \in T
  <2>1. SubSeq(magic, 1, Len(magic)) = magic
    BY SubSeqFull
  <2>2. SubSeq(f, 1, Len(magic)) = magic
    BY <2>1 DEF IsPrefix
  <2>3. b[0] = SubSeq(f, 1, e[0]) /\ 0 \in 0 .. t
    BY <1>2, <1>7, <2>2
  <2>4. QED
    BY <2>3
<1>9. ASSUME NEW i \in 0 .. t - 1, i \in T
      PROVE  i + 1 \in T
  <2>1. i + 1 \in 1 .. t /\ (i + 1) - 1 = i /\ i + 1 \in 0 .. t
    <3>1. t \in Nat
      BY <1>2
    <3> HIDE DEF T
    <3>2. QED
      BY <3>1
  <2>2. PICK p \in Nat, h \in Nat, q \in Nat :
               /\ p = e[i] /\ h = p + width /\ q = e[i + 1] /\ h <= q /\ q <= N
               /\ SubSeq(f, p + 1, h) = PutUint(q - h, width)
               /\ ps[i + 1] = SubSeq(f, h + 1, q)
    <3>1. \E p \in Nat, h \in Nat, q \in Nat :
               /\ p = e[(i + 1) - 1] /\ h = p + width /\ q = e[i + 1] /\ h <= q /\ q <= N
               /\ SubSeq(f, p + 1, h) = PutUint(q - h, width)
               /\ ps[i + 1] = SubSeq(f, h + 1, q)
      BY <1>3, <2>1, Zenon
    <3>2. QED
      BY <2>1, <3>1
  <2>3. Len(ps[i + 1]) = q - h
    <3>1. h <= q /\ q <= Len(f)
      BY <1>1, <2>2
    <3>2. Len(SubSeq(f, h + 1, q)) = q - h
      BY <3>1, SubSeqIs
    <3>3. QED
      BY <2>2, <3>2
  <2>4. b[i] = SubSeq(f, 1, p)
    BY <1>9, <2>2
  <2>5. b[i + 1] = SubSeq(f, 1, p) \o SubSeq(f, p + 1, h) \o SubSeq(f, h + 1, q)
    BY <1>7, <2>1, <2>2, <2>3, <2>4
  <2>6. SubSeq(f, 1, p) \o SubSeq(f, p + 1, h) = SubSeq(f, 1, h)
    <3>1. 1 \in 1 .. Len(f) + 1 /\ p \in 1 - 1 .. Len(f) /\ h \in p .. Len(f)
      <4>1. h = p + width /\ h <= q /\ q <= Len(f)
        BY <1>1, <2>2
      <4>2. QED
        BY <4>1
    <3>2. QED
      BY <3>1, ConcatAdjacentSubSeq
  <2>7. SubSeq(f, 1, h) \o SubSeq(f, h + 1, q) = SubSeq(f, 1, q)
    <3>1. 1 \in 1 .. Len(f) + 1 /\ h \in 1 - 1 .. Len(f) /\ q \in h .. Len(f)
      <4>1. h = p + width /\ h <= q /\ q <= Len(f)
        BY <1>1, <2>2
      <4>2. QED
        BY <4>1
    <3>2. QED
      BY <3>1, ConcatAdjacentSubSeq
  <2>8. b[i + 1] = SubSeq(f, 1, q)
    BY <2>5, <2>6, <2>7
  <2>9. QED
    BY <2>1, <2>2, <2>8
<1> HIDE DEF T
<1>10. t \in T
  <2>1. t \in Nat
    BY <1>2
  <2>2. 0 .. t \subseteq T
    BY <1>8, <1>9, <2>1, StepByStep
  <2>3. QED
    BY <2>1, <2>2
<1>11. QED
  BY <1>5, <1>6, <1>10 DEF T

(* A bounded set of numbers has a greatest.                                 *)
LEMMA GreatestIndex ==
  ASSUME NEW N \in Nat, NEW S, S \subseteq 0 .. N, S # {}
  PROVE  \E x \in S : \A y \in S : y <= x
<1> DEFINE R == {n \in 0 .. N : N - n \in S}
<1>1. R \subseteq Nat /\ R # {}
  <2>1. PICK x \in S : TRUE
    OBVIOUS
  <2>2. N - x \in 0 .. N /\ N - (N - x) = x
    BY <2>1
  <2>3. N - x \in R
    BY <2>1, <2>2
  <2>4. R # {}
    <3> HIDE DEF R
    <3>1. QED
      BY <2>3
  <2>5. QED
    BY <2>4
<1>2. PICK r \in R : \A y \in R : r <= y
  BY <1>1, LeastIndex
<1>3. ASSUME NEW y \in S
      PROVE  y <= N - r
  <2>1. N - y \in 0 .. N /\ N - (N - y) = y /\ r \in 0 .. N
    OBVIOUS
  <2>2. N - y \in R
    BY <2>1
  <2>3. r <= N - y
    BY <1>2, <2>2
  <2>4. QED
    BY <2>1, <2>3
<1>4. N - r \in S
  OBVIOUS
<1>5. QED
  BY <1>3, <1>4

(* The first cuts of the decoder's, up to its turn j.                       *)
CutOf(e, j) == {e[i] : i \in 0 .. j}

(* They are as many as the turns, and the first.                            *)
LEMMA CutSize ==
  ASSUME NEW f \in Seq(Byte), NEW magic, NEW width, NEW max,
         NEW e, NEW t, Decodes(e, t, f, magic, width, max), NEW j \in 0 .. t
  PROVE  Cardinality(CutOf(e, j)) = j + 1
<1>1. t \in Nat /\ \A i, k \in 0 .. t : e[i] \in Nat /\ (i < k => e[i] < e[k])
  <2>1. PICK N \in Nat : N = Len(f)
    OBVIOUS
  <2>2. /\ t \in 0 .. N /\ e \in [0 .. N -> Nat]
        /\ \A i, k \in 0 .. t : i < k => e[i] < e[k]
    BY <2>1 DEF Decodes
  <2>3. \A i \in 0 .. t : i \in 0 .. N
    BY <2>2
  <2>4. QED
    BY <2>2, <2>3
<1>2. j \in Nat /\ \A i \in 0 .. j : i \in 0 .. t
  BY <1>1
<1> DEFINE g == [i \in 0 .. j |-> e[i]]
<1>3. \A i, k \in 0 .. j : g[i] = g[k] => i = k
  <2> TAKE i, k \in 0 .. j
  <2>1. i \in Int /\ k \in Int /\ i \in 0 .. t /\ k \in 0 .. t /\ e[i] \in Nat /\ e[k] \in Nat
    BY <1>1, <1>2
  <2>2. (i < k => e[i] < e[k]) /\ (k < i => e[k] < e[i])
    BY <1>1, <2>1
  <2>3. QED
    BY <2>1, <2>2
<1>4. g \in Bijection(0 .. j, CutOf(e, j))
  <2>1. g \in [0 .. j -> CutOf(e, j)]
    BY DEF CutOf
  <2>2. g \in Injection(0 .. j, CutOf(e, j))
    <3> HIDE DEF g
    <3>1. QED
      BY <1>3, <2>1 DEF Injection, IsInjective
  <2>3. g \in Surjection(0 .. j, CutOf(e, j))
    <3>1. \A c \in CutOf(e, j) : \E i \in 0 .. j : g[i] = c
      BY DEF CutOf
    <3> HIDE DEF g
    <3>2. QED
      BY <2>1, <3>1 DEF Surjection
  <2>4. QED
    BY <2>2, <2>3 DEF Bijection
<1>5. ExistsBijection(0 .. j, CutOf(e, j))
  BY <1>4 DEF ExistsBijection
<1>6. IsFiniteSet(0 .. j) /\ Cardinality(0 .. j) = j + 1
  <2>1. 0 \in Int /\ j \in Int /\ ~(0 > j)
    BY <1>2
  <2>2. IsFiniteSet(0 .. j) /\ Cardinality(0 .. j) = IF 0 > j THEN 0 ELSE j - 0 + 1
    BY <2>1, FS_Interval
  <2>3. QED
    BY <2>1, <2>2
<1>7. QED
  BY <1>5, <1>6, FS_Bijection

(* The decoder's turns cut the frame.                                       *)
LEMMA TurnsCut ==
  ASSUME NEW f \in Seq(Byte), NEW magic \in Seq(Byte), NEW width \in Nat, NEW max \in Nat,
         IsPrefix(magic, f), NEW e, NEW t, Decodes(e, t, f, magic, width, max), NEW j \in 0 .. t
  PROVE  CutOf(e, j) \in Cuts(f, magic, width, max)
<1>1. PICK N \in Nat, M \in Nat : N = Len(f) /\ M = Len(magic)
  OBVIOUS
<1>2. /\ t \in 0 .. N /\ e \in [0 .. N -> Nat] /\ e[0] = M
      /\ \A i \in 0 .. t : e[i] <= N
      /\ \A i \in 1 .. t : e[i] = After(f, e[i - 1], width, max) /\ e[i - 1] < e[i]
      /\ \A i, k \in 0 .. t : i < k => e[i] < e[k]
  BY <1>1 DEF Decodes
<1>3. \A i \in 0 .. j : i \in 0 .. t /\ i \in 0 .. N /\ i \in Int
  BY <1>2
<1>4. ASSUME NEW i \in 0 .. j
      PROVE  e[i] \in M .. N
  <2>1. e[i] \in Nat /\ e[i] <= N /\ 0 \in 0 .. t
    BY <1>2, <1>3
  <2>2. 0 < i => e[0] < e[i]
    BY <1>2, <1>3, <2>1
  <2>3. QED
    BY <1>2, <1>3, <2>1, <2>2
<1>5. M \in CutOf(e, j)
  BY <1>2 DEF CutOf
<1>6. ASSUME NEW a \in CutOf(e, j), NEW b \in CutOf(e, j), a < b,
             \A c \in CutOf(e, j) : c <= a \/ b <= c
      PROVE  /\ b - a - width \in 1 .. max
             /\ SubSeq(f, a + 1, a + width) = PutUint(b - a - width, width)
  <2>1. PICK i \in 0 .. j, k \in 0 .. j : a = e[i] /\ b = e[k]
    BY DEF CutOf
  <2>2. /\ i \in 0 .. t /\ k \in 0 .. t /\ i \in Int /\ k \in Int
        /\ e[i] \in Nat /\ e[k] \in Nat /\ e[i] < e[k]
    BY <1>2, <1>3, <1>6, <2>1
  <2>3. i < k
    <3>1. k < i => e[k] < e[i]
      BY <1>2, <2>2
    <3>2. QED
      BY <2>2, <3>1
  <2>4. i + 1 \in 0 .. j /\ i + 1 \in 1 .. t /\ (i + 1) - 1 = i
    <3>1. j \in Nat /\ j <= t /\ i \in Nat /\ k <= j
      BY <1>2
    <3>2. QED
      BY <1>2, <2>2, <2>3, <3>1
  <2>5. e[i + 1] \in Nat /\ e[i] < e[i + 1] /\ e[i + 1] = After(f, e[i], width, max)
    BY <1>2, <1>3, <2>4
  <2>6. e[i + 1] \in CutOf(e, j)
    BY <2>4 DEF CutOf
  <2>7. e[k] <= e[i + 1]
    <3>1. e[i + 1] <= a \/ b <= e[i + 1]
      BY <1>6, <2>6
    <3>2. QED
      BY <2>1, <2>2, <2>5, <3>1
  <2>8. k = i + 1
    <3>1. i + 1 < k => e[i + 1] < e[k]
      BY <1>2, <1>3, <2>2, <2>4
    <3>2. QED
      BY <2>2, <2>3, <2>5, <2>7, <3>1
  <2>9. After(f, a, width, max) # a /\ a \in Nat
    BY <2>1, <2>2, <2>5
  <2>10. /\ After(f, a, width, max) - a - width \in 1 .. max
         /\ SubSeq(f, a + 1, a + width) = PutUint(After(f, a, width, max) - a - width, width)
    BY <2>9, AfterIs
  <2>11. After(f, a, width, max) = b
    BY <2>1, <2>5, <2>8
  <2>12. QED
    BY <2>10, <2>11
<1>7. CutOf(e, j) \in SUBSET (M .. N)
  BY <1>4 DEF CutOf
<1>8. CutsAt(f, CutOf(e, j), magic, width, max)
  BY <1>1, <1>5, <1>6 DEF CutsAt
<1>9. QED
  BY <1>1, <1>7, <1>8 DEF Cuts

(* A cut is made where a packet ends that begins at another.                *)
LEMMA CutBefore ==
  ASSUME NEW f \in Seq(Byte), NEW magic \in Seq(Byte), NEW width \in Nat, NEW max \in Nat,
         HasRoom(width, max), NEW cuts \in Cuts(f, magic, width, max),
         NEW c \in cuts, c # Len(magic)
  PROVE  \E a \in cuts : a \in Nat /\ c \in Nat /\ a < c /\ After(f, a, width, max) = c
<1>1. PICK N \in Nat, M \in Nat : N = Len(f) /\ M = Len(magic)
  OBVIOUS
<1>2. /\ cuts \subseteq M .. N /\ M \in cuts
      /\ \A a, b \in cuts : a < b /\ (\A d \in cuts : d <= a \/ b <= d) =>
           /\ b - a - width \in 1 .. max
           /\ SubSeq(f, a + 1, a + width) = PutUint(b - a - width, width)
  BY <1>1 DEF Cuts, CutsAt
<1>3. c \in Nat /\ M < c /\ c <= N
  BY <1>1, <1>2
<1> DEFINE Below == {a \in cuts : a < c}
<1>4. Below \subseteq 0 .. N /\ Below # {}
  <2>1. \A a \in cuts : a \in Nat /\ a <= N
    BY <1>2
  <2>2. \A a \in Below : a \in 0 .. N
    BY <2>1
  <2>3. M \in Below
    BY <1>2, <1>3
  <2> HIDE DEF Below
  <2>4. QED
    BY <2>2, <2>3
<1>5. PICK a \in Below : \A y \in Below : y <= a
  <2> HIDE DEF Below
  <2>1. QED
    BY <1>4, GreatestIndex
<1>6. a \in cuts /\ a \in Nat /\ a < c
  BY <1>2
<1>7. \A d \in cuts : d <= a \/ c <= d
  <2> SUFFICES ASSUME NEW d \in cuts, ~(c <= d)
               PROVE  d <= a
    OBVIOUS
  <2>1. d \in Nat /\ d < c
    BY <1>2, <1>3
  <2>2. d \in Below
    BY <2>1
  <2>3. QED
    BY <1>5, <2>2
<1>8. /\ c - a - width \in 1 .. max
      /\ SubSeq(f, a + 1, a + width) = PutUint(c - a - width, width)
  BY <1>2, <1>6, <1>7
<1>9. After(f, a, width, max) = c
  BY <1>1, <1>3, <1>6, <1>8, AfterEnds
<1>10. QED
  BY <1>3, <1>6, <1>9

(* Nothing else cuts it.                                                    *)
LEMMA OnlyTurnsCut ==
  ASSUME NEW f \in Seq(Byte), NEW magic \in Seq(Byte), NEW width \in Nat, NEW max \in Nat,
         HasRoom(width, max), NEW e, NEW t, Decodes(e, t, f, magic, width, max),
         NEW cuts \in Cuts(f, magic, width, max)
  PROVE  \E j \in 0 .. t : cuts = CutOf(e, j)
<1>1. PICK N \in Nat, M \in Nat : N = Len(f) /\ M = Len(magic)
  OBVIOUS
<1>2. /\ t \in 0 .. N /\ e \in [0 .. N -> Nat] /\ e[0] = M
      /\ \A i \in 1 .. t : e[i] = After(f, e[i - 1], width, max) /\ e[i - 1] < e[i]
      /\ \A i, k \in 0 .. t : i < k => e[i] < e[k]
      /\ After(f, e[t], width, max) = e[t]
  BY <1>1 DEF Decodes
<1>3. t \in Nat /\ \A i \in 0 .. t : i \in Int /\ e[i] \in Nat
  BY <1>2
<1>4. cuts \subseteq M .. N /\ M \in cuts
  BY <1>1 DEF Cuts, CutsAt
<1>5. ASSUME NEW c \in cuts, c # M
      PROVE  \E a \in cuts : a \in Nat /\ c \in Nat /\ a < c /\ After(f, a, width, max) = c
  BY <1>1, <1>5, CutBefore
<1>6. ASSUME NEW i \in 0 .. t, NEW c \in Nat, e[i] < c, After(f, e[i], width, max) = c
      PROVE  i + 1 \in 0 .. t /\ c = e[i + 1]
  <2>1. i # t
    BY <1>2, <1>3, <1>6
  <2>2. i + 1 \in 1 .. t /\ (i + 1) - 1 = i /\ i + 1 \in 0 .. t
    BY <1>3, <2>1
  <2>3. QED
    BY <1>2, <1>6, <2>2
<1>7. \A c \in cuts : c \in CutOf(e, t)
  <2> SUFFICES ASSUME {c \in cuts : c \notin CutOf(e, t)} # {}
               PROVE  FALSE
    OBVIOUS
  <2> DEFINE Other == {c \in cuts : c \notin CutOf(e, t)}
  <2>1. Other \subseteq Nat
    <3>1. \A c \in cuts : c \in Nat
      BY <1>4
    <3>2. QED
      BY <3>1
  <2>2. PICK c \in Other : \A d \in Other : c <= d
    <3> HIDE DEF Other
    <3>1. Other # {}
      BY DEF Other
    <3>2. QED
      BY <2>1, <3>1, LeastIndex
  <2>3. c # M
    BY <1>2, <1>3 DEF CutOf
  <2>4. PICK a \in cuts : a \in Nat /\ c \in Nat /\ a < c /\ After(f, a, width, max) = c
    BY <1>5, <2>3
  <2>5. a \in CutOf(e, t)
    <3>1. ~(c <= a)
      BY <2>4
    <3>2. QED
      BY <2>2, <3>1
  <2>6. PICK i \in 0 .. t : a = e[i]
    BY <2>5 DEF CutOf
  <2>7. i + 1 \in 0 .. t /\ c = e[i + 1]
    BY <1>6, <2>4, <2>6
  <2>8. c \in CutOf(e, t)
    BY <2>7 DEF CutOf
  <2>9. QED
    BY <2>8
<1> DEFINE J == {i \in 0 .. t : e[i] \in cuts}
<1>8. PICK j \in J : \A i \in J : i <= j
  <2>1. J \subseteq 0 .. t /\ 0 \in J
    BY <1>2, <1>3, <1>4
  <2> HIDE DEF J
  <2>2. QED
    BY <1>3, <2>1, GreatestIndex
<1>9. j \in 0 .. t /\ j \in Nat
  BY <1>3
<1>10. \A i \in 0 .. j : e[i] \in cuts
  <2> DEFINE Gap == {i \in 0 .. j : e[i] \notin cuts}
  <2> SUFFICES ASSUME Gap # {}
               PROVE  FALSE
    OBVIOUS
  <2>1. PICK i \in Gap : \A k \in Gap : k <= i
    <3>1. Gap \subseteq 0 .. j
      OBVIOUS
    <3> HIDE DEF Gap
    <3>2. QED
      BY <1>9, <3>1, GreatestIndex
  <2>2. e[j] \in cuts
    OBVIOUS
  <2>3. /\ i # j /\ i + 1 \in 0 .. j /\ i + 1 \in 1 .. t /\ (i + 1) - 1 = i /\ i \in 0 .. t
        /\ i + 1 \in 0 .. t
    <3>1. i # j
      BY <2>2
    <3>2. i \in Nat /\ i <= j /\ j <= t
      BY <1>9
    <3>3. QED
      BY <1>3, <1>9, <3>1, <3>2
  <2>4. e[i + 1] \in cuts
    <3>1. ~(i + 1 <= i)
      BY <2>3
    <3>2. QED
      BY <2>1, <2>3, <3>1
  <2>5. e[i + 1] # M
    <3>1. e[i] < e[i + 1] /\ e[i] \in Nat /\ e[i + 1] \in Nat
      BY <1>2, <1>3, <2>3
    <3>2. 0 < i => e[0] < e[i]
      BY <1>2, <1>3, <2>3
    <3>3. QED
      BY <1>2, <1>3, <2>3, <3>1, <3>2
  <2>6. PICK a \in cuts : /\ a \in Nat /\ e[i + 1] \in Nat /\ a < e[i + 1]
                          /\ After(f, a, width, max) = e[i + 1]
    BY <1>5, <2>4, <2>5
  <2>7. PICK k \in 0 .. t : a = e[k]
    BY <1>7 DEF CutOf
  <2>8. k + 1 \in 0 .. t /\ e[i + 1] = e[k + 1]
    BY <1>6, <2>6, <2>7
  <2>9. k = i
    <3>1. /\ i + 1 < k + 1 => e[i + 1] < e[k + 1]
          /\ k + 1 < i + 1 => e[k + 1] < e[i + 1]
      BY <1>2, <2>3, <2>8
    <3>2. k \in Int /\ i \in Int /\ e[i + 1] \in Nat
      BY <1>3, <2>3
    <3>3. QED
      BY <2>8, <3>1, <3>2
  <2>10. QED
    BY <2>7, <2>9
<1>11. cuts = CutOf(e, j)
  <2>1. ASSUME NEW c \in cuts
        PROVE  c \in CutOf(e, j)
    <3>1. PICK i \in 0 .. t : c = e[i]
      BY <1>7 DEF CutOf
    <3>2. i \in J
      BY <3>1
    <3>3. i \in 0 .. j
      BY <1>3, <1>8, <1>9, <3>2
    <3>4. QED
      BY <3>1, <3>3 DEF CutOf
  <2>2. \A c \in CutOf(e, j) : c \in cuts
    BY <1>10 DEF CutOf
  <2>3. QED
    BY <2>1, <2>2
<1>12. QED
  BY <1>9, <1>11

CodecTypeOK ==
  /\ transport \in {"stream", "relay", "wire"} /\ limit \in Limits
  /\ given \in Seq(Seq(Byte)) /\ left \in Seq(Seq(Byte)) /\ got \in Seq(Seq(Byte))
  /\ frame \in Seq(Byte) /\ open \in BOOLEAN

(* What the proofs need of the constants.                                   *)
LEMMA CodecConstants ==
  /\ StreamMagic \in Seq(Byte) /\ TunMagic \in Seq(Byte)
  /\ StreamLength \in Nat /\ TunLength \in Nat
  /\ StreamPacketMax \in Nat /\ HasRoom(StreamLength, StreamPacketMax)
  /\ \A m \in Limits : m \in Nat /\ HasRoom(TunLength, m)
  /\ \A ps \in Given :
       /\ ps \in Seq(Seq(Byte))
       /\ \A i \in DOMAIN ps : ps[i] # << >> /\ ~IsPrefix(StreamMagic, ps[i])
BY CodecAssumption

(* The greatest is the one there is.                                        *)
LEMMA MaxIs ==
  ASSUME NEW N \in Nat, NEW S, S \subseteq 0 .. N, NEW x \in S, \A y \in S : y <= x
  PROVE  Max(S) = x
<1>1. \A y \in S : y \in Int
  OBVIOUS
<1>2. \A z \in S : (\A y \in S : z >= y) => z = x
  BY <1>1
<1>3. \A y \in S : x >= y
  BY <1>1
<1>4. QED
  BY <1>2, <1>3 DEF Max

(* A stream's payload is taken for a batch exactly if it can be cut whole.  *)
LEMMA StreamExact ==
  ASSUME frame \in Seq(Byte)
  PROVE  StreamBatchIsExact
<1>1. CASE ~IsPrefix(StreamMagic, frame)
  <2>1. Cuts(frame, StreamMagic, StreamLength, StreamPacketMax) = {}
    BY <1>1 DEF Cuts, CutsAt
  <2>2. DecodeStreamBatch(frame) = << >>
    BY <1>1 DEF DecodeStreamBatch, IsStreamBatch
  <2>3. QED
    BY <2>1, <2>2 DEF StreamBatchIsExact
<1>2. CASE IsPrefix(StreamMagic, frame)
  <2>1. PICK f \in Seq(Byte), magic \in Seq(Byte), width \in Nat, max \in Nat :
          /\ f = frame /\ magic = StreamMagic /\ width = StreamLength /\ max = StreamPacketMax
    BY CodecConstants
  <2>2. HasRoom(width, max) /\ IsPrefix(magic, f)
    BY <1>2, <2>1, CodecConstants
  <2>3. PICK e, t : Decodes(e, t, f, magic, width, max)
    <3>1. Len(magic) <= Len(f)
      BY <2>2 DEF IsPrefix
    <3>2. QED
      BY <3>1, DecoderTurns
  <2>4. PICK N \in Nat : N = Len(f)
    OBVIOUS
  <2>5. /\ t \in 0 .. N /\ \A i \in 0 .. t : e[i] \in Nat /\ e[i] <= N /\ i \in Nat
        /\ \A i, j \in 0 .. t : i < j => e[i] < e[j]
    <3>1. t \in 0 .. N /\ e \in [0 .. N -> Nat]
      BY <2>3, <2>4 DEF Decodes
    <3>2. \A i \in 0 .. t : i \in 0 .. N /\ i \in Nat
      BY <3>1
    <3>3. QED
      BY <2>3, <2>4, <3>1, <3>2 DEF Decodes
  <2>6. PICK ps : ps = Packets(f, magic, width, max).packets
    OBVIOUS
  <2>7. /\ ps \in Seq(Seq(Byte)) /\ Len(ps) = t
        /\ Batch(magic, width, ps)[t] = SubSeq(f, 1, e[t])
    BY <2>2, <2>3, <2>6, DecodedEncodes
  <2>8. Packets(f, magic, width, max).ok = (e[t] = N)
    BY <2>3, <2>4 DEF Decodes
  <2>9. DecodeStreamBatch(frame) = IF e[t] = N THEN ps ELSE << >>
    BY <1>2, <2>1, <2>6, <2>8 DEF DecodeStreamBatch, IsStreamBatch
  <2>10. ps = << >> <=> t = 0
    BY <2>7, EmptySeq
  <2> DEFINE whole == {c \in Cuts(f, magic, width, max) : N \in c /\ Cardinality(c) > 1}
  <2>11. ASSUME NEW c \in whole
         PROVE  c = CutOf(e, t) /\ t # 0 /\ e[t] = N /\ Cardinality(c) = t + 1
    <3>1. PICK j \in 0 .. t : c = CutOf(e, j)
      BY <2>2, <2>3, OnlyTurnsCut
    <3>2. Cardinality(c) = j + 1 /\ j \in Nat
      BY <2>3, <2>5, <3>1, CutSize
    <3>3. PICK i \in 0 .. j : N = e[i]
      BY <3>1 DEF CutOf
    <3>4. i \in 0 .. t /\ t \in 0 .. t /\ i \in Nat /\ t \in Nat
      BY <2>5, <3>1, <3>3
    <3>5. i = t
      <4>1. i < t => e[i] < e[t]
        BY <2>5, <3>4
      <4>2. e[t] <= N /\ e[t] \in Nat
        BY <2>5, <3>4
      <4>3. QED
        BY <3>3, <3>4, <4>1, <4>2
    <3>6. j = t
      BY <3>1, <3>2, <3>4, <3>5
    <3>7. j # 0
      BY <3>2
    <3>8. QED
      BY <3>1, <3>2, <3>3, <3>5, <3>6, <3>7
  <2>12. ASSUME t # 0, e[t] = N
         PROVE  CutOf(e, t) \in whole
    <3>1. t \in 0 .. t /\ t \in Nat /\ t + 1 > 1
      BY <2>5, <2>12
    <3>2. CutOf(e, t) \in Cuts(f, magic, width, max)
      BY <2>2, <2>3, <3>1, TurnsCut
    <3>3. Cardinality(CutOf(e, t)) = t + 1
      BY <2>3, <3>1, CutSize
    <3>4. N \in CutOf(e, t)
      BY <2>12, <3>1 DEF CutOf
    <3>5. QED
      BY <3>1, <3>2, <3>3, <3>4
  <2> HIDE DEF whole
  <2>13. (DecodeStreamBatch(frame) = << >>) = (whole = {})
    <3>1. CASE t # 0 /\ e[t] = N
      BY <2>9, <2>10, <2>12, <3>1
    <3>2. CASE ~(t # 0 /\ e[t] = N)
      BY <2>9, <2>10, <2>11, <3>2
    <3>3. QED
      BY <3>1, <3>2
  <2>14. \A c \in whole : Len(DecodeStreamBatch(frame)) = Cardinality(c) - 1
    BY <2>5, <2>7, <2>9, <2>11
  <2>15. ASSUME DecodeStreamBatch(frame) # << >>
         PROVE  StreamBatch(DecodeStreamBatch(frame))[Len(DecodeStreamBatch(frame))] = frame
    <3>1. e[t] = N /\ DecodeStreamBatch(frame) = ps
      BY <2>9, <2>15
    <3>2. Batch(magic, width, ps)[t] = f
      BY <2>4, <2>7, <3>1, SubSeqFull
    <3>3. QED
      BY <2>1, <2>7, <3>1, <3>2 DEF StreamBatch
  <2>16. whole = {c \in Cuts(frame, StreamMagic, StreamLength, StreamPacketMax) :
                    Len(frame) \in c /\ Cardinality(c) > 1}
    BY <2>1, <2>4 DEF whole
  <2>17. QED
    BY <2>13, <2>14, <2>15, <2>16 DEF StreamBatchIsExact
<1>3. QED
  BY <1>1, <1>2

(* A relay's batch is taken as far as it can be cut.                        *)
LEMMA TunExact ==
  ASSUME frame \in Seq(Byte), limit \in Limits
  PROVE  TunBatchIsExact
<1> SUFFICES ASSUME IsPrefix(TunMagic, frame)
             PROVE  /\ Len(DecodeTunBatch(frame).packets) =
                         Max({Cardinality(c) : c \in Cuts(frame, TunMagic, TunLength, limit)}) - 1
                    /\ IsPrefix(TunBatch(DecodeTunBatch(frame).packets)
                                  [Len(DecodeTunBatch(frame).packets)], frame)
                    /\ DecodeTunBatch(frame).ok =
                         (\E c \in Cuts(frame, TunMagic, TunLength, limit) :
                            Len(frame) \in c /\ Cardinality(c) > 1)
  BY DEF TunBatchIsExact
<1>1. PICK f \in Seq(Byte), magic \in Seq(Byte), width \in Nat, max \in Nat :
        /\ f = frame /\ magic = TunMagic /\ width = TunLength /\ max = limit
  BY CodecConstants
<1>2. HasRoom(width, max) /\ IsPrefix(magic, f)
  BY <1>1, CodecConstants
<1>3. PICK e, t : Decodes(e, t, f, magic, width, max)
  <2>1. Len(magic) <= Len(f)
    BY <1>2 DEF IsPrefix
  <2>2. QED
    BY <2>1, DecoderTurns
<1>4. PICK N \in Nat : N = Len(f)
  OBVIOUS
<1>5. /\ t \in 0 .. N /\ \A i \in 0 .. t : e[i] \in Nat /\ e[i] <= N /\ i \in Nat
      /\ \A i, j \in 0 .. t : i < j => e[i] < e[j]
  <2>1. t \in 0 .. N /\ e \in [0 .. N -> Nat]
    BY <1>3, <1>4 DEF Decodes
  <2>2. \A i \in 0 .. t : i \in 0 .. N /\ i \in Nat
    BY <2>1
  <2>3. QED
    BY <1>3, <1>4, <2>1, <2>2 DEF Decodes
<1>6. PICK ps : ps = Packets(f, magic, width, max).packets
  OBVIOUS
<1>7. /\ ps \in Seq(Seq(Byte)) /\ Len(ps) = t
      /\ Batch(magic, width, ps)[t] = SubSeq(f, 1, e[t])
  BY <1>2, <1>3, <1>6, DecodedEncodes
<1>8. DecodeTunBatch(frame).packets = ps
      /\ DecodeTunBatch(frame).ok = (e[t] = N /\ ps # << >>)
  <2>1. Packets(f, magic, width, max) =
          [ok      |-> e[t] = N,
           packets |-> [k \in 1 .. t |-> SubSeq(f, e[k - 1] + width + 1, e[k])]]
    BY <1>3, <1>4 DEF Decodes
  <2>2. DecodeTunBatch(frame) = [Packets(f, magic, width, max) EXCEPT
                                   !.ok = @ /\ Packets(f, magic, width, max).packets # << >>]
    BY <1>1 DEF DecodeTunBatch
  <2>3. PICK all : all = Packets(f, magic, width, max)
    OBVIOUS
  <2>4. /\ [all EXCEPT !.ok = @ /\ all.packets # << >>].packets = all.packets
        /\ [all EXCEPT !.ok = @ /\ all.packets # << >>].ok = (all.ok /\ all.packets # << >>)
    BY <2>1, <2>3
  <2>5. all.ok = (e[t] = N) /\ all.packets = ps
    BY <1>6, <2>1, <2>3
  <2>6. DecodeTunBatch(frame) = [all EXCEPT !.ok = @ /\ all.packets # << >>]
    BY <2>2, <2>3
  <2>7. QED
    BY <2>4, <2>5, <2>6
<1>9. ps = << >> <=> t = 0
  BY <1>7, EmptySeq
<1>10. t \in Nat /\ t \in 0 .. t
  BY <1>5
<1>11. CutOf(e, t) \in Cuts(f, magic, width, max) /\ Cardinality(CutOf(e, t)) = t + 1
  BY <1>2, <1>3, <1>10, TurnsCut, CutSize
<1>12. ASSUME NEW c \in Cuts(f, magic, width, max)
       PROVE  \E j \in 0 .. t : c = CutOf(e, j) /\ Cardinality(c) = j + 1
  BY <1>2, <1>3, OnlyTurnsCut, CutSize
<1>13. Max({Cardinality(c) : c \in Cuts(f, magic, width, max)}) = t + 1
  <2> DEFINE S == {Cardinality(c) : c \in Cuts(f, magic, width, max)}
  <2>1. t + 1 \in S
    BY <1>11
  <2>2. ASSUME NEW y \in S
        PROVE  y \in 0 .. t + 1
    <3>1. PICK c \in Cuts(f, magic, width, max) : y = Cardinality(c)
      OBVIOUS
    <3>2. PICK j \in 0 .. t : Cardinality(c) = j + 1
      BY <1>12
    <3>3. QED
      BY <1>10, <3>1, <3>2
  <2> HIDE DEF S
  <2>3. S \subseteq 0 .. t + 1 /\ t + 1 \in Nat /\ \A y \in S : y <= t + 1
    BY <1>10, <2>2
  <2>4. Max(S) = t + 1
    BY <2>1, <2>3, MaxIs
  <2>5. QED
    BY <2>4 DEF S
<1>14. IsPrefix(TunBatch(ps)[Len(ps)], frame)
  <2>1. PICK p \in Nat : p = e[t] /\ p <= N
    BY <1>5, <1>10
  <2>2. PICK r : r = SubSeq(f, 1, p)
    OBVIOUS
  <2>3. r \in Seq(Byte) /\ Len(r) = p
    <3>1. /\ SubSeq(f, 0 + 1, p) \in Seq(Byte) /\ Len(SubSeq(f, 0 + 1, p)) = p - 0
      BY <1>4, <2>1, SubSeqIs
    <3>2. QED
      BY <2>2, <3>1
  <2>4. SubSeq(r, 1, Len(r)) = r
    BY <2>3, SubSeqFull
  <2>5. IsPrefix(r, f)
    BY <1>4, <2>1, <2>2, <2>3, <2>4 DEF IsPrefix
  <2>6. TunBatch(ps)[Len(ps)] = r
    BY <1>1, <1>7, <2>1, <2>2 DEF TunBatch
  <2>7. QED
    BY <1>1, <2>5, <2>6
<1>15. (e[t] = N /\ ps # << >>) =
         (\E c \in Cuts(f, magic, width, max) : N \in c /\ Cardinality(c) > 1)
  <2>1. ASSUME e[t] = N, ps # << >>
        PROVE  N \in CutOf(e, t) /\ Cardinality(CutOf(e, t)) > 1
    BY <1>9, <1>10, <1>11, <2>1 DEF CutOf
  <2>2. ASSUME NEW c \in Cuts(f, magic, width, max), N \in c, Cardinality(c) > 1
        PROVE  e[t] = N /\ ps # << >>
    <3>1. PICK j \in 0 .. t : c = CutOf(e, j) /\ Cardinality(c) = j + 1
      BY <1>12
    <3>2. PICK i \in 0 .. j : N = e[i]
      BY <2>2, <3>1 DEF CutOf
    <3>3. i \in 0 .. t /\ i \in Nat /\ j \in Nat /\ i <= j /\ j <= t
      BY <1>10, <3>1, <3>2
    <3>4. i < t => e[i] < e[t]
      BY <1>5, <1>10, <3>3
    <3>5. e[t] <= N /\ e[t] \in Nat
      BY <1>5, <1>10
    <3>6. i = t
      BY <1>10, <3>2, <3>3, <3>4, <3>5
    <3>7. t # 0
      BY <2>2, <3>1, <3>3
    <3>8. QED
      BY <1>9, <3>2, <3>6, <3>7
  <2>3. QED
    BY <1>11, <2>1, <2>2
<1>16. Len(ps) = Max({Cardinality(c) : c \in Cuts(f, magic, width, max)}) - 1
  BY <1>7, <1>10, <1>13
<1>17. Cuts(f, magic, width, max) = Cuts(frame, TunMagic, TunLength, limit) /\ N = Len(frame)
  BY <1>1, <1>4
<1>18. QED
  BY <1>8, <1>14, <1>15, <1>16, <1>17

(* A sequence is its first k members and the rest.                          *)
LEMMA CutSeq ==
  ASSUME NEW S, NEW s \in Seq(S), NEW k \in 0 .. Len(s)
  PROVE  /\ SubSeq(s, 1, k) \in Seq(S) /\ SubSeq(s, k + 1, Len(s)) \in Seq(S)
         /\ Len(SubSeq(s, 1, k)) = k /\ Len(SubSeq(s, k + 1, Len(s))) = Len(s) - k
         /\ \A i \in 1 .. k : SubSeq(s, 1, k)[i] = s[i]
         /\ \A i \in 1 .. Len(s) - k : SubSeq(s, k + 1, Len(s))[i] = s[k + i]
         /\ SubSeq(s, 1, k) \o SubSeq(s, k + 1, Len(s)) = s
<1>1. PICK N \in Nat : N = Len(s) /\ k \in Nat /\ k <= N
  BY LenProperties
<1>2. PICK p, q : p = SubSeq(s, 0 + 1, k) /\ q = SubSeq(s, k + 1, N)
  OBVIOUS
<1>3. p \in Seq(S) /\ Len(p) = k - 0 /\ \A i \in 1 .. k - 0 : p[i] = s[0 + i]
  BY <1>1, <1>2, SubSeqIs
<1>4. q \in Seq(S) /\ Len(q) = N - k /\ \A i \in 1 .. N - k : q[i] = s[k + i]
  BY <1>1, <1>2, SubSeqIs
<1>5. SubSeq(s, 1, k) \o SubSeq(s, k + 1, N) = SubSeq(s, 1, N)
  <2>1. 1 \in 1 .. Len(s) + 1 /\ k \in 1 - 1 .. Len(s) /\ N \in k .. Len(s)
    BY <1>1
  <2>2. QED
    BY <2>1, ConcatAdjacentSubSeq
<1>6. SubSeq(s, 1, N) = s
  BY <1>1, SubSeqFull
<1>7. p = SubSeq(s, 1, k) /\ k - 0 = k /\ \A i \in 1 .. k : 0 + i = i
  BY <1>1, <1>2
<1>8. QED
  BY <1>1, <1>2, <1>3, <1>4, <1>5, <1>6, <1>7

LEMMA MaxExists ==
  ASSUME NEW N \in Nat, NEW S, S \subseteq 0 .. N, S # {}
  PROVE  Max(S) \in S
<1>1. PICK x \in S : \A y \in S : y <= x
  BY GreatestIndex
<1>2. QED
  BY <1>1, MaxIs

(* A batch has packets, and is one.                                         *)
LEMMA BatchBegins ==
  ASSUME NEW magic \in Seq(Byte), NEW width \in Nat, NEW ps \in Seq(Seq(Byte)),
         NEW n \in 1 .. Len(ps), ps[n] # << >>
  PROVE  /\ Batch(magic, width, ps)[n] \in Seq(Byte) /\ Batch(magic, width, ps)[n] # << >>
         /\ IsPrefix(magic, Batch(magic, width, ps)[n])
<1>1. PICK b : b = Batch(magic, width, ps)
  OBVIOUS
<1>2. PICK N \in Nat : N = Len(ps) /\ n \in 0 .. N /\ n \in 1 .. n /\ 0 \in 0 .. n
  OBVIOUS
<1>3. b[n] \in Seq(Byte) /\ Begins(b[0], b[n])
  BY <1>1, <1>2, BatchParts
<1>4. b[0] = magic
  BY <1>1, BatchIs DEF IsBatch
<1>5. PICK f \in Seq(Byte) : f = b[n]
  BY <1>3
<1>6. Len(magic) <= Len(f) /\ \A x \in 1 .. Len(magic) : f[x] = magic[x]
  BY <1>3, <1>4, <1>5 DEF Begins
<1>7. IsPrefix(magic, f)
  <2>1. PICK m \in Nat : m = Len(magic)
    OBVIOUS
  <2>2. SubSeq(magic, 0 + 1, m) = SubSeq(f, 0 + 1, m)
    <3>1. 0 \in Nat /\ 0 <= m /\ m <= Len(magic) /\ m <= Len(f) /\ \A x \in 1 .. m : magic[x] = f[x]
      BY <1>6, <2>1
    <3>2. QED
      BY <3>1, SamePart
  <2>3. QED
    BY <1>6, <2>1, <2>2 DEF IsPrefix
<1>8. f # << >>
  <2>1. InBatch(b[n], b, width, ps, n)
    BY <1>1, <1>2, PacketInBatch
  <2>2. PICK k, l, m : k = Len(b[n - 1]) /\ l = Len(b[n]) /\ m = Len(ps[n])
    OBVIOUS
  <2>3. k \in Nat /\ m \in Nat /\ m # 0 /\ l = k + width + m
    BY <2>1, <2>2, EmptySeq DEF InBatch
  <2>4. l # 0
    BY <2>3
  <2>5. QED
    BY <1>5, <2>2, <2>4, EmptySeq
<1>9. QED
  BY <1>1, <1>5, <1>7, <1>8

(* What a stream's receiver makes of the frame f.                           *)
StreamGives(f) == LET ps == DecodeStreamBatch(f) IN IF ps = << >> THEN <<f>> ELSE ps

(* The stream gives what EncodeStreamBatch has taken, in order.             *)
LEMMA StreamRoundTrip ==
  ASSUME NEW ps \in Seq(Seq(Byte)), Len(ps) >= 1,
         \A i \in 1 .. Len(ps) : ps[i] # << >> /\ ~IsPrefix(StreamMagic, ps[i])
  PROVE  LET e == EncodeStreamBatch(ps)
         IN  /\ e.taken \in 1 .. Len(ps) /\ e.frame \in Seq(Byte) /\ e.frame # << >>
             /\ StreamGives(e.frame) = SubSeq(ps, 1, e.taken)
<1>1. PICK N \in Nat : N = Len(ps) /\ N >= 1 /\ \A i \in 1 .. N : ps[i] \in Seq(Byte)
  BY ElementOfSeq, LenProperties
<1>2. PICK n : n = StreamFits(ps)
  OBVIOUS
<1>3. n \in 0 .. N /\ \A i \in 1 .. n : StreamAppends(StreamBatch(ps)[i - 1], ps[i])
  <2> DEFINE S == {k \in 0 .. N : \A i \in 1 .. k : StreamAppends(StreamBatch(ps)[i - 1], ps[i])}
  <2>1. S \subseteq 0 .. N /\ 0 \in S
    OBVIOUS
  <2>2. n = Max(S)
    BY <1>1, <1>2 DEF StreamFits
  <2>3. n \in S
    <3> HIDE DEF S
    <3>1. QED
      BY <2>1, <2>2, MaxExists
  <2>4. QED
    BY <2>3
<1>4. CASE n = 0
  <2>1. PICK p \in Seq(Byte) : p = ps[1]
    BY <1>1
  <2>2. p # << >> /\ ~IsPrefix(StreamMagic, p)
    BY <1>1, <2>1
  <2>3. EncodeStreamBatch(ps) = [frame |-> p, taken |-> 1]
    BY <1>2, <1>4, <2>1 DEF EncodeStreamBatch
  <2>4. StreamGives(p) = <<p>>
    BY <2>2 DEF StreamGives, DecodeStreamBatch, IsStreamBatch
  <2>5. SubSeq(ps, 1, 1) = <<p>>
    <3>1. PICK r : r = SubSeq(ps, 1, 1)
      OBVIOUS
    <3>2. r \in Seq(Seq(Byte)) /\ Len(r) = 1 /\ r[1] = p
      <4>1. 1 \in 0 .. Len(ps) /\ 1 \in 1 .. 1
        BY <1>1
      <4>2. /\ SubSeq(ps, 1, 1) \in Seq(Seq(Byte)) /\ Len(SubSeq(ps, 1, 1)) = 1
            /\ \A i \in 1 .. 1 : SubSeq(ps, 1, 1)[i] = ps[i]
        BY <4>1, CutSeq
      <4>3. QED
        BY <2>1, <3>1, <4>1, <4>2
    <3>3. r = <<p>>
      BY <3>2
    <3>4. QED
      BY <3>1, <3>3
  <2>6. 1 \in 1 .. Len(ps)
    BY <1>1
  <2>7. EncodeStreamBatch(ps).frame = p /\ EncodeStreamBatch(ps).taken = 1
    BY <2>3
  <2>8. QED
    BY <2>2, <2>4, <2>5, <2>6, <2>7
<1>5. CASE n # 0
  <2>1. n \in 1 .. N /\ n \in 1 .. Len(ps) /\ n \in 0 .. Len(ps) /\ n \in Nat
    BY <1>1, <1>3, <1>5
  <2>2. PICK f : f = StreamBatch(ps)[n]
    OBVIOUS
  <2>3. f \in Seq(Byte) /\ f # << >> /\ IsPrefix(StreamMagic, f)
    <3>1. ps[n] # << >>
      BY <2>1
    <3>2. /\ Batch(StreamMagic, StreamLength, ps)[n] \in Seq(Byte)
          /\ Batch(StreamMagic, StreamLength, ps)[n] # << >>
          /\ IsPrefix(StreamMagic, Batch(StreamMagic, StreamLength, ps)[n])
      BY <2>1, <3>1, CodecConstants, BatchBegins
    <3>3. QED
      BY <2>2, <3>2 DEF StreamBatch
  <2>4. ASSUME NEW i \in 1 .. n
        PROVE  Len(ps[i]) \in 1 .. StreamPacketMax
    <3>1. i \in 1 .. N /\ i \in 1 .. Len(ps)
      BY <1>1, <2>1
    <3>2. ps[i] \in Seq(Byte) /\ ps[i] # << >>
      BY <1>1, <3>1
    <3>3. Len(ps[i]) \in Nat \ {0}
      BY <3>2, EmptySeq
    <3>4. Len(ps[i]) <= StreamPacketMax
      BY <1>3 DEF StreamAppends
    <3>5. QED
      BY <3>3, <3>4, CodecConstants
  <2>5. Packets(f, StreamMagic, StreamLength, StreamPacketMax)
          = [ok |-> TRUE, packets |-> SubSeq(ps, 1, n)]
    <3>1. Packets(Batch(StreamMagic, StreamLength, ps)[n],
                  StreamMagic, StreamLength, StreamPacketMax)
            = [ok |-> TRUE, packets |-> SubSeq(ps, 1, n)]
      <4>1. /\ StreamMagic \in Seq(Byte) /\ StreamLength \in Nat /\ StreamPacketMax \in Nat
            /\ HasRoom(StreamLength, StreamPacketMax)
        BY CodecConstants
      <4>2. QED
        BY <2>1, <2>4, <4>1, BatchDecodes
    <3>2. QED
      BY <2>2, <3>1 DEF StreamBatch
  <2>6. DecodeStreamBatch(f) = SubSeq(ps, 1, n)
    <3>1. PICK all : all = Packets(f, StreamMagic, StreamLength, StreamPacketMax)
      OBVIOUS
    <3>2. DecodeStreamBatch(f) = IF all.ok THEN all.packets ELSE << >>
      BY <2>3, <3>1 DEF DecodeStreamBatch, IsStreamBatch
    <3>3. all = [ok |-> TRUE, packets |-> SubSeq(ps, 1, n)]
      BY <2>5, <3>1
    <3>4. all.ok = TRUE /\ all.packets = SubSeq(ps, 1, n)
      BY <3>3
    <3>5. QED
      BY <3>2, <3>4
  <2>7. SubSeq(ps, 1, n) # << >>
    <3>1. Len(SubSeq(ps, 1, n)) = n
      BY <2>1, CutSeq
    <3>2. QED
      BY <1>5, <3>1, EmptySeq
  <2>8. StreamGives(f) = SubSeq(ps, 1, n)
    BY <2>6, <2>7 DEF StreamGives
  <2>9. EncodeStreamBatch(ps) = [frame |-> f, taken |-> n]
    BY <1>2, <1>5, <2>2 DEF EncodeStreamBatch
  <2>10. EncodeStreamBatch(ps).frame = f /\ EncodeStreamBatch(ps).taken = n
    BY <2>9
  <2>11. QED
    BY <2>1, <2>3, <2>8, <2>10
<1>6. QED
  BY <1>4, <1>5

(* And the relay what was appended to its batch, without an error.          *)
LEMMA RelayRoundTrip ==
  ASSUME NEW ps \in Seq(Seq(Byte)), NEW n \in 1 .. Len(ps), limit \in Limits,
         \A i \in 1 .. n : /\ TunAppends(TunBatch(ps)[i - 1], ps[i])
                           /\ Len(ps[i]) <= limit
  PROVE  /\ TunBatch(ps)[n] \in Seq(Byte) /\ TunBatch(ps)[n] # << >>
         /\ DecodeTunBatch(TunBatch(ps)[n]) = [ok |-> TRUE, packets |-> SubSeq(ps, 1, n)]
<1>1. n \in 0 .. Len(ps) /\ n \in Nat /\ n \in 1 .. n
  OBVIOUS
<1>2. \A i \in 1 .. n : i \in 1 .. Len(ps)
  OBVIOUS
<1>3. PICK f : f = TunBatch(ps)[n]
  OBVIOUS
<1>4. ASSUME NEW i \in 1 .. n
      PROVE  Len(ps[i]) \in 1 .. limit /\ ps[i] # << >>
  <2>1. ps[i] \in Seq(Byte)
    BY <1>2, ElementOfSeq
  <2>2. Len(ps[i]) \in Nat /\ Len(ps[i]) \in 1 .. TunPacketMax /\ Len(ps[i]) <= limit
    BY <2>1 DEF TunAppends
  <2>3. Len(ps[i]) >= 1
    BY <2>2
  <2>4. Len(ps[i]) \in 1 .. limit
    BY <2>2, <2>3, CodecConstants
  <2>5. QED
    BY <2>1, <2>3, <2>4, EmptySeq
<1>5. f \in Seq(Byte) /\ f # << >> /\ IsPrefix(TunMagic, f)
  <2>1. ps[n] # << >>
    BY <1>1, <1>4
  <2>2. /\ Batch(TunMagic, TunLength, ps)[n] \in Seq(Byte)
        /\ Batch(TunMagic, TunLength, ps)[n] # << >>
        /\ IsPrefix(TunMagic, Batch(TunMagic, TunLength, ps)[n])
    BY <2>1, CodecConstants, BatchBegins
  <2>3. QED
    BY <1>3, <2>2 DEF TunBatch
<1>6. Packets(f, TunMagic, TunLength, limit) = [ok |-> TRUE, packets |-> SubSeq(ps, 1, n)]
  <2>1. PICK max \in Nat : max = limit /\ HasRoom(TunLength, max)
    BY CodecConstants
  <2>2. \A i \in 1 .. n : Len(ps[i]) \in 1 .. max
    BY <1>4, <2>1
  <2>3. Packets(Batch(TunMagic, TunLength, ps)[n], TunMagic, TunLength, max)
          = [ok |-> TRUE, packets |-> SubSeq(ps, 1, n)]
    <3>1. TunMagic \in Seq(Byte) /\ TunLength \in Nat /\ ps \in Seq(Seq(Byte))
      BY CodecConstants
    <3>2. QED
      BY ONLY <1>1, <2>1, <2>2, <3>1, BatchDecodes
  <2>4. QED
    BY <1>3, <2>1, <2>3 DEF TunBatch
<1>7. SubSeq(ps, 1, n) # << >>
  <2>1. Len(SubSeq(ps, 1, n)) = n
    BY <1>1, CutSeq
  <2>2. n # 0
    OBVIOUS
  <2>3. QED
    BY <2>1, <2>2, EmptySeq
<1>8. DecodeTunBatch(f) = [ok |-> TRUE, packets |-> SubSeq(ps, 1, n)]
  <2>1. DecodeTunBatch(f) =
          [[ok |-> TRUE, packets |-> SubSeq(ps, 1, n)] EXCEPT !.ok = @ /\ SubSeq(ps, 1, n) # << >>]
    BY <1>5, <1>6 DEF DecodeTunBatch
  <2>2. QED
    BY <1>7, <2>1
<1>9. QED
  BY <1>3, <1>5, <1>8

(* What the frame under way will bring.                                     *)
Brings ==
  IF frame = << >> \/ transport = "wire" THEN << >>
  ELSE IF transport = "stream" THEN StreamGives(frame) ELSE DecodeTunBatch(frame).packets

CodecInv ==
  /\ CodecTypeOK
  /\ transport # "wire" => \A i \in 1 .. Len(left) : /\ left[i] # << >> /\ Len(left[i]) <= limit
                                                     /\ ~IsPrefix(StreamMagic, left[i])
  /\ Brings \in Seq(Seq(Byte)) /\ got \o (Brings \o left) = given /\ open
  /\ transport = "relay" /\ frame # << >> => DecodeTunBatch(frame).ok

LEMMA CodecInvInit == CodecInit => CodecInv
<1> SUFFICES ASSUME CodecInit
             PROVE  CodecInv
  OBVIOUS
<1>1. frame = << >> /\ got = << >> /\ open = TRUE /\ limit \in Limits
  BY DEF CodecInit, SendInit, WireInit
<1>2. << >> \in Seq(Byte) /\ << >> \in Seq(Seq(Byte))
  BY EmptySeq
<1>3. given \in Seq(Seq(Byte)) /\ left = given /\ transport \in {"stream", "relay", "wire"}
  BY <1>2, CodecConstants DEF CodecInit, SendInit, WireInit
<1>4. CodecTypeOK
  BY <1>1, <1>2, <1>3 DEF CodecTypeOK
<1>5. transport # "wire" => \A i \in 1 .. Len(left) : /\ left[i] # << >> /\ Len(left[i]) <= limit
                                                      /\ ~IsPrefix(StreamMagic, left[i])
  <2> SUFFICES ASSUME SendInit, NEW i \in 1 .. Len(left)
               PROVE  /\ left[i] # << >> /\ Len(left[i]) <= limit
                      /\ ~IsPrefix(StreamMagic, left[i])
    BY DEF CodecInit, WireInit
  <2>1. i \in DOMAIN given
    BY <1>3, LenProperties
  <2>2. QED
    BY <1>3, <2>1, CodecConstants DEF SendInit
<1>6. Brings = << >>
  BY <1>1 DEF Brings
<1>7. got \o (Brings \o left) = given
  BY <1>1, <1>3, <1>6, ConcatEmptySeq
<1>8. QED
  BY <1>1, <1>2, <1>4, <1>5, <1>6, <1>7 DEF CodecInv

(* A sender's step: its first k packets are in the frame, and nowhere else. *)
LEMMA CodecSent ==
  ASSUME CodecInv, transport \in {"stream", "relay"}, frame = << >>, NEW k \in 1 .. Len(left),
         UNCHANGED <<transport, limit, given, got, open>>,
         left' = SubSeq(left, k + 1, Len(left)), frame' \in Seq(Byte), frame' # << >>,
         Brings' = SubSeq(left, 1, k), transport = "relay" => DecodeTunBatch(frame)'.ok
  PROVE  CodecInv'
<1>1. PICK l : l = left
  OBVIOUS
<1>2. l \in Seq(Seq(Byte)) /\ k \in 0 .. Len(l) /\ Len(l) \in Nat
  BY <1>1 DEF CodecInv, CodecTypeOK
<1>3. /\ SubSeq(l, 1, k) \in Seq(Seq(Byte)) /\ SubSeq(l, k + 1, Len(l)) \in Seq(Seq(Byte))
      /\ Len(SubSeq(l, k + 1, Len(l))) = Len(l) - k
      /\ \A i \in 1 .. Len(l) - k : SubSeq(l, k + 1, Len(l))[i] = l[k + i]
      /\ SubSeq(l, 1, k) \o SubSeq(l, k + 1, Len(l)) = l
  BY <1>2, CutSeq
<1>4. CodecTypeOK'
  BY <1>1, <1>3 DEF CodecInv, CodecTypeOK
<1>5. ASSUME NEW i \in 1 .. Len(left')
      PROVE  /\ left'[i] # << >> /\ Len(left'[i]) <= limit /\ ~IsPrefix(StreamMagic, left'[i])
  <2>1. i \in 1 .. Len(l) - k
    BY <1>1, <1>3
  <2>2. k + i \in 1 .. Len(l) /\ left'[i] = l[k + i]
    <3>1. k + i \in 1 .. Len(l)
      BY <1>1, <1>2, <2>1
    <3>2. QED
      BY <1>1, <1>3, <2>1, <3>1
  <2>3. transport # "wire"
    OBVIOUS
  <2>4. QED
    BY <1>1, <2>2, <2>3 DEF CodecInv
<1>6. got \o l = given
  <2>1. Brings = << >>
    BY DEF Brings
  <2>2. << >> \o l = l
    BY <1>2, ConcatEmptySeq
  <2>3. QED
    BY <1>1, <2>1, <2>2 DEF CodecInv
<1>7. got' \o (Brings' \o left') = given'
  BY <1>1, <1>3, <1>6
<1>8. Brings' \in Seq(Seq(Byte))
  BY <1>1, <1>3
<1>9. QED
  BY <1>4, <1>5, <1>7, <1>8 DEF CodecInv

(* A receiver's: it has what the frame brought.                             *)
LEMMA CodecReceived ==
  ASSUME CodecInv, transport \in {"stream", "relay"}, frame # << >>, frame' = << >>,
         got' = got \o Brings, UNCHANGED <<transport, limit, given, left, open>>
  PROVE  CodecInv'
<1>1. PICK g, b, l : g = got /\ b = Brings /\ l = left
  OBVIOUS
<1>2. g \in Seq(Seq(Byte)) /\ b \in Seq(Seq(Byte)) /\ l \in Seq(Seq(Byte)) /\ g \o (b \o l) = given
  BY <1>1 DEF CodecInv, CodecTypeOK
<1>3. g \o b \in Seq(Seq(Byte)) /\ (g \o b) \o l = g \o (b \o l)
  <2>1. g \o b \in Seq(Seq(Byte))
    BY <1>2, ConcatProperties
  <2>2. (g \o b) \o l = g \o (b \o l)
    <3>1. PICK S : S = Seq(Byte)
      OBVIOUS
    <3>2. g \in Seq(S) /\ b \in Seq(S) /\ l \in Seq(S)
      BY <1>2, <3>1
    <3> HIDE <1>2
    <3>3. QED
      BY <3>2, ConcatAssociative
  <2>3. QED
    BY <2>1, <2>2
<1>4. << >> \in Seq(Byte) /\ << >> \in Seq(Seq(Byte)) /\ << >> \o l = l
  BY <1>2, EmptySeq, ConcatEmptySeq
<1>5. Brings' = << >>
  BY DEF Brings
<1>6. CodecTypeOK'
  BY <1>1, <1>3, <1>4 DEF CodecInv, CodecTypeOK
<1>7. got' \o (Brings' \o left') = given'
  BY <1>1, <1>2, <1>3, <1>4, <1>5
<1>8. QED
  BY <1>4, <1>5, <1>6, <1>7 DEF CodecInv

(* Every step of either end, and of the wire, keeps it.                     *)
LEMMA CodecInvNext == CodecInv /\ [CodecNext]_codecVars => CodecInv'
<1> SUFFICES ASSUME CodecInv, [CodecNext]_codecVars
             PROVE  CodecInv'
  OBVIOUS
<1>0. left \in Seq(Seq(Byte)) /\ limit \in Limits
  BY DEF CodecInv, CodecTypeOK
<1>1. CASE StreamSends
  <2>1. PICK n \in 1 .. Len(left) :
          /\ frame' = EncodeStreamBatch(SubSeq(left, 1, n)).frame
          /\ left' = SubSeq(left, EncodeStreamBatch(SubSeq(left, 1, n)).taken + 1, Len(left))
    BY <1>1 DEF StreamSends
  <2>2. transport = "stream" /\ frame = << >> /\ UNCHANGED <<transport, limit, given, got, open>>
    BY <1>1 DEF StreamSends
  <2>3. PICK ps, e : ps = SubSeq(left, 1, n) /\ e = EncodeStreamBatch(ps)
    OBVIOUS
  <2>4. n \in 0 .. Len(left) /\ n \in Nat /\ n >= 1 /\ Len(left) \in Nat
    BY <1>0, LenProperties
  <2>5. ps \in Seq(Seq(Byte)) /\ Len(ps) = n /\ \A i \in 1 .. n : ps[i] = left[i]
    BY <1>0, <2>3, <2>4, CutSeq
  <2>6. \A i \in 1 .. n : i \in 1 .. Len(left)
    BY <2>4
  <2>7. \A i \in 1 .. Len(ps) : ps[i] # << >> /\ ~IsPrefix(StreamMagic, ps[i])
    BY <2>2, <2>5, <2>6 DEF CodecInv
  <2>8. /\ e.taken \in 1 .. Len(ps) /\ e.frame \in Seq(Byte) /\ e.frame # << >>
        /\ StreamGives(e.frame) = SubSeq(ps, 1, e.taken)
    BY <2>3, <2>4, <2>5, <2>7, StreamRoundTrip
  <2>9. PICK k \in 1 .. n : k = e.taken
    BY <2>5, <2>8
  <2>10. SubSeq(ps, 1, k) = SubSeq(left, 1, k)
    <3>1. k \in Nat /\ k <= Len(ps) /\ k <= Len(left) /\ \A x \in 1 .. k : ps[x] = left[x]
      BY <2>4, <2>5
    <3>2. SubSeq(ps, 0 + 1, k) = SubSeq(left, 0 + 1, k)
      BY <1>0, <2>5, <3>1, SamePart
    <3>3. QED
      BY <3>2
  <2>11. Brings' = SubSeq(left, 1, k)
    <3>1. frame' = e.frame /\ transport' = "stream"
      BY <2>1, <2>2, <2>3
    <3>2. Brings' = StreamGives(frame')
      BY <2>8, <3>1 DEF Brings, StreamGives, DecodeStreamBatch, IsStreamBatch
    <3>3. QED
      BY <2>8, <2>9, <2>10, <3>1, <3>2
  <2>12. k \in 1 .. Len(left) /\ left' = SubSeq(left, k + 1, Len(left))
    BY <2>1, <2>3, <2>4, <2>9
  <2>13. frame' \in Seq(Byte) /\ frame' # << >>
    BY <2>1, <2>3, <2>8
  <2>14. QED
    BY <2>2, <2>11, <2>12, <2>13, CodecSent
<1>2. CASE StreamReceives
  <2>1. /\ transport = "stream" /\ frame # << >> /\ frame' = << >>
        /\ UNCHANGED <<transport, limit, given, left, open>>
    BY <1>2 DEF StreamReceives
  <2>2. got' = got \o Brings
    BY <1>2, <2>1 DEF StreamReceives, Brings, StreamGives
  <2>3. QED
    BY <2>1, <2>2, CodecReceived
<1>3. CASE RelaySends
  <2>1. PICK n \in 1 .. Len(left) :
          /\ \A i \in 1 .. n : TunAppends(TunBatch(left)[i - 1], left[i])
          /\ frame' = TunBatch(left)[n] /\ left' = SubSeq(left, n + 1, Len(left))
    BY <1>3 DEF RelaySends
  <2>2. transport = "relay" /\ frame = << >> /\ UNCHANGED <<transport, limit, given, got, open>>
    BY <1>3 DEF RelaySends
  <2>3. \A i \in 1 .. n : i \in 1 .. Len(left)
    BY <1>0
  <2>4. \A i \in 1 .. n : Len(left[i]) <= limit
    BY <2>2, <2>3 DEF CodecInv
  <2>5. /\ frame' \in Seq(Byte) /\ frame' # << >>
        /\ DecodeTunBatch(TunBatch(left)[n]) = [ok |-> TRUE, packets |-> SubSeq(left, 1, n)]
    BY <1>0, <2>1, <2>4, RelayRoundTrip
  <2>6. DecodeTunBatch(frame)' = [ok |-> TRUE, packets |-> SubSeq(left, 1, n)]
    BY <2>1, <2>2, <2>5 DEF DecodeTunBatch
  <2>7. DecodeTunBatch(frame)'.ok /\ DecodeTunBatch(frame)'.packets = SubSeq(left, 1, n)
    BY <2>6
  <2>8. Brings' = SubSeq(left, 1, n)
    BY <2>2, <2>5, <2>7 DEF Brings
  <2>9. QED
    BY <2>1, <2>2, <2>5, <2>7, <2>8, CodecSent
<1>4. CASE RelayReceives
  <2>1. /\ transport = "relay" /\ frame # << >> /\ frame' = << >>
        /\ UNCHANGED <<transport, limit, given, left>>
        /\ got' = got \o DecodeTunBatch(frame).packets
        /\ open' = (open /\ DecodeTunBatch(frame).ok)
    BY <1>4 DEF RelayReceives
  <2>2. got' = got \o Brings
    BY <2>1 DEF Brings
  <2>3. open /\ DecodeTunBatch(frame).ok /\ open \in BOOLEAN
    BY <2>1 DEF CodecInv, CodecTypeOK
  <2>4. open' = open
    BY <2>1, <2>3 DEF CodecInv, CodecTypeOK
  <2>5. QED
    BY <2>1, <2>2, <2>4, CodecReceived
<1>5. CASE ByteArrives
  <2>1. PICK b \in Byte : frame' = Append(frame, b)
    BY <1>5 DEF ByteArrives
  <2>2. transport = "wire" /\ UNCHANGED <<transport, limit, given, left, got, open>>
    BY <1>5 DEF ByteArrives
  <2>3. frame' \in Seq(Byte)
    BY <2>1, AppendProperties DEF CodecInv, CodecTypeOK
  <2>4. Brings = << >> /\ Brings' = << >>
    BY <2>2 DEF Brings
  <2>5. CodecTypeOK'
    BY <2>2, <2>3 DEF CodecInv, CodecTypeOK
  <2>6. QED
    BY <2>2, <2>4, <2>5 DEF CodecInv
<1>6. CASE UNCHANGED codecVars
  <2>1. Brings' = Brings /\ DecodeTunBatch(frame)' = DecodeTunBatch(frame)
    BY <1>6 DEF codecVars, Brings, StreamGives, DecodeStreamBatch, IsStreamBatch, DecodeTunBatch
  <2>2. QED
    BY <1>6, <2>1 DEF codecVars, CodecInv, CodecTypeOK
<1>7. QED
  BY <1>1, <1>2, <1>3, <1>4, <1>5, <1>6 DEF CodecNext

(* The frame under way, what was got and what is left are always the        *)
(* packets given: the codecs lose, repeat and reorder nothing.              *)
THEOREM CodecsKeepCodecInv == CodecSpec => []CodecInv
<1>1. QED
  BY CodecInvInit, CodecInvNext, PTL DEF CodecSpec

(* Whatever is batched with what, the packets come through as they were,    *)
(* and the relay stays open: for any packets, magics, maxima and byte       *)
(* radix.                                                                   *)
THEOREM PacketsAlwaysComeThrough == CodecSpec => []PacketsComeThrough
<1>1. CodecInv => PacketsComeThrough
  <2> SUFFICES ASSUME CodecInv, frame = << >>
               PROVE  got \o left = given /\ open
    BY DEF PacketsComeThrough
  <2>1. Brings = << >>
    BY DEF Brings
  <2>2. left \in Seq(Seq(Byte))
    BY DEF CodecInv, CodecTypeOK
  <2>3. << >> \o left = left
    BY <2>2, ConcatEmptySeq
  <2>4. QED
    BY <2>1, <2>3 DEF CodecInv
<1>2. QED
  BY <1>1, CodecsKeepCodecInv, PTL

(* The decoders accept the encoders' batches and nothing else, for any      *)
(* bytes: what they accept can be cut in one way, and encodes to the frame  *)
(* again.                                                                   *)
THEOREM BatchesAlwaysExact == CodecSpec => []BatchesAreExact
<1>1. CodecInv => BatchesAreExact
  <2> SUFFICES ASSUME CodecInv
               PROVE  BatchesAreExact
    OBVIOUS
  <2>1. frame \in Seq(Byte) /\ limit \in Limits
    BY DEF CodecInv, CodecTypeOK
  <2>2. QED
    BY <2>1, StreamExact, TunExact DEF BatchesAreExact
<1>2. QED
  BY <1>1, CodecsKeepCodecInv, PTL

=============================================================================
