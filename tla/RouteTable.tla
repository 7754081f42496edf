----------------------------- MODULE RouteTable -----------------------------
(***************************************************************************)
(* The route table (internal/tun/route.go): newRouteTable parses the       *)
(* routes of the peers and sorts them, lookup takes the first that contains *)
(* a packet's destination.  An address has V4 or V6 bits (32 and 128 in the *)
(* code); an IPv6 address whose upper bits are Mapped stands for the IPv4   *)
(* address in its lower bits, and package net treats it as that one.        *)
(***************************************************************************)
EXTENDS Integers, Sequences

CONSTANTS V4, V6,      \* bits of an address
          Mapped,      \* the upper bits of ::ffff:a.b.c.d
          Peer, None,
          MaxRoutes    \* bound: routes of the configuration

ASSUME RouteAssumption ==
  V4 \in Nat /\ V6 \in Nat /\ V4 <= V6 /\ Mapped \in Nat /\ MaxRoutes \in Nat

VARIABLES routes,   \* the peers' routes in the order of the configuration
          table,    \* routeTable.routes
          state,    \* "none", "built", or the error of newRouteTable
          packet, answer

vars == <<routes, table, state, packet, answer>>

Width(v) == IF v = 4 THEN V4 ELSE V6
Address(v) == [v : {v}, bits : 0 .. 2 ^ Width(v) - 1]

IsMapped(a) == a.v = 6 /\ a.bits \div 2 ^ V4 = Mapped

(* A route in the configuration.  Its address is not a mapped one: the      *)
(* kernel refuses such a route (configureTUNRoutes), and Run ends before    *)
(* the first lookup.                                                        *)
Text == [peer : Peer, at : {a \in Address(4) \cup Address(6) : ~IsMapped(a)}, len : 0 .. V6]

(* A packet from the TUN: its destination, if its header is whole, and the  *)
(* version nibble, which may be another than 4 and 6.                       *)
Packet == [version : {4, 5, 6}, whole : BOOLEAN, dst : Address(4) \cup Address(6)]
NoPacket == [version |-> 0]

Init ==
  /\ routes = << >> /\ table = << >> /\ state = "none"
  /\ packet = NoPacket /\ answer = None

-----------------------------------------------------------------------------
(* IP.To4                                                                   *)
To4(a) == IF IsMapped(a) THEN [v |-> 4, bits |-> a.bits % 2 ^ V4] ELSE a

Parses(t) == t.len <= Width(t.at.v)

(* net.IPNet.Contains: of one family, and equal where the mask has ones.    *)
NetContains(t, ip) ==
  LET x == To4(ip) IN
  /\ x.v = t.at.v
  /\ x.bits \div 2 ^ (Width(x.v) - t.len) = t.at.bits \div 2 ^ (Width(x.v) - t.len)

(* Mutant: the order of the configuration alone.                            *)
BeforeAsWritten(rs, i, j) == i < j

(* Longer prefixes first, otherwise the order of the configuration.         *)
Before(rs, i, j) ==
  \/ rs[i].len > rs[j].len
  \/ rs[i].len = rs[j].len /\ i < j

(* sort.SliceStable: the permutation of the indices that Before orders.     *)
Order(rs) ==
  {o \in [DOMAIN rs -> DOMAIN rs] :
     /\ \A j \in DOMAIN rs : \E i \in DOMAIN rs : o[i] = j
     /\ \A i, j \in DOMAIN rs : i < j => Before(rs, o[i], o[j])}

(* The configuration is read, route by route.                               *)
Configure ==
  /\ state = "none" /\ Len(routes) < MaxRoutes
  /\ \E t \in Text : routes' = Append(routes, t)
  /\ UNCHANGED <<table, state, packet, answer>>

NewRouteTable ==
  /\ state = "none"
  /\ IF \A i \in DOMAIN routes : Parses(routes[i])
     THEN \E o \in Order(routes) :
            /\ table' = [i \in DOMAIN routes |-> routes[o[i]]] /\ state' = "built"
     ELSE state' = "error" /\ UNCHANGED table
  /\ UNCHANGED <<routes, packet, answer>>

(* packetDestination: the packet has one if its header is whole and its     *)
(* version is that of its destination field.                                *)
HasDestination(p) == p.whole /\ p.version = p.dst.v

(* The peer of the first route that contains it, if any.                    *)
Lookup(p) ==
  LET hits == {i \in DOMAIN table : HasDestination(p) /\ NetContains(table[i], p.dst)}
  IN  {table[i].peer : i \in {j \in hits : \A k \in hits : j <= k}}

ReadPacket ==
  /\ state = "built"
  /\ packet' \in Packet
  /\ answer' \in IF Lookup(packet') = {} THEN {None} ELSE Lookup(packet')
  /\ UNCHANGED <<routes, table, state>>

Next == Configure \/ NewRouteTable \/ ReadPacket

Spec == Init /\ [][Next]_vars

-----------------------------------------------------------------------------
Covers(t) == HasDestination(packet) /\ NetContains(t, packet.dst)

(* A packet goes to the peer of a route of the configuration that covers    *)
(* its destination with the longest prefix, of the first such route where   *)
(* there are several, and to nobody where no route covers it (README.md:3,  *)
(* TestRouteTableUsesLongestPrefix).                                        *)
LongestPrefixWins ==
  packet # NoPacket =>
    \/ answer = None /\ \A i \in DOMAIN routes : ~Covers(routes[i])
    \/ \E i \in DOMAIN routes :
         /\ answer = routes[i].peer /\ Covers(routes[i])
         /\ \A j \in DOMAIN routes : Covers(routes[j]) =>
              \/ routes[j].len < routes[i].len
              \/ routes[j].len = routes[i].len /\ i <= j

=============================================================================
