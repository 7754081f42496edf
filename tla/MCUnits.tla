------------------------------- MODULE MCUnits -------------------------------
(***************************************************************************)
(* The components that run by themselves, each on an instance of its own:   *)
(* the route table, the codecs of the batches, and the configuration of two *)
(* nodes.  A behaviour is one of a single unit; the others rest.            *)
(***************************************************************************)
EXTENDS RouteTable, Configuration, PacketCodecs, TLC

CONSTANTS a, b

VARIABLE unit

-----------------------------------------------------------------------------
(* Codecs: a byte is a digit to the base 3 and a length field has two       *)
(* digits; 1 and 2 stand for the versions of IP, 0 begins both magics.      *)

CodecPackets ==
  UNION {{p \in [1 .. n -> 0 .. 2] : p[1] # 0} : n \in 1 .. 2}
  \cup {<<1, 0, 2, 0, 1>>, <<2, 2, 2, 2, 2, 0, 1, 2>>}

MCStreamMagic == <<0, 1>>
MCTunMagic    == <<0, 2, 1>>
MCGiven       == UNION {[1 .. n -> CodecPackets] : n \in 0 .. 3}

-----------------------------------------------------------------------------
(* Configuration: two nodes with users of one node_id, files with the       *)
(* defaults left out, and edits to the boundaries of each field.            *)

MCNodes == {a, b}
MCUser  == a :> <<4096, 1026>> @@ b :> <<4096, 1027>>

PeerOf(u, policy) ==
  [name |-> TRUE, user |-> u, routes |-> "valid", mode |-> "", policy |-> policy]

Name == [password |-> "plain", node |-> 0, user |-> 0, name |-> TRUE]

FileOf(u) ==
  [baseURL |-> TRUE, credentials |-> Name, overlay |-> FALSE, database |-> TRUE,
   static |-> FALSE, pool |-> TRUE, congestion |-> TRUE, addresses |-> TRUE, mode |-> "",
   requestTimeout |-> 0, pingInterval |-> 0, leaseDuration |-> 0, mtu |-> 0,
   txQueueLength |-> 0, sendQueueSize |-> 0, maxPacketBytes |-> 0, dialRetryInterval |-> 0,
   relayWindowSize |-> 0, streamWindowBytes |-> 0, peers |-> <<PeerOf(u, "")>>]

MCBase == a :> FileOf(MCUser[b]) @@ b :> FileOf(MCUser[a])

Other == PeerOf(<<4095, 2000>>, "never")

MCInputs ==
  [baseURL |-> {FALSE}, overlay |-> {TRUE}, database |-> {FALSE}, pool |-> {FALSE},
   credentials |-> {[Name EXCEPT !.password = "none"], [Name EXCEPT !.name = FALSE],
                    [Name EXCEPT !.node = 1], [Name EXCEPT !.name = FALSE, !.node = 1],
                    [Name EXCEPT !.name = FALSE, !.node = 1, !.user = 1]},
   mode |-> {"stream", "bad"}, congestion |-> {FALSE}, addresses |-> {FALSE},
   requestTimeout |-> {-1}, leaseDuration |-> {59, 60},
   mtu |-> {575, 576, 65535, 65536}, maxPacketBytes |-> {1399, 1400, 65535, 65536},
   txQueueLength |-> {-1, 100000, 100001}, sendQueueSize |-> {-1, 1},
   dialRetryInterval |-> {-1, 1}, relayWindowSize |-> {-1, 1, 256, 257},
   streamWindowBytes |-> {64 * KiB, 256 * KiB - 1, 256 * KiB, 64 * 1024 * KiB + 1},
   peers |-> {<< >>, <<Other>>}
             \cup {<<PeerOf(u, q)>> : u \in {MCUser[a], MCUser[b]}, q \in {"always", "bad"}}
             \cup {<<PeerOf(u, ""), Other, PeerOf(u, "auto")>> : u \in {MCUser[a]}}
             \cup {<<[Other EXCEPT !.mode = x]>> : x \in {"relay", "bad"}}
             \cup {<<[Other EXCEPT !.user = <<0, 1>>]>>, <<[Other EXCEPT !.routes = "none"]>>}]

MCFound == SUBSET {MCUser[a], MCUser[b], Other.user}

-----------------------------------------------------------------------------
routeVars == <<routes, table, state, packet, answer>>

CodecsRest ==
  /\ transport = "rest" /\ limit = 2 /\ given = << >> /\ left = << >>
  /\ frame = << >> /\ got = << >> /\ open = TRUE

UnitInit ==
  /\ unit \in {"routes", "codecs", "configuration"}
  /\ Init /\ ConfigInit
  /\ IF unit = "codecs" THEN CodecInit ELSE CodecsRest

UnitNext ==
  /\ \/ unit = "routes" /\ Next /\ UNCHANGED <<codecVars, configVars>>
     \/ unit = "codecs" /\ CodecNext /\ UNCHANGED <<routeVars, configVars>>
     \/ unit = "configuration" /\ ConfigNext /\ UNCHANGED <<routeVars, codecVars>>
  /\ UNCHANGED unit

UnitSpec == UnitInit /\ [][UnitNext]_<<unit, routeVars, codecVars, configVars>>

=============================================================================
