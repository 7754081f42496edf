--------------------------- MODULE RelayLoopsProofs ---------------------------
(***************************************************************************)
(* Theorems about RelayLoops, for every set of peers and every bound: each  *)
(* port is a queue from the TUN device to its connection, and the device is *)
(* given each peer's packets in the order they were sent and without a gap. *)
(***************************************************************************)
EXTENDS RelayLoops, SequenceTheorems, TLAPS

-----------------------------------------------------------------------------
(* The inductive invariant                                                  *)

PortType   == [conn : {"open", "closed"}, done : BOOLEAN, listed : BOOLEAN,
               queue : Seq(Nat), accepted : Nat, unacked : Nat]
SenderType == [pc : {"take", "collect", "send", "ended"},
               pending : Seq(Nat), batch : Seq(Nat)]
FrameType  == [packets : Seq(Nat), cut : BOOLEAN]
WriterType == [pc : {"receive", "lock", "write", "ended"},
               left : Seq(Nat), cut : BOOLEAN]
ReaderType == [pc : {"read", "pick", "offer", "ended"}, peer : Peers \cup {Reading.peer},
               stream : BOOLEAN, port : BOOLEAN]

LoopsType ==
  /\ tun \in ReaderType /\ (tun.pc \in {"pick", "offer"} => tun.peer \in Peers)
  /\ port \in [Peers -> PortType] /\ sender \in [Peers -> SenderType]
  /\ sent \in [Peers -> Seq(Nat)]
  /\ wire \in [Peers -> Seq(FrameType)] /\ arriving \in [Peers -> Nat]
  /\ writer \in [Peers -> WriterType] /\ written \in [Peers -> Seq(Nat)]

(* A packet's number tells how many the port has accepted before it; at     *)
(* most one is left over by a batch, and it begins the next.                *)
Outbound(p) ==
  /\ port[p].accepted = Len(sent[p]) + Len(Backlog(p))
  /\ Len(sender[p].pending) <= 1
  /\ sender[p].pc = "take" => sender[p].batch = << >>
  /\ sender[p].pc = "collect" => sender[p].pending = << >>
  /\ sender[p].pc \in {"collect", "send"} => Len(sender[p].batch) \in 1 .. BatchMax

(* The frames under way continue, one after the other, what was written and *)
(* what is left of the frame in hand: start[k] packets come before and in   *)
(* the first k of them.                                                     *)
InSequence(packets, before) == \A i \in 1 .. Len(packets) : packets[i] = before + i

Chained(p, start) ==
  /\ start[0] = Len(written[p]) + Len(writer[p].left)
  /\ start[Len(wire[p])] = arriving[p]
  /\ \A k \in 1 .. Len(wire[p]) :
       /\ start[k] = start[k - 1] + Len(wire[p][k].packets)
       /\ InSequence(wire[p][k].packets, start[k - 1])

Inbound(p) ==
  /\ InSequence(written[p], 0)
  /\ writer[p].pc \in {"receive"} => writer[p].left = << >>
  /\ writer[p].pc = "write" => writer[p].left # << >>
  /\ writer[p].pc # "ended" =>
       /\ InSequence(writer[p].left, Len(written[p]))
       /\ \E start \in [0 .. Len(wire[p]) -> Nat] : Chained(p, start)

LoopsInv == LoopsType /\ \A p \in Peers : Outbound(p) /\ Inbound(p)

-----------------------------------------------------------------------------
(* Sequences                                                                *)

LEMMA SplitConcat ==
  ASSUME NEW S, NEW s \in Seq(S), NEW t \in Seq(S)
  PROVE  /\ SubSeq(s \o t, 1, Len(s)) = s
         /\ SubSeq(s \o t, Len(s) + 1, Len(s \o t)) = t
<1>1. Len(s) \in Nat /\ Len(t) \in Nat /\ Len(s \o t) = Len(s) + Len(t)
  BY LenProperties, ConcatProperties
<1>2. SubSeq(s \o t, 1, Len(s)) = s
  <2>1. CASE Len(s) = 0
    <3>1. SubSeq(s \o t, 1, Len(s)) = << >>
      BY <2>1, SubSeqEmpty
    <3>2. s = << >>
      BY <2>1, EmptySeq
    <3>3. QED
      BY <3>1, <3>2
  <2>2. CASE Len(s) > 0
    <3>1. SubSeq(s \o t, 1, Len(s)) = SubSeq(s, 1, Len(s))
      BY <1>1, <2>2, SubSeqOfConcat1
    <3>2. QED
      BY <3>1, SubSeqFull
  <2>3. QED
    BY <1>1, <2>1, <2>2
<1>3. SubSeq(s \o t, Len(s) + 1, Len(s \o t)) = t
  <2>1. CASE Len(t) = 0
    <3>1. Len(s \o t) < Len(s) + 1
      BY <1>1, <2>1
    <3>2. SubSeq(s \o t, Len(s) + 1, Len(s \o t)) = << >>
      BY <1>1, <3>1, SubSeqEmpty
    <3>3. t = << >>
      BY <2>1, EmptySeq
    <3>4. QED
      BY <3>2, <3>3
  <2>2. CASE Len(t) > 0
    <3> DEFINE m == Len(s) + 1
               n == Len(s) + Len(t)
    <3>1. m \in Len(s) + 1 .. Len(s) + Len(t) /\ n \in Len(s) + 1 .. Len(s) + Len(t)
      BY <1>1, <2>2
    <3>2. m - Len(s) = 1 /\ n - Len(s) = Len(t)
      BY <1>1
    <3> HIDE DEF m, n
    <3>3. SubSeq(s \o t, m, n) = SubSeq(t, m - Len(s), n - Len(s))
      BY <3>1, SubSeqOfConcat2
    <3>4. SubSeq(s \o t, m, n) = t
      BY <3>2, <3>3, SubSeqFull
    <3>5. QED
      BY <1>1, <3>4 DEF m, n
  <2>3. QED
    BY <1>1, <2>1, <2>2
<1>4. QED
  BY <1>2, <1>3

LEMMA HeadThenTail ==
  ASSUME NEW s \in Seq(Nat), s # << >>
  PROVE  /\ s = <<Head(s)>> \o Tail(s)
         /\ Head(s) \in Nat /\ <<Head(s)>> \in Seq(Nat) /\ Tail(s) \in Seq(Nat)
<1>1. Len(s) \in Nat \ {0}
  BY EmptySeq
<1>2. SubSeq(s, 1, Len(s)) = <<s[1]>> \o SubSeq(s, 2, Len(s))
  <2>1. 1 \in 1 .. Len(s) /\ Len(s) \in 1 .. Len(s)
    BY <1>1
  <2>2. SubSeq(s, 1, Len(s)) = <<s[1]>> \o SubSeq(s, 1 + 1, Len(s))
    BY <2>1, SubSeqRecursiveFirst
  <2>3. QED
    BY <2>2
<1>3. Head(s) = s[1] /\ Tail(s) = SubSeq(s, 2, Len(s))
  BY TailIsSubSeq
<1>4. Head(s) \in Nat /\ Tail(s) \in Seq(Nat)
  BY HeadTailProperties
<1>5. QED
  BY <1>2, <1>3, <1>4, SubSeqFull

LEMMA PacketsAssociate ==
  ASSUME NEW s \in Seq(Nat), NEW t \in Seq(Nat), NEW u \in Seq(Nat)
  PROVE  (s \o t) \o u = s \o (t \o u)
BY ConcatAssociative, SMTT(60)

(* What follows x when the first packet of q joins it.                      *)
LEMMA FirstMoves ==
  ASSUME NEW x \in Seq(Nat), NEW q \in Seq(Nat), q # << >>
  PROVE  /\ Append(x, Head(q)) \in Seq(Nat)
         /\ Append(x, Head(q)) \o Tail(q) = x \o q
<1>1. /\ q = <<Head(q)>> \o Tail(q)
      /\ Head(q) \in Nat /\ <<Head(q)>> \in Seq(Nat) /\ Tail(q) \in Seq(Nat)
  BY HeadThenTail
<1>2. Append(x, Head(q)) = x \o <<Head(q)>> /\ Append(x, Head(q)) \in Seq(Nat)
  BY <1>1, AppendIsConcat, AppendProperties
<1>3. (x \o <<Head(q)>>) \o Tail(q) = x \o (<<Head(q)>> \o Tail(q))
  BY <1>1, PacketsAssociate
<1>4. QED
  BY <1>1, <1>2, <1>3

-----------------------------------------------------------------------------
(* The queue of a port                                                      *)

QueueMoves(p) == [Queue(p)!Next]_<<Backlog(p), sent[p]>>

LEMMA Joined ==
  ASSUME NEW b \in Seq(Nat), NEW r \in Seq(Nat), NEW q \in Seq(Nat)
  PROVE  /\ b \o r \o q \in Seq(Nat)
         /\ b \o r \o q = b \o (r \o q)
         /\ r = << >> => b \o r \o q = b \o q
         /\ b = << >> => b \o r \o q = r \o q
<1>1. b \o r \in Seq(Nat)
  BY ConcatProperties
<1>2. b \o r \o q \in Seq(Nat)
  BY <1>1, ConcatProperties
<1>3. b \o r \o q = b \o (r \o q)
  BY PacketsAssociate
<1>4. (r = << >> => b \o r \o q = b \o q) /\ (b = << >> => b \o r \o q = r \o q)
  BY ConcatEmptySeq
<1>5. QED
  BY <1>2, <1>3, <1>4

LEMMA BacklogIs ==
  ASSUME NEW p \in Peers, sender[p] \in SenderType, port[p] \in PortType
  PROVE  /\ Backlog(p) \in Seq(Nat)
         /\ Backlog(p) = sender[p].batch \o (sender[p].pending \o port[p].queue)
         /\ sender[p].pending = << >> => Backlog(p) = sender[p].batch \o port[p].queue
         /\ sender[p].batch = << >> => Backlog(p) = sender[p].pending \o port[p].queue
<1>1. /\ sender[p].batch \in Seq(Nat) /\ sender[p].pending \in Seq(Nat)
      /\ port[p].queue \in Seq(Nat)
  BY DEF SenderType, PortType
<1>2. QED
  BY <1>1, Joined DEF Backlog

(* Of a port that a step leaves alone.                                      *)
LEMMA OutboundKept ==
  ASSUME NEW p \in Peers, Outbound(p), sent'[p] = sent[p], sender'[p] = sender[p],
         port'[p].queue = port[p].queue, port'[p].accepted = port[p].accepted
  PROVE  Outbound(p)' /\ QueueMoves(p)
<1>1. Backlog(p)' = Backlog(p)
  BY DEF Backlog
<1>2. QED
  BY <1>1 DEF Outbound, QueueMoves

LEMMA InboundKept ==
  ASSUME NEW p \in Peers, Inbound(p), written'[p] = written[p], writer'[p] = writer[p],
         wire'[p] = wire[p], arriving'[p] = arriving[p]
  PROVE  Inbound(p)'
BY DEF Inbound, Chained

(* A packet the queue takes is the newest of the backlog.                   *)
LEMMA Accepting ==
  ASSUME LoopsInv, NEW p \in Peers, Enqueue(p), UNCHANGED <<sender, sent>>
  PROVE  /\ Outbound(p)' /\ QueueMoves(p) /\ port' \in [Peers -> PortType]
         /\ \A q \in Peers \ {p} : port'[q] = port[q]
<1>1. /\ port \in [Peers -> PortType] /\ port[p] \in PortType /\ sender[p] \in SenderType
      /\ sent[p] \in Seq(Nat) /\ Outbound(p)
  BY DEF LoopsInv, LoopsType
<1>2. CASE UNCHANGED port
  BY <1>1, <1>2, OutboundKept
<1>3. CASE port' = [port EXCEPT ![p].queue = Append(@, port[p].accepted + 1),
                                ![p].accepted = @ + 1]
  <2>1. PICK n \in Nat : n = port[p].accepted + 1
    BY <1>1 DEF PortType
  <2>2. port[p].queue \in Seq(Nat) /\ Append(port[p].queue, n) \in Seq(Nat)
    BY <1>1, AppendProperties DEF PortType
  <2>3. port' = [port EXCEPT ![p] = [port[p] EXCEPT !.queue = Append(@, n), !.accepted = n]]
    BY <1>1, <1>3, <2>1 DEF PortType
  <2>4. [port[p] EXCEPT !.queue = Append(@, n), !.accepted = n] \in PortType
    BY <1>1, <2>2 DEF PortType
  <2>5. port' \in [Peers -> PortType]
    BY <1>1, <2>3, <2>4
  <2>6. port'[p].queue = Append(port[p].queue, n) /\ port'[p].accepted = n
    BY <1>1, <2>3 DEF PortType
  <2> DEFINE first == sender[p].batch \o sender[p].pending
  <2>7. first \in Seq(Nat) /\ Backlog(p) = first \o port[p].queue
        /\ Backlog(p)' = first \o port'[p].queue
    BY <1>1, ConcatProperties DEF Backlog, SenderType
  <2> HIDE DEF first
  <2>8. Backlog(p)' = Append(Backlog(p), n)
    <3>1. <<n>> \in Seq(Nat)
      OBVIOUS
    <3>2. /\ Append(port[p].queue, n) = port[p].queue \o <<n>>
          /\ Append(Backlog(p), n) = Backlog(p) \o <<n>>
      BY <1>1, <2>2, BacklogIs, AppendIsConcat
    <3>3. (first \o port[p].queue) \o <<n>> = first \o (port[p].queue \o <<n>>)
      BY <2>2, <2>7, <3>1, PacketsAssociate
    <3>4. QED
      BY <2>6, <2>7, <3>2, <3>3
  <2>9. PICK b \in Nat, f \in Nat : b = Len(Backlog(p)) /\ f = Len(sent[p])
    BY <1>1, BacklogIs, LenProperties
  <2>10. n = f + b + 1 /\ Len(Backlog(p)') = b + 1
    <3>1. Len(Backlog(p)') = b + 1
      BY <1>1, <2>8, <2>9, BacklogIs, AppendProperties
    <3>2. QED
      BY <1>1, <2>1, <2>9, <3>1 DEF Outbound
  <2>11. Queue(p)!Accept
    BY <2>8, <2>9, <2>10 DEF Queue!Accept
  <2>12. port'[p].accepted = Len(sent'[p]) + Len(Backlog(p)')
    <3>1. Len(sent'[p]) = f /\ Len(Backlog(p)') = b + 1
      BY <2>9, <2>10
    <3>2. port'[p].accepted = f + (b + 1)
      BY <2>6, <2>10
    <3>3. QED
      BY <3>1, <3>2
  <2>13. Outbound(p)'
    BY <1>1, <2>12 DEF Outbound
  <2>14. QED
    BY <1>1, <2>3, <2>5, <2>11, <2>13 DEF QueueMoves, Queue!Next
<1>4. QED
  BY <1>2, <1>3 DEF Enqueue

-----------------------------------------------------------------------------
(* readTUNLoop and Run                                                      *)

LEMMA ReadingType == Reading \in ReaderType /\ Reading.pc = "read"
<1>1. PICK x : x = CHOOSE p \in Peers : TRUE
  OBVIOUS
<1>2. Reading = [pc |-> "read", peer |-> x, stream |-> FALSE, port |-> FALSE]
  BY <1>1, Zenon DEF Reading
<1>3. QED
  BY <1>2 DEF ReaderType

LEMMA TUNKeeps ==
  ASSUME LoopsInv, TUNStep \/ TUNReads
  PROVE  LoopsInv' /\ \A p \in Peers : QueueMoves(p)
<1>1. LoopsType /\ \A p \in Peers : Outbound(p) /\ Inbound(p)
  BY DEF LoopsInv
<1>2. UNCHANGED <<sender, sent, inVars, writer, written>>
  BY DEF TUNStep, TUNReads
<1>3. tun' \in ReaderType /\ (tun'.pc \in {"pick", "offer"} => tun'.peer \in Peers)
  <2> USE DEF LoopsType, ReaderType
  <2>1. CASE ReadPacket
    BY <1>1, <2>1 DEF ReadPacket
  <2>2. CASE ReadEnds
    BY <1>1, <2>2 DEF ReadEnds
  <2>3. CASE PickOutlets
    <3>1. tun.peer \in Peers /\ port[tun.peer].listed \in BOOLEAN
      BY <1>1, <2>3 DEF PickOutlets, PortType
    <3>2. QED
      BY <1>1, <2>3, <3>1 DEF PickOutlets
  <2>4. CASE TakenByStream \/ TakenByRelay
    BY <2>4, ReadingType DEF TakenByStream, TakenByRelay
  <2>5. QED
    BY <2>1, <2>2, <2>3, <2>4 DEF TUNStep, TUNReads
<1>4. \A p \in Peers : Inbound(p)'
  BY <1>1, <1>2, InboundKept DEF inVars
<1>5. CASE UNCHANGED port
  <2>1. \A p \in Peers : Outbound(p)' /\ QueueMoves(p)
    BY <1>1, <1>2, <1>5, OutboundKept
  <2>2. QED
    BY <1>1, <1>2, <1>3, <1>4, <1>5, <2>1 DEF LoopsInv, LoopsType, inVars
<1>6. CASE tun.pc = "offer" /\ Enqueue(tun.peer)
  <2>1. PICK q \in Peers : q = tun.peer
    BY <1>1, <1>6 DEF LoopsType
  <2>2. /\ Outbound(q)' /\ QueueMoves(q) /\ port' \in [Peers -> PortType]
        /\ \A p \in Peers \ {q} : port'[p] = port[p]
    BY <1>2, <1>6, <2>1, Accepting
  <2>3. \A p \in Peers \ {q} : Outbound(p)' /\ QueueMoves(p)
    BY <1>1, <1>2, <2>2, OutboundKept
  <2>4. QED
    BY <1>1, <1>2, <1>3, <1>4, <2>2, <2>3 DEF LoopsInv, LoopsType, inVars
<1>7. QED
  BY <1>5, <1>6 DEF TUNStep, TUNReads, ReadPacket, ReadEnds, PickOutlets,
     TakenByStream, TakenByRelay

(* Steps that close ports or count what is unacknowledged, and touch no     *)
(* queue and no loop.                                                       *)
LEMMA PortsKeep ==
  ASSUME LoopsInv, UNCHANGED <<tun, sender, sent, wire, arriving, writer, written>>,
         port' \in [Peers -> PortType],
         \A p \in Peers : port'[p].queue = port[p].queue /\ port'[p].accepted = port[p].accepted
  PROVE  LoopsInv' /\ \A p \in Peers : QueueMoves(p)
<1>1. \A p \in Peers : Outbound(p)' /\ QueueMoves(p)
  BY OutboundKept DEF LoopsInv
<1>2. \A p \in Peers : Inbound(p)'
  BY InboundKept DEF LoopsInv
<1>3. QED
  BY <1>1, <1>2 DEF LoopsInv, LoopsType

LEMMA ClosedType ==
  ASSUME LoopsInv, NEW p \in Peers
  PROVE  /\ Closed(p) \in PortType
         /\ Closed(p).queue = port[p].queue /\ Closed(p).accepted = port[p].accepted
BY ZenonT(40) DEF LoopsInv, LoopsType, Closed, PortType

LEMMA CloseType ==
  ASSUME LoopsInv, NEW p \in Peers, Close(p)
  PROVE  /\ port' \in [Peers -> PortType]
         /\ \A q \in Peers :
              port'[q].queue = port[q].queue /\ port'[q].accepted = port[q].accepted
<1>1. port \in [Peers -> PortType] /\ port' = [port EXCEPT ![p] = Closed(p)]
  BY DEF LoopsInv, LoopsType, Close
<1>2. QED
  BY <1>1, ClosedType

LEMMA RunKeeps ==
  ASSUME LoopsInv, Run
  PROVE  LoopsInv' /\ \A p \in Peers : QueueMoves(p)
<1>1. UNCHANGED <<tun, sender, sent, wire, arriving, writer, written>>
  BY DEF Run, outVars, inVars
<1>2. port \in [Peers -> PortType]
  BY DEF LoopsInv, LoopsType
<1>3. CASE UNCHANGED port
  BY <1>1, <1>2, <1>3, PortsKeep
<1>4. CASE RunClosesPorts
  <2>1. port' = [p \in Peers |-> IF port[p].listed THEN Closed(p) ELSE port[p]]
    BY <1>4 DEF RunClosesPorts
  <2>2. /\ port' \in [Peers -> PortType]
        /\ \A p \in Peers :
             port'[p].queue = port[p].queue /\ port'[p].accepted = port[p].accepted
    BY <1>2, <2>1, ClosedType
  <2>3. QED
    BY <1>1, <2>2, PortsKeep
<1>5. QED
  BY <1>3, <1>4 DEF Run, RunStops, RunWaits

(* The SDK's side of a connection.                                          *)
LEMMA ConnectionsKeep ==
  ASSUME LoopsInv, NEW p \in Peers, Acknowledged(p) \/ ConnFails(p) \/ UnregisterPort(p)
  PROVE  LoopsInv' /\ \A q \in Peers : QueueMoves(q)
<1>1. UNCHANGED <<tun, sender, sent, wire, arriving, writer, written>>
  BY DEF Acknowledged, ConnFails, UnregisterPort, outside, outVars, inVars
<1>2. port \in [Peers -> PortType] /\ port[p] \in PortType
  BY DEF LoopsInv, LoopsType
<1>3. /\ port' \in [Peers -> PortType]
      /\ \A q \in Peers :
           port'[q].queue = port[q].queue /\ port'[q].accepted = port[q].accepted
  <2>1. CASE Acknowledged(p)
    <3>1. PICK n \in Nat : n = port[p].unacked - 1
      BY <1>2, <2>1 DEF Acknowledged, PortType
    <3>2. port' = [port EXCEPT ![p] = [port[p] EXCEPT !.unacked = n]]
      BY <1>2, <2>1, <3>1 DEF Acknowledged, PortType
    <3>3. QED
      BY <1>2, <3>2 DEF PortType
  <2>2. CASE ConnFails(p)
    BY <1>2, <2>2 DEF ConnFails, PortType
  <2>3. CASE UnregisterPort(p)
    BY <1>2, <2>3 DEF UnregisterPort, PortType
  <2>4. QED
    BY <2>1, <2>2, <2>3
<1>4. QED
  BY <1>1, <1>3, PortsKeep

-----------------------------------------------------------------------------
(* writeRelayLoop                                                           *)

(* What a step of one port's loop has to keep.                              *)
LEMMA SenderChanges ==
  ASSUME LoopsInv, NEW p \in Peers, NEW s \in SenderType, NEW o \in PortType,
         NEW t \in Seq(Nat), UNCHANGED <<tun, wire, arriving, writer, written>>,
         sender' = [sender EXCEPT ![p] = s], port' = [port EXCEPT ![p] = o],
         sent' = [sent EXCEPT ![p] = t], Outbound(p)', QueueMoves(p)
  PROVE  LoopsInv' /\ \A q \in Peers : QueueMoves(q)
<1>1. LoopsType'
  BY DEF LoopsInv, LoopsType
<1>2. \A q \in Peers \ {p} :
        sender'[q] = sender[q] /\ port'[q] = port[q] /\ sent'[q] = sent[q]
  BY DEF LoopsInv, LoopsType
<1>3. \A q \in Peers : Outbound(q)' /\ QueueMoves(q)
  BY <1>2, OutboundKept DEF LoopsInv
<1>4. \A q \in Peers : Inbound(q)'
  BY InboundKept DEF LoopsInv
<1>5. QED
  BY <1>1, <1>3, <1>4 DEF LoopsInv

(* Steps that move packets from queue to batch, or none.                    *)
LEMMA BatchChanges ==
  ASSUME LoopsInv, NEW p \in Peers, NEW s \in SenderType, NEW o \in PortType,
         UNCHANGED <<tun, wire, arriving, writer, written, sent>>,
         sender' = [sender EXCEPT ![p] = s], port' = [port EXCEPT ![p] = o],
         o.accepted = port[p].accepted,
         s.batch \o s.pending \o o.queue = Backlog(p),
         Len(s.pending) <= 1,
         s.pc = "take" => s.batch = << >>,
         s.pc = "collect" => s.pending = << >>,
         s.pc \in {"collect", "send"} => Len(s.batch) \in 1 .. BatchMax
  PROVE  LoopsInv' /\ \A q \in Peers : QueueMoves(q)
<1>1. /\ sender \in [Peers -> SenderType] /\ port \in [Peers -> PortType]
      /\ sent \in [Peers -> Seq(Nat)] /\ Outbound(p)
  BY DEF LoopsInv, LoopsType
<1>2. sender'[p] = s /\ port'[p] = o /\ sent' = [sent EXCEPT ![p] = sent[p]]
  BY <1>1
<1>3. Backlog(p)' = Backlog(p)
  BY <1>2 DEF Backlog
<1>4. Outbound(p)'
  BY <1>1, <1>2, <1>3 DEF Outbound
<1>5. QueueMoves(p)
  BY <1>3 DEF QueueMoves
<1>6. QED
  BY <1>1, <1>2, <1>4, <1>5, SenderChanges

LEMMA SenderDoneKeeps ==
  ASSUME LoopsInv, NEW p \in Peers, SenderDone(p) \/ BatchCloses(p),
         UNCHANGED <<tun, wire, arriving, writer, written>>
  PROVE  LoopsInv' /\ \A q \in Peers : QueueMoves(q)
<1>1. /\ sender \in [Peers -> SenderType] /\ port \in [Peers -> PortType] /\ Outbound(p)
  BY DEF LoopsInv, LoopsType
<1>2. PICK step \in {"send", "ended"} :
        /\ sender' = [sender EXCEPT ![p] = [sender[p] EXCEPT !.pc = step]]
        /\ step = "send" => sender[p].pc = "collect"
  BY DEF SenderDone, BatchCloses, SenderGoto
<1> DEFINE s == [sender[p] EXCEPT !.pc = step]
<1>3. /\ s \in SenderType /\ s.pc = step
      /\ s.batch = sender[p].batch /\ s.pending = sender[p].pending
  BY <1>1 DEF SenderType
<1>4. sender' = [sender EXCEPT ![p] = s]
  BY <1>2
<1> HIDE DEF s
<1>5. /\ s.batch \o s.pending \o port[p].queue = Backlog(p)
      /\ Len(s.pending) <= 1
      /\ s.pc = "send" => Len(s.batch) \in 1 .. BatchMax
  BY <1>1, <1>2, <1>3 DEF Backlog, Outbound
<1>6. port' = [port EXCEPT ![p] = port[p]] /\ port[p] \in PortType /\ sent' = sent
  BY <1>1 DEF SenderDone, BatchCloses
<1>7. QED
  BY <1>2, <1>3, <1>4, <1>5, <1>6, BatchChanges

(* A batch begins with the packet left over, or with the queue's first.     *)
LEMMA TakeFirstKeeps ==
  ASSUME LoopsInv, NEW p \in Peers, TakeFirst(p),
         UNCHANGED <<tun, wire, arriving, writer, written>>
  PROVE  LoopsInv' /\ \A q \in Peers : QueueMoves(q)
<1>1. /\ sender \in [Peers -> SenderType] /\ port \in [Peers -> PortType] /\ Outbound(p)
      /\ sender[p] \in SenderType /\ port[p] \in PortType /\ sent' = sent
  BY DEF LoopsInv, LoopsType, TakeFirst
<1>2. /\ sender[p].pending \in Seq(Nat) /\ port[p].queue \in Seq(Nat)
      /\ << >> \in Seq(Nat) /\ Len(<< >>) = 0
  BY <1>1, EmptySeq DEF SenderType, PortType
<1>3. Backlog(p) = sender[p].pending \o port[p].queue
  BY <1>1, BacklogIs DEF TakeFirst, Outbound
<1>4. CASE /\ sender[p].pending # << >> /\ UNCHANGED port
           /\ sender' = [sender EXCEPT ![p] =
                [pc |-> "collect", pending |-> << >>, batch |-> sender[p].pending]]
  <2> DEFINE s == [pc |-> "collect", pending |-> << >>, batch |-> sender[p].pending]
  <2>1. /\ s \in SenderType /\ s.pc = "collect" /\ s.pending = << >>
        /\ s.batch = sender[p].pending
    BY <1>2 DEF SenderType
  <2>2. Len(sender[p].pending) \in 1 .. BatchMax
    <3>1. Len(sender[p].pending) \in Nat \ {0} /\ Len(sender[p].pending) <= 1
      BY <1>1, <1>2, <1>4, EmptySeq DEF Outbound
    <3>2. QED
      BY <3>1, RelayLoopsAssumption
  <2>3. sender[p].pending \o << >> \o port[p].queue = Backlog(p)
    BY <1>2, <1>3, Joined
  <2>4. sender' = [sender EXCEPT ![p] = s]
    BY <1>4
  <2> HIDE DEF s
  <2>5. port' = [port EXCEPT ![p] = port[p]]
    BY <1>1, <1>4
  <2>6. /\ s.batch \o s.pending \o port[p].queue = Backlog(p)
        /\ Len(s.pending) <= 1 /\ Len(s.batch) \in 1 .. BatchMax
    <3>1. s.batch \o s.pending \o port[p].queue = Backlog(p)
      BY <2>1, <2>3, Zenon
    <3>2. Len(s.pending) = 0 /\ Len(s.batch) \in 1 .. BatchMax
      BY <1>2, <2>1, <2>2, Zenon
    <3>3. QED
      BY <3>1, <3>2
  <2>7. QED
    BY <1>1, <2>1, <2>4, <2>5, <2>6, BatchChanges
<1>5. CASE /\ sender[p].pending = << >> /\ port[p].queue # << >>
           /\ sender' = [sender EXCEPT ![p].pc = "collect",
                                       ![p].batch = <<Head(port[p].queue)>>]
           /\ port' = [port EXCEPT ![p].queue = Tail(@)]
  <2> DEFINE s == [sender[p] EXCEPT !.pc = "collect", !.batch = <<Head(port[p].queue)>>]
             o == [port[p] EXCEPT !.queue = Tail(port[p].queue)]
  <2>1. /\ port[p].queue = <<Head(port[p].queue)>> \o Tail(port[p].queue)
        /\ <<Head(port[p].queue)>> \in Seq(Nat) /\ Tail(port[p].queue) \in Seq(Nat)
    BY <1>2, <1>5, HeadThenTail
  <2>2. /\ s \in SenderType /\ s.pc = "collect" /\ s.pending = << >>
        /\ s.batch = <<Head(port[p].queue)>>
    BY <1>1, <1>5, <2>1 DEF SenderType
  <2>3. o \in PortType /\ o.accepted = port[p].accepted /\ o.queue = Tail(port[p].queue)
    BY <1>1, <2>1 DEF PortType
  <2>4. sender' = [sender EXCEPT ![p] = s] /\ port' = [port EXCEPT ![p] = o]
    BY <1>1, <1>5
  <2> HIDE DEF s, o
  <2>5. s.batch \o s.pending \o o.queue = Backlog(p)
    <3>1. s.batch \o s.pending \o o.queue = port[p].queue
      BY <1>2, <2>1, <2>2, <2>3, Joined
    <3>2. Backlog(p) = port[p].queue
      BY <1>2, <1>3, <1>5, ConcatEmptySeq
    <3>3. QED
      BY <3>1, <3>2
  <2>6. Len(s.batch) = 1 /\ 1 \in 1 .. BatchMax
    BY <2>2, RelayLoopsAssumption
  <2>7. Len(s.pending) <= 1 /\ Len(s.batch) \in 1 .. BatchMax
    BY <1>2, <2>2, <2>6
  <2>8. QED
    BY <1>1, <2>2, <2>3, <2>4, <2>5, <2>7, BatchChanges
<1>6. QED
  BY <1>4, <1>5 DEF TakeFirst

(* Another packet joins the batch, or waits to begin the next.              *)
LEMMA CollectKeeps ==
  ASSUME LoopsInv, NEW p \in Peers, Collect(p),
         UNCHANGED <<tun, wire, arriving, writer, written>>
  PROVE  LoopsInv' /\ \A q \in Peers : QueueMoves(q)
<1>1. /\ sender \in [Peers -> SenderType] /\ port \in [Peers -> PortType] /\ Outbound(p)
      /\ sender[p] \in SenderType /\ port[p] \in PortType /\ sent' = sent
  BY DEF LoopsInv, LoopsType, Collect
<1> DEFINE h == Head(port[p].queue)
           o == [port[p] EXCEPT !.queue = Tail(port[p].queue)]
<1>2. /\ port[p].queue = <<h>> \o Tail(port[p].queue) /\ h \in Nat
      /\ <<h>> \in Seq(Nat) /\ Tail(port[p].queue) \in Seq(Nat)
  BY <1>1, HeadThenTail DEF Collect, PortType
<1>3. o \in PortType /\ o.accepted = port[p].accepted /\ o.queue = Tail(port[p].queue)
  BY <1>1, <1>2 DEF PortType
<1>4. port' = [port EXCEPT ![p] = o]
  BY <1>1 DEF Collect
<1>5. /\ sender[p].pc = "collect" /\ sender[p].pending = << >> /\ sender[p].batch \in Seq(Nat)
      /\ Len(sender[p].batch) \in 1 .. BatchMax
      /\ Backlog(p) = sender[p].batch \o port[p].queue
  BY <1>1, BacklogIs DEF Collect, Outbound, SenderType
<1> HIDE DEF o
<1>6. CASE /\ Len(sender[p].batch) < BatchMax
           /\ sender' = [sender EXCEPT ![p].batch = Append(@, h)]
  <2> DEFINE b == Append(sender[p].batch, h)
             s == [sender[p] EXCEPT !.batch = b]
  <2>1. /\ b \in Seq(Nat) /\ Len(b) = Len(sender[p].batch) + 1
        /\ b \o Tail(port[p].queue) = sender[p].batch \o port[p].queue
    <3>1. port[p].queue \in Seq(Nat) /\ port[p].queue # << >>
      BY <1>1 DEF Collect, PortType
    <3>2. Len(b) = Len(sender[p].batch) + 1
      BY <1>2, <1>5, AppendProperties
    <3>3. QED
      BY <1>5, <3>1, <3>2, FirstMoves
  <2>2. /\ s \in SenderType /\ s.pc = "collect" /\ s.pending = << >> /\ s.batch = b
    BY <1>1, <1>5, <2>1 DEF SenderType
  <2>3. sender' = [sender EXCEPT ![p] = s]
    BY <1>1, <1>6
  <2> HIDE DEF s, b
  <2>4. s.batch \o s.pending \o o.queue = Backlog(p)
    <3>1. << >> \in Seq(Nat)
      BY EmptySeq
    <3>2. b \o << >> \o Tail(port[p].queue) = b \o Tail(port[p].queue)
      BY <1>2, <2>1, <3>1, Joined
    <3>3. QED
      BY <1>3, <1>5, <2>1, <2>2, <3>2
  <2>5. Len(s.batch) \in 1 .. BatchMax /\ Len(s.pending) <= 1
    <3>1. Len(<< >>) = 0
      BY EmptySeq
    <3>2. PICK n \in 1 .. BatchMax : n = Len(sender[p].batch)
      BY <1>5
    <3>3. n < BatchMax
      BY <1>6, <3>2
    <3>4. n + 1 \in 1 .. BatchMax
      <4>1. BatchMax \in Nat
        BY RelayLoopsAssumption
      <4>2. QED
        BY ONLY <4>1, <3>3, n \in 1 .. BatchMax
    <3>5. Len(s.batch) = n + 1 /\ Len(s.pending) = 0
      BY <2>1, <2>2, <3>1, <3>2
    <3>6. QED
      BY <3>4, <3>5
  <2>6. QED
    BY <1>1, <1>3, <1>4, <2>2, <2>3, <2>4, <2>5, BatchChanges
<1>7. CASE sender' = [sender EXCEPT ![p].pending = <<h>>, ![p].pc = "send"]
  <2> DEFINE s == [sender[p] EXCEPT !.pending = <<h>>, !.pc = "send"]
  <2>1. /\ s \in SenderType /\ s.pc = "send" /\ s.pending = <<h>>
        /\ s.batch = sender[p].batch /\ Len(<<h>>) = 1
    BY <1>1, <1>2 DEF SenderType
  <2>2. sender' = [sender EXCEPT ![p] = s]
    BY <1>1, <1>7
  <2> HIDE DEF s
  <2>3. s.batch \o s.pending \o o.queue = Backlog(p)
    <3>1. sender[p].batch \o <<h>> \o Tail(port[p].queue)
            = sender[p].batch \o (<<h>> \o Tail(port[p].queue))
      BY <1>2, <1>5, Joined
    <3>2. QED
      BY <1>2, <1>3, <1>5, <2>1, <3>1
  <2>4. Len(s.pending) <= 1 /\ Len(s.batch) \in 1 .. BatchMax
    BY <1>5, <2>1
  <2>5. QED
    BY <1>1, <1>3, <1>4, <2>1, <2>2, <2>3, <2>4, BatchChanges
<1>8. QED
  BY <1>6, <1>7 DEF Collect

(* Send takes the whole batch, the oldest packets of the backlog.           *)
LEMMA SendKeeps ==
  ASSUME LoopsInv, NEW p \in Peers, Send(p),
         UNCHANGED <<tun, wire, arriving, writer, written>>
  PROVE  LoopsInv' /\ \A q \in Peers : QueueMoves(q)
<1>1. /\ sender \in [Peers -> SenderType] /\ port \in [Peers -> PortType] /\ Outbound(p)
      /\ sender[p] \in SenderType /\ port[p] \in PortType
      /\ sent \in [Peers -> Seq(Nat)] /\ sent[p] \in Seq(Nat)
  BY DEF LoopsInv, LoopsType
<1> DEFINE b == sender[p].batch
           rest == sender[p].pending \o port[p].queue
           s == [sender[p] EXCEPT !.pc = "take", !.batch = << >>]
           t == sent[p] \o b
<1>2. /\ b \in Seq(Nat) /\ rest \in Seq(Nat) /\ t \in Seq(Nat)
      /\ Len(t) = Len(sent[p]) + Len(b) /\ << >> \in Seq(Nat)
  BY <1>1, ConcatProperties, EmptySeq DEF SenderType, PortType
<1>3. /\ s \in SenderType /\ s.pc = "take" /\ s.batch = << >>
      /\ s.pending = sender[p].pending
  BY <1>1, <1>2 DEF SenderType
<1>4. PICK o \in PortType :
        /\ port' = [port EXCEPT ![p] = o]
        /\ o.queue = port[p].queue /\ o.accepted = port[p].accepted
  <2>1. PICK n \in Nat : n = port[p].unacked + 1
    BY <1>1 DEF PortType
  <2>2. port' = [port EXCEPT ![p] = [port[p] EXCEPT !.unacked = n]]
    BY <1>1, <2>1 DEF Send
  <2> DEFINE o == [port[p] EXCEPT !.unacked = n]
  <2>3. /\ o \in PortType /\ port' = [port EXCEPT ![p] = o]
        /\ o.queue = port[p].queue /\ o.accepted = port[p].accepted
    BY <1>1, <2>2 DEF PortType
  <2>4. QED
    BY <2>3
<1>5. sender' = [sender EXCEPT ![p] = s] /\ sent' = [sent EXCEPT ![p] = t]
  BY <1>1 DEF Send
<1>6. sender'[p] = s /\ port'[p] = o /\ sent'[p] = t
  BY <1>1, <1>4, <1>5
<1>7. Backlog(p) = b \o rest
  BY <1>1, BacklogIs
<1>8. Backlog(p)' = rest
  <2>1. sender[p].pending \in Seq(Nat)
    BY <1>1 DEF SenderType
  <2>2. << >> \o sender[p].pending = sender[p].pending
    BY <2>1, ConcatEmptySeq
  <2>3. QED
    BY <1>3, <1>4, <1>6, <2>2 DEF Backlog
<1>9. Len(b) \in 1 .. BatchMax
  BY <1>1 DEF Send, Outbound
<1> HIDE DEF s, rest, b, t
<1>10. PICK n \in Nat, r \in Nat, f \in Nat : n = Len(b) /\ r = Len(rest) /\ f = Len(sent[p])
  BY <1>1, <1>2, LenProperties
<1>11. Len(Backlog(p)) = n + r
  BY <1>2, <1>7, <1>10, ConcatProperties
<1>12. Outbound(p)'
  <2>1. port[p].accepted = f + (n + r)
    BY <1>1, <1>10, <1>11 DEF Outbound
  <2>2. Len(sent'[p]) = f + n /\ Len(Backlog(p)') = r
    BY <1>2, <1>6, <1>8, <1>10
  <2>3. port'[p].accepted = Len(sent'[p]) + Len(Backlog(p)')
    <3>1. port'[p].accepted = f + (n + r)
      BY <1>4, <1>6, <2>1
    <3>2. f + (n + r) = (f + n) + r
      OBVIOUS
    <3>3. QED
      BY <2>2, <3>1, <3>2
  <2>4. Len(sender[p].pending) <= 1
    BY <1>1 DEF Outbound
  <2>5. QED
    BY <1>3, <1>6, <2>3, <2>4 DEF Outbound
<1>13. Queue(p)!Frame
  <2>1. /\ SubSeq(Backlog(p), 1, Len(b)) = b
        /\ SubSeq(Backlog(p), Len(b) + 1, Len(Backlog(p))) = rest
    BY <1>2, <1>7, SplitConcat
  <2>2. Len(b) <= Len(Backlog(p))
    BY <1>10, <1>11
  <2>3. sent'[p] = sent[p] \o b
    BY <1>6 DEF t
  <2>4. QED
    BY <1>8, <1>9, <2>1, <2>2, <2>3 DEF Queue!Frame
<1>14. QueueMoves(p)
  BY <1>13 DEF QueueMoves, Queue!Next
<1>15. QED
  BY <1>2, <1>3, <1>4, <1>5, <1>12, <1>14, SenderChanges

LEMMA SendFailsKeeps ==
  ASSUME LoopsInv, NEW p \in Peers, SendFails(p),
         UNCHANGED <<tun, wire, arriving, writer, written>>
  PROVE  LoopsInv' /\ \A q \in Peers : QueueMoves(q)
<1>1. /\ sender \in [Peers -> SenderType] /\ Outbound(p) /\ sender[p] \in SenderType
      /\ sent' = sent
  BY DEF LoopsInv, LoopsType, SendFails
<1> DEFINE s == [sender[p] EXCEPT !.pc = "ended"]
<1>2. /\ s \in SenderType /\ s.pc = "ended"
      /\ s.batch = sender[p].batch /\ s.pending = sender[p].pending
  BY <1>1 DEF SenderType
<1>3. sender' = [sender EXCEPT ![p] = s] /\ port' = [port EXCEPT ![p] = Closed(p)]
  BY <1>1 DEF SendFails, SenderGoto, Close
<1> HIDE DEF s
<1>4. /\ Closed(p) \in PortType /\ Closed(p).queue = port[p].queue
      /\ Closed(p).accepted = port[p].accepted
  BY ClosedType
<1>5. s.batch \o s.pending \o Closed(p).queue = Backlog(p) /\ Len(s.pending) <= 1
  BY <1>1, <1>2, <1>4 DEF Backlog, Outbound
<1>6. QED
  BY <1>1, <1>2, <1>3, <1>4, <1>5, BatchChanges

LEMMA SenderKeeps ==
  ASSUME LoopsInv, NEW p \in Peers, SenderStep(p) \/ SenderFails(p)
  PROVE  LoopsInv' /\ \A q \in Peers : QueueMoves(q)
<1>1. UNCHANGED <<tun, wire, arriving, writer, written>>
  BY DEF SenderStep, SenderFails, outVars, inVars
<1>2. CASE SenderDone(p) \/ BatchCloses(p)
  BY <1>1, <1>2, SenderDoneKeeps
<1>3. CASE TakeFirst(p)
  BY <1>1, <1>3, TakeFirstKeeps
<1>4. CASE Collect(p)
  BY <1>1, <1>4, CollectKeeps
<1>5. CASE Send(p)
  BY <1>1, <1>5, SendKeeps
<1>6. CASE SendFails(p)
  BY <1>1, <1>6, SendFailsKeeps
<1>7. QED
  BY <1>2, <1>3, <1>4, <1>5, <1>6 DEF SenderStep, SenderFails

-----------------------------------------------------------------------------
(* readRelayLoop                                                            *)

(* What a step of one peer's loop, or of its sender, has to keep.           *)
LEMMA WriterChanges ==
  ASSUME LoopsInv, NEW p \in Peers, NEW w \in WriterType, NEW t \in Seq(Nat),
         NEW n \in Nat, NEW x \in Seq(FrameType), UNCHANGED <<tun, sender, sent>>,
         writer' = [writer EXCEPT ![p] = w], written' = [written EXCEPT ![p] = t],
         wire' = [wire EXCEPT ![p] = x], arriving' = [arriving EXCEPT ![p] = n],
         port' \in [Peers -> PortType],
         \A q \in Peers :
           port'[q].queue = port[q].queue /\ port'[q].accepted = port[q].accepted,
         Inbound(p)'
  PROVE  LoopsInv' /\ \A q \in Peers : QueueMoves(q)
<1>1. LoopsType'
  BY DEF LoopsInv, LoopsType
<1>2. \A q \in Peers \ {p} : /\ writer'[q] = writer[q] /\ written'[q] = written[q]
                           /\ wire'[q] = wire[q] /\ arriving'[q] = arriving[q]
  BY DEF LoopsInv, LoopsType
<1>3. \A q \in Peers : Inbound(q)'
  BY <1>2, InboundKept DEF LoopsInv
<1>4. \A q \in Peers : Outbound(q)' /\ QueueMoves(q)
  BY OutboundKept DEF LoopsInv
<1>5. QED
  BY <1>1, <1>3, <1>4 DEF LoopsInv

(* The loop ends: nothing more is written.                                  *)
LEMMA WriterEnds ==
  ASSUME LoopsInv, NEW p \in Peers,
         UNCHANGED <<tun, sender, sent, wire, arriving, written>>,
         writer' = [writer EXCEPT ![p].pc = "ended"], port' = port \/ Close(p)
  PROVE  LoopsInv' /\ \A q \in Peers : QueueMoves(q)
<1>1. LoopsType /\ Inbound(p)
  BY DEF LoopsInv
<1> DEFINE w == [writer[p] EXCEPT !.pc = "ended"]
<1>2. w \in WriterType /\ w.pc = "ended" /\ writer' = [writer EXCEPT ![p] = w]
  BY <1>1 DEF LoopsType, WriterType
<1> HIDE DEF w
<1>3. writer'[p] = w
  BY <1>1, <1>2 DEF LoopsType
<1>4. Inbound(p)'
  BY <1>1, <1>2, <1>3 DEF Inbound
<1>5. /\ port' \in [Peers -> PortType]
      /\ \A q \in Peers :
           port'[q].queue = port[q].queue /\ port'[q].accepted = port[q].accepted
  BY <1>1, CloseType DEF LoopsType
<1>6. /\ written' = [written EXCEPT ![p] = written[p]] /\ written[p] \in Seq(Nat)
      /\ wire' = [wire EXCEPT ![p] = wire[p]] /\ wire[p] \in Seq(FrameType)
      /\ arriving' = [arriving EXCEPT ![p] = arriving[p]] /\ arriving[p] \in Nat
  BY <1>1 DEF LoopsType
<1>7. QED
  BY <1>2, <1>4, <1>5, <1>6, WriterChanges

(* The oldest frame continues what was written.                             *)
LEMMA ReceiveKeeps ==
  ASSUME LoopsInv, NEW p \in Peers, Receive(p), UNCHANGED <<tun, sender, sent>>
  PROVE  LoopsInv' /\ \A q \in Peers : QueueMoves(q)
<1>1. LoopsType /\ Inbound(p)
  BY DEF LoopsInv
<1>2. /\ wire[p] \in Seq(FrameType) /\ wire[p] # << >> /\ written[p] \in Seq(Nat)
      /\ arriving[p] \in Nat
  BY <1>1 DEF LoopsType, Receive
<1> DEFINE f == Head(wire[p])
           x == Tail(wire[p])
           w == [pc |-> "lock", left |-> f.packets, cut |-> f.cut]
<1>3. PICK m \in Nat : m + 1 = Len(wire[p])
  <2>1. Len(wire[p]) \in Nat \ {0}
    BY <1>2, EmptySeq
  <2>2. PICK n \in Nat \ {0} : n = Len(wire[p])
    BY <2>1
  <2>3. n - 1 \in Nat /\ (n - 1) + 1 = n
    OBVIOUS
  <2>4. QED
    BY <2>2, <2>3
<1>4. /\ f \in FrameType /\ f = wire[p][1]
      /\ x \in Seq(FrameType) /\ Len(x) = m
      /\ \A k \in 1 .. m : x[k] = wire[p][k + 1]
  BY <1>2, <1>3, HeadTailProperties
<1>5. /\ w \in WriterType /\ w.pc = "lock" /\ w.left = f.packets
      /\ f.packets \in Seq(Nat)
  BY <1>4 DEF WriterType, FrameType
<1>6. /\ writer' = [writer EXCEPT ![p] = w] /\ wire' = [wire EXCEPT ![p] = x]
      /\ UNCHANGED <<port, arriving, written>>
  BY DEF Receive
<1>7. /\ writer'[p] = w /\ wire'[p] = x /\ written'[p] = written[p]
      /\ arriving'[p] = arriving[p]
  BY <1>1, <1>6 DEF LoopsType
<1> HIDE DEF f, x, w
<1>8. PICK start \in [0 .. m + 1 -> Nat] : Chained(p, start)
  BY <1>1, <1>3 DEF Inbound, Receive
<1>9. PICK l \in Nat : l = Len(written[p])
  BY <1>2, LenProperties
<1>10. writer[p].left = << >> /\ Len(writer[p].left) = 0
  BY <1>1, EmptySeq DEF Inbound, Receive
<1>11. start[0] = l
  BY <1>8, <1>9, <1>10 DEF Chained
<1>12. /\ start[1] = start[0] + Len(f.packets) /\ InSequence(f.packets, start[0])
       /\ start[m + 1] = arriving[p]
       /\ \A k \in 1 .. m : /\ start[k + 1] = start[k] + Len(x[k].packets)
                          /\ InSequence(x[k].packets, start[k])
  <2>1. /\ start[m + 1] = arriving[p]
        /\ \A k \in 1 .. m + 1 :
             /\ start[k] = start[k - 1] + Len(wire[p][k].packets)
             /\ InSequence(wire[p][k].packets, start[k - 1])
    BY <1>3, <1>8 DEF Chained
  <2>2. 1 \in 1 .. m + 1 /\ 1 - 1 = 0
    OBVIOUS
  <2>3. \A k \in 1 .. m : k + 1 \in 1 .. m + 1 /\ (k + 1) - 1 = k
    OBVIOUS
  <2>4. start[1] = start[0] + Len(f.packets) /\ InSequence(f.packets, start[0])
    BY <1>4, <2>1, <2>2
  <2>5. ASSUME NEW k \in 1 .. m
        PROVE  /\ start[k + 1] = start[k] + Len(x[k].packets)
               /\ InSequence(x[k].packets, start[k])
    BY <1>4, <2>1, <2>3
  <2>6. QED
    BY <2>1, <2>4, <2>5
<1> DEFINE rest == [k \in 0 .. m |-> start[k + 1]]
<1>13. rest \in [0 .. m -> Nat]
  OBVIOUS
<1>14. /\ rest[0] = l + Len(w.left) /\ rest[m] = arriving[p]
       /\ \A k \in 1 .. m : /\ rest[k] = rest[k - 1] + Len(x[k].packets)
                          /\ InSequence(x[k].packets, rest[k - 1])
  <2>1. rest[0] = start[1] /\ rest[m] = start[m + 1]
    OBVIOUS
  <2>2. \A k \in 1 .. m : rest[k] = start[k + 1] /\ rest[k - 1] = start[k]
    OBVIOUS
  <2> HIDE DEF rest
  <2>3. rest[0] = l + Len(w.left) /\ rest[m] = arriving[p]
    BY <1>5, <1>11, <1>12, <2>1
  <2>4. QED
    BY <1>12, <2>2, <2>3
<1> HIDE DEF rest
<1>15. Chained(p, rest)'
  BY <1>4, <1>7, <1>9, <1>14 DEF Chained
<1>16. InSequence(w.left, l)
  BY <1>5, <1>11, <1>12
<1>17. Inbound(p)'
  BY <1>1, <1>4, <1>5, <1>7, <1>9, <1>13, <1>15, <1>16 DEF Inbound
<1>18. written' = [written EXCEPT ![p] = written[p]]
       /\ arriving' = [arriving EXCEPT ![p] = arriving[p]] /\ port' \in [Peers -> PortType]
  BY <1>1, <1>6 DEF LoopsType
<1>19. QED
  BY <1>2, <1>4, <1>5, <1>6, <1>17, <1>18, WriterChanges

(* The loop waits for the lock, or is done with a frame.                    *)
LEMMA WriterGoesOn ==
  ASSUME LoopsInv, NEW p \in Peers, NEW step \in {"write", "receive"},
         writer[p].pc = "lock", step = "write" <=> writer[p].left # << >>,
         UNCHANGED <<tun, sender, sent, port, wire, arriving, written>>,
         writer' = [writer EXCEPT ![p].pc = step]
  PROVE  LoopsInv' /\ \A q \in Peers : QueueMoves(q)
<1>1. LoopsType /\ Inbound(p)
  BY DEF LoopsInv
<1> DEFINE w == [writer[p] EXCEPT !.pc = step]
<1>2. /\ w \in WriterType /\ w.pc = step /\ w.left = writer[p].left
      /\ writer' = [writer EXCEPT ![p] = w]
  BY <1>1 DEF LoopsType, WriterType
<1> HIDE DEF w
<1>3. writer'[p] = w
  BY <1>1, <1>2 DEF LoopsType
<1>4. PICK start \in [0 .. Len(wire[p]) -> Nat] : Chained(p, start)
  BY <1>1 DEF Inbound
<1>5. Chained(p, start)'
  BY <1>2, <1>3, <1>4 DEF Chained
<1>6. Inbound(p)'
  BY <1>1, <1>2, <1>3, <1>4, <1>5 DEF Inbound
<1>7. /\ written' = [written EXCEPT ![p] = written[p]] /\ written[p] \in Seq(Nat)
      /\ wire' = [wire EXCEPT ![p] = wire[p]] /\ wire[p] \in Seq(FrameType)
      /\ arriving' = [arriving EXCEPT ![p] = arriving[p]] /\ arriving[p] \in Nat
      /\ port' \in [Peers -> PortType]
  BY <1>1 DEF LoopsType
<1>8. QED
  BY <1>2, <1>6, <1>7, WriterChanges

(* The first packet of what is left of the frame is the next to write.      *)
LEMMA WritePacketKeeps ==
  ASSUME LoopsInv, NEW p \in Peers, WritePacket(p), UNCHANGED <<tun, sender, sent>>
  PROVE  LoopsInv' /\ \A q \in Peers : QueueMoves(q)
<1>1. LoopsType /\ Inbound(p)
  BY DEF LoopsInv
<1>2. /\ writer[p] \in WriterType /\ writer[p].left \in Seq(Nat)
      /\ writer[p].left # << >> /\ written[p] \in Seq(Nat)
  BY <1>1 DEF LoopsType, WriterType, Inbound, WritePacket
<1> DEFINE h == Head(writer[p].left)
           r == Tail(writer[p].left)
           t == Append(written[p], h)
           w == [writer[p] EXCEPT !.pc = "lock", !.left = r]
<1>3. PICK m \in Nat, l \in Nat : m + 1 = Len(writer[p].left) /\ l = Len(written[p])
  <2>1. PICK n \in Nat \ {0} : n = Len(writer[p].left)
    BY <1>2, EmptySeq
  <2>2. n - 1 \in Nat /\ (n - 1) + 1 = n
    OBVIOUS
  <2>3. QED
    BY <1>2, <2>1, <2>2, LenProperties
<1>4. /\ h \in Nat /\ h = writer[p].left[1] /\ r \in Seq(Nat) /\ Len(r) = m
      /\ \A i \in 1 .. m : r[i] = writer[p].left[i + 1]
  <2>1. PICK q \in Seq(Nat) : q = writer[p].left /\ q # << >> /\ Len(q) = m + 1
    BY <1>2, <1>3
  <2>2. /\ Head(q) \in Nat /\ Head(q) = q[1] /\ Tail(q) \in Seq(Nat)
        /\ Len(Tail(q)) = Len(q) - 1
        /\ \A i \in 1 .. Len(q) - 1 : Tail(q)[i] = q[i + 1]
    BY <2>1, HeadTailProperties
  <2>3. Len(q) - 1 = m
    BY <2>1
  <2>4. QED
    BY <2>1, <2>2, <2>3
<1> HIDE DEF h, r
<1>5. /\ t \in Seq(Nat) /\ Len(t) = l + 1 /\ t[l + 1] = h
      /\ \A i \in 1 .. l : t[i] = written[p][i]
  BY <1>2, <1>3, <1>4, AppendProperties
<1>6. /\ w \in WriterType /\ w.pc = "lock" /\ w.left = r
      /\ writer' = [writer EXCEPT ![p] = w] /\ written' = [written EXCEPT ![p] = t]
      /\ UNCHANGED <<port, wire, arriving>>
  BY <1>1, <1>2, <1>4 DEF WritePacket, WriterType, LoopsType, inVars, h, r
<1> HIDE DEF t, w
<1>7. /\ writer'[p] = w /\ written'[p] = t /\ wire'[p] = wire[p]
      /\ arriving'[p] = arriving[p]
  BY <1>1, <1>6 DEF LoopsType
<1>8. \A i \in 1 .. m + 1 : writer[p].left[i] = l + i
  BY <1>1, <1>3 DEF Inbound, InSequence, WritePacket
<1>9. h = l + 1 /\ \A i \in 1 .. m : r[i] = (l + 1) + i
  <2>1. 1 \in 1 .. m + 1 /\ \A i \in 1 .. m : i + 1 \in 1 .. m + 1 /\ l + (i + 1) = (l + 1) + i
    OBVIOUS
  <2>2. QED
    BY <1>4, <1>8, <2>1
<1>10. InSequence(t, 0)
  <2>1. \A i \in 1 .. l : written[p][i] = 0 + i
    BY <1>1, <1>3 DEF Inbound, InSequence
  <2>2. ASSUME NEW i \in 1 .. l + 1
        PROVE  t[i] = 0 + i
    <3>1. i \in 1 .. l \/ i = l + 1
      OBVIOUS
    <3>2. QED
      BY <1>5, <1>9, <2>1, <3>1
  <2>3. QED
    BY <1>5, <2>2 DEF InSequence
<1>11. InSequence(w.left, Len(t))
  BY <1>4, <1>5, <1>6, <1>9 DEF InSequence
<1>12. PICK start \in [0 .. Len(wire[p]) -> Nat] : Chained(p, start)
  BY <1>1 DEF Inbound, WritePacket
<1>13. Chained(p, start)'
  <2>1. start[0] = l + (m + 1)
    BY <1>3, <1>12 DEF Chained
  <2>2. start[0] = Len(t) + Len(w.left)
    <3>1. l + (m + 1) = (l + 1) + m
      OBVIOUS
    <3>2. QED
      BY <1>4, <1>5, <1>6, <2>1, <3>1
  <2>3. QED
    BY <1>7, <1>12, <2>2 DEF Chained
<1>14. Inbound(p)'
  BY <1>6, <1>7, <1>10, <1>11, <1>12, <1>13 DEF Inbound
<1>15. /\ wire' = [wire EXCEPT ![p] = wire[p]] /\ wire[p] \in Seq(FrameType)
       /\ arriving' = [arriving EXCEPT ![p] = arriving[p]] /\ arriving[p] \in Nat
       /\ port' \in [Peers -> PortType]
  BY <1>1, <1>6 DEF LoopsType
<1>16. QED
  BY <1>5, <1>6, <1>14, <1>15, WriterChanges

LEMMA WriterKeeps ==
  ASSUME LoopsInv, NEW p \in Peers, WriterStep(p) \/ WriterFails(p)
  PROVE  LoopsInv' /\ \A q \in Peers : QueueMoves(q)
<1>1. UNCHANGED <<tun, sender, sent>>
  BY DEF WriterStep, WriterFails, outVars
<1>2. CASE Receive(p)
  BY <1>1, <1>2, ReceiveKeeps
<1>3. CASE ReceiveFails(p) \/ WriteFails(p)
  BY <1>1, <1>3, WriterEnds DEF ReceiveFails, WriteFails, inVars
<1>4. CASE LockToWrite(p)
  BY <1>1, <1>4, WriterGoesOn DEF LockToWrite, inVars
<1>5. CASE WritePacket(p)
  BY <1>1, <1>5, WritePacketKeeps
<1>6. CASE FrameEnds(p)
  <2>1. UNCHANGED <<wire, arriving, written>> /\ writer[p].pc = "lock"
        /\ writer[p].left = << >>
    BY <1>6 DEF FrameEnds, inVars
  <2>2. CASE Close(p) /\ writer' = [writer EXCEPT ![p].pc = "ended"]
    BY <1>1, <2>1, <2>2, WriterEnds
  <2>3. CASE UNCHANGED port /\ writer' = [writer EXCEPT ![p].pc = "receive"]
    BY <1>1, <2>1, <2>3, WriterGoesOn
  <2>4. QED
    BY <1>6, <2>2, <2>3 DEF FrameEnds
<1>7. QED
  BY <1>2, <1>3, <1>4, <1>5, <1>6 DEF WriterStep, WriterFails

(* A frame comes after those that wait, and continues them.                 *)
LEMMA FrameArrivesKeeps ==
  ASSUME LoopsInv, NEW p \in Peers, FrameArrives(p)
  PROVE  LoopsInv' /\ \A q \in Peers : QueueMoves(q)
<1>1. LoopsType /\ Inbound(p)
  BY DEF LoopsInv
<1>2. UNCHANGED <<tun, sender, sent, writer, written, port>>
  BY DEF FrameArrives, outside, outVars
<1>3. PICK n \in Nat, cut \in BOOLEAN :
        /\ wire' = [wire EXCEPT ![p] = Append(wire[p],
             [packets |-> [i \in 1 .. n |-> arriving[p] + i], cut |-> cut])]
        /\ arriving' = [arriving EXCEPT ![p] = arriving[p] + n]
  <2>1. PICK n \in 0 .. MaxArriving - SumFunction(arriving), cut \in BOOLEAN :
          /\ wire' = [wire EXCEPT ![p] = Append(wire[p],
               [packets |-> [i \in 1 .. n |-> arriving[p] + i], cut |-> cut])]
          /\ arriving' = [arriving EXCEPT ![p] = arriving[p] + n]
    BY <1>1 DEF FrameArrives, LoopsType
  <2>2. n \in Nat
    OBVIOUS
  <2>3. QED
    BY <2>1, <2>2
<1>4. PICK a \in Nat, m \in Nat, l \in Nat :
        a = arriving[p] /\ m = Len(wire[p]) /\ l = Len(written[p])
  BY <1>1, LenProperties DEF LoopsType
<1> DEFINE f == [packets |-> [i \in 1 .. n |-> arriving[p] + i], cut |-> cut]
           x == Append(wire[p], f)
<1>5. /\ f \in FrameType /\ f.packets \in Seq(Nat) /\ Len(f.packets) = n
      /\ \A i \in 1 .. n : f.packets[i] = a + i
  <2> DEFINE g == [i \in 1 .. n |-> arriving[p] + i]
  <2>1. g \in [1 .. n -> Nat] /\ \A i \in 1 .. n : g[i] = a + i
    BY <1>4
  <2>2. g \in Seq(Nat) /\ Len(g) = n
    <3> HIDE DEF g
    <3>1. QED
      BY <2>1, IsASeq
  <2>3. f.packets = g /\ f.cut = cut
    OBVIOUS
  <2>4. f \in FrameType
    BY <2>2 DEF FrameType
  <2> HIDE DEF f, g
  <2>5. QED
    BY <2>1, <2>2, <2>3, <2>4
<1>6. wire' = [wire EXCEPT ![p] = x] /\ arriving' = [arriving EXCEPT ![p] = a + n]
  BY <1>3, <1>4
<1> HIDE DEF f
<1>7. /\ x \in Seq(FrameType) /\ Len(x) = m + 1 /\ x[m + 1] = f
      /\ \A k \in 1 .. m : x[k] = wire[p][k]
  BY <1>1, <1>4, <1>5, AppendProperties DEF LoopsType
<1> HIDE DEF x
<1>8. wire'[p] = x /\ arriving'[p] = a + n
  BY <1>1, <1>6 DEF LoopsType
<1>9. ASSUME writer[p].pc # "ended"
      PROVE  \E start \in [0 .. m + 1 -> Nat] : Chained(p, start)'
  <2>1. PICK start \in [0 .. m -> Nat] : Chained(p, start)
    BY <1>1, <1>4, <1>9 DEF Inbound
  <2> DEFINE more == [k \in 0 .. m + 1 |-> IF k = m + 1 THEN a + n ELSE start[k]]
  <2>2. more \in [0 .. m + 1 -> Nat]
    OBVIOUS
  <2>3. more[m + 1] = a + n /\ \A k \in 0 .. m : more[k] = start[k]
    OBVIOUS
  <2> HIDE DEF more
  <2>4. start[0] = l + Len(writer[p].left) /\ start[m] = a
        /\ \A k \in 1 .. m : /\ start[k] = start[k - 1] + Len(wire[p][k].packets)
                           /\ InSequence(wire[p][k].packets, start[k - 1])
    BY <1>4, <2>1 DEF Chained
  <2>5. more[0] = l + Len(writer[p].left)
    BY <2>3, <2>4
  <2>6. ASSUME NEW k \in 1 .. m + 1
        PROVE  /\ more[k] = more[k - 1] + Len(x[k].packets)
               /\ InSequence(x[k].packets, more[k - 1])
    <3>1. CASE k = m + 1
      <4>1. more[k - 1] = a /\ more[k] = a + n /\ x[k] = f
        BY <1>7, <2>3, <2>4, <3>1
      <4>2. InSequence(f.packets, a)
        BY <1>5 DEF InSequence
      <4>3. QED
        BY <1>5, <4>1, <4>2
    <3>2. CASE k \in 1 .. m
      <4>1. k \in 0 .. m /\ k - 1 \in 0 .. m
        BY <3>2
      <4>2. more[k - 1] = start[k - 1] /\ more[k] = start[k] /\ x[k] = wire[p][k]
        BY <1>7, <2>3, <3>2, <4>1
      <4>3. QED
        BY <2>4, <3>2, <4>2
    <3>3. QED
      BY <3>1, <3>2
  <2>7. Chained(p, more)'
    BY <1>2, <1>4, <1>7, <1>8, <2>3, <2>5, <2>6 DEF Chained
  <2>8. QED
    BY <2>2, <2>7
<1>10. Inbound(p)'
  BY <1>1, <1>2, <1>7, <1>8, <1>9 DEF Inbound
<1>11. /\ writer' = [writer EXCEPT ![p] = writer[p]] /\ writer[p] \in WriterType
       /\ written' = [written EXCEPT ![p] = written[p]] /\ written[p] \in Seq(Nat)
       /\ port' \in [Peers -> PortType] /\ a + n \in Nat
  BY <1>1, <1>2 DEF LoopsType
<1>12. QED
  BY <1>2, <1>6, <1>7, <1>10, <1>11, WriterChanges

-----------------------------------------------------------------------------
(* The theorems                                                             *)

LEMMA LoopsInit == Init => LoopsInv /\ \A p \in Peers : Queue(p)!Init
<1> SUFFICES ASSUME Init PROVE LoopsInv /\ \A p \in Peers : Queue(p)!Init
  OBVIOUS
<1>1. << >> \in Seq(Nat) /\ << >> \in Seq(FrameType) /\ Len(<< >>) = 0
  BY EmptySeq
<1>2. /\ NewPort \in PortType /\ Receiving \in WriterType
      /\ [pc |-> "take", pending |-> << >>, batch |-> << >>] \in SenderType
  BY <1>1 DEF NewPort, Receiving, PortType, WriterType, SenderType
<1>3. LoopsType
  BY <1>1, <1>2, ReadingType DEF Init, LoopsType
<1>4. ASSUME NEW p \in Peers
      PROVE  /\ sender[p].pc = "take" /\ sender[p].pending = << >> /\ sender[p].batch = << >>
             /\ port[p].queue = << >> /\ port[p].accepted = 0 /\ sent[p] = << >>
             /\ wire[p] = << >> /\ arriving[p] = 0 /\ written[p] = << >>
             /\ writer[p].pc = "receive" /\ writer[p].left = << >>
  BY DEF Init, NewPort, Receiving
<1>5. ASSUME NEW p \in Peers
      PROVE  Backlog(p) = << >> /\ Outbound(p) /\ Queue(p)!Init
  <2>1. Backlog(p) = << >>
    BY <1>1, <1>4, Joined DEF Backlog
  <2>2. Outbound(p)
    BY <1>1, <1>4, <2>1 DEF Outbound
  <2>3. QED
    BY <1>4, <2>1, <2>2 DEF Queue!Init
<1>6. ASSUME NEW p \in Peers
      PROVE  Inbound(p)
  <2> DEFINE start == [k \in 0 .. 0 |-> 0]
  <2>1. start \in [0 .. Len(wire[p]) -> Nat] /\ start[0] = 0
    BY <1>1, <1>4
  <2> HIDE DEF start
  <2>2. Chained(p, start)
    <3>1. Len(wire[p]) = 0 /\ Len(written[p]) = 0 /\ Len(writer[p].left) = 0
      BY <1>1, <1>4
    <3>2. start[Len(wire[p])] = arriving[p]
      BY <1>4, <2>1, <3>1
    <3>3. start[0] = Len(written[p]) + Len(writer[p].left)
      BY <2>1, <3>1
    <3>4. 1 .. Len(wire[p]) = {}
      BY <3>1
    <3>5. QED
      BY <3>2, <3>3, <3>4 DEF Chained
  <2>3. \A n : InSequence(<< >>, n)
    BY <1>1 DEF InSequence
  <2>4. QED
    BY <1>4, <2>1, <2>2, <2>3 DEF Inbound
<1>7. QED
  BY <1>3, <1>5, <1>6 DEF LoopsInv

LEMMA LoopsStep ==
  ASSUME LoopsInv, [Next]_vars
  PROVE  LoopsInv' /\ \A p \in Peers : QueueMoves(p)
<1>1. CASE TUNStep \/ TUNReads
  BY <1>1, TUNKeeps
<1>2. CASE Run
  BY <1>2, RunKeeps
<1>3. CASE Cancel \/ Finished \/ UNCHANGED vars
  <2>1. UNCHANGED <<tun, sender, sent, wire, arriving, writer, written, port>>
    BY <1>3 DEF Cancel, Finished, vars, outVars, inVars
  <2>2. port' \in [Peers -> PortType]
    BY <2>1 DEF LoopsInv, LoopsType
  <2>3. QED
    BY <2>1, <2>2, PortsKeep
<1>4. ASSUME NEW p \in Peers, SenderStep(p) \/ SenderFails(p)
      PROVE  LoopsInv' /\ \A q \in Peers : QueueMoves(q)
  BY <1>4, SenderKeeps
<1>5. ASSUME NEW p \in Peers, WriterStep(p) \/ WriterFails(p)
      PROVE  LoopsInv' /\ \A q \in Peers : QueueMoves(q)
  BY <1>5, WriterKeeps
<1>6. ASSUME NEW p \in Peers, FrameArrives(p)
      PROVE  LoopsInv' /\ \A q \in Peers : QueueMoves(q)
  BY <1>6, FrameArrivesKeeps
<1>7. ASSUME NEW p \in Peers, Acknowledged(p) \/ ConnFails(p) \/ UnregisterPort(p)
      PROVE  LoopsInv' /\ \A q \in Peers : QueueMoves(q)
  BY <1>7, ConnectionsKeep
<1>8. QED
  BY <1>1, <1>2, <1>3, <1>4, <1>5, <1>6, <1>7 DEF Next

(* Every reachable state has it: the packets of a port are those accepted,  *)
(* each in one place, and what the peer has sent is continued, frame after  *)
(* frame, by what is written (writeRelayLoop, readRelayLoop).               *)
THEOREM LoopsInvariant == Spec => []LoopsInv
<1>1. Init => LoopsInv
  BY LoopsInit
<1>2. LoopsInv /\ [Next]_vars => LoopsInv'
  BY LoopsStep
<1>3. QED
  BY <1>1, <1>2, PTL DEF Spec

(* However many peers there are and however their frames, faults and locks  *)
(* interleave, the device is given each peer's packets in the order they    *)
(* were sent and without a gap (readRelayLoop, decodeTunBatch).             *)
THEOREM AlwaysWrittenWithoutGap == Spec => []WrittenWithoutGap
<1>1. LoopsInv => WrittenWithoutGap
  <2> SUFFICES ASSUME LoopsInv, NEW p \in Peers, NEW i \in 1 .. Len(written[p])
               PROVE  written[p][i] = i
    BY DEF WrittenWithoutGap
  <2>1. written[p][i] = 0 + i
    BY DEF LoopsInv, Inbound, InSequence
  <2>2. QED
    BY <2>1
<1>2. QED
  BY <1>1, LoopsInvariant, PTL

(* Each port is a queue: every step of the node is one of its queue or      *)
(* leaves it alone, so that what it has accepted is sent in that order,     *)
(* nothing lost in between, repeated or overtaken (Enqueue, writeRelayLoop).*)
THEOREM PortsStayQueues == Spec => PortsAreQueues
<1>1. Init => \A p \in Peers : Queue(p)!Init
  BY LoopsInit
<1>2. LoopsInv /\ [Next]_vars => \A p \in Peers : QueueMoves(p)
  BY LoopsStep
<1>3. Spec => [][\A p \in Peers : QueueMoves(p)]_vars
  BY <1>2, LoopsInvariant, PTL DEF Spec
<1>4. QED
  BY <1>1, <1>3 DEF Spec, PortsAreQueues, QueueMoves

=============================================================================
