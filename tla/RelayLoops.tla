------------------------------ MODULE RelayLoops ------------------------------
(***************************************************************************)
(* How packets pass through a node over its relay connections              *)
(* (internal/tun/runtime.go): readTUNLoop, which reads the TUN device and   *)
(* picks the outlet of each packet, the queue of each peer's port, and the  *)
(* two loops of the port, one that sends batches and one that writes what   *)
(* arrives to the device, under the lock all writers share.                 *)
(*                                                                         *)
(* Each peer has one port, registered from the start: how ports come and    *)
(* are replaced is in RelayPorts.  A packet is its number among those the   *)
(* port has accepted, or among those the peer has sent.  Whether the next   *)
(* packet still fits into a batch depends on sizes and is left open; the    *)
(* stream takes a packet or not as it pleases, and its handler, which also  *)
(* takes the lock for each packet that it writes, is left out.              *)
(***************************************************************************)
EXTENDS Integers, Sequences, SequencesExt

CONSTANTS Peers,
          Answering,    \* the peers that acknowledge what they are sent
          QueueSize,    \* transport.send_queue_size
          BatchMax,     \* packets in one frame
          Window,       \* frames sent and not acknowledged
          MaxPackets,   \* bound: packets read from the device
          MaxArriving,  \* bound: packets the peers send
          MaxWire,      \* bound: frames that wait to be received
          MaxFaults     \* bound: failures of connections and of the device

ASSUME RelayLoopsAssumption ==
  /\ Answering \subseteq Peers
  /\ QueueSize \in Nat \ {0} /\ BatchMax \in Nat \ {0} /\ Window \in Nat \ {0}
  /\ MaxPackets \in Nat /\ MaxArriving \in Nat /\ MaxWire \in Nat
  /\ MaxFaults \in Nat

VARIABLES
  tun,      \* readTUNLoop: where it stands, the packet's peer, its outlets
  reads,    \* packets read so far
  port,     \* the ports
  sender,   \* writeRelayLoop of each
  sent,     \* the packets each connection was given
  wire,     \* frames of each peer that no one has received
  arriving, \* packets each peer has sent
  writer,   \* readRelayLoop of each
  written,  \* history: the packets of each peer that the device was given
  writeMu,  \* its holder: a peer's loop or nobody
  run,      \* where Run stands
  faults,   \* failures so far
  ctxDone   \* Run's context is cancelled

outVars == <<tun, reads>>
inVars  == <<wire, arriving>>
vars == <<outVars, port, sender, sent, inVars, writer, written, writeMu, run, faults, ctxDone>>

Nobody == "nobody"

NewPort ==
  [conn     |-> "open",   \* or "closed"
   done     |-> FALSE,    \* its done channel is closed
   listed   |-> TRUE,     \* r.ports names it
   queue    |-> << >>,    \* packets are numbered as the device gave them
   accepted |-> 0,        \* history: packets put into the queue
   unacked  |-> 0]        \* frames the SDK waits to be acknowledged

Receiving == [pc |-> "receive", left |-> << >>, cut |-> FALSE]

Reading ==
  [pc |-> "read", peer |-> CHOOSE p \in Peers : TRUE, stream |-> FALSE, port |-> FALSE]

Init ==
  /\ tun = Reading
  /\ reads = 0
  /\ port = [p \in Peers |-> NewPort]
  /\ sender = [p \in Peers |-> [pc |-> "take", pending |-> << >>, batch |-> << >>]]
  /\ sent = [p \in Peers |-> << >>]
  /\ wire = [p \in Peers |-> << >>] /\ arriving = [p \in Peers |-> 0]
  /\ writer = [p \in Peers |-> Receiving] /\ written = [p \in Peers |-> << >>]
  /\ writeMu = Nobody /\ run = "serving" /\ faults = 0 /\ ctxDone = FALSE

Fault == faults < MaxFaults /\ faults' = faults + 1

(* close: closeDone, then Abort of the connection.                          *)
Closed(p) == [port[p] EXCEPT !.done = TRUE, !.conn = "closed"]
Close(p)  == port' = [port EXCEPT ![p] = Closed(p)]

-----------------------------------------------------------------------------
(* readTUNLoop                                                              *)

(* Only the device ends a wait for a packet: Run closes it first.           *)
DeviceClosed == run # "serving"

(* A packet with a route and a valid size; the others go no further.        *)
ReadPacket ==
  /\ tun.pc = "read" /\ ~DeviceClosed /\ reads < MaxPackets
  /\ reads' = reads + 1
  /\ \E p \in Peers : tun' = [tun EXCEPT !.pc = "pick", !.peer = p]
  /\ UNCHANGED port

(* The read fails, or the context is found cancelled before it.             *)
ReadEnds ==
  /\ tun.pc = "read"
  /\ tun' = [tun EXCEPT !.pc = "ended"]
  /\ UNCHANGED <<reads, port>>

(* Under r.mu.                                                              *)
PickOutlets ==
  /\ tun.pc = "pick"
  /\ \E s \in BOOLEAN :
       tun' = [tun EXCEPT !.pc = "offer", !.stream = s, !.port = port[tun.peer].listed]
  /\ UNCHANGED <<reads, port>>

TakenByStream ==
  /\ tun.pc = "offer" /\ tun.stream
  /\ tun' = Reading
  /\ UNCHANGED <<reads, port>>

(* Mutant of Enqueue: a full queue is waited for.                           *)
EnqueueWaiting(p) ==
  /\ Len(port[p].queue) < QueueSize
  /\ port' = [port EXCEPT ![p].queue = Append(@, port[p].accepted + 1),
                          ![p].accepted = @ + 1]

(* The packet is dropped when the queue is full; done is not looked at.     *)
Enqueue(p) ==
  \/ /\ Len(port[p].queue) < QueueSize
     /\ port' = [port EXCEPT ![p].queue = Append(@, port[p].accepted + 1),
                             ![p].accepted = @ + 1]
  \/ Len(port[p].queue) >= QueueSize /\ UNCHANGED port

TakenByRelay ==
  /\ tun.pc = "offer"
  /\ IF tun.port THEN Enqueue(tun.peer) ELSE UNCHANGED port
  /\ tun' = Reading
  /\ UNCHANGED reads

TUNStep ==
  /\ PickOutlets \/ TakenByStream \/ TakenByRelay
  /\ UNCHANGED <<sender, sent, inVars, writer, written, writeMu, run, faults, ctxDone>>

TUNReads ==
  /\ \/ ReadPacket /\ UNCHANGED faults
     \/ ReadEnds /\ Fault
     \/ ctxDone /\ ReadEnds /\ UNCHANGED faults
  /\ UNCHANGED <<sender, sent, inVars, writer, written, writeMu, run, ctxDone>>

-----------------------------------------------------------------------------
(* writeRelayLoop                                                           *)

SenderGoto(p, step) == sender' = [sender EXCEPT ![p].pc = step]

(* Mutant of SenderDone: the first select waits for a packet alone.         *)
SenderDoneCollecting(p) ==
  /\ sender[p].pc = "collect" /\ port[p].done
  /\ SenderGoto(p, "ended")
  /\ UNCHANGED <<port, sent>>

(* Both selects look at done; what the batch holds is dropped.              *)
SenderDone(p) ==
  /\ \/ sender[p].pc = "take" /\ sender[p].pending = << >>
     \/ sender[p].pc = "collect"
  /\ port[p].done
  /\ SenderGoto(p, "ended")
  /\ UNCHANGED <<port, sent>>

(* The first packet of a batch: the one left over, else the queue's.        *)
TakeFirst(p) ==
  /\ sender[p].pc = "take"
  /\ \/ /\ sender[p].pending # << >>
        /\ sender' = [sender EXCEPT ![p] =
             [pc |-> "collect", pending |-> << >>, batch |-> @.pending]]
        /\ UNCHANGED port
     \/ /\ sender[p].pending = << >> /\ port[p].queue # << >>
        /\ sender' = [sender EXCEPT ![p].pc = "collect",
                                    ![p].batch = <<Head(port[p].queue)>>]
        /\ port' = [port EXCEPT ![p].queue = Tail(@)]
  /\ UNCHANGED sent

CollectForgets(p) ==
  /\ sender[p].pc = "collect" /\ port[p].queue # << >>
  /\ port' = [port EXCEPT ![p].queue = Tail(@)]
  /\ \/ /\ Len(sender[p].batch) < BatchMax
        /\ sender' = [sender EXCEPT ![p].batch = Append(@, Head(port[p].queue))]
     \/ SenderGoto(p, "send")
  /\ UNCHANGED sent

(* Another one joins it, or does not fit and is kept for the next.          *)
Collect(p) ==
  /\ sender[p].pc = "collect" /\ port[p].queue # << >>
  /\ port' = [port EXCEPT ![p].queue = Tail(@)]
  /\ \/ /\ Len(sender[p].batch) < BatchMax
        /\ sender' = [sender EXCEPT ![p].batch = Append(@, Head(port[p].queue))]
     \/ sender' = [sender EXCEPT ![p].pending = <<Head(port[p].queue)>>,
                                 ![p].pc = "send"]
  /\ UNCHANGED sent

(* Mutant of BatchCloses: only a full batch is sent.                        *)
BatchClosesFull(p) ==
  /\ sender[p].pc = "collect" /\ Len(sender[p].batch) = BatchMax
  /\ SenderGoto(p, "send")
  /\ UNCHANGED <<port, sent>>

(* The batch is full, or its millisecond is over.                           *)
BatchCloses(p) ==
  /\ sender[p].pc = "collect"
  /\ SenderGoto(p, "send")
  /\ UNCHANGED <<port, sent>>

(* Send waits for room in the window.                                       *)
Send(p) ==
  /\ sender[p].pc = "send" /\ port[p].conn = "open" /\ port[p].unacked < Window
  /\ sent' = [sent EXCEPT ![p] = @ \o sender[p].batch]
  /\ port' = [port EXCEPT ![p].unacked = @ + 1]
  /\ sender' = [sender EXCEPT ![p].pc = "take", ![p].batch = << >>]

SendFails(p) ==
  /\ sender[p].pc = "send" /\ Close(p)
  /\ SenderGoto(p, "ended")
  /\ UNCHANGED sent

SenderStep(p) ==
  /\ SenderDone(p) \/ TakeFirst(p) \/ Collect(p) \/ BatchCloses(p) \/ Send(p)
     \/ (port[p].conn = "closed" /\ SendFails(p))
  /\ UNCHANGED <<outVars, inVars, writer, written, writeMu, run, faults, ctxDone>>

SenderFails(p) ==
  /\ Fault /\ port[p].conn = "open" /\ SendFails(p)
  /\ UNCHANGED <<outVars, inVars, writer, written, writeMu, run, ctxDone>>

-----------------------------------------------------------------------------
(* readRelayLoop                                                            *)

(* A timeout of ReceiveTimeout changes nothing.                             *)
Receive(p) ==
  /\ writer[p].pc = "receive" /\ wire[p] # << >>
  /\ LET f == Head(wire[p])
     IN  writer' = [writer EXCEPT ![p] = [pc |-> "lock", left |-> f.packets, cut |-> f.cut]]
  /\ wire' = [wire EXCEPT ![p] = Tail(@)]
  /\ UNCHANGED <<port, arriving, written, writeMu>>

ReceiveFails(p) ==
  /\ writer[p].pc = "receive" /\ port[p].conn = "closed"
  /\ Close(p)
  /\ writer' = [writer EXCEPT ![p].pc = "ended"]
  /\ UNCHANGED <<inVars, written, writeMu>>

LockToWrite(p) ==
  /\ writer[p].pc = "lock" /\ writer[p].left # << >> /\ writeMu = Nobody
  /\ writeMu' = p
  /\ writer' = [writer EXCEPT ![p].pc = "write"]
  /\ UNCHANGED <<port, inVars, written>>

WritePacket(p) ==
  /\ writer[p].pc = "write" /\ ~DeviceClosed
  /\ written' = [written EXCEPT ![p] = Append(@, Head(writer[p].left))]
  /\ writeMu' = Nobody
  /\ writer' = [writer EXCEPT ![p].pc = "lock", ![p].left = Tail(@)]
  /\ UNCHANGED <<port, inVars>>

(* Mutants of WriteFails: the packet is skipped; the lock is kept.          *)
WriteFailsSkipping(p) ==
  /\ writer[p].pc = "write"
  /\ writeMu' = Nobody
  /\ writer' = [writer EXCEPT ![p].pc = "lock", ![p].left = Tail(@)]
  /\ UNCHANGED <<port, inVars, written>>

WriteFailsLocked(p) ==
  /\ writer[p].pc = "write"
  /\ Close(p)
  /\ writer' = [writer EXCEPT ![p].pc = "ended"]
  /\ UNCHANGED <<inVars, written, writeMu>>

WriteFails(p) ==
  /\ writer[p].pc = "write"
  /\ writeMu' = Nobody /\ Close(p)
  /\ writer' = [writer EXCEPT ![p].pc = "ended"]
  /\ UNCHANGED <<inVars, written>>

(* The frame is used up; one that is cut short is an error then, when its   *)
(* whole packets have been written.                                         *)
FrameEnds(p) ==
  /\ writer[p].pc = "lock" /\ writer[p].left = << >>
  /\ \/ /\ writer[p].cut /\ Close(p)
        /\ writer' = [writer EXCEPT ![p].pc = "ended"]
     \/ /\ ~writer[p].cut
        /\ writer' = [writer EXCEPT ![p].pc = "receive"]
        /\ UNCHANGED port
  /\ UNCHANGED <<inVars, written, writeMu>>

WriterStep(p) ==
  /\ Receive(p) \/ ReceiveFails(p) \/ LockToWrite(p) \/ WritePacket(p)
     \/ FrameEnds(p) \/ (DeviceClosed /\ WriteFails(p))
  /\ UNCHANGED <<outVars, sender, sent, run, faults, ctxDone>>

WriterFails(p) ==
  /\ Fault /\ WriteFails(p)
  /\ UNCHANGED <<outVars, sender, sent, run, ctxDone>>

-----------------------------------------------------------------------------
(* The connections and Run                                                   *)

outside == <<outVars, sender, sent, writer, written, run, ctxDone>>

FrameArrives(p) ==
  /\ port[p].conn = "open" /\ Len(wire[p]) < MaxWire
  /\ \E n \in 0 .. MaxArriving - SumFunction(arriving), cut \in BOOLEAN :
       /\ n = 0 => cut
       /\ wire' = [wire EXCEPT ![p] = Append(@,
            [packets |-> [i \in 1 .. n |-> arriving[p] + i], cut |-> cut])]
       /\ arriving' = [arriving EXCEPT ![p] = @ + n]
  /\ UNCHANGED <<port, writeMu, faults, outside>>

Acknowledged(p) ==
  /\ port[p].unacked > 0 /\ port[p].conn = "open"
  /\ port' = [port EXCEPT ![p].unacked = @ - 1]
  /\ UNCHANGED <<inVars, writeMu, faults, outside>>

ConnFails(p) ==
  /\ Fault /\ port[p].conn = "open"
  /\ port' = [port EXCEPT ![p].conn = "closed"]
  /\ UNCHANGED <<inVars, writeMu, outside>>

(* unregisterPort, run by the OnClose callback.                             *)
UnregisterPort(p) ==
  /\ port[p].conn = "closed" /\ port[p].listed
  /\ port' = [port EXCEPT ![p].listed = FALSE, ![p].done = TRUE]
  /\ UNCHANGED <<inVars, writeMu, faults, outside>>

RunStops ==
  /\ run = "serving" /\ ctxDone
  /\ run' = "closePorts"
  /\ UNCHANGED port

RunClosesPorts ==
  /\ run = "closePorts"
  /\ run' = "wait"
  /\ port' = [p \in Peers |-> IF port[p].listed THEN Closed(p) ELSE port[p]]

(* wg.Wait: the relay loops are not waited for.                             *)
RunWaits ==
  /\ run = "wait" /\ tun.pc = "ended"
  /\ run' = "returned"
  /\ UNCHANGED port

Run ==
  /\ RunStops \/ RunClosesPorts \/ RunWaits
  /\ UNCHANGED <<outVars, sender, sent, inVars, writer, written, writeMu, faults, ctxDone>>

Cancel ==
  /\ ~ctxDone /\ ctxDone' = TRUE
  /\ UNCHANGED <<outVars, port, sender, sent, inVars, writer, written, writeMu, run, faults>>

Finished ==
  /\ run = "returned" /\ writeMu = Nobody
  /\ \A p \in Peers : sender[p].pc = "ended" /\ writer[p].pc = "ended"
  /\ UNCHANGED vars

Next ==
  \/ TUNStep \/ TUNReads \/ Run \/ Cancel \/ Finished
  \/ \E p \in Peers :
       \/ SenderStep(p) \/ SenderFails(p) \/ WriterStep(p) \/ WriterFails(p)
       \/ FrameArrives(p) \/ Acknowledged(p) \/ ConnFails(p) \/ UnregisterPort(p)

Spec == Init /\ [][Next]_vars

(* Every goroutine goes on while it can, and gets writeMu in the end; the   *)
(* SDK runs its callbacks; a read of the closed device fails; the answering *)
(* peers acknowledge.                                                       *)
Fairness ==
  /\ WF_vars(TUNStep) /\ WF_vars(Run)
  /\ WF_vars(DeviceClosed /\ ctxDone /\ TUNReads)
  /\ \A p \in Peers :
       /\ WF_vars(SenderStep(p)) /\ SF_vars(WriterStep(p)) /\ WF_vars(UnregisterPort(p))
  /\ \A p \in Answering : WF_vars(Acknowledged(p))

FairSpec == Spec /\ Fairness

-----------------------------------------------------------------------------
(* Properties                                                               *)

(* Accepted packets of a peer in no frame yet, oldest first.                *)
Backlog(p) == sender[p].batch \o sender[p].pending \o port[p].queue

Queue(p) == INSTANCE PacketQueue WITH backlog <- Backlog(p), stream <- sent[p]

(* Each port is a queue: whatever a batch takes, leaves over or waits for,  *)
(* and whatever the loops of other peers do, what its queue has accepted is *)
(* sent in that order, nothing lost in between, repeated or overtaken.      *)
PortsAreQueues ==
  /\ \A p \in Peers : Queue(p)!Init
  /\ [][\A p \in Peers : [Queue(p)!Next]_<<Backlog(p), sent[p]>>]_vars

(* The device is given a peer's packets in the order they were sent and     *)
(* without a gap, though it may fail and batches may be cut short: both end *)
(* the connection (readRelayLoop, decodeTunBatch).                          *)
WrittenWithoutGap ==
  \A p \in Peers : \A i \in 1 .. Len(written[p]) : written[p][i] = i

(* No connection holds up readTUNLoop, which serves all peers: whatever the *)
(* outlets of a packet do, the loop gets back to reading.                   *)
ReaderIsNotHeld == tun.pc # "read" ~> tun.pc \in {"read", "ended"}

(* What the port of an answering peer has accepted is sent, when packets    *)
(* come no more, also the last one, which no other follows, and also when   *)
(* another peer's connection is stuck, unless the port is closed.           *)
AcceptedIsSent ==
  \A p \in Answering : []<>(Backlog(p) = << >> \/ port[p].done)

(* A frame that has arrived is taken and written, or its port is closed,    *)
(* whatever becomes of the writes of other peers.                           *)
ArrivedIsWritten ==
  \A p \in Peers : wire[p] # << >> ~>
    (wire[p] = << >> /\ writer[p].pc = "receive") \/ port[p].done

(* Both loops of a port end once it is closed, although only one of them    *)
(* looks at done: no goroutine is left behind by a relay that comes and     *)
(* goes.                                                                    *)
PortLoopsEnd ==
  \A p \in Peers : port[p].done ~> sender[p].pc = "ended" /\ writer[p].pc = "ended"

(* A cancelled Run gets readTUNLoop out of its read and returns.            *)
RunReturns == ctxDone ~> run = "returned"

(* No loop is left behind, that of one connection or those of the node.     *)
LoopsEnd == PortLoopsEnd /\ RunReturns

=============================================================================
