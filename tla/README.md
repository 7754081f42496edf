# turntf-tun: a TLA+ verification project

`turntf-tun` carries IP packets between TUN devices over the turntf messaging
service. Each node reads packets from its TUN device, finds the peer that owns
the destination, and hands the packet to one of two transports: a *stream*, a
reliable one-way byte stream with acknowledgements, credit and Resume
(`internal/tun/stream.go`), or a *relay connection* of the SDK
(`internal/tun/runtime.go`), which also serves while a stream is opening or
recovering. The SDK (`github.com/tursom/turntf-go`) is not part of the
repository: its sender state, its connections and its callbacks are modelled
from how the code uses them and are marked external in `PROJECT.json`.

## Inventory

| component | state | operations | works with |
|---|---|---|---|
| stream path (`streamPort`) | `targetSession`, `epoch`, `readyState`, `ready`, `resumeReady`, `attemptErr`, `lastAck`, `lastWindow`, `lastSent` under `pathMu`; channels `lost`, `wake`, `restart`, `done`, `queue` | `beginOpen`, `acceptOpenAck`, `failPath`, `failPathIfAckUnchanged`, `markPathLost`, `beginResume`, `completeResume`, `acknowledge`, `dataForReadyPath`, `requestRestart`, `close` | called by every goroutine below |
| lifecycle (`runStream`, `recoverStream`) | its candidates, the channels it waits on, `active`, the frames to replay | Open the candidates in turn, activate, watch for a loss, Resume, give up | path; `activeStreams`, `preferredStreams`, `streamPorts` |
| writer (`writeStreamLoop`) | `pending`, `overflow`, two stall observations | batch, frame, send, wait for credit, find stalled ACKs | path, queue, SDK |
| handlers (`OnStream`, `OnStreamSendResult`, `OnDisconnect`) | none of their own, two mutexes across steps | answers, the peer's Open and Resume, asynchronous failures | path, the three maps, receiver |
| receiver (`streamReceiver`) | target session, receiver state, `ackPending`, `ackWake`, `ackStopped`; `streamRecv` by stream ID | accept Open, Data, Resume and Close; `queueAck`, `dropPendingAck`, `stopAcks`, `ackLoop` | SDK reader, TUN |
| stream loop (`streamLoop`) | the fallback dial loop | successive runs of `runStream`, back-off | lifecycle, dial loop |
| relay registry (`registerPort`, `unregisterPort`) | `relayPorts`, `ports` (selected), each port's `done` | register, refuse a duplicate, select, promote | dial loop, SDK callbacks |
| dial loop (`dialLoop`, `acceptRelay`) | its connection | connect, wait for its end, sleep | registry |
| runtime (`Run`, `readTUNLoop`, `closePorts`) | wait group, context | start, hand packets over, shut down | everything |
| relay port loops | the batch and the packet left over | batch and send, receive and write | registry, TUN |
| batch codecs | none | encode, decode | writer, loops |
| overlay lease (`lease.go`, `kvclient.go`, `dynamic.go`) | the lease; the records in the KV service | acquire, renew, release, discover | KV service |
| route table (`route.go`) | routes by prefix length | lookup | TUN reader |
| config, device, command line | configuration; the device | parse, validate; read, write | runtime |

What is hard here is concurrency around one port. Five goroutines (lifecycle,
writer, SDK reader, SDK event callback, TUN reader) share it; every method
holds `pathMu`, but tokens are sent after the unlock, channels are replaced
while somebody waits on the old one, the outlet `activeStreams` has another
mutex, and answers to an attempt arrive after it was given up. On the relay
side connections are registered, closed and called back in any order while the
dial loop waits on one of them. `PROJECT.json` lists the hazards with their
lines and the properties that are about them.

What makes each component correct: the path never has two truths about being
ready; every loss leads to a recovery or to the end of the port; Data goes out
in order, with no hole and after a complete replay; credit and silence are
noticed; only a watched stream is the outlet; the relay's outbound port is the
lowest registered one and a dead one leaves; a shutdown ends everything; an ACK
never claims more than was received; a lease has one owner; a codec gives back
what it was given; a route is the longest match.

## Modules

| module | models | extends |
|---|---|---|
| `StreamPath` | the port's record and one operator per method | |
| `StreamPort` | one port and every goroutine that touches it; `Spec`, `FairSpec`, properties | `StreamPath` |
| `PacketQueue` | abstract: what a port promises of the packets it accepts | |
| `StreamReceiver` | the receivers of one peer, the reader's steps on them, the ACK loops | |
| `StreamLink` | successive streams end to end: the port's methods and `StreamReceiver` over a network that loses, repeats and reorders, with restarts of the peer | `StreamPath`, instances of `StreamReceiver`, `StreamLog` |
| `StreamLog` | abstract: what successive streams promise end to end | |
| `StreamLoop` | `streamLoop`: one port after another, its sessions, the relay fallback, cancellation | |
| `RelayPorts` | registry, dial loop, accept, callbacks, shutdown of one peer | |
| `RelayLoops` | TUN reader, queues, both loops of every relay port, `Run`'s end | instances of `PacketQueue` |
| `OverlayLease` | several nodes that acquire, renew, release and discover addresses in the KV service | |
| `MCOverlayLease` | its symmetry for TLC | `OverlayLease` |
| `RouteTable` | `newRouteTable`, `lookup` | |
| `PacketCodecs` | the batches of both transports, as bytes | |
| `Configuration` | defaults, validation, discovered peers, who dials | |
| `MCUnits` | the instance of the three sequential modules | `RouteTable`, `Configuration`, `PacketCodecs` |
| `StreamPortProofs` | types, the inductive invariant of the path, the data path: refinement of `PacketQueue`, offsets, credit, the order of frames | `StreamPort` |
| `StreamReceiverProofs` | the inductive invariant of the receiving half and its properties | `StreamReceiver` |
| `StreamLinkProofs` | the inductive invariant of both ends and the messages between them, the refinement of `StreamLog` | `StreamLink`, instance of `StreamReceiverProofs` |
| `StreamLoopProofs` | the inductive invariant of the loop and its properties | `StreamLoop` |
| `RelayPortsProofs` | the inductive invariant of the relay registry and its properties | `RelayPorts` |
| `RelayLoopsProofs` | the inductive invariant of queues and loops, the refinement of `PacketQueue` | `RelayLoops` |
| `OverlayLeaseProofs` | the inductive invariants of the leases and of their renewal in time | `OverlayLease` |
| `UnitsProofs` | longest-prefix match; what an accepted configuration promises; codecs that are exact and inverse | `RouteTable`, `Configuration`, `PacketCodecs` |

### StreamPath and StreamPort

`StreamPath` translates each method of `streamPort` to an operator from the
record before to the record after, up to the method's unlock. A Go channel that
is replaced is a number that grows, `closed` is the set of those that were
closed; a channel of capacity one is a Boolean. `failPath`,
`failPathIfAckUnchanged` and `markPathLostWithError` share the operator
`TakeDown`; what they do after the unlock, `SignalPathLost`, is a step of its
own, so that other goroutines may act in between.

`StreamPort` starts where `runStream` has chosen its candidates and registered
the port. Each goroutine has a variable that says where it stands and holds its
locals:

* `lc`: `open -> sendOpen -> waitOpen -> activate -> main`, on a loss
  `deactivate -> recover -> resume -> sdkResume -> sendResume -> waitResume ->
  replay -> activate`, and `exit -> unregister -> close -> ended` for the
  deferred function. One action per case of each `select`.
* `wr`: `idle` (queue or tick), `path`, `wait` (ready or done), `data`,
  `full`, `wake`, `send`, `fail`; `signal` after each failure that took the
  path down.
* `hd`: the SDK's reader and its event callback. The reader keeps `streamMu`
  between the close of `restart` and that of the port; either keeps `r.mu` from
  its look at `readyState` to its delete from `activeStreams`.
* `tun`: the TUN reader between its look at `activeStreams` and `enqueueReady`.

The steps between two of these points are one action, because nothing another
goroutine can see changes inside them. `wire` is the set of paths a frame was sent on: only those can be
answered, and they can be answered at any later time, any number of times.
`hist` is history for the properties: the packets queued, the stream's payload,
how far the frames sent at each epoch reach, and the paths for which a failure
was accepted.

Abstractions: an offset counts packets instead of bytes, so a batch is limited
by a number of packets; a timer is a step that may be taken at any time, since
nothing in the code depends on how long it took except stall detection, where
"the timeout has passed since the observation" is a choice made while the
observation still matches. Errors other than a full window that
`StreamSenderState.Data` might return cannot occur for a batch of the writer (it
is bounded by 128 KiB and its epoch is the sender's own) and are left out.
`enqueue` copies the packet. The `streamReady` and `streamLost` callbacks are
empty functions in `streamLoop`. `recoverStream` may fail to resolve at any
time; so may each send.

`PacketQueue` is the abstract specification of the data path: packets are
numbered in the order they are accepted, and a frame takes some of the oldest.
`StreamPort` implements it with `backlog` as batch, overflow and queue in that
order, and `stream` as the payload of all frames; every step of the port is a
step of the queue or none. In what order the frames reach the wire is a matter
of `DataInSequence`, what becomes of them there one of `StreamLink`.

### StreamReceiver

A receiver is a record, `streamRecv` maps a stream ID to one; a receiver that
was removed from the map lives on for its `ackLoop`, hence their numbers. The
SDK calls the reader with one frame at a time (`reader`): for Data it writes to
the TUN and then queues the ACK, for a Resume it drops the ACK that waits and
answers itself, for a Close it stops the ACKs after the unlock; an Open stops
those of the peer's other receivers under the lock. `ackLoop` runs beside it:
`wait` for the token, `take`, `send`. Every frame may arrive at any time, in any
order and repeatedly, with any offset and epoch within the bounds; the SDK's
receiver state decides what it accepts. `written` and `sent` are history. Left
out: the session a receiver answers to, the payload, and what Open and Resume
do to the outbound port, which is in `StreamPort` and `StreamLoop`.

### RelayPorts

One peer; peers share nothing but locks. A connection has a relay ID, which may
repeat, and is open or closed; it may fail at any time. `hooked` holds the
ports whose `OnClose` is registered and whose loops run: it is set after the
registration and outside the lock, as in `registerPort`, and the SDK calls the
callback also for a connection that is closed already. `dialer` and `acceptor`
are the two callers of `registerPort`; `run` is `Run` after its context was
cancelled. The loops of a port matter here only in that they end and close it.
`None` is the nil port and also the empty relay ID, the same number 0.

### StreamLink

The sender uses `StreamPath`'s operators, with one session and one packet to a
frame; its goroutines are `StreamPort`'s matter, so here a step is a frame sent,
an answer that arrives, a timeout. The receiver is an instance of
`StreamReceiver`, driven by the messages on the way to it. Messages are sets, so
they overtake one another freely. A message that is lost, one that arrives once
more, a timeout while an answer may still come, a path reported lost and a
restart of the peer's program (its receivers are gone) are faults and share a
bound; a timeout when nothing of the stream is under way any more is none.
Stream IDs grow: a Resume that is not answered gives up the stream and opens the
next one, while messages of the old one are still about. The error of a write
to the far device is not looked at by the code, and what it failed to write is
acknowledged; `written` counts it as given to the device.

`StreamLog` is the abstract specification: a stream is a log with readers. The
sender appends, at most a window ahead of what it has forgotten; each receiver
reads the log from its beginning, one packet after the other; the sender forgets
what a reader of this very log has read; a stream given up is a new log.
`StreamLink` implements it with `length` and `forgotten` as the SDK's `next` and
`base`, and `read` as what each receiver has written. A Resume, a replay, an
answer that comes late and a restart of the peer are no steps of the log. How
far a former log reaches is not kept, so nothing is said of the end of what its
receivers may still write.

### StreamLoop

One peer over successive ports. A port's path is up or down, what remains of the
data path is that a stalled one is noticed. `lc` is `streamLoop` with
`runStream` and `recoverStream`, `reader` and `events` the handlers, which may
still hold a port that is closed and removed; a port that nothing refers to is
used again as a new one, whichever it is. What nobody reads again is forgotten,
so that it does not tell states apart: the path of a closed port but for the
target that `OnDisconnect` compares, and the candidates once a stream is active
or its run returns. The dial loop's sleep is one with the look at the context
that follows it. `alive` are the peer's sessions, `kept` the port whose
receiver it has: a Resume is answered only if it still has it. A live session
answers in time unless a fault, of which there are `MaxEvents` together with
the peer's own frames and changes of its sessions, says otherwise.
`StopFallback` cancels the dial loop and waits for it.

### RelayLoops

All peers of a node, one port each: how ports are replaced is in `RelayPorts`.
`tun` is `readTUNLoop` between the read, the look-up of the outlets and the
offers; `sender` is `writeRelayLoop` with its batch, the packet left over, its
timer and the wait for the window; `writer` is `readRelayLoop`, which writes the
packets of a frame one at a time under `writeMu`. `run` closes the ports that
are registered, waits for the reader and returns without waiting for the relay
loops, as in the code. Whether a packet still fits a batch is left open, the
stream takes a packet or not as it likes, and the stream handler's use of
`writeMu` is left out. The device is the `water` library: its close is taken to
end a read that waits. A packet refused by a full stream may overtake, over the
relay, older ones in the stream's queue; the code has no rule against it.

### OverlayLease

Each node is a process that scans the pool (`get`, `txn`), discovers its peers,
is `up`, and releases. The KV service is external: a transaction applies if the
revision it compares is the record's. A request that its sender gave up stays in
`late` and may be applied at any later time; a process may die at any step and
start again. Time is counted in minutes by one clock, which with `Timely` waits
for three things only: an acquire gets from its start to its transaction within
`ScanTime`, a node from the end of its context to the release within `StopTime`
(`Run` waits for its loops there, and may hang, see `RelayShutdown`), and a
renewal, two requests, takes less than a minute. Discovery and the store's
answer to a release may take any time. `lapsed` is history: the addresses that
somebody held beyond its lease. What the model contains and the code should be
read with:

* `acquire` fixes the expiry before it scans, and the ticker starts when the
  scan is over: what the scan takes is missing from the lease.
* a renewal compares with the revision it has just read and never looks at the
  owner, and a release deletes what it finds: after a lapse either may take
  another node's record. `HolderOnRecord` and `NoLiveTakeover` say that this
  needs a lapse.
* a node that died skips its own live record after the restart and takes a
  second address; nodes with a static address have no record at all.
* a record is expired for `acquire` at the very instant at which discovery still
  lists it.
* `renew` stores the address with its `/32`, discovery appends another one, and
  the start of a node that finds such a record fails (`Discover`).

### RouteTable, PacketCodecs, Configuration

A route is an address of one of two families as a number, with a prefix length
that may not fit (`Parses`); `sort.SliceStable` is the permutation it must be;
IPv4-mapped addresses are IPv4's, as in `net.IP.To4`. `PacketCodecs` has the
four codec functions on sequences of bytes, with the base and the width of the
length fields as parameters: what an encoder's or decoder's loop has after each
turn is a recursive function of the turn (`Batch`, `Ends`), which TLC evaluates
and TLAPS can reason about. `CodecAssumption` says that a length field has room
for what is checked against the maxima, and that no packet begins with the
stream's magic, since it begins with an IP version. `Configuration` loads a file, which has been edited
at the boundary of some fields, starts the node, and adds discovered peers;
texts are kept as "absent", "present" or "does not parse", durations and sizes
as numbers. `DefaultStreamWindow` is the SDK's. A mode `auto` that passed the
validation is treated as `relay` by `runPeer`, and the stream's relay fallback
dials whatever the mode, on the side that dials. Nothing compares the files of two
nodes: one whose MTU exceeds the other's `max_packet_bytes` has its relay
connections closed.

## Runs

| run | bounds | shows |
|---|---|---|
| `StreamSafety` | 1 session, 3 packets, window 2 that acknowledgements reduce to 1, batch and queue of 1, an Open and a Resume, 1 fault or cancellation; 2.5M states | the path's consistency, no loss, waiter or credit overlooked, failed attempts stay down, the outlet follows the path, order of Data, complete replay, the refinement of `PacketQueue` |
| `StreamLiveness` | 2 sessions, 1 packet, an Open and two Resumes, no fault of the SDK, fair; 0.2M states | a loss is handled, a restart and the end of the port are complete, silence is found out |
| `StreamReceiver` | 2 streams, 2 receivers, 2 epochs, 2 Data frames, fair; 155k states | ACKs cover only what was written, all that was written is acknowledged, removed receivers fall silent and their loops end |
| `StreamLink` | 5 streams, 7 receivers, window and packets 2, 4 epochs, 2 faults, fair; 0.9M states | what is acknowledged was written, a Resume leaves no gap, ready means adopted, the refinement of `StreamLog`, the stream settles |
| `StreamLoop` | 3 port identities, 2 sessions, dial loop on, 2 events, fair; 0.9M states | outlet and registration belong to the loop's port, only the context ends the loop, the stream comes back |
| `RelayRegistry` | 2 relay IDs, 3 connections, fair; 152k states | selection, promotion, duplicates, the wait of the dial loop; a dead port leaves, shutdown but for the late dial |
| `RelayShutdown` | 2 relay IDs, 2 connections, fair | counterexample: see below |
| `RelayOutbound` | 2 peers, one of which never acknowledges, 3 packets, queue and window 1, batch 2, 1 failure, fair; 0.2M states | every port is a queue, accepted packets are sent, the reader is not held, loops and `Run` end |
| `RelayInbound` | 2 peers, 2 arriving packets, 1 failure, fair; 0.4M states | no gap in what is written, nobody waits for the device's lock for ever |
| `OverlayLease` | 2 nodes, pool 2, lease 3 min, scan 1 min, 3 min, 3 starts, 1 fault; 5.8M states | a lease that has not lapsed is on record, no live record changes hands; without a fault none lapses |
| `LeaseOneMinute` | 3 nodes (one static), pool 2, lease 1 min, scan and stop in no time, no fault | counterexample: see below |
| `Units` | routes: 2 over all lengths of a small width; codecs: 3 packets, 9 bytes from the wire; files: 2 nodes, 3 edits; 1.2M states | longest match, exact codecs, accepted configurations suit the data path, two nodes make one connection |

Why the bounds are enough. In `StreamSafety` one packet waits for credit behind
one that is outstanding, and a third overflows the batch; two may be replayed,
so a replay can fail half way; an answer of the Open can be late for the Resume.
Two Resumes in a row and a second session are in `StreamLiveness`, where packets
and the peer's silence cause the losses. What the two leave out (failures during
a second Resume, larger batches and windows) the theorems below cover for all values
of the constants. In `StreamLink` five streams and seven receivers are as many as two
faults can use up, epochs likewise: with a third packet, reordered replays cost
epochs until the bound and not the code decides. In `StreamLoop` an identity is
free again when nothing refers to the port, and three suffice for one in use and
two still held by handlers. Two events are a fault during or after the handling of
another, with a former port in the hands of either handler or of both; chains of
three and more are not explored. Three connections with two IDs contain a duplicate
and a promotion. In `RelayOutbound` a packet waits in hand, one in the queue and
one in the batch, and the silent peer's window fills. In `OverlayLease` the
scan of a minute, the interval of one and the lease of three leave no minute to
spare (with a scan of two `NeverLapses` does not hold); three starts allow one
restart beside two nodes. Nodes with a static address, which hold nothing, and a
stop that takes time are left to the theorems. In `Units` a byte has
three values and a length field two digits, so that every carry, cut and excess
occurs; two routes contain every order and overlap of two, and `Before` compares
only two at a time. Nodes with leases are interchangeable, hence the symmetry,
used with invariants and an action property only. The bounds only cut behaviours off: the epoch bound
makes a later resolution fail, which is a thing that can happen, and faults,
packets and edits are all free to stay away.

Deadlock is checked where the system has a state in which everything has
returned (`Finished`): the stream port, the receiver, the loop, the relay
modules. A link, the leases and the units may stop at their bounds.

Fairness (`StreamPort`): weak fairness for the lifecycle, the writer, the TUN
reader and for each handler that has started: the Go scheduler runs a goroutine
that can run, and every wait of theirs that is bounded by a timer ends. Strong
fairness for two cases: the writer's `select` that is offered the closed `done`
again and again takes it in the end (Go chooses at random), and a stall that
goes on is found (time passes). Answers, failures, packets and the
cancellation are not fair: the peer may be silent for ever. `StreamReceiver`: weak
fairness for the reader once a frame arrived, and for each ACK loop; no frame
has to arrive. `StreamLink`: both ends go on, and a message that is neither
lost nor followed by another fault of the budget arrives; no packet has to be
sent. `StreamLoop`: every goroutine goes on, a session that is alive answers, and
packets keep coming, so that a stall is noticed (`StallNoticed`); no event of the
bounded ones has to happen, none may come to the rescue. `RelayPorts`: weak
fairness for the dial loop, the acceptor, `Run`, the SDK's callbacks and for
the loops of a port whose connection is closed. Nothing obliges a peer to end a
connection. `RelayLoops`: every goroutine goes on, Go's mutex is not lost to the
same waiter for ever (strong fairness of the writers), a read of the closed device
ends, and the answering peers acknowledge; the others need not.

### Counterexamples

* `RelayShutdown`: `dialLoop` waits on `<-port.done`, which its context does
  not interrupt. A `Connect` that succeeds around the cancellation is
  registered after `closePorts` has looked; the client is closed only after
  `wg.Wait`, so `Run` waits as long as the peer keeps the connection. That this
  is the only way shutdown fails to complete is `ShutdownWithoutLateDial` in
  `RelayRegistry` and, for the fallback's dial loop, `LoopEnds` in `StreamLoop`.
* `LeaseOneMinute`: the validation accepts a lease of one minute, and the
  renewal ticker never runs faster than once a minute. When the first renewal is
  due the record has expired, another node may take the address, and its holder
  goes on. A lease longer than scan, interval and stop together does not lapse
  without a failure (`OverlayLease`, `LeaseRenewedInTime`). No such lease is one
  minute; but how long a scan is grows with the pool, so longer leases can be
  too short as well, which nothing in the validation relates.

A third observation is no run, since no document says otherwise in terms of the
model: between the registration of a port and its `beginOpen` the target session
is zero, so an Open of the peer from the very session the port is about to open
asks for a restart; the tests call it wrong for an open port ("unchanged peer
session requested outbound restart"). It costs one more Open, and
`StreamComesBack` holds with it.

## Proofs

TLAPS proves the theorems listed in `PROJECT.json` for every value of the
constants that satisfies the named assumptions: sets of sessions, peers, nodes,
users and addresses of any size, and every bound. No theorem uses fairness.
All invariants and action properties of the passing runs are proved; what is
only model-checked is liveness (the end of this section).
Each inductive invariant is proved by one lemma per action, or per group of
actions that disturb the same part of it.

### StreamPort

The assumptions are `SessionsAssumption` (finitely many sessions, the zero
session is none of them), `WindowAssumption` and `BoundsAssumption` (windows and
bounds are natural numbers), and `BatchAssumption` (a full batch fits the
smallest credit other than none).

The type invariant: `TypeOK` alone is not inductive, since a frame that is sent
must be on a path that was chosen, so `TypeInv` adds that the target is a
session once `beginOpen` ran (`TargetChosen`), that every epoch stays within the
bound (`EpochsUsed`), that the frame in hand has an address (`FrameAddressed`),
and that the lifecycle has a candidate left where it drops one
(`CandidateLeft`).

The path: `PathInv`, of which the properties follow, is the conjunction of

* `Channels`: no channel is numbered above the current one and the current one
  is closed exactly when the path is ready, so a new channel is an open one.
* `WaitersHold`: a waiter's channel is closed or current. That a failure may
  replace it is no harm because it replaces closed channels only; that
  `beginResume` keeps an open channel is what carries the writer through a
  recovery. `beginOpen` does replace an open one, and the invariant records
  why it may: no writer exists yet.
* `WatchedLoss`: a path that is down in `activate` or `main`, or after the
  OpenAck the lifecycle has yet to see, has its token sent or a goroutine about
  to send it. The token is sent after the unlock, hence `Signalling`.
* `OutletHeld`: where the lifecycle holds the outlet it is in the map, unless
  the path is down with a loss pending; a handler that is about to delete it
  holds `r.mu` and has seen the path down, and the path cannot become ready
  before the lifecycle took it out itself.
* `EpochsInTurn`, `FailureHolds`: failures are recorded for epochs up to the
  current one, and a failure of the current attempt leaves its error in
  `attemptErr`, which `completeResume` looks at, or the attempt given up.

The proof that a step keeps `PathInv` first sums up what the writer's and the
handlers' steps can do to the port (`OtherStep`: nothing that makes a path
ready but an accepted OpenAck, no new target or epoch), then takes the
lifecycle's actions one by one.

The data: `Spec` implements `PacketQueue`, the offsets agree and credit wakes
the writer. The refinement needs three facts of the state (`DataInv`): a batch
is no longer than `BatchMax`, empty where the writer takes a new one and not
empty where it frames one (`BatchHeld`), so that a frame takes between one and
`BatchMax` packets; and a packet's number counts those before it
(`PacketsCounted`). Filling a batch leaves the concatenation of batch, overflow
and queue as it was, a step the queue does not see (`FillBatchKeeps`); framing
splits it after the batch; all else leaves it alone, lost paths and Resumes
included. `CreditWoken` drops the condition that the path is ready from
`CreditWakesWriter`, since a path may go down and come back while the writer
waits, and an ACK's token outlives it.

The order of frames: `DataInSequence` speaks of the frame about to be sent, and
follows from `FrameInv`, which relates the writer's hand, the lifecycle's replay
and what was sent at each epoch.

* `FrameHeld`: a frame in hand is the sender's newest, and of the current epoch
  only while no Resume is under way.
* `ReplayUnderWay`: while resuming, exactly the packets up to `lc.replay.from`
  were sent at the new epoch, and the replay ends where the SDK's sender stands.
* `NothingMissing`: with no frame in hand, a path that may carry Data has
  carried all there is.

The exception is in the property too: on the path of an Open for which a failure
was noted, Data may follow a frame that never left the node; that path is down
for good, and the first Resume sends both again.

### StreamReceiver and StreamLink

`ReceiverInv` needs `ReceiverAssumption` (bounds are natural numbers).
`AckFollowsWrite` and `PendingAckIsNewest` need that the reader's ACK tells its
receiver's epoch and offset until it rests (`ReaderHolds`), that what was
accepted is written but for the Data in the reader's hand (`AcceptedIsWritten`),
and that a stopped receiver keeps no ACK (`StoppedHasNoAck`);
`RemovedReceiverIsSilent` follows from `RemovedIsStopped`.

`LinkInv` adds the sender and the messages to it: a receiver of the current
stream is not ahead of its sender (`NoneAhead`), nor is what is on its way to it
(`Forward`); every answer on its way back (`Backward`), and what the port took
from one (`PortToldTruth`), was done by some receiver of that stream (`Done`).
`Done` speaks of some receiver, those included that died with a restart of the
peer, because a Resume after the restart may reach none and an old answer still
arrives. A restart removes receivers in the middle of a Data frame, and keeps
`ReceiverInv` because that asks nothing more of what a removed receiver wrote.
`EndsInStep` follows, of which `AcknowledgedIsWritten` is a part.

For the refinement of `StreamLog`, `LogInv` adds `OneInHand`: a receiver has
accepted at most one packet more than it has written. It needs `AcceptedIsWritten`
where Data arrives, since the reader is at rest then, and holds for a receiver
that died with a packet in hand too. So a write is one step of a reader, and
`NoneAhead` says there is something to read; an answer lets the sender forget
what `Done` says was written; all other steps leave the log alone.

`LinkAssumption` says that the bounds are natural numbers and that there is a
session.

### StreamLoop

`LoopInv` has three parts: what holds while the loop has a port (`Holds`), what
it has left behind where it has none (`Ends`), and the types. The steps fall
into those of the loop with a port (`Inside`), those between two ports
(`Between`) and those of the others (`Beside`), which can take a path down but
neither register nor activate a port.

### RelayPorts and RelayLoops

`RelayInv` assumes that relay IDs are ordered as natural numbers. A port is
registered under its own relay ID, so two registered ports never share one
(`RegistryHolds`) and the lowest is unique; a port on its way through
`registerPort` belongs to one caller and has no callback yet, so nothing can
take it out before `DialWaits` looks (`DialerHolds`, `AcceptorHolds`); a port
the dial loop has left behind is closed. That a lowest relay ID exists is the
well-foundedness of the natural numbers.

`LoopsInv` has a part for each direction. `Outbound` counts: the packets
accepted are those sent and those in the batch, left over or queued, at most one
is left over and it begins the next batch; with it every step of the node is a
step of each port's `PacketQueue` or leaves it alone (`PortsStayQueues`).
`Inbound` says that the frames on their way continue, one after the other, what
was written and what the writer has left (`Chained` numbers their beginnings);
a frame cut short by a failed decoder or write ends its loop, so nothing is
written after the gap.

### OverlayLease

`LeaseInv` holds for any pool, any number of nodes and any failures. A request
that is under way or late and whose revision still matches must do no harm to a
node that counts on the address; revisions only grow, so a request that matched
an older record never matches again, and one that matches the record of a holder
was made by the holder or after its lease had lapsed. `HolderOnRecord`,
`OwnAddressNotRouted` and, step by step, `NoLiveTakeover` follow.

`LeaseRenewedInTime` proves that no lease lapses, under two hypotheses.
`LeaseOutlasts`: the lease is longer than `ScanTime`, the interval of the ticker
and `StopTime` together; all three come off it, since the expiry is fixed before
the scan, the ticker starts after it, and a node stops to renew when its context
ends but counts on the address until it releases. `Timely`: these times do bound
the scan and the stop, and a renewal, two requests that each end with the
request timeout (ten seconds if the file does not say otherwise), takes less
than a minute. The times are parameters: how long a scan is depends on the pool,
for which the code has no bound. `NeverLapses` itself has the third hypothesis,
that nothing failed. The invariant `InTime` is about each node's ticker: when the
next renewal is due, the lease has at least its length less one interval and
one scan to go, and a renewal that was asked for matches the record it read,
because no abandoned request of the node still does; whenever the context ends,
more than `StopTime` of the lease is left.

### RouteTable and Configuration

Longest-prefix match holds for every configuration: the table is the
configuration in the order of `Before`, a set of hits has a least index, and
that index is the longest and first of the routes that cover the packet.
`RouteAssumption` says that the widths and the bound are natural numbers.

`ConfigInv` says that a file that was accepted still passes `Valid`, with the
peers that discovery adds (`DiscoveryKeepsValid`, which goes over the orders in
which the Go map may be read). `AcceptedSuitsDataPath` follows. For
`OneConnectionPerPair`, `Precedes` orders users strictly, so exactly one of two
nodes with different users dials. `ConfigAssumption` says that different nodes
log in as different users and that files and edits have the types the YAML
parser gives them; `DefaultWindowAssumption` that the SDK's default window is
within the bounds `Validate` sets, which the tests rely on.

### PacketCodecs

What the loops compute is proved for packets, frames and fields of any length.
The induction theorems of the library take an operator as a parameter, so the
induction is stated for a set instead: `StepByStep` says that a set of numbers
up to n which holds 0 and with each number the next holds all of them, by the
least one that it lacks, and each use gives it a set. `Recursion` is a recursive
function unfolded once, from the same argument, since a function defined by
recursion is a choice until one is shown to exist.

* `UintOfPut`, `PutOfUint`: the length field and the number it stands for give
  each other back where the number has room in the field (`RoomBelow`: what is
  below the maximum has, if the maximum does).
* `BatchDecodes`: the decoder's positions in a batch are the ends of its
  packets, so a batch gives back the packets it was made of.
* `DecodedEncodes`: what a decoder accepts is the batch of what it delivers.
* `TurnsCut`, `OnlyTurnsCut`: the decoder's turns cut the frame as `CutsAt` asks,
  and a cut that asks the same is the beginning of those turns. With
  `DecodedEncodes`, `StreamExact` and `TunExact` are the two halves of
  `BatchesAreExact`, for any bytes at all.

`PacketsComeThrough` speaks of the moments with no frame under way. `CodecInv`
adds what a frame that is under way will bring (`Brings`): that is what left the
sender with it, by `StreamRoundTrip` and `RelayRoundTrip`, and the packets left
are within the limit and do not look like a batch of the stream.

### Model-checked only

* All liveness properties, which are out of the prover's reach: `LossIsHandled`,
  `RestartEndsStream`, `SilenceIsDetected`, `WrittenIsAcknowledged`,
  `StoppedLoopEnds`, `StreamSettles`, `LoopEnds`, `StreamComesBack`,
  `DeadPortIsReplaced`, `ShutdownWithoutLateDial`, `AcceptedIsSent`,
  `ReaderIsNotHeld`, `LoopsEnd`, `ArrivedIsWritten`.

## Not modelled

* TUN device and command line (`device.go`, `main.go`): pure I/O through the
  kernel, the `ip` command, flags and signals. `RelayLoops` has the device as
  something that reads, writes, fails and is closed.
* Login, the HTTP encoding of the KV client, YAML and the parsing of addresses:
  a text is kept as whether it parses.
* The SDK: frames, connections, sender and receiver state are modelled from how
  the code uses them, and marked external.
* The wait in `encodeStreamBatch` (its delay is the constant 0), log lines.

## Plan

The order in which the modules were written, the core first: `StreamPort` with
its proofs, `RelayPorts`, `StreamReceiver`, `OverlayLease`, `RouteTable`,
`PacketCodecs`, `StreamLoop`, `RelayLoops`, `StreamLink`, `Configuration`, each
with its proofs, then the refinement of `StreamLog`. What is left is one more
refinement: that the ports of `StreamLoop`, of which each is a record with its
path up or down, behave as those of `StreamPort` do.
