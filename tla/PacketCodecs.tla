---------------------------- MODULE PacketCodecs ----------------------------
(***************************************************************************)
(* How packets are put into one frame and taken out again: the batches of  *)
(* a stream (internal/tun/stream.go) and of a relay (internal/tun/batch.go).*)
(* Packets and frames are sequences of bytes 0 .. Radix - 1 (256 in the     *)
(* code).  A sender takes its packets in order, a batch at a time; any      *)
(* bytes may come from the wire.                                           *)
(***************************************************************************)
EXTENDS Integers, Sequences, FiniteSets, SequencesExt

CONSTANTS Radix,
          StreamMagic, TunMagic,
          StreamLength, TunLength,  \* bytes of a length field: 2 and 4
          StreamMax, TunMax,        \* bytes of a frame: 128 KiB each
          StreamPacketMax, TunPacketMax,  \* bytes of a packet: 65535 each
          Limits,                   \* transport.max_packet_bytes: what it may be
          Given,                    \* the packets a sender may have, in order
          MaxWire                   \* bound: bytes of an arbitrary frame

VARIABLES transport, limit, given, left, frame, got, open

codecVars == <<transport, limit, given, left, frame, got, open>>

Byte == 0 .. Radix - 1

(* binary.BigEndian: Shift(n, width)[j] is n without its last j bytes.      *)
Shift(n, width) ==
  LET shift[j \in 0 .. width] == IF j = 0 THEN n ELSE shift[j - 1] \div Radix
  IN  shift

PutUint(n, width) == [i \in 1 .. width |-> Shift(n, width)[width - i] % Radix]

Uint(bytes) ==
  LET value[i \in 0 .. Len(bytes)] == IF i = 0 THEN 0 ELSE value[i - 1] * Radix + bytes[i]
  IN  value[Len(bytes)]

HasRoom(width, n) == Shift(n, width)[width] = 0

(* A length field has room for what is checked against the maxima, and no   *)
(* packet of the TUN begins with the stream's magic: it begins with an IP   *)
(* version.                                                                 *)
ASSUME CodecAssumption ==
  /\ Radix \in Nat \ {0, 1}
  /\ StreamMagic \in Seq(Byte) /\ TunMagic \in Seq(Byte)
  /\ StreamLength \in Nat /\ TunLength \in Nat
  /\ StreamMax \in Nat /\ TunMax \in Nat /\ TunPacketMax \in Nat
  /\ StreamPacketMax \in Nat /\ HasRoom(StreamLength, StreamPacketMax)
  /\ \A m \in Limits : m \in Nat /\ HasRoom(TunLength, m)
  /\ \A ps \in Given :
       /\ ps \in Seq(Seq(Byte))
       /\ \A i \in DOMAIN ps : ps[i] # << >> /\ ~IsPrefix(StreamMagic, ps[i])

-----------------------------------------------------------------------------
(* Batches of either kind                                                   *)

(* The batch after each of its packets.                                     *)
Batch(magic, width, ps) ==
  LET batch[n \in 0 .. Len(ps)] ==
        IF n = 0 THEN magic ELSE batch[n - 1] \o PutUint(Len(ps[n]), width) \o ps[n]
  IN  batch

(* Mutant: a length of zero is taken.                                       *)
AfterZero(f, pos, width, max) ==
  LET n == Uint(SubSeq(f, pos + 1, pos + width))
  IN  IF Len(f) - pos >= width /\ n <= max /\ n <= Len(f) - pos - width
      THEN pos + width + n ELSE pos

(* Where the packet at pos ends; or pos if its length is cut short, zero,   *)
(* above the maximum or longer than what is left.                           *)
After(f, pos, width, max) ==
  LET n == Uint(SubSeq(f, pos + 1, pos + width))
  IN  IF Len(f) - pos >= width /\ n # 0 /\ n <= max /\ n <= Len(f) - pos - width
      THEN pos + width + n ELSE pos

(* The decoder's position after each turn of its loop.                      *)
Ends(f, magic, width, max) ==
  LET end[k \in 0 .. Len(f)] ==
        IF k = 0 THEN Len(magic) ELSE After(f, end[k - 1], width, max)
  IN  end

(* The packets up to the first that is in error.                            *)
Packets(f, magic, width, max) ==
  LET end   == Ends(f, magic, width, max)
      turns == Max({k \in 0 .. Len(f) : \A i \in 1 .. k : end[i] # end[i - 1]})
  IN  [ok      |-> end[turns] = Len(f),
       packets |-> [k \in 1 .. turns |-> SubSeq(f, end[k - 1] + width + 1, end[k])]]

-----------------------------------------------------------------------------
(* The stream's batches                                                     *)

StreamAppends(batch, p) ==
  Len(p) <= StreamPacketMax /\ Len(batch) + StreamLength + Len(p) <= StreamMax

IsStreamBatch(f) == IsPrefix(StreamMagic, f)

StreamBatch(ps) == Batch(StreamMagic, StreamLength, ps)

(* As many of the packets as fit a batch, up to the first that does not.    *)
StreamFits(ps) ==
  Max({n \in 0 .. Len(ps) : \A i \in 1 .. n : StreamAppends(StreamBatch(ps)[i - 1], ps[i])})

(* Mutant: the packet that does not fit is gone.                            *)
EncodeStreamBatchLosesOverflow(ps) ==
  LET n == StreamFits(ps)
  IN  IF n = 0 THEN [frame |-> ps[1], taken |-> 1]
      ELSE [frame |-> StreamBatch(ps)[n], taken |-> IF n < Len(ps) THEN n + 1 ELSE n]

(* encodeStreamBatch with the packets queued after the first.  A first one  *)
(* that does not fit goes out as it is.                                     *)
EncodeStreamBatch(ps) ==
  LET n == StreamFits(ps)
  IN  IF n = 0 THEN [frame |-> ps[1], taken |-> 1]
      ELSE [frame |-> StreamBatch(ps)[n], taken |-> n]

(* All of a batch or, of a frame that is none, nothing.                     *)
DecodeStreamBatch(f) ==
  LET all == Packets(f, StreamMagic, StreamLength, StreamPacketMax)
  IN  IF IsStreamBatch(f) /\ all.ok THEN all.packets ELSE << >>

-----------------------------------------------------------------------------
(* The relay's batches                                                      *)

TunBatch(ps) == Batch(TunMagic, TunLength, ps)

TunAppends(batch, p) ==
  Len(p) \in 1 .. TunPacketMax /\ Len(batch) + TunLength + Len(p) <= TunMax

(* decodeTunBatch: the packets its callback is given, those before an error *)
(* included.  A frame without the magic is a packet.                        *)
DecodeTunBatch(f) ==
  LET all == Packets(f, TunMagic, TunLength, limit)
  IN  IF IsPrefix(TunMagic, f) THEN [all EXCEPT !.ok = @ /\ all.packets # << >>]
      ELSE IF Len(f) \in 1 .. limit THEN [ok |-> TRUE, packets |-> <<f>>]
      ELSE [ok |-> FALSE, packets |-> << >>]

-----------------------------------------------------------------------------
(* One sender and one receiver, or a receiver and any bytes                 *)

(* What the TUN reader lets through: the longest packet is within the limit, *)
(* which is that of both ends.                                              *)
SendInit ==
  /\ transport \in {"stream", "relay"} /\ given \in Given /\ left = given
  /\ limit \in Limits /\ \A i \in DOMAIN given : Len(given[i]) <= limit
  /\ frame = << >> /\ got = << >> /\ open = TRUE

WireInit ==
  /\ transport = "wire" /\ given = << >> /\ left = << >> /\ limit \in Limits
  /\ frame = << >> /\ got = << >> /\ open = TRUE

CodecInit == SendInit \/ WireInit

(* The first n packets are there when the sender forms its batch.           *)
StreamSends ==
  /\ transport = "stream" /\ frame = << >> /\ left # << >>
  /\ \E n \in 1 .. Len(left) :
       LET e == EncodeStreamBatch(SubSeq(left, 1, n))
       IN  frame' = e.frame /\ left' = SubSeq(left, e.taken + 1, Len(left))
  /\ UNCHANGED <<transport, limit, given, got, open>>

(* A payload that is no batch goes to the TUN as it is.                     *)
StreamReceives ==
  /\ transport = "stream" /\ frame # << >> /\ frame' = << >>
  /\ LET ps == DecodeStreamBatch(frame)
     IN  got' = got \o (IF ps = << >> THEN <<frame>> ELSE ps)
  /\ UNCHANGED <<transport, limit, given, left, open>>

(* writeRelayLoop appends to its batch until a packet does not fit or its   *)
(* timer ends.                                                              *)
RelaySends ==
  /\ transport = "relay" /\ frame = << >> /\ left # << >> /\ open
  /\ \E n \in 1 .. Len(left) :
       /\ \A i \in 1 .. n : TunAppends(TunBatch(left)[i - 1], left[i])
       /\ frame' = TunBatch(left)[n] /\ left' = SubSeq(left, n + 1, Len(left))
  /\ UNCHANGED <<transport, limit, given, got, open>>

(* readRelayLoop closes the port on an error.                               *)
RelayReceives ==
  /\ transport = "relay" /\ frame # << >> /\ frame' = << >>
  /\ got' = got \o DecodeTunBatch(frame).packets
  /\ open' = (open /\ DecodeTunBatch(frame).ok)
  /\ UNCHANGED <<transport, limit, given, left>>

(* Any bytes from the wire: what the decoders make of them.                 *)
ByteArrives ==
  /\ transport = "wire" /\ Len(frame) < MaxWire
  /\ \E b \in Byte : frame' = Append(frame, b)
  /\ UNCHANGED <<transport, limit, given, left, got, open>>

CodecNext == StreamSends \/ StreamReceives \/ RelaySends \/ RelayReceives \/ ByteArrives

CodecSpec == CodecInit /\ [][CodecNext]_codecVars

-----------------------------------------------------------------------------
(* The receiver's packets are the sender's, in order and each as it was,    *)
(* however they were batched: one that did not fit opens the next batch, one *)
(* that fits no batch goes alone and is not taken for one, and the relay    *)
(* stays open (TestStreamBatchRoundTrip, TestStreamBatchPreservesOverflow-  *)
(* Packet, TestTunBatchRoundTrip).                                          *)
PacketsComeThrough ==
  frame = << >> => got \o left = given /\ open

(* The frame is the magic and then, between one cut and the next, a length  *)
(* field and that many bytes; the cuts end at its end where all is set.     *)
CutsAt(f, cuts, magic, width, max) ==
  /\ IsPrefix(magic, f) /\ Len(magic) \in cuts
  /\ \A a, b \in cuts : a < b /\ (\A c \in cuts : c <= a \/ b <= c) =>
       /\ b - a - width \in 1 .. max
       /\ SubSeq(f, a + 1, a + width) = PutUint(b - a - width, width)

Cuts(f, magic, width, max) ==
  {cuts \in SUBSET (Len(magic) .. Len(f)) : CutsAt(f, cuts, magic, width, max)}

(* A stream's payload is a batch if it can be cut up to its last byte into  *)
(* one packet or more, which the batch then is; else it is no batch         *)
(* (TestStreamBatchRejectsMalformedPayload).                                *)
StreamBatchIsExact ==
  LET whole == {c \in Cuts(frame, StreamMagic, StreamLength, StreamPacketMax) :
                  Len(frame) \in c /\ Cardinality(c) > 1}
      ps    == DecodeStreamBatch(frame)
  IN  /\ (ps = << >>) = (whole = {})
      /\ \A c \in whole : Len(ps) = Cardinality(c) - 1
      /\ ps # << >> => StreamBatch(ps)[Len(ps)] = frame

(* A relay's batch is delivered up to where it cannot be cut further, and   *)
(* accepted if that is its end.                                             *)
TunBatchIsExact ==
  IsPrefix(TunMagic, frame) =>
    LET cuts == Cuts(frame, TunMagic, TunLength, limit)
        d    == DecodeTunBatch(frame)
    IN  /\ Len(d.packets) = Max({Cardinality(c) : c \in cuts}) - 1
        /\ IsPrefix(TunBatch(d.packets)[Len(d.packets)], frame)
        /\ d.ok = (\E c \in cuts : Len(frame) \in c /\ Cardinality(c) > 1)

(* The decoders accept what the encoders make, and nothing else.            *)
BatchesAreExact == StreamBatchIsExact /\ TunBatchIsExact

=============================================================================
