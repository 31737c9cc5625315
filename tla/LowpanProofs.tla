---------------------------- MODULE LowpanProofs ----------------------------
(* What the receiver makes of a frame, whatever was sent and whatever the    *)
(* frame's length: the packet that was sent or nothing that is accepted, and *)
(* never more than the buffer takes.                                         *)
EXTENDS Lowpan, IphcProofs

(* The numbers of a packet that may be sent. *)
LEMMA PacketNumbers ==
    ASSUME NEW t, Sendable(t), NEW p, p = t.pkt
    PROVE  /\ p \in Packet({Checksum(p)}) /\ p.sum = {Checksum(p)}
           /\ p.proto \in {UIP_PROTO_UDP, UIP_PROTO_ICMP6}
           /\ p.data.n \in Nat /\ p.data = [is |-> p.data.is, n |-> p.data.n]
           /\ Transport(p.proto) \in 0..8
           /\ Length(p) = 40 + Transport(p.proto) + p.data.n
           /\ Length(p) \in 40..160
           /\ SourceForm(p.src) /\ FilledIn(p)
<1>1. p \in Packet({Checksum(p)})
  BY DEF Sendable
<1>2. /\ p.proto \in {UIP_PROTO_UDP, UIP_PROTO_ICMP6} /\ p.sum = {Checksum(p)}
      /\ p.data \in [is : STRING, n : Nat]
  BY <1>1 DEF Packet
<1>3. Transport(p.proto) \in 0..8
  BY DEF Transport, UIP_UDPH_LEN
<1>4. Length(p) = 40 + Transport(p.proto) + p.data.n
  BY DEF Length, UIP_IPH_LEN
<1>5. Length(p) <= 160
  BY DEF Sendable, UIP_BUFSIZE
<1>6. SourceForm(p.src)
  BY DEF Sendable, SourceForm
<1>7. FilledIn(p)
  BY <1>2 DEF Sendable, FilledIn, UIP_PROTO_UDP, UIP_PROTO_ICMP6
<1>8. p.data.n \in Nat /\ p.data = [is |-> p.data.is, n |-> p.data.n]
  BY <1>2
<1>9. Length(p) \in 40..160
  BY <1>3, <1>4, <1>5, <1>8
<1> QED
  BY <1>1, <1>2, <1>3, <1>4, <1>6, <1>7, <1>8, <1>9

(* What output() makes of p: the packet as it is, or with its header e       *)
(* compressed to k bytes.                                                    *)
AsItIs(o, p) ==
    /\ o.fits = TRUE /\ o.len = Length(p) + 1
    /\ o.frame.dispatch = "IPV6" /\ o.frame.hdr = p /\ o.frame.hdrLen = 41
Shortened(o, p, e, k) ==
    /\ o.fits = (p.data.n <= 128 - k) /\ o.len = p.data.n + k
    /\ o.frame.dispatch = "IPHC" /\ o.frame.hdr = e /\ o.frame.hdrLen = k
    /\ o.frame.data = IF o.fits THEN Payload(p) ELSE Cleared

(* output() does one or the other, and a compressed header is short enough   *)
(* for every limit it is compared with.                                      *)
LEMMA OutputIs ==
    ASSUME NEW t, Sendable(t), NEW p, p = t.pkt, NEW l, NEW own,
           NEW e, e = compress_hdr_hc06(p, l, own),
           NEW o, o = output(p, l, own)
    PROVE  /\ HeaderLength(e) \in 2..48
           /\ \/ AsItIs(o, p) /\ Length(p) < 64
              \/ Shortened(o, p, e, HeaderLength(e))
<1>1. /\ p.data.n \in Nat /\ Transport(p.proto) \in 0..8
      /\ Length(p) = 40 + Transport(p.proto) + p.data.n /\ Length(p) \in 40..160
  BY PacketNumbers
<1>2. HeaderLength(e) \in 2..48
  BY PacketNumbers, HeaderBytes
<1>3. PICK h : h = Header(p, l, own)
  OBVIOUS
<1>4. /\ o.fits = (Length(p) - h.uncomp <= 128 - h.hdrLen)
      /\ o.len = Length(p) - h.uncomp + h.hdrLen
      /\ o.frame.dispatch = h.dispatch /\ o.frame.hdr = h.hdr /\ o.frame.hdrLen = h.hdrLen
      /\ o.frame.data = IF o.fits THEN Payload(p) ELSE Cleared
  BY <1>3 DEF output, MAC_MAX_PAYLOAD
<1>5. CASE Length(p) < 64
  <2>1. h = compress_hdr_ipv6(p)
    BY <1>1, <1>3, <1>5 DEF Header, COMPRESSION_THRESHOLD
  <2>2. h.dispatch = "IPV6" /\ h.hdr = p /\ h.hdrLen = 41 /\ h.uncomp = 40
    BY <2>1 DEF compress_hdr_ipv6, SICSLOWPAN_IPV6_HDR_LEN, UIP_IPH_LEN
  <2>3. o.fits = TRUE /\ o.len = Length(p) + 1
    <3>1. Length(p) - h.uncomp <= 128 - h.hdrLen /\ Length(p) - h.uncomp + h.hdrLen = Length(p) + 1
      BY <1>1, <1>5, <2>2
    <3> QED
      BY <1>4, <3>1, Zenon
  <2> QED
    BY <1>2, <1>4, <1>5, <2>2, <2>3 DEF AsItIs
<1>6. CASE ~(Length(p) < 64)
  <2>1. /\ h.dispatch = "IPHC" /\ h.hdr = e /\ h.hdrLen = HeaderLength(e)
        /\ h.uncomp = 40 + Transport(p.proto)
    BY <1>1, <1>3, <1>6 DEF Header, COMPRESSION_THRESHOLD, UIP_IPH_LEN
  <2>2. PICK k \in 2..48 : k = HeaderLength(e)
    BY <1>2
  <2>3. Length(p) - h.uncomp = p.data.n
    BY <1>1, <2>1
  <2>4. o.fits = (p.data.n <= 128 - k) /\ o.len = p.data.n + k
    BY <1>4, <2>1, <2>2, <2>3
  <2> QED
    BY <1>2, <1>4, <2>1, <2>2, <2>4 DEF Shortened
<1> QED
  BY <1>5, <1>6

(* A header that was read and has the checksum of p is that of p: the        *)
(* checksum covers the addresses, and the other fields are kept.             *)
LEMMA SameChecksum ==
    ASSUME NEW sum, NEW p \in Packet(sum), FilledIn(p),
           NEW e, NEW sender, NEW receiver, NEW contexts, NEW payload,
           NEW q, q = uncompress_hdr_hc06(e, sender, receiver, contexts, payload),
           Kept(q, p, payload), Checksum(q) = Checksum(p), q.sum = p.sum
    PROVE  q = p
<1>1. q.src = p.src /\ q.dest = p.dest /\ q.len = p.len /\ q.data = p.data
  BY DEF Checksum
<1>2. /\ q.vtc = p.vtc /\ q.tcflow = p.tcflow /\ q.flow = p.flow
      /\ q.proto = p.proto /\ q.ttl = p.ttl
      /\ q.srcport = p.srcport /\ q.destport = p.destport /\ q.udplen = p.udplen
  BY <1>1 DEF Kept, FilledIn
<1>3. p.data = [is |-> p.data.is, n |-> p.data.n]
  <2>1. p.data \in [is : STRING, n : Nat]
    BY DEF Packet
  <2> QED
    BY <2>1
<1> QED
  BY <1>1, <1>2, <1>3, PacketIs, UncompressedIs

(* A packet that is accepted is p. *)
Real(q, length, p) == Accepted(q, length) => q = p

(* A packet that passes the checks of the receiver after its header was      *)
(* uncompressed is the one that was sent, whatever contexts the receiver has *)
(* and whatever the payload is.                                              *)
LEMMA Genuine ==
    ASSUME NEW t, Sendable(t), NEW p, p = t.pkt, NEW l, NEW own,
           NEW e, e = compress_hdr_hc06(p, l, own),
           NEW sender, NEW receiver, NEW contexts,
           NEW payload, payload.sum = p.sum \/ payload.sum = {},
           NEW q, q = uncompress_hdr_hc06(e, sender, receiver, contexts, payload),
           NEW length
    PROVE  Real(q, length, p)
<1> SUFFICES ASSUME Accepted(q, length) PROVE q = p
  BY DEF Real
<1>1. /\ p \in Packet({Checksum(p)}) /\ p.sum = {Checksum(p)}
      /\ SourceForm(p.src) /\ FilledIn(p)
  BY PacketNumbers
<1>2. Kept(q, p, payload)
  BY <1>1, HeaderIsRead
<1>3. q.sum = {Checksum(q)}
  BY DEF Accepted
<1>4. q.sum = p.sum \/ q.sum = {}
  BY <1>2 DEF Kept
<1>5. q.sum = p.sum /\ Checksum(q) = Checksum(p)
  BY <1>1, <1>3, <1>4
<1> QED
  BY <1>1, <1>2, <1>5, SameChecksum

(* What a node makes of a compressed header that it can read. *)
Expanded(r, f, p) ==
    /\ r.length = f.len - f.frame.hdrLen + 40 + Transport(p.proto)
    /\ Real(r.buf, r.length, p)

(* The length goes with the length of the frame.                             *)
LEMMA UncompressedGives ==
    ASSUME NEW t, Sendable(t), NEW p, p = t.pkt, NEW l, NEW own,
           NEW e, e = compress_hdr_hc06(p, l, own),
           NEW f, f.frame.hdr = e, f.frame.data \in {Payload(p), Cleared},
           NEW n, NEW contexts, NEW r \in Uncompressed(f, n, contexts)
    PROVE  Expanded(r, f, p)
<1>1. PICK m : m = f.len - f.frame.hdrLen
  OBVIOUS
<1>2. PICK payload : payload = [f.frame.data EXCEPT !.n = m]
  OBVIOUS
<1>3. PICK receiver : receiver = IF f.to = Broadcast THEN Broadcast ELSE n
  OBVIOUS
<1>4. PICK q : q = uncompress_hdr_hc06(e, f.from, receiver, contexts, payload)
  OBVIOUS
<1>5. payload.n = m /\ (payload.sum = p.sum \/ payload.sum = {})
  BY <1>2 DEF Payload, Cleared
<1>6. r = Result(q, payload.n + UIP_IPH_LEN + Transport(q.proto))
  BY <1>1, <1>2, <1>3, <1>4 DEF Uncompressed
<1>7. r.buf = q /\ r.length = m + 40 + Transport(q.proto)
  BY <1>5, <1>6 DEF Result, UIP_IPH_LEN
<1>8. q.proto = p.proto
  <2>1. p \in Packet({Checksum(p)}) /\ SourceForm(p.src)
    BY PacketNumbers
  <2>2. Kept(q, p, payload)
    BY <1>4, <2>1, HeaderIsRead
  <2> QED
    BY <2>2 DEF Kept
<1>9. Real(q, r.length, p)
  BY <1>4, <1>5, Genuine
<1> QED
  BY <1>1, <1>7, <1>8, <1>9 DEF Expanded

(* f is the frame that output() made of t.pkt; its length is that of the     *)
(* frame only if the packet fits.                                            *)
OnAir(f, t) ==
    LET o == output(t.pkt, t.to, Contexts[t.from])
    IN  /\ Sendable(t) /\ f.orig = t.pkt /\ f.from = t.from /\ f.to = t.to
        /\ f.frame = o.frame /\ f.output = o.fits
        /\ o.fits => f.len = o.len

(* Bytes that were never meant as a header do not pass the first check.      *)
LEMMA GarbageIsRefused == \A length : ~Accepted(Garbage, length)
<1>1. Garbage.vtc = 0
  BY DEF Garbage
<1>2. ~(0 \div 16 = 6)
  BY SMT
<1> QED
  BY <1>1, <1>2 DEF Accepted

(* Whatever the receiver makes of a frame fits in its buffer, and if it is   *)
(* accepted then it is the packet that was sent.                             *)
Harmless(r, p) ==
    r.length \in 0..160 /\ Real(r.buf, r.length, p)

(* input() on any frame that output() made, with any length.                 *)
LEMMA InputIsHarmless ==
    ASSUME NEW f, NEW t, OnAir(f, t), f.len \in 0..128,
           NEW n, NEW contexts, NEW length \in 0..160,
           NEW r \in input(f, n, contexts, length)
    PROVE  Harmless(r, f.orig)
<1>1. PICK p, e, o : /\ p = t.pkt /\ e = compress_hdr_hc06(p, t.to, Contexts[t.from])
                     /\ o = output(p, t.to, Contexts[t.from])
  OBVIOUS
<1>2. Sendable(t) /\ f.orig = p /\ f.frame = o.frame /\ (o.fits => f.len = o.len)
  BY <1>1 DEF OnAir
<1>3. /\ p.data.n \in Nat /\ Transport(p.proto) \in 0..8
      /\ Length(p) = 40 + Transport(p.proto) + p.data.n /\ Length(p) \in 40..160
  BY <1>1, <1>2, PacketNumbers, ZenonT(60)
<1>4. PICK k \in 2..48 : k = HeaderLength(e) /\ (AsItIs(o, p) \/ Shortened(o, p, e, k))
  BY <1>1, <1>2, OutputIs
<1>5. CASE AsItIs(o, p)
  <2>1. /\ f.len = Length(p) + 1 /\ f.frame.dispatch = "IPV6"
        /\ f.frame.hdr = p /\ f.frame.hdrLen = 41
    BY <1>2, <1>5 DEF AsItIs
  <2>2. f.len >= f.frame.hdrLen /\ ~(f.len < f.frame.hdrLen)
    BY <1>3, <2>1
  <2>3. r = Result(p, f.len - 41 + 40)
    BY <2>1, <2>2 DEF input, UIP_IPH_LEN
  <2>4. r.buf = p /\ r.length = f.len - 41 + 40
    BY <2>3 DEF Result
  <2>5. r.length \in 0..160
    BY <1>3, <2>1, <2>4
  <2> QED
    BY <1>2, <2>4, <2>5 DEF Harmless, Real
<1>6. CASE Shortened(o, p, e, k)
  <2>1. /\ o.fits = (p.data.n <= 128 - k) /\ o.len = p.data.n + k
        /\ f.frame.dispatch = "IPHC" /\ f.frame.hdr = e /\ f.frame.hdrLen = k
        /\ f.frame.data \in {Payload(p), Cleared}
    BY <1>2, <1>6 DEF Shortened
  <2>2. CASE f.len < k
    <3>1. r \in CutHeader(f, length)
      BY <2>1, <2>2 DEF input
    <3>2. r.buf = Garbage /\ (r.length = length \/ r.length = f.len - 6 + 40 + 8)
      BY <3>1 DEF CutHeader, Result, UIP_IPH_LEN, UIP_UDPH_LEN
    <3>3. r.length \in 0..160
      BY <2>2, <3>2
    <3> QED
      BY <3>2, <3>3, GarbageIsRefused DEF Harmless, Real
  <2>3. CASE f.len >= k /\ ContextMissing(e, contexts)
    <3>1. r \in FrameAsPacket(f)
      <4>1. ~(f.len < k)
        BY <2>3
      <4> QED
        BY <2>1, <2>3, <4>1 DEF input
    <3>2. r.buf = Garbage /\ r.length = f.len
      BY <3>1 DEF FrameAsPacket, Result
    <3>3. r.length \in 0..160
      BY <3>2
    <3> QED
      BY <3>2, <3>3, GarbageIsRefused DEF Harmless, Real
  <2>4. CASE f.len >= k /\ ~ContextMissing(e, contexts)
    <3>1. r \in Uncompressed(f, n, contexts)
      <4>1. ~(f.len < k)
        BY <2>4
      <4> QED
        BY <2>1, <2>4, <4>1 DEF input
    <3>2. /\ r.length = f.len - k + 40 + Transport(p.proto)
          /\ Real(r.buf, r.length, p)
      <4>1. /\ Sendable(t) /\ p = t.pkt
            /\ e = compress_hdr_hc06(p, t.to, Contexts[t.from])
            /\ f.frame.hdr = e /\ f.frame.data \in {Payload(p), Cleared}
        BY <1>1, <1>2, <2>1, Zenon
      <4>2. Expanded(r, f, p)
        BY <3>1, <4>1, UncompressedGives, Zenon
      <4> QED
        BY <2>1, <4>2 DEF Expanded
    <3>3. f.len - k <= p.data.n
      <4>1. CASE o.fits
        BY <1>2, <1>3, <2>1, <4>1
      <4>2. CASE ~o.fits
        <5>1. ~(p.data.n <= 128 - k)
          BY <2>1, <4>2
        <5> QED
          BY <1>3, <5>1, SMTT(30)
      <4> QED
        BY <4>1, <4>2
    <3>4. r.length \in 0..160
      <4>3. f.len - k \in Nat
        BY <2>4
      <4>1. PICK m \in Nat, d \in Nat, T \in 0..8 :
                m = f.len - k /\ d = p.data.n /\ T = Transport(p.proto)
        BY <1>3, <4>3, Zenon
      <4>2. m \in Nat /\ m <= d /\ 40 + T + d <= 160 /\ r.length = m + 40 + T
        BY <1>3, <2>4, <3>2, <3>3, <4>1
      <4> QED
        BY <4>2
    <3> QED
      BY <1>2, <3>2, <3>4 DEF Harmless
  <2> QED
    BY <2>2, <2>3, <2>4
<1> QED
  BY <1>4, <1>5, <1>6

(* If the receiver has the contexts that were used then a frame that fits    *)
(* gives back its packet, and the packet is accepted.                        *)
LEMMA InputGivesBack ==
    ASSUME NEW f, NEW t, OnAir(f, t), f.output, NEW n, f.to \in {n, Broadcast},
           NEW contexts, OneEach(contexts),
           NEW own, own = Contexts[t.from], NEW p, p = t.pkt,
           ByPrefix(own, p.src) \cup ByPrefix(own, p.dest) \subseteq contexts,
           NEW length, NEW r \in input(f, n, contexts, length)
    PROVE  r.buf = p /\ r.length = Length(p) /\ Accepted(p, Length(p))
<1>1. PICK e, o : e = compress_hdr_hc06(p, t.to, own) /\ o = output(p, t.to, own)
  OBVIOUS
<1>2. Sendable(t) /\ f.orig = p /\ f.to = t.to /\ f.frame = o.frame /\ o.fits /\ f.len = o.len
  BY <1>1 DEF OnAir
<1>3. /\ p \in Packet({Checksum(p)}) /\ p.sum = {Checksum(p)}
      /\ p.proto \in {UIP_PROTO_UDP, UIP_PROTO_ICMP6}
      /\ p.data.n \in Nat /\ Transport(p.proto) \in 0..8
      /\ Length(p) = 40 + Transport(p.proto) + p.data.n /\ Length(p) \in 40..160
      /\ SourceForm(p.src) /\ FilledIn(p)
  BY <1>2, PacketNumbers, ZenonT(60)
<1>4. Accepted(p, Length(p))
  <2>1. p.vtc \div 16 = 6
    <3>1. p.vtc \in 96..111
      BY <1>3 DEF Packet
    <3> QED
      BY <3>1, SMT
  <2>2. ~IsMcast(p.src)
    BY <1>2 DEF Sendable
  <2>3. Length(p) > 0 /\ p.len <= Length(p)
    BY <1>3 DEF FilledIn
  <2> QED
    BY <1>3, <2>1, <2>2, <2>3 DEF Accepted
<1>5. PICK k \in 2..48 : k = HeaderLength(e) /\ (AsItIs(o, p) \/ Shortened(o, p, e, k))
  BY <1>1, <1>2, OutputIs
<1>6. CASE AsItIs(o, p)
  <2>1. /\ f.len = Length(p) + 1 /\ f.frame.dispatch = "IPV6"
        /\ f.frame.hdr = p /\ f.frame.hdrLen = 41
    BY <1>2, <1>6 DEF AsItIs
  <2>2. f.len >= f.frame.hdrLen /\ ~(f.len < f.frame.hdrLen) /\ f.len - 41 + 40 = Length(p)
    BY <1>3, <2>1
  <2>3. r = Result(p, f.len - 41 + 40)
    BY <2>1, <2>2 DEF input, UIP_IPH_LEN
  <2>4. r.buf = p /\ r.length = Length(p)
    BY <2>2, <2>3 DEF Result
  <2> QED
    BY <1>4, <2>4
<1>7. CASE Shortened(o, p, e, k)
  <2>1. /\ f.len = p.data.n + k
        /\ f.frame.dispatch = "IPHC" /\ f.frame.hdr = e /\ f.frame.hdrLen = k
        /\ f.frame.data = Payload(p)
    BY <1>2, <1>7 DEF Shortened
  <2>2. ~(f.len < k) /\ f.len >= k /\ f.len - k = p.data.n
    BY <1>3, <2>1
  <2>3. PICK payload, receiver : /\ payload = [f.frame.data EXCEPT !.n = f.len - f.frame.hdrLen]
                                 /\ receiver = IF f.to = Broadcast THEN Broadcast ELSE n
    OBVIOUS
  <2>4. receiver = t.to
    BY <1>2, <2>3
  <2>5. payload.is = p.data.is /\ payload.n = p.data.n /\ payload.sum = p.sum
    BY <2>1, <2>2, <2>3 DEF Payload
  <2>6. /\ ~ContextMissing(e, contexts)
        /\ uncompress_hdr_hc06(e, f.from, receiver, contexts, payload) = p
    <3>1. PICK sum, l, sender : sum = {Checksum(p)} /\ l = t.to /\ sender = f.from
      OBVIOUS
    <3>2. /\ p \in Packet(sum) /\ SourceForm(p.src) /\ FilledIn(p)
          /\ (~IsMcast(p.dest) => receiver = l) /\ e = compress_hdr_hc06(p, l, own)
      BY <1>1, <1>3, <2>4, <3>1
    <3>3. GivenBack(e, sender, receiver, contexts, payload, p)
      BY <2>5, <3>2, HeaderRoundTrip
    <3> QED
      BY <3>1, <3>3 DEF GivenBack
  <2>7. r \in Uncompressed(f, n, contexts)
    BY <2>1, <2>2, <2>6 DEF input
  <2>8. r = Result(p, payload.n + UIP_IPH_LEN + Transport(p.proto))
    BY <2>1, <2>3, <2>6, <2>7 DEF Uncompressed
  <2>9. r.buf = p /\ r.length = p.data.n + 40 + Transport(p.proto)
    BY <2>5, <2>8 DEF Result, UIP_IPH_LEN
  <2>10. r.length = Length(p)
    BY <1>3, <2>9, SMTT(30)
  <2> QED
    BY <1>4, <2>9, <2>10
<1> QED
  BY <1>5, <1>6, <1>7

-----------------------------------------------------------------------------
(* The invariant: the frame on the air is what output() made of some packet, *)
(* and what was delivered while it is there is that packet.                  *)
FrameIsSent == \A f \in air : \E t \in traffic : OnAir(f, t)
DeliveredIsOnAir == air = {} \/ \A d \in delivered : \E f \in air : d.pkt = f.orig
LowpanInv == TypeOK /\ BufferHolds /\ FrameIsSent /\ DeliveredIsOnAir

(* The sizes of the buffer are words.                                        *)
LEMMA BufferIsWord == \A k \in 0..160 : k \in Word
  BY DEF Word

(* The invariant holds when the nodes start.                                 *)
LEMMA LowpanInit == Init => LowpanInv
<1> SUFFICES ASSUME Init PROVE LowpanInv
  OBVIOUS
<1>1. TypeOK
  BY BufferIsWord DEF Init, TypeOK, MAC_MAX_PAYLOAD
<1>2. BufferHolds
  BY DEF Init, BufferHolds, UIP_BUFSIZE
<1> QED
  BY <1>1, <1>2 DEF Init, LowpanInv, FrameIsSent, DeliveredIsOnAir

(* The types of what the invariant says of a node. *)
LEMMA Lengths ==
    ASSUME LowpanInv, NEW n \in Node
    PROVE  /\ uip_length[n] \in 0..160 /\ uip_6lp_len[n] \in 0..128
           /\ \A f \in air : f.len \in 0..128
<1>1. uip_length[n] \in Word /\ uip_6lp_len[n] \in 0..128
  BY DEF LowpanInv, TypeOK, MAC_MAX_PAYLOAD
<1>2. uip_length[n] \in Nat /\ uip_length[n] <= 160
  BY <1>1, WordIsNat DEF LowpanInv, BufferHolds, UIP_BUFSIZE
<1>3. uip_length[n] \in 0..160
  BY <1>2
<1> QED
  BY <1>1, <1>3 DEF LowpanInv, TypeOK, MAC_MAX_PAYLOAD

(* Send keeps the invariant: what goes on the air is what output() made,     *)
(* with its own length or that of an older frame.                            *)
LEMMA SendKeeps ==
    ASSUME LowpanInv, NEW n \in Node, Send(n)
    PROVE  LowpanInv'
<1>1. PICK t \in traffic : t.from = n /\ air' = {[from |-> n, to |-> t.to,
          frame |-> output(t.pkt, t.to, Contexts[n]).frame,
          len |-> IF output(t.pkt, t.to, Contexts[n]).fits
                    THEN output(t.pkt, t.to, Contexts[n]).len ELSE uip_6lp_len[n],
          output |-> output(t.pkt, t.to, Contexts[n]).fits, orig |-> t.pkt]}
          /\ uip_6lp_len' = [uip_6lp_len EXCEPT ![n] =
                IF output(t.pkt, t.to, Contexts[n]).fits
                    THEN output(t.pkt, t.to, Contexts[n]).len ELSE uip_6lp_len[n]]
  BY Zenon DEF Send
<1>2. PICK o : o = output(t.pkt, t.to, Contexts[n])
  OBVIOUS
<1>3. PICK len : len = IF o.fits THEN o.len ELSE uip_6lp_len[n]
  OBVIOUS
<1>4. PICK f : f = [from |-> n, to |-> t.to, frame |-> o.frame, len |-> len,
                    output |-> o.fits, orig |-> t.pkt]
  OBVIOUS
<1>5. /\ air' = {f} /\ uip_6lp_len' = [uip_6lp_len EXCEPT ![n] = len]
  BY <1>1, <1>2, <1>3, <1>4, Zenon
<1>6. /\ uip_length' = [uip_length EXCEPT ![n] = 0] /\ delivered' = {} /\ traffic' = traffic
  BY DEF Send
<1>7. traffic \in Traffic /\ Sendable(t)
  BY SourceAssumption DEF LowpanInv, TypeOK
<1>8. OnAir(f, t)
  <2>1. /\ f.orig = t.pkt /\ f.from = t.from /\ f.to = t.to /\ f.frame = o.frame
        /\ f.output = o.fits /\ f.len = len
    BY <1>1, <1>4
  <2>2. o = output(t.pkt, t.to, Contexts[t.from])
    BY <1>1, <1>2
  <2> QED
    BY <1>3, <1>7, <2>1, <2>2 DEF OnAir
<1>9. len \in 0..128
  <2>1. PICK p, e : p = t.pkt /\ e = compress_hdr_hc06(p, t.to, Contexts[n])
    OBVIOUS
  <2>2. /\ p.data.n \in Nat /\ Length(p) \in 40..160
    BY <1>7, <2>1, PacketNumbers
  <2>3. PICK k \in 2..48 : \/ AsItIs(o, p) /\ Length(p) < 64
                           \/ Shortened(o, p, e, k)
    BY <1>2, <1>7, <2>1, OutputIs
  <2>4. ASSUME o.fits PROVE o.len \in 0..128
    <3>1. CASE AsItIs(o, p) /\ Length(p) < 64
      BY <2>2, <3>1 DEF AsItIs
    <3>2. CASE Shortened(o, p, e, k)
      <4>1. p.data.n <= 128 - k /\ o.len = p.data.n + k
        BY <2>4, <3>2 DEF Shortened
      <4>2. PICK d \in Nat : d = p.data.n
        BY <2>2
      <4>3. d <= 128 - k /\ o.len = d + k
        BY <4>1, <4>2
      <4> QED
        BY <4>3
    <3> QED
      BY <2>3, <3>1, <3>2
  <2> QED
    BY <1>3, <2>4, Lengths
<1>10. TypeOK'
  <2>1. uip_6lp_len' \in [Node -> 0..128]
    BY <1>5, <1>9 DEF LowpanInv, TypeOK, MAC_MAX_PAYLOAD
  <2>2. uip_length' \in [Node -> Word]
    BY <1>6, BufferIsWord DEF LowpanInv, TypeOK
  <2>3. /\ f.from \in Node /\ f.to \in Node \cup {Broadcast} /\ f.len \in 0..128
        /\ t.pkt = f.orig
    BY <1>4, <1>7, <1>9 DEF Sendable
  <2> QED
    BY <1>5, <1>6, <1>7, <2>1, <2>2, <2>3 DEF TypeOK, MAC_MAX_PAYLOAD
<1>11. BufferHolds'
  <2> SUFFICES ASSUME NEW m \in Node PROVE uip_length'[m] <= 160
    BY DEF BufferHolds, UIP_BUFSIZE
  <2>1. uip_length'[m] = IF m = n THEN 0 ELSE uip_length[m]
    BY <1>6 DEF LowpanInv, TypeOK
  <2> QED
    BY <2>1, Lengths
<1>12. FrameIsSent' /\ DeliveredIsOnAir'
  BY <1>5, <1>6, <1>8 DEF FrameIsSent, DeliveredIsOnAir
<1> QED
  BY <1>10, <1>11, <1>12 DEF LowpanInv

(* Receive keeps the invariant and delivers what is on the air, or nothing.  *)
LEMMA ReceiveKeeps ==
    ASSUME LowpanInv, NEW n \in Node, Receive(n)
    PROVE  LowpanInv' /\ \A d \in delivered' : \E f \in air : d.pkt = f.orig
<1>1. PICK f \in air : \E r \in input(f, n, Contexts[n], uip_length[n]) :
          /\ uip_6lp_len' = [uip_6lp_len EXCEPT ![n] = f.len]
          /\ uip_length' = [uip_length EXCEPT ![n] = r.length]
          /\ delivered' = IF Accepted(r.buf, r.length)
                            THEN {[node |-> n, pkt |-> r.buf]} ELSE {}
          /\ air' \in {{}, air} /\ traffic' = traffic
  BY Zenon DEF Receive
<1>2. PICK r \in input(f, n, Contexts[n], uip_length[n]) :
          /\ uip_6lp_len' = [uip_6lp_len EXCEPT ![n] = f.len]
          /\ uip_length' = [uip_length EXCEPT ![n] = r.length]
          /\ delivered' = IF Accepted(r.buf, r.length)
                            THEN {[node |-> n, pkt |-> r.buf]} ELSE {}
          /\ air' \in {{}, air} /\ traffic' = traffic
  BY <1>1, Zenon
<1>3. PICK t \in traffic : OnAir(f, t)
  BY <1>1 DEF LowpanInv, FrameIsSent
<1>4. uip_length[n] \in 0..160 /\ f.len \in 0..128
  BY <1>1, Lengths
<1>5. Harmless(r, f.orig)
  BY <1>2, <1>3, <1>4, InputIsHarmless
<1>6. r.length \in 0..160 /\ (Accepted(r.buf, r.length) => r.buf = f.orig)
  BY <1>5 DEF Harmless, Real
<1>7. \A d \in delivered' : d.pkt = f.orig
  BY <1>2, <1>6
<1>8. TypeOK'
  <2>1. uip_6lp_len' \in [Node -> 0..128]
    BY <1>2, <1>4 DEF LowpanInv, TypeOK, MAC_MAX_PAYLOAD
  <2>2. uip_length' \in [Node -> Word]
    BY <1>2, <1>6, BufferIsWord DEF LowpanInv, TypeOK
  <2>3. air' = {} \/ air' = air
    BY <1>2
  <2> QED
    BY <1>2, <2>1, <2>2, <2>3 DEF LowpanInv, TypeOK, MAC_MAX_PAYLOAD
<1>9. BufferHolds'
  <2> SUFFICES ASSUME NEW m \in Node PROVE uip_length'[m] <= 160
    BY DEF BufferHolds, UIP_BUFSIZE
  <2>1. uip_length'[m] = IF m = n THEN r.length ELSE uip_length[m]
    BY <1>2 DEF LowpanInv, TypeOK
  <2> QED
    BY <1>6, <2>1, Lengths
<1>10. FrameIsSent' /\ DeliveredIsOnAir'
  BY <1>1, <1>2, <1>7 DEF LowpanInv, FrameIsSent, DeliveredIsOnAir
<1> QED
  BY <1>1, <1>7, <1>8, <1>9, <1>10 DEF LowpanInv

(* A loss keeps it: what was delivered before is what was on the air.        *)
LEMMA LoseKeeps ==
    ASSUME LowpanInv, Lose
    PROVE  LowpanInv' /\ \A d \in delivered' : \E f \in air : d.pkt = f.orig
<1>1. TypeOK' /\ BufferHolds'
  BY DEF Lose, LowpanInv, TypeOK, BufferHolds
<1> QED
  BY <1>1 DEF Lose, LowpanInv, FrameIsSent, DeliveredIsOnAir

(* A step that changes nothing keeps it.                                     *)
LEMMA StutterKeeps ==
    ASSUME LowpanInv, UNCHANGED vars
    PROVE  LowpanInv'
  BY DEF LowpanInv, TypeOK, BufferHolds, FrameIsSent, DeliveredIsOnAir, vars

(* The invariant holds in every reachable state.                             *)
THEOREM LowpanInvariance == Spec => []LowpanInv
<1>1. ASSUME LowpanInv, [Next]_vars PROVE LowpanInv'
  <2>1. CASE \E n \in Node : Send(n)
    BY <1>1, <2>1, SendKeeps
  <2>2. CASE \E n \in Node : Receive(n)
    BY <1>1, <2>2, ReceiveKeeps
  <2>3. CASE Lose
    BY <1>1, <2>3, LoseKeeps
  <2>4. CASE UNCHANGED vars
    BY <1>1, <2>4, StutterKeeps
  <2> QED
    BY <1>1, <2>1, <2>2, <2>3, <2>4 DEF Next
<1> QED
  BY <1>1, LowpanInit, PTL DEF Spec

(* Types of the state of Lowpan, the lengths of buffers and frames included. *)
THEOREM LowpanTypeCorrect == Spec => []TypeOK
<1>1. LowpanInv => TypeOK
  BY DEF LowpanInv
<1> QED
  BY <1>1, LowpanInvariance, PTL

(* input() never writes behind the end of uip_buf, for all packets, contexts *)
(* and sizes, also when a frame has the length of another one.               *)
THEOREM BufferDoesHold == Spec => []BufferHolds
<1>1. LowpanInv => BufferHolds
  BY DEF LowpanInv
<1> QED
  BY <1>1, LowpanInvariance, PTL

(* What receive_ipv6() accepts is the packet that compress() was given,      *)
(* whatever became of its frame.                                             *)
THEOREM OnlySentIsDelivered == Spec => DeliveredWasSent
<1>1. ASSUME LowpanInv, [Next]_vars
      PROVE  [\A d \in delivered' : \E f \in air : d.pkt = f.orig]_vars
  <2>1. CASE \E n \in Node : Send(n)
    <3>1. delivered' = {}
      BY <2>1 DEF Send
    <3> QED
      BY <3>1
  <2>2. CASE \E n \in Node : Receive(n)
    BY <1>1, <2>2, ReceiveKeeps
  <2>3. CASE Lose
    BY <1>1, <2>3, LoseKeeps
  <2>4. CASE UNCHANGED vars
    BY <2>4
  <2> QED
    BY <1>1, <2>1, <2>2, <2>3, <2>4 DEF Next
<1> QED
  BY <1>1, LowpanInvariance, PTL DEF Spec, DeliveredWasSent

(* A packet that output() takes is given back by input() in every field, for *)
(* all addresses, ports, sizes and contexts that both nodes have.            *)
THEOREM FrameRoundTrip == Spec => RoundTrip
<1>1. ASSUME LowpanInv, NEW n \in Node, NEW f \in air, Receive(n), f.output, ContextsShared(f, n)
      PROVE  /\ delivered' = {[node |-> n, pkt |-> f.orig]}
             /\ uip_length'[n] = Length(f.orig)
  <2>1. PICK g \in air : g.to \in {n, Broadcast} /\
            \E r \in input(g, n, Contexts[n], uip_length[n]) :
                /\ uip_length' = [uip_length EXCEPT ![n] = r.length]
                /\ delivered' = IF Accepted(r.buf, r.length)
                                  THEN {[node |-> n, pkt |-> r.buf]} ELSE {}
    BY <1>1, Zenon DEF Receive
  <2>2. f = g
    BY <1>1, <2>1 DEF LowpanInv, TypeOK
  <2>3. PICK r \in input(f, n, Contexts[n], uip_length[n]) :
            /\ uip_length' = [uip_length EXCEPT ![n] = r.length]
            /\ delivered' = IF Accepted(r.buf, r.length)
                              THEN {[node |-> n, pkt |-> r.buf]} ELSE {}
    BY <2>1, <2>2, Zenon
  <2>4. PICK t \in traffic : OnAir(f, t)
    BY <1>1 DEF LowpanInv, FrameIsSent
  <2>5. f.orig = t.pkt /\ f.from = t.from
    BY <2>4 DEF OnAir
  <2>6. OneEach(Contexts[n])
    BY ContextAssumption DEF OneEach
  <2>7. PICK own, p : own = Contexts[t.from] /\ p = t.pkt
    OBVIOUS
  <2>8. ByPrefix(own, p.src) \cup ByPrefix(own, p.dest) \subseteq Contexts[n]
    BY <1>1, <2>5, <2>7 DEF ContextsShared
  <2>9. r.buf = p /\ r.length = Length(p) /\ Accepted(p, Length(p))
    BY <1>1, <2>1, <2>2, <2>3, <2>4, <2>6, <2>7, <2>8, InputGivesBack
  <2>10. uip_length'[n] = r.length
    BY <1>1, <2>3 DEF LowpanInv, TypeOK
  <2> QED
    BY <2>3, <2>5, <2>7, <2>9, <2>10
<1>2. ASSUME LowpanInv
      PROVE  [\A n \in Node : \A f \in air :
                Receive(n) /\ f.output /\ ContextsShared(f, n)
                  => /\ delivered' = {[node |-> n, pkt |-> f.orig]}
                     /\ uip_length'[n] = Length(f.orig)]_vars
  BY <1>1, <1>2
<1> QED
  BY <1>2, LowpanInvariance, PTL DEF Spec, RoundTrip
=============================================================================
