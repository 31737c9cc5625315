------------------------------- MODULE Lowpan -------------------------------
(* The 6LoWPAN adaptation layer between two nodes: the path of a packet from *)
(* ip_send() through compress(), output() and the MAC layer to receive_mac(),*)
(* input() and the checks of receive_ipv6() on the other node.               *)
(*                                                                           *)
(* Each node has one buffer for packets and one for frames, used in both     *)
(* directions, with their lengths in the globals uip_length and uip_6lp_len. *)
(* What is left of a frame in uip_6lp_buf needs no variable: output() clears *)
(* the buffer and a reception overwrites it, as far as the frame goes.       *)
(* Payload bytes are a label and a number; a checksum is what it covers, {}  *)
(* a field that was cleared.                                                 *)
EXTENDS Iphc

CONSTANTS a, b,       \* the two nodes, named by their link-layer addresses
          Contexts,   \* the compression contexts a node is built with
          Traffic     \* each element: what may be sent in one behaviour

Node      == {a, b}
Broadcast == "rimeaddr_null"

COMPRESSION_THRESHOLD == 64
MAC_MAX_PAYLOAD       == 128
UIP_BUFSIZE           == 160
SICSLOWPAN_IPV6_HDR_LEN == 1

Length(p) == UIP_IPH_LEN + Transport(p.proto) + p.data.n

(* Mutant: the pseudo header is left out of the sum. *)
PayloadChecksum(p) ==
    [proto |-> p.proto, ports |-> <<p.srcport, p.destport>>, data |-> p.data]

(* What upper_layer_chksum() sums: pseudo header, ports and data. *)
Checksum(p) ==
    [src |-> p.src, dest |-> p.dest, len |-> p.len, proto |-> p.proto,
     ports |-> <<p.srcport, p.destport>>, data |-> p.data]

(* Not the packet of any node: bytes that were never meant as a header.      *)
Garbage ==
    [vtc |-> 0, tcflow |-> 0, flow |-> 0, len |-> 0, proto |-> 0, ttl |-> 0,
     src |-> Unspecified, dest |-> Unspecified, srcport |-> 0, destport |-> 0,
     udplen |-> 0, sum |-> {}, data |-> [is |-> "stale", n |-> 0]]

(* What udp_send() and icmp6_send() hand to ip_send(), and ip_send() to      *)
(* compress().  The 54 bits after fe80::/10 are zero in every address a node *)
(* gives itself; compress_hdr_hc06() relies on it for a link-local source.   *)
(* No identifier is what happens to be stored at a global pointer.           *)
Sendable(t) ==
    /\ t.from \in Node /\ t.to \in (Node \cup {Broadcast}) \ {t.from}
    /\ t.pkt \in Packet({Checksum(t.pkt)})
    /\ IsLinkLocal(t.pkt.src) => t.pkt.src.mid = "0"
    /\ t.pkt.src.iid # AtPointer
    /\ ~IsMcast(t.pkt.src) /\ t.pkt.dest # Unspecified
    /\ IsMcast(t.pkt.dest) <=> t.to = Broadcast
    /\ t.pkt.len = Transport(t.pkt.proto) + t.pkt.data.n
    /\ t.pkt.proto = UIP_PROTO_UDP => t.pkt.udplen = t.pkt.len
    /\ t.pkt.proto = UIP_PROTO_ICMP6 =>
           t.pkt.srcport = 0 /\ t.pkt.destport = 0 /\ t.pkt.udplen = 0
    /\ Length(t.pkt) <= UIP_BUFSIZE

ASSUME SourceAssumption == \A T \in Traffic : \A t \in T : Sendable(t)

(* The contexts of a node have one number each.                              *)
ASSUME ContextAssumption ==
    /\ Contexts \in [Node -> SUBSET AddressContext]
    /\ \A n \in Node : \A c, d \in Contexts[n] : c.number = d.number => c = d

VARIABLES
    traffic,        \* what may be sent in this behaviour
    uip_buf,        \* the packet in each node's buffer, received or sent
    uip_length,
    uip_6lp_len,
    air,            \* the frame on its way, if any
    delivered       \* history: what the last reception handed to the upper layer

vars == <<traffic, uip_buf, uip_length, uip_6lp_len, air, delivered>>

Init ==
    /\ traffic \in Traffic
    /\ uip_buf = [n \in Node |-> Garbage]
    /\ uip_length = [n \in Node |-> 0]
    /\ uip_6lp_len = [n \in Node |-> 0]
    /\ air = {}
    /\ delivered = {}

TypeOK ==
    /\ traffic \in Traffic
    /\ uip_length \in [Node -> Word]
    /\ uip_6lp_len \in [Node -> 0..MAC_MAX_PAYLOAD]
    /\ \A f \in air : /\ f.from \in Node
                      /\ f.to \in Node \cup {Broadcast}
                      /\ f.len \in 0..MAC_MAX_PAYLOAD
                      /\ \E t \in traffic : t.pkt = f.orig
    /\ air = {} \/ \E f \in air : air = {f}

-----------------------------------------------------------------------------
(* output(): the frame in uip_6lp_buf, whether it fits, and its length then. *)

Payload(p) == [is |-> p.data.is, n |-> p.data.n, sum |-> p.sum]
Cleared    == [is |-> "zero", n |-> 0, sum |-> {}]

(* The IPv6 dispatch byte and the header as it is. *)
compress_hdr_ipv6(p) ==
    [dispatch |-> "IPV6", hdr |-> p, hdrLen |-> SICSLOWPAN_IPV6_HDR_LEN + UIP_IPH_LEN,
     uncomp |-> UIP_IPH_LEN]

Header(p, dest, contexts) ==
    LET e == compress_hdr_hc06(p, dest, contexts)
    IN  IF Length(p) >= COMPRESSION_THRESHOLD
          THEN [dispatch |-> "IPHC", hdr |-> e, hdrLen |-> HeaderLength(e),
                uncomp |-> UIP_IPH_LEN + Transport(p.proto)]
          ELSE compress_hdr_ipv6(p)

(* Mutant: the size of the frame is not compared with what the MAC takes. *)
OutputUnchecked(p, dest, contexts) ==
    LET h == Header(p, dest, contexts)
    IN  [fits  |-> TRUE,
         len   |-> Length(p) - h.uncomp + h.hdrLen,
         frame |-> [dispatch |-> h.dispatch, hdr |-> h.hdr, hdrLen |-> h.hdrLen,
                    data |-> Payload(p)]]

output(p, dest, contexts) ==
    LET h    == Header(p, dest, contexts)
        fits == Length(p) - h.uncomp <= MAC_MAX_PAYLOAD - h.hdrLen
    IN  [fits  |-> fits,
         len   |-> Length(p) - h.uncomp + h.hdrLen,
         frame |-> [dispatch |-> h.dispatch, hdr |-> h.hdr, hdrLen |-> h.hdrLen,
                    data |-> IF fits THEN Payload(p) ELSE Cleared]]

-----------------------------------------------------------------------------
(* input(): what is in uip_buf and uip_length afterwards; f is the frame in  *)
(* uip_6lp_buf, of which f.len bytes were received.                          *)

Result(buf, length) == [buf |-> buf, length |-> length]

(* The header is cut off: it is read on into what an older frame left behind *)
(* and gives some header.  The payload is dropped, or, if that header is     *)
(* short enough, what follows it in the frame is taken: at most f.len bytes  *)
(* less the shortest header (6 bytes) and the headers it stands for (48).    *)
CutHeader(f, length) ==
    {Result(Garbage, length),
     Result(Garbage, f.len - 6 + UIP_IPH_LEN + UIP_UDPH_LEN)}

(* A context that the node does not have: uncompress_hdr_hc06() returns with *)
(* both header lengths zero, and the whole frame is copied as a packet.      *)
FrameAsPacket(f) == {Result(Garbage, f.len)}

(* Mutant: the compressed header is counted as payload. *)
HeaderCounted(f, own, contexts) ==
    LET p == uncompress_hdr_hc06(f.frame.hdr, f.from, own, contexts, f.frame.data)
    IN  {Result(p, f.len + UIP_IPH_LEN + Transport(p.proto))}

Uncompressed(f, own, contexts) ==
    LET payload == [f.frame.data EXCEPT !.n = f.len - f.frame.hdrLen]
        receiver == IF f.to = Broadcast THEN Broadcast ELSE own
        p == uncompress_hdr_hc06(f.frame.hdr, f.from, receiver, contexts, payload)
    IN  {Result(p, payload.n + UIP_IPH_LEN + Transport(p.proto))}

input(f, own, contexts, length) ==
    CASE f.len < f.frame.hdrLen -> CutHeader(f, length)
      [] f.len >= f.frame.hdrLen /\ f.frame.dispatch = "IPV6" ->
            {Result(f.frame.hdr, f.len - f.frame.hdrLen + UIP_IPH_LEN)}
      [] OTHER -> IF ContextMissing(f.frame.hdr, contexts)
                    THEN FrameAsPacket(f) ELSE Uncompressed(f, own, contexts)

(* The checks of receive_ipv6(), and of the checksum by udp_input() and      *)
(* icmp6_input(), on uip_len = uip_length.                                   *)
Accepted(p, uip_len) ==
    /\ uip_len > 0
    /\ p.vtc \div 16 = 6
    /\ p.len <= uip_len
    /\ ~IsMcast(p.src)
    /\ p.proto \in {UIP_PROTO_UDP, UIP_PROTO_ICMP6}
    /\ p.sum = {Checksum(p)}

-----------------------------------------------------------------------------
(* compress() does not look at what output() returns: when the packet does   *)
(* not fit it sends as many bytes as the last frame had, in or out.          *)
Send(n) ==
    \E t \in traffic :
        LET o   == output(t.pkt, t.to, Contexts[n])
            len == IF o.fits THEN o.len ELSE uip_6lp_len[n]
        IN  /\ t.from = n
            /\ air = {}
            /\ uip_buf' = [uip_buf EXCEPT ![n] = t.pkt]
            /\ uip_length' = [uip_length EXCEPT ![n] = 0]
            /\ uip_6lp_len' = [uip_6lp_len EXCEPT ![n] = len]
            /\ air' = {[from |-> n, to |-> t.to, frame |-> o.frame, len |-> len,
                        output |-> o.fits, orig |-> t.pkt]}
            /\ delivered' = {}
            /\ UNCHANGED traffic

(* A frame may arrive a second time: a retransmission of the link layer      *)
(* whose acknowledgement was lost.                                           *)
Receive(n) ==
    \E f \in air : \E r \in input(f, n, Contexts[n], uip_length[n]) :
        /\ f.to \in {n, Broadcast} /\ f.from # n
        /\ uip_6lp_len' = [uip_6lp_len EXCEPT ![n] = f.len]
        /\ uip_buf' = [uip_buf EXCEPT ![n] = r.buf]
        /\ uip_length' = [uip_length EXCEPT ![n] = r.length]
        /\ delivered' = IF Accepted(r.buf, r.length)
                          THEN {[node |-> n, pkt |-> r.buf]} ELSE {}
        /\ air' \in {{}, air}
        /\ UNCHANGED traffic

Lose ==
    /\ air # {}
    /\ air' = {}
    /\ UNCHANGED <<traffic, uip_buf, uip_length, uip_6lp_len, delivered>>

Next == (\E n \in Node : Send(n) \/ Receive(n)) \/ Lose

Spec == Init /\ [][Next]_vars

-----------------------------------------------------------------------------
(* Properties *)

(* Every context the sender's header refers to is one the receiver has.      *)
ContextsShared(f, n) ==
    LET used == ByPrefix(Contexts[f.from], f.orig.src)
                   \cup ByPrefix(Contexts[f.from], f.orig.dest)
    IN  used \subseteq Contexts[n]

(* What output() accepts is what the receiver's input() gives back, in every *)
(* field of the headers, the lengths that are not transmitted, the checksum  *)
(* and the payload: whatever the addresses, prefixes, ports and sizes are,   *)
(* and whatever is left of earlier packets in the buffers of both nodes.     *)
RoundTrip ==
    [][\A n \in Node : \A f \in air :
        Receive(n) /\ f.output /\ ContextsShared(f, n)
            => /\ delivered' = {[node |-> n, pkt |-> f.orig]}
               /\ uip_length'[n] = Length(f.orig)]_vars

(* A packet that passes the checks of the receiver is the one that was sent, *)
(* also when the frame went out with the length of an older frame, was cut   *)
(* off inside its header or referred to a context the receiver has not.      *)
DeliveredWasSent ==
    [][\A d \in delivered' : \E f \in air : d.pkt = f.orig]_vars

(* input() never writes behind the end of uip_buf, although it takes the     *)
(* length of the payload from the frame and never compares it with the size  *)
(* of the buffer, and although a frame may carry the length of another one.  *)
BufferHolds == \A n \in Node : uip_length[n] <= UIP_BUFSIZE

-----------------------------------------------------------------------------
(* What a comment of the source says and the code does not do *)

(* sicsLowPan.c: a packet that is too large without fragmentation is         *)
(* dropped.  output() returns 0, and compress() transmits all the same.      *)
TooLargeIsDropped == \A f \in air : f.output
=============================================================================
