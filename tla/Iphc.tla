-------------------------------- MODULE Iphc --------------------------------
(* The header compression of sicsLowPan.c: compress_hdr_hc06() writes the    *)
(* IPv6 and UDP headers as two bytes of flags and a row of inline fields,    *)
(* uncompress_hdr_hc06() reads them back.  No state: the buffers the two     *)
(* functions work on are in Lowpan.                                          *)
(*                                                                           *)
(* An address is its first 16 bits, the next 48, and an interface identifier *)
(* (64 bits); an identifier made from a link-layer address bears that        *)
(* address's name.  A multicast address has pfx = "ff", its flags and scope  *)
(* in mid and its group in iid.                                              *)
EXTENDS Integers, Sequences

CONSTANTS ShortIid,   \* identifiers 0000:00ff:fe00:XXXX
          Group8,     \* multicast groups that fit in the last 8 bits,
          Group32,    \* in the last 24 (FFXX::00XX:XXXX),
          Group48,    \* in the last 40 (FFXX::00XX:XXXX:XXXX)
          AtPointer   \* the identifier that the bytes at &uip_lladdr would be

ASSUME GroupAssumption ==
    Group8 \cap Group32 = {} /\ Group8 \cap Group48 = {} /\ Group32 \cap Group48 = {}

UIP_PROTO_UDP   == 17
UIP_PROTO_ICMP6 == 58
UIP_IPH_LEN     == 40
UIP_UDPH_LEN    == 8
Transport(proto) == IF proto = UIP_PROTO_UDP THEN UIP_UDPH_LEN ELSE 0

SICSLOWPAN_UDP_4_BIT_PORT_MIN == 61616      \* 0xF0B0
SICSLOWPAN_UDP_8_BIT_PORT_MIN == 61440      \* 0xF000

Byte == 0..255
Word == 0..65535

(* What the code keeps of an address, of a context of addr_contexts and of a *)
(* packet whose checksum field is sum; data.n counts the bytes behind the    *)
(* transport header.                                                         *)
Address == [pfx : STRING, mid : STRING, iid : STRING]
AddressContext == [number : Nat, pfx : STRING, mid : STRING]
Packet(sum) ==
    [vtc : 96..111, tcflow : Byte, flow : Word, len : Byte,
     proto : {UIP_PROTO_UDP, UIP_PROTO_ICMP6}, ttl : Byte,
     src : Address, dest : Address, srcport : Word, destport : Word,
     udplen : Byte, sum : {sum}, data : [is : STRING, n : Nat]]

Unspecified == [pfx |-> "0", mid |-> "0", iid |-> "0"]
IsMcast(a) == a.pfx = "ff"
IsLinkLocal(a) == a.pfx = "fe80"

(* u16[1], u16[2] and u16[3] are zero. *)
NoSubnet(a) ==
    IF IsMcast(a) THEN a.iid \in Group8 \cup Group32 \cup Group48 ELSE a.mid = "0"

(* addr_context_lookup_by_prefix() and addr_context_lookup_by_number(). *)
ByPrefix(contexts, a) == {c \in contexts : c.pfx = a.pfx /\ c.mid = a.mid}
ByNumber(contexts, i) == {c \in contexts : c.number = i}

(* One inline field: hc06_ptr moves by n. *)
Inline(n, v) == <<[n |-> n, v |-> v]>>
Bytes(in) ==
    LET sum[i \in 0..Len(in)] == IF i = 0 THEN 0 ELSE sum[i - 1] + in[i].n
    IN  sum[Len(in)]

-----------------------------------------------------------------------------
(* compress_hdr_hc06() *)

(* Traffic class and flow label.  The class goes out with its two ECN bits   *)
(* in front of the six DSCP bits, in the packet it is the other way round.   *)
TrafficClass(p) == (p.vtc % 16) * 16 + p.tcflow \div 16

ClassAndLabel(p) ==
    LET tmp     == (TrafficClass(p) % 4) * 64 + TrafficClass(p) \div 4
        noLabel == p.tcflow % 16 = 0 /\ p.flow = 0
        noClass == TrafficClass(p) = 0
    IN  [fl |-> noLabel, tc |-> noClass,
         in |-> CASE noLabel /\ noClass -> <<>>
                  [] noLabel /\ ~noClass -> Inline(1, tmp)
                  [] ~noLabel /\ noClass ->
                        Inline(1, (tmp \div 64) * 64 + (p.tcflow % 16)) \o Inline(2, p.flow)
                  [] OTHER ->
                        Inline(1, tmp) \o Inline(1, p.tcflow) \o Inline(2, p.flow)]

HopLimit(p) ==
    CASE p.ttl = 1   -> [hl |-> 1, in |-> <<>>]
      [] p.ttl = 64  -> [hl |-> 2, in |-> <<>>]
      [] p.ttl = 255 -> [hl |-> 3, in |-> <<>>]
      [] OTHER       -> [hl |-> 0, in |-> Inline(1, p.ttl)]

(* Mutant: every identifier of 64 bits is taken for one that follows from    *)
(* the link-layer address.                                                   *)
AlwaysElided(a, lladdr) ==
    IF a.iid \in ShortIid THEN [mode |-> 2, in |-> Inline(2, a.iid)]
    ELSE [mode |-> 3, in |-> <<>>]

(* An identifier that follows from the link-layer address is left out. *)
compress_addr_64(a, lladdr) ==
    IF a.iid = lladdr THEN [mode |-> 3, in |-> <<>>]
    ELSE IF a.iid \in ShortIid THEN [mode |-> 2, in |-> Inline(2, a.iid)]
    ELSE [mode |-> 1, in |-> Inline(8, a.iid)]

Compressed(context, c) == [ctx |-> context, mode |-> c.mode, in |-> c.in]
InFull(a) == [ctx |-> FALSE, mode |-> 0, in |-> Inline(16, a)]

(* compress_addr_64() gets &uip_lladdr, the address of a pointer, where the  *)
(* destination's gets a link-layer address: it compares the identifier with  *)
(* the bytes of the pointer and of what follows it in memory.  For a         *)
(* link-local source it is the destination's subnet that is looked at.       *)
Source(p, contexts) ==
    CASE p.src = Unspecified ->
            [ctx |-> TRUE, mode |-> 0, in |-> <<>>]
      [] p.src # Unspecified /\ ByPrefix(contexts, p.src) # {} ->
            Compressed(TRUE, compress_addr_64(p.src, AtPointer))
      [] ByPrefix(contexts, p.src) = {} /\ IsLinkLocal(p.src) /\ NoSubnet(p.dest) ->
            Compressed(FALSE, compress_addr_64(p.src, AtPointer))
      [] OTHER -> InFull(p.src)

Multicast(a) ==
    CASE a.iid \in Group8 /\ a.mid = "02" ->
            [ctx |-> FALSE, mode |-> 3, in |-> Inline(1, a.iid)]
      [] (a.iid \in Group8 /\ a.mid # "02") \/ a.iid \in Group32 ->
            [ctx |-> FALSE, mode |-> 2, in |-> Inline(1, a.mid) \o Inline(3, a.iid)]
      [] a.iid \in Group48 ->
            [ctx |-> FALSE, mode |-> 1, in |-> Inline(1, a.mid) \o Inline(5, a.iid)]
      [] OTHER -> InFull(a)

Unicast(a, rime_destaddr, contexts) ==
    IF ByPrefix(contexts, a) # {}
      THEN Compressed(TRUE, compress_addr_64(a, rime_destaddr))
    ELSE IF IsLinkLocal(a) /\ NoSubnet(a)
      THEN Compressed(FALSE, compress_addr_64(a, rime_destaddr))
    ELSE InFull(a)

Destination(p, rime_destaddr, contexts) ==
    IF IsMcast(p.dest) THEN Multicast(p.dest)
                       ELSE Unicast(p.dest, rime_destaddr, contexts)

(* The NHC byte, of which only the two port bits vary, the ports and the     *)
(* checksum.                                                                 *)
In4(port) == port \div 16 = SICSLOWPAN_UDP_4_BIT_PORT_MIN \div 16
In8(port) == port \div 256 = SICSLOWPAN_UDP_8_BIT_PORT_MIN \div 256

UdpHeader(p) ==
    LET s8 == p.srcport - SICSLOWPAN_UDP_8_BIT_PORT_MIN
        d8 == p.destport - SICSLOWPAN_UDP_8_BIT_PORT_MIN
        s4 == p.srcport - SICSLOWPAN_UDP_4_BIT_PORT_MIN
        d4 == p.destport - SICSLOWPAN_UDP_4_BIT_PORT_MIN
        ports == CASE In4(p.srcport) /\ In4(p.destport) ->
                        Inline(1, 3) \o Inline(1, s4 * 16 + d4)
                   [] ~(In4(p.srcport) /\ In4(p.destport)) /\ In8(p.destport) ->
                        Inline(1, 1) \o Inline(2, p.srcport) \o Inline(1, d8)
                   [] ~In8(p.destport) /\ In8(p.srcport) ->
                        Inline(1, 2) \o Inline(1, s8) \o Inline(2, p.destport)
                   [] OTHER ->
                        Inline(1, 0) \o Inline(2, p.srcport) \o Inline(2, p.destport)
    IN  IF p.proto = UIP_PROTO_UDP THEN ports \o Inline(2, p.sum) ELSE <<>>

ContextNumber(contexts, a) ==
    IF ByPrefix(contexts, a) = {} THEN 0
    ELSE (CHOOSE c \in ByPrefix(contexts, a) : TRUE).number

compress_hdr_hc06(p, rime_destaddr, contexts) ==
    LET t == ClassAndLabel(p)
        h == HopLimit(p)
        s == Source(p, contexts)
        d == Destination(p, rime_destaddr, contexts)
        udp == p.proto = UIP_PROTO_UDP
    IN  [fl  |-> t.fl, tc |-> t.tc, nh |-> udp, hl |-> h.hl,
         cid |-> ByPrefix(contexts, p.dest) \cup ByPrefix(contexts, p.src) # {},
         sac |-> s.ctx, sam |-> s.mode,
         m   |-> IsMcast(p.dest), dac |-> d.ctx, dam |-> d.mode,
         sci |-> ContextNumber(contexts, p.src),
         dci |-> ContextNumber(contexts, p.dest),
         in  |-> t.in \o (IF udp THEN <<>> ELSE Inline(1, p.proto))
                 \o h.in \o s.in \o d.in \o UdpHeader(p)]

(* The bytes of a compressed header. *)
HeaderLength(e) == 2 + (IF e.cid THEN 1 ELSE 0) + Bytes(e.in)

-----------------------------------------------------------------------------
(* uncompress_hdr_hc06(): each operator reads its fields at the head of in   *)
(* and returns what is left of in as rest.                                   *)

From(in, k) == SubSeq(in, k, Len(in))

ReadClassAndLabel(e) ==
    LET tmp   == Head(e.in).v
        class == 96 + ((tmp \div 4) % 16)
        dscp  == (tmp % 4) * 64
        ecn   == (tmp \div 64) * 16
    IN  CASE ~e.fl /\ ~e.tc ->
                [vtc |-> class, tcflow |-> ecn + dscp + (e.in[2].v % 16),
                 flow |-> e.in[3].v, rest |-> From(e.in, 4)]
          [] ~e.fl /\ e.tc ->
                [vtc |-> 96, tcflow |-> (tmp % 16) + ecn,
                 flow |-> e.in[2].v, rest |-> From(e.in, 3)]
          [] e.fl /\ ~e.tc ->
                [vtc |-> class, tcflow |-> dscp + ecn, flow |-> 0,
                 rest |-> From(e.in, 2)]
          [] OTHER -> [vtc |-> 96, tcflow |-> 0, flow |-> 0, rest |-> e.in]

ttl_values == <<1, 64, 255>>

ReadNextHeader(e, in) ==
    IF e.nh THEN [proto |-> UIP_PROTO_UDP, rest |-> in]
            ELSE [proto |-> Head(in).v, rest |-> Tail(in)]

ReadHopLimit(e, in) ==
    IF e.hl # 0 THEN [ttl |-> ttl_values[e.hl], rest |-> in]
                ELSE [ttl |-> Head(in).v, rest |-> Tail(in)]

(* uncompress_addr() with unc_llconf and unc_ctxconf: prefix is the set of   *)
(* the one context, empty for the link-local prefix.                         *)
LinkLocalPrefix == [pfx |-> "fe80", mid |-> "0"]

uncompress_addr(byContext, prefix, mode, lladdr, in) ==
    LET start == IF byContext THEN CHOOSE c \in prefix : TRUE ELSE LinkLocalPrefix
        with(iid) == [pfx |-> start.pfx, mid |-> start.mid, iid |-> iid]
    IN  CASE mode = 0 /\ byContext -> [a |-> Unspecified, rest |-> in]
          [] mode = 0 /\ ~byContext -> [a |-> Head(in).v, rest |-> Tail(in)]
          [] mode \in {1, 2} -> [a |-> with(Head(in).v), rest |-> Tail(in)]
          [] mode = 3 -> [a |-> with(lladdr), rest |-> in]

ReadMulticast(mode, in) ==
    LET group(scope, iid) == [pfx |-> "ff", mid |-> scope, iid |-> iid]
    IN  CASE mode = 0 -> [a |-> Head(in).v, rest |-> Tail(in)]
          [] mode \in {1, 2} -> [a |-> group(in[1].v, in[2].v), rest |-> From(in, 3)]
          [] mode = 3 -> [a |-> group("02", Head(in).v), rest |-> Tail(in)]

(* Without the CID flag both context numbers are 0. *)
SourceContext(e, contexts) == ByNumber(contexts, IF e.cid THEN e.sci ELSE 0)
DestContext(e, contexts) == ByNumber(contexts, IF e.cid THEN e.dci ELSE 0)

ContextMissing(e, contexts) ==
    \/ e.sac /\ e.sam # 0 /\ SourceContext(e, contexts) = {}
    \/ ~e.m /\ e.dac /\ DestContext(e, contexts) = {}

ReadDestination(e, receiver, contexts, in) ==
    IF e.m THEN ReadMulticast(e.dam, in)
    ELSE uncompress_addr(e.dac, DestContext(e, contexts), e.dam, receiver, in)

ReadUdpHeader(e, in, inPayload) ==
    LET at == From(in, 2)
        ports == CASE Head(in).v = 0 -> <<at[1].v, at[2].v>>
                   [] Head(in).v = 1 -> <<at[1].v, SICSLOWPAN_UDP_8_BIT_PORT_MIN + at[2].v>>
                   [] Head(in).v = 2 -> <<SICSLOWPAN_UDP_8_BIT_PORT_MIN + at[1].v, at[2].v>>
                   [] OTHER -> <<SICSLOWPAN_UDP_4_BIT_PORT_MIN + at[1].v \div 16,
                                 SICSLOWPAN_UDP_4_BIT_PORT_MIN + (at[1].v % 16)>>
        k == IF Head(in).v = 3 THEN 2 ELSE 3
    IN  IF e.nh THEN [ports |-> ports, sum |-> at[k].v, rest |-> From(at, k + 1)]
                ELSE [ports |-> <<0, 0>>, sum |-> inPayload, rest |-> in]

(* The packet in uip_buf; requires ~ContextMissing(e).  payload is what is   *)
(* behind the header in the frame: the lengths come from its size, and the   *)
(* checksum of an ICMP packet is part of it.                                 *)
uncompress_hdr_hc06(e, sender, receiver, contexts, payload) ==
    LET t == ReadClassAndLabel(e)
        n == ReadNextHeader(e, t.rest)
        h == ReadHopLimit(e, n.rest)
        s == uncompress_addr(e.sac, SourceContext(e, contexts), e.sam, sender, h.rest)
        d == ReadDestination(e, receiver, contexts, s.rest)
        u == ReadUdpHeader(e, d.rest, payload.sum)
        len == (payload.n + Transport(n.proto)) % 256
    IN  [vtc |-> t.vtc, tcflow |-> t.tcflow, flow |-> t.flow, len |-> len,
         proto |-> n.proto, ttl |-> h.ttl, src |-> s.a, dest |-> d.a,
         srcport |-> u.ports[1], destport |-> u.ports[2],
         udplen |-> IF e.nh THEN len ELSE 0, sum |-> u.sum,
         data |-> [is |-> payload.is, n |-> payload.n]]
=============================================================================
