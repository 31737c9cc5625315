------------------------------ MODULE MCLowpan ------------------------------
(* Two nodes that exchange one kind of packet per behaviour, over all forms  *)
(* a header field takes, and a few behaviours that mix packets of several    *)
(* sizes, so that lengths and buffers of one are left over for the next.     *)
EXTENDS Lowpan

Addr(pfx, mid, iid) == [pfx |-> pfx, mid |-> mid, iid |-> iid]

MCShortIid == {"ff:fe00:1"}
MCGroup8   == {"1a"}
MCGroup32  == {"1:1a"}
MCGroup48  == {"1:ff00:1"}

Context(i, pfx, mid) == [number |-> i, pfx |-> pfx, mid |-> mid]
MCContexts ==
    [n \in Node |-> IF n = a
        THEN {Context(0, "aaaa", "0"), Context(1, "bbbb", "1"), Context(2, "dddd", "0")}
        ELSE {Context(0, "aaaa", "0"), Context(1, "cccc", "0")}]

Prefixes == {<<"fe80", "0">>, <<"aaaa", "0">>, <<"aaaa", "1">>, <<"bbbb", "1">>,
             <<"dddd", "0">>, <<"2001", "1">>, <<"0", "0">>}
Iids == {a, b, "macC", "ff:fe00:1", "1:2:3:4"}
Unicasts == {Addr(p[1], p[2], i) : p \in Prefixes, i \in Iids}
Groups == {Addr("ff", s, g) : s \in {"02", "05"},
                              g \in {"1a", "1:1a", "1:ff00:1", "1:2:3:4:5"}}

(* A UDP packet of n bytes of data, in the form udp_send() gives it. *)
Datagram(src, dest, sport, dport, n) ==
    LET p == [vtc |-> 96, tcflow |-> 0, flow |-> 0, len |-> 8 + n,
              proto |-> UIP_PROTO_UDP, ttl |-> 64, src |-> src, dest |-> dest,
              srcport |-> sport, destport |-> dport, udplen |-> 8 + n,
              sum |-> {}, data |-> [is |-> "sent", n |-> n]]
    IN  [p EXCEPT !.sum = {Checksum(p)}]

(* An ICMP packet, in the form icmp6_send() gives it. *)
Icmp(src, dest, n) ==
    LET p == [vtc |-> 96, tcflow |-> 0, flow |-> 0, len |-> n,
              proto |-> UIP_PROTO_ICMP6, ttl |-> 64, src |-> src, dest |-> dest,
              srcport |-> 0, destport |-> 0, udplen |-> 0,
              sum |-> {}, data |-> [is |-> "sent", n |-> n]]
    IN  [p EXCEPT !.sum = {Checksum(p)}]

Over(from, p) ==
    [from |-> from, to |-> IF IsMcast(p.dest) THEN Broadcast
                           ELSE CHOOSE n \in Node : n # from,
     pkt |-> p]

LocalA  == Addr("fe80", "0", a)
LocalB  == Addr("fe80", "0", b)
GlobalA == Addr("0", "0", a)
Far     == Addr("2001", "1", "1:2:3:4")

AddressForms ==
    {Datagram(s, d, 61617, 61618, n) :
        s \in Unicasts \cup {Unspecified}, d \in Unicasts \cup Groups, n \in {40}}
FieldForms ==
    {[Datagram(LocalA, d, 1, 2, 30) EXCEPT !.vtc = 96 + c \div 16,
        !.tcflow = (c % 16) * 16 + l \div 4, !.flow = l % 4, !.ttl = t] :
        c \in {0, 1, 4, 184, 255}, l \in 0..7, t \in {1, 2, 64, 255}, d \in {LocalB, Far}}
PortForms ==
    {Datagram(LocalA, LocalB, s, d, 30) :
        s \in {1, 61439, 61440, 61615, 61616, 61631, 61632, 61695, 61696},
        d \in {1, 61439, 61440, 61615, 61616, 61631, 61632, 61695, 61696}}
SizeForms ==
    {Icmp(s, d, n) : s \in {LocalA, Unspecified}, d \in {LocalB, Far, Addr("ff", "02", "1a")},
                     n \in {6, 23, 24, 85, 86, 92, 93, 94, 101, 102, 116, 117, 118, 120}}
Forms == AddressForms \cup FieldForms \cup PortForms \cup SizeForms

(* Packets that leave a short length, a long one and the longest behind, and *)
(* packets that do not fit.                                                  *)
MixedAB == {Over(a, Datagram(LocalA, LocalB, 61617, 61618, 16)),
            Over(a, Datagram(GlobalA, Far, 1, 2, 85)),
            Over(a, Datagram(GlobalA, Far, 1, 2, 87)),
            Over(a, Datagram(LocalA, Far, 61617, 61618, 112)),
            Over(a, Icmp(LocalA, LocalB, 120)),
            Over(a, Datagram(Addr("aaaa", "0", "1:2:3:4"), LocalB, 1, 2, 112)),
            Over(a, Icmp(Addr("fe80", "0", "1:2:3:4"), LocalB, 120)),
            Over(a, Datagram(Addr("bbbb", "1", a), LocalB, 1, 2, 40))}
MixedBA == {Over(b, Icmp(LocalB, Addr("ff", "02", "1a"), 6)),
            Over(b, Datagram(Addr("aaaa", "0", b), Far, 1, 61440, 20)),
            Over(b, Datagram(LocalB, Far, 1, 2, 112))}

MCTraffic == {{Over(a, p)} : p \in Forms} \cup {MixedAB \cup MixedBA}
=============================================================================
