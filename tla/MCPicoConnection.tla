-------------------------- MODULE MCPicoConnection --------------------------
(* Two neighbours, each with one link-layer and one IPv6 address.  Both      *)
(* advertise an instance; the first also acknowledges, solicits and sends    *)
(* datagrams, the second sends what the node does not expect.                *)
EXTENDS PicoConnection

CONSTANTS g1, g2, a1, a2

Solicitation(src, target, dest) ==
    [kind |-> "NS", src |-> src, id |-> 0, target |-> target, dest |-> dest]

Decoded(ll, pkt) == [ll |-> ll, decode |-> "packet", pkt |-> pkt]

(* Two instances, the id 255, and a DIO without a source address. *)
Advertisements ==
    {Decoded(g1, Plain("DIO", a1, 1)), Decoded(g2, Plain("DIO", a2, 2)),
     Decoded(g1, Plain("DIO", a1, NoInstance)),
     Decoded(g2, Plain("DIO", Unspecified, 2))}

(* An acknowledgement, an RPL message that is neither, two solicitations     *)
(* that are answered, one of them a duplicate address detection whose answer *)
(* cannot be sent, and one for another node.                                 *)
Control ==
    {Decoded(g1, Plain("DAO_ACK", a1, 1)), Decoded(g2, Plain("DAO_ACK", a2, 3)),
     Decoded(g2, Plain("RPL_OTHER", a2, 0)),
     Decoded(g1, Solicitation(a1, "own", "solicited")),
     Decoded(g2, Solicitation(Unspecified, "ownLinkLocal", "solicited")),
     Decoded(g2, Solicitation(a2, "other", "solicited"))}

(* A datagram, a packet with a bad checksum, one with a bad version. *)
Data ==
    {Decoded(g1, Plain("UDP", a1, 0)), Decoded(g2, Plain("UNEXPECTED", a2, 0)),
     Decoded(g2, Garbage)}

(* A frame with an unknown dispatch, and one cut inside its header. *)
Undecodable ==
    {[ll |-> g2, decode |-> "nothing", pkt |-> Garbage],
     [ll |-> g2, decode |-> "header", pkt |-> Plain("UNEXPECTED", a2, 0)]}

MCFrames == Advertisements \cup Control \cup Data \cup Undecodable
=============================================================================
