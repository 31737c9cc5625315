----------------------------- MODULE JoinNetwork -----------------------------
(* PicoConnection between gateways, over a network that loses, repeats,      *)
(* delays and reorders frames.  Where PicoConnection takes any frame at any  *)
(* poll, here a frame is polled only after a gateway has sent it, so that    *)
(* what the node believes can be compared with what the gateways know.       *)
(*                                                                           *)
(* A gateway (external) advertises itself with DIOs, at any time and when it *)
(* hears a DIS.  It takes a DAO only from a node whose address it has        *)
(* resolved, and otherwise solicits it: the node repeats its DAO after a     *)
(* solicitation.  It acknowledges a DAO, and from then on forwards datagrams *)
(* to the node, whether or not the acknowledgement arrives.                  *)
EXTENDS PicoConnection, FiniteSets

CONSTANTS address,    \* the IPv6 address of each gateway
          instance,   \* and the instance id it advertises
          UpBound,    \* bounds: messages on their way to a gateway
          DownBound   \* and to the node

Sent(g, pkt) == [ll |-> g, decode |-> "packet", pkt |-> pkt]
Dio(g) == Sent(g, Plain("DIO", address[g], instance[g]))
DaoAck(g) == Sent(g, Plain("DAO_ACK", address[g], instance[g]))
Datagram(g) == Sent(g, Plain("UDP", address[g], 0))
Solicitation(g) == Sent(g, [kind |-> "NS", src |-> address[g], id |-> 0,
                            target |-> "own", dest |-> "solicited"])

ASSUME NetworkAssumption ==
    Frames = UNION {{Dio(g), DaoAck(g), Datagram(g), Solicitation(g)} : g \in LLAddr}

VARIABLES
    up,           \* messages on their way to a gateway
    down,         \* frames on their way to the node or in its serial buffer
    neighbour,    \* the gateways that have resolved the node's address
    routes,       \* the gateways that have taken a DAO of the node
    restarted     \* history: a datagram has reset the node

net  == <<up, down, neighbour, routes, restarted>>
nvars == <<vars, net>>

NetInit ==
    /\ Init
    /\ up = {} /\ down = {} /\ neighbour = {} /\ routes = {}
    /\ restarted = FALSE

NetTypeOK ==
    /\ IInv
    /\ up \subseteq [type : {"DIS", "DAO", "NA"}, gateway : LLAddr]
    /\ down \subseteq Frames
    /\ neighbour \subseteq LLAddr /\ routes \subseteq LLAddr
    /\ restarted \in BOOLEAN

(* Older messages make room for a new one. *)
Joined(old, new, bound) ==
    {s \in SUBSET (old \cup new) : new \subseteq s /\ Cardinality(s) <= bound}

-----------------------------------------------------------------------------
(* The node *)

Addressees(m) == IF m.to = Broadcast THEN LLAddr ELSE {m.to}
OnTheAir(sent) ==
    UNION {{[type |-> m.type, gateway |-> g] : g \in Addressees(m)} :
               m \in {n \in sent : n.type # "UDP"}}

(* XBeeMACLayer::send() reads packets until it has the transmit status and   *)
(* the answer to EC, and drops those that are something else: frames that    *)
(* had arrived before, and early answers to the frame just sent.             *)
DroppedBySend(sent, arrived) == IF sent = {} THEN {arrived} ELSE SUBSET arrived

Transmit ==
    /\ SendDis \/ SendDao \/ \E dest \in IPAddr : CallUdpSend(dest)
    /\ up' \in Joined(up, OnTheAir(obs'.sent), UpBound)
    /\ down' \in DroppedBySend(obs'.sent, down)
    /\ UNCHANGED <<neighbour, routes, restarted>>

(* The frame polled may arrive once more. *)
Take(f) ==
    /\ f \in down
    /\ Poll(f) \/ CallReceive(f)
    /\ up' \in Joined(up, OnTheAir(obs'.sent), UpBound)
    /\ \E left \in {down, down \ {f}} : down' \in DroppedBySend(obs'.sent, left)
    /\ restarted' = (restarted \/ obs'.call = "null")
    /\ UNCHANGED <<neighbour, routes>>

Internal ==
    /\ \/ PollNothing \/ AlreadyConnected \/ StillWaiting
       \/ SearchAgain \/ Announce \/ BecomeConnected
       \/ CallConnect
    /\ UNCHANGED net

Time == Tick /\ UNCHANGED net

-----------------------------------------------------------------------------
(* The gateways *)

Answer(g, type, frames) ==
    \E m \in up :
        /\ m = [type |-> type, gateway |-> g]
        /\ up' = up \ {m}
        /\ down' \in Joined(down, frames, DownBound)

HearDis(g) ==
    /\ Answer(g, "DIS", {Dio(g)})
    /\ UNCHANGED <<vars, neighbour, routes, restarted>>

HearDao(g) ==
    /\ \/ /\ g \in neighbour
          /\ Answer(g, "DAO", {DaoAck(g)})
          /\ routes' = routes \cup {g}
       \/ /\ g \notin neighbour
          /\ Answer(g, "DAO", {Solicitation(g)})
          /\ UNCHANGED routes
    /\ UNCHANGED <<vars, neighbour, restarted>>

HearNa(g) ==
    /\ Answer(g, "NA", {})
    /\ neighbour' = neighbour \cup {g}
    /\ UNCHANGED <<vars, routes, restarted>>

(* Unsolicited advertisements. *)
Advertise(g) ==
    /\ down' \in Joined(down, {Dio(g)}, DownBound)
    /\ UNCHANGED <<vars, up, neighbour, routes, restarted>>

Forward(g) ==
    /\ g \in routes
    /\ down' \in Joined(down, {Datagram(g)}, DownBound)
    /\ UNCHANGED <<vars, up, neighbour, routes, restarted>>

Lose ==
    /\ \/ \E m \in up : up' = up \ {m} /\ UNCHANGED down
       \/ \E f \in down : down' = down \ {f} /\ UNCHANGED up
    /\ UNCHANGED <<vars, neighbour, routes, restarted>>

NetNext ==
    \/ Transmit
    \/ \E f \in Frames : Take(f)
    \/ Internal
    \/ Time
    \/ \E g \in LLAddr : HearDis(g) \/ HearDao(g) \/ HearNa(g)
                        \/ Advertise(g) \/ Forward(g)
    \/ Lose

(* The program of the node runs as in PicoConnection.  Of the network it is  *)
(* assumed that a gateway which again and again may answer while the node is *)
(* polling sometimes does, and that a frame which again and again lies ready *)
(* for a poll is sometimes polled: any finite number of losses, late answers *)
(* and answers that fall into a send() is possible between two successes.    *)
Chooses(f) == Take(f) /\ currentState' = "DIO_RECEIVED"

NetFairness ==
    /\ WF_nvars(Internal /\ currentState # "CONNECTED")
    /\ WF_nvars((SendDis \/ SendDao) /\ Transmit)
    /\ WF_nvars(Time)
    /\ SF_nvars(\E g \in LLAddr : HearDis(g) /\ Polling)
    /\ SF_nvars(\E f \in Frames : Chooses(f))
    /\ SF_nvars(\E g \in {gateway_ll} \cap LLAddr : HearDao(g) /\ Polling)
    /\ SF_nvars(\E g \in {gateway_ll} \cap LLAddr : Take(Solicitation(g)))
    /\ SF_nvars(\E g \in {gateway_ll} \cap LLAddr : HearNa(g))
    /\ SF_nvars(\E g \in {gateway_ll} \cap LLAddr : Take(DaoAck(g)))

NetSpec == NetInit /\ [][NetNext]_nvars /\ NetFairness
-----------------------------------------------------------------------------
(* Properties *)

(* What the node believes and what the gateways know agree: the only gateway *)
(* that routes to the node is the one the node has chosen, and when the node *)
(* is connected that gateway does route to it, although a DAO ACK is matched *)
(* neither with its DAO nor with its sender, and DIOs, solicitations and     *)
(* acknowledgements come late, twice and in any order.  Only a reset of the  *)
(* node, by a datagram before it is connected, can part the two.             *)
RoutesAgree ==
    ~restarted => /\ routes \subseteq {gateway_ll}
                  /\ currentState = "CONNECTED" => gateway_ll \in routes

(* Its inductive form.  Only the chosen gateway has been sent a DAO, so only *)
(* it can have taken one or acknowledged one.                                *)
Agreement ==
    ~restarted => /\ \A m \in up : m.type = "DAO" => Chosen /\ m.gateway = gateway_ll
                  /\ \A g \in routes : Chosen /\ g = gateway_ll
                  /\ \A f \in down : f.pkt.kind = "DAO_ACK" => f.ll \in routes
                  /\ currentState \in {"DAO_ACK_RECEIVED", "CONNECTED"}
                       => gateway_ll \in routes

(* It takes several rounds to join: a DIS, a DAO that is answered with a     *)
(* solicitation, an advertisement that must arrive before the repeated DAO.  *)
(* Each frame may be lost, late, or dropped by a send() that waits for its   *)
(* status.  Yet the node connects in the end and stays connected, unless     *)
(* datagrams reset it again and again.                                       *)
EventuallyConnected ==
    \/ <>[](currentState = "CONNECTED")
    \/ []<><<obs'.call = "null">>_nvars
=============================================================================
