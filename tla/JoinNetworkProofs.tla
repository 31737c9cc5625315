--------------------------- MODULE JoinNetworkProofs ---------------------------
(* What the node believes and what the gateways know agree, for any number   *)
(* of gateways, whatever the network loses, repeats, delays or reorders and  *)
(* however many messages are on their way.  The node's own invariant is used *)
(* as it was proved for a node that takes any frame at any time: over the    *)
(* network it does nothing else.                                             *)
EXTENDS JoinNetwork, PicoConnectionProofs

-----------------------------------------------------------------------------
(* The node in its network is the node *)

NodeStep ==
    \/ SendDis \/ SendDao \/ \E dest \in IPAddr : CallUdpSend(dest)
    \/ PollNothing \/ AlreadyConnected \/ StillWaiting
    \/ SearchAgain \/ Announce \/ BecomeConnected \/ CallConnect \/ Tick
    \/ \E f \in Frames : DioAccepted(f) \/ AckAccepted(f) \/ DaoRepeated(f)
                           \/ OtherPolled(f) \/ CallReceive(f)

(* The node does in the network what it does among any frames. *)
LEMMA StepIsNodeStep == [NetNext]_nvars => [Next]_vars
<1> SUFFICES ASSUME [NetNext]_nvars PROVE [Next]_vars
  OBVIOUS
<1>1. CASE Transmit
  BY <1>1 DEF Transmit, Next, Connecting
<1>2. ASSUME NEW f \in Frames, Take(f) PROVE Next
  BY <1>2 DEF Take, Next, Connecting
<1>3. CASE Internal \/ Time
  BY <1>3 DEF Internal, Time, Next, Connecting
<1>4. ASSUME NEW g \in LLAddr, HearDis(g) \/ HearDao(g) \/ HearNa(g) \/ Advertise(g) \/ Forward(g)
      PROVE  UNCHANGED vars
  BY <1>4 DEF HearDis, HearDao, HearNa, Advertise, Forward
<1>5. CASE Lose
  BY <1>5 DEF Lose
<1>6. CASE UNCHANGED nvars
  BY <1>6 DEF nvars
<1> QED
  BY <1>1, <1>2, <1>3, <1>4, <1>5, <1>6 DEF NetNext

(* A node that has chosen a gateway keeps it, unless a datagram resets it. *)
LEMMA GatewayKept ==
    ASSUME IInv, NodeStep
    PROVE  Chosen => Chosen' /\ gateway_ll' = gateway_ll
<1>1. ASSUME NEW f \in Frames, DioAccepted(f) PROVE ~Chosen
  BY <1>1 DEF DioAccepted, IInv, Lifecycle, Chosen, Polling, Waiting
<1>2. ASSUME NEW f \in Frames, AckAccepted(f) PROVE Chosen' /\ gateway_ll' = gateway_ll
  BY <1>2 DEF AckAccepted, Chosen
<1>3. CASE UNCHANGED <<state, currentState, gateway_ll>>
  BY <1>3 DEF Chosen
<1>4. CASE SearchAgain
  BY <1>4 DEF SearchAgain, IInv, Lifecycle, TypeOK, Chosen
<1>5. CASE Announce \/ BecomeConnected
  BY <1>5 DEF Announce, BecomeConnected, NewState, Chosen
<1>6. CASE SendDis
  BY <1>6 DEF SendDis, Chosen
<1>7. CASE SendDao
  BY <1>7 DEF SendDao, Chosen
<1> QED
  BY <1>1, <1>2, <1>3, <1>4, <1>5, <1>6, <1>7
     DEF NodeStep, CallUdpSend, PollNothing, AlreadyConnected, StillWaiting, CallConnect,
         Tick, DaoRepeated, OtherPolled, CallReceive

(* It becomes a member only by taking a DAO ACK. *)
LEMMA MemberByAck ==
    ASSUME IInv, NodeStep,
           currentState' \in {"DAO_ACK_RECEIVED", "CONNECTED"}
    PROVE  \/ currentState \in {"DAO_ACK_RECEIVED", "CONNECTED"}
           \/ \E f \in Frames : AckAccepted(f)
<1>1. ~ \E f \in Frames : DioAccepted(f)
  BY DEF DioAccepted
<1>2. ~SendDis /\ ~SendDao /\ ~SearchAgain /\ ~Announce
  BY DEF SendDis, SendDao, SearchAgain, Announce, NewState
<1>3. BecomeConnected => currentState = "DAO_ACK_RECEIVED"
  BY DEF BecomeConnected
<1> QED
  BY <1>1, <1>2, <1>3
     DEF NodeStep, CallUdpSend, PollNothing, AlreadyConnected, StillWaiting, CallConnect,
         Tick, DaoRepeated, OtherPolled, CallReceive

(* The DAO ACK it takes is the frame of that poll, and it has chosen.  *)
LEMMA AckTaken ==
    ASSUME IInv, NEW f \in Frames, AckAccepted(f)
    PROVE  Chosen /\ f.pkt.kind = "DAO_ACK"
<1>1. state = "SendingDAO" /\ currentState = "WAITING_DAO_ACK"
  BY DEF AckAccepted, IInv, Lifecycle, Polling, Waiting
<1> QED
  BY <1>1, AckFrame DEF AckAccepted, Chosen

(* Its DAOs go to the gateway it has chosen. *)
LEMMA DaoToGateway ==
    ASSUME IInv, Chosen
    PROVE  \A m \in dao_output : m.to = gateway_ll /\ m.to # Broadcast
<1>1. PICK f \in dio : gateway_ip = f.pkt.src /\ gateway_ll = f.ll
  BY DEF IInv, JoinedThroughOneDio
<1>2. gateway_ip \notin Multicast
  <2>1. f \in Frames /\ f.pkt.src \in Sources
    BY <1>1, FrameAssumption DEF IInv, TypeOK, Frame, Packet
  <2> QED
    BY <1>1, <2>1, AddrAssumption DEF Sources, Multicast, Unspecified, Own, AllNodes, RplNodes
<1> QED
  BY <1>2 DEF dao_output, ip_send

(* And it sends a DAO to nobody else. *)
LEMMA NodeSends ==
    ASSUME IInv, \/ SendDis \/ SendDao \/ \E dest \in IPAddr : CallUdpSend(dest)
                 \/ \E f \in Frames : Poll(f) \/ CallReceive(f)
    PROVE  \A m \in obs'.sent : m.type = "DAO" =>
               Chosen /\ m.to = gateway_ll /\ m.to # Broadcast
<1> DEFINE Goal == \A m \in obs'.sent : m.type = "DAO" =>
                       Chosen /\ m.to = gateway_ll /\ m.to # Broadcast
<1>1. CASE SendDao
  BY <1>1, DaoToGateway DEF SendDao, Chosen
<1>2. CASE SendDis
  BY <1>2 DEF SendDis, dis_output, ip_send
<1>3. ASSUME NEW dest \in IPAddr, CallUdpSend(dest) PROVE Goal
  BY <1>3 DEF CallUdpSend, ip_send
<1>4. ASSUME NEW f \in Frames PROVE \A m \in Outcome(f).sent : m.type # "DAO"
  BY OutcomeSent
<1>5. ASSUME NEW f \in Frames, DaoRepeated(f) PROVE Goal
  <2>1. obs'.sent = Outcome(f).sent \cup dao_output /\ Chosen
    BY <1>5 DEF DaoRepeated, Chosen
  <2> QED
    BY <1>4, <2>1, DaoToGateway
<1>6. ASSUME NEW f \in Frames, NullCallback(f) PROVE Goal
  BY <1>6 DEF NullCallback, Restart
<1>7. ASSUME NEW f \in Frames, DioAccepted(f) \/ AckAccepted(f) \/ OtherPolled(f) \/ CallReceive(f)
      PROVE  Goal
  <2>1. obs'.sent = Outcome(f).sent
    BY <1>7 DEF DioAccepted, AckAccepted, OtherPolled, CallReceive, TakeOutcome
  <2> QED
    BY <1>4, <2>1
<1> QED
  BY <1>1, <1>2, <1>3, <1>5, <1>6, <1>7 DEF Poll

-----------------------------------------------------------------------------
(* What is on its way *)

Messages == [type : {"DIS", "DAO", "NA"}, gateway : LLAddr]

(* A bounded set has nothing that was not in it or added. *)
LEMMA JoinedHas ==
    ASSUME NEW old, NEW new, NEW bound, NEW s \in Joined(old, new, bound)
    PROVE  \A x \in s : x \in old \/ x \in new
BY DEF Joined

(* What a send() leaves had arrived. *)
LEMMA LeftBySend ==
    ASSUME NEW sent, NEW arrived, NEW left \in DroppedBySend(sent, arrived)
    PROVE  left \subseteq arrived
BY DEF DroppedBySend

(* A message reaches the gateway it is addressed to, or all of them. *)
LEMMA AirHas ==
    ASSUME NEW sent \in SUBSET Message, NEW x \in OnTheAir(sent)
    PROVE  /\ x \in Messages
           /\ \E m \in sent : /\ x.type = m.type
                              /\ m.to # Broadcast => x.gateway = m.to
<1>1. PICK m \in {n \in sent : n.type # "UDP"} :
          x \in {[type |-> m.type, gateway |-> g] : g \in Addressees(m)}
  BY DEF OnTheAir
<1>2. PICK g \in Addressees(m) : x = [type |-> m.type, gateway |-> g]
  BY <1>1
<1>3. m.type \in {"DIS", "DAO", "NA"} /\ m.to \in LLAddr \cup {Broadcast}
  BY <1>1 DEF Message
<1>4. g \in LLAddr /\ (m.to # Broadcast => g = m.to)
  BY <1>2, <1>3 DEF Addressees
<1> QED
  BY <1>1, <1>2, <1>3, <1>4 DEF Messages

(* The frames of a gateway. *)
LEMMA GatewayFrames ==
    ASSUME NEW g \in LLAddr
    PROVE  /\ {Dio(g), DaoAck(g), Datagram(g), Solicitation(g)} \subseteq Frames
           /\ \A f \in {Dio(g), Datagram(g), Solicitation(g)} : f.pkt.kind # "DAO_ACK"
           /\ DaoAck(g).ll = g
<1>1. {Dio(g), DaoAck(g), Datagram(g), Solicitation(g)} \subseteq Frames
  BY NetworkAssumption
<1> QED
  BY <1>1 DEF Dio, DaoAck, Datagram, Solicitation, Sent, Plain

-----------------------------------------------------------------------------
(* The types *)

(* Every step of the network keeps the types, and the node its invariant. *)
LEMMA StepNetTypeOK == NetTypeOK /\ [NetNext]_nvars => NetTypeOK'
<1> SUFFICES ASSUME NetTypeOK, [NetNext]_nvars PROVE NetTypeOK'
  OBVIOUS
<1>0. IInv'
  BY StepIsNodeStep, StepInv DEF NetTypeOK
<1>1. /\ up \subseteq Messages /\ down \subseteq Frames
      /\ neighbour \subseteq LLAddr /\ routes \subseteq LLAddr /\ restarted \in BOOLEAN
  BY DEF NetTypeOK, Messages
<1>2. obs'.sent \in SUBSET Message
  BY <1>0 DEF IInv, TypeOK
<1>3. \A s \in Joined(up, OnTheAir(obs'.sent), UpBound) : s \subseteq Messages
  BY <1>1, <1>2, JoinedHas, AirHas
<1>4. ASSUME NEW g \in LLAddr, NEW new \in SUBSET {Dio(g), DaoAck(g), Datagram(g), Solicitation(g)}
      PROVE  \A s \in Joined(down, new, DownBound) : s \subseteq Frames
  BY <1>1, GatewayFrames, JoinedHas
<1> DEFINE Goal == /\ up' \subseteq Messages /\ down' \subseteq Frames
                   /\ neighbour' \subseteq LLAddr /\ routes' \subseteq LLAddr
                   /\ restarted' \in BOOLEAN
<1>5. CASE Transmit
  <2>1. down' \subseteq down
    BY <1>5, LeftBySend DEF Transmit
  <2> QED
    BY <1>0, <1>1, <1>3, <1>5, <2>1 DEF Transmit, NetTypeOK, Messages
<1>6. ASSUME NEW f \in Frames, Take(f) PROVE Goal
  <2>1. down' \subseteq down
    BY <1>6, LeftBySend DEF Take
  <2> QED
    BY <1>1, <1>3, <1>6, <2>1 DEF Take
<1>7. CASE Internal \/ Time \/ UNCHANGED nvars
  <2>1. UNCHANGED net
    BY <1>7 DEF Internal, Time, nvars
  <2> QED
    BY <1>0, <1>1, <2>1 DEF net, NetTypeOK, Messages
<1>8. ASSUME NEW g \in LLAddr, HearDis(g) PROVE Goal
  <2>1. up' \subseteq up /\ down' \in Joined(down, {Dio(g)}, DownBound)
    BY <1>8 DEF HearDis, Answer
  <2> QED
    BY <1>1, <1>4, <1>8, <2>1 DEF HearDis
<1>9. ASSUME NEW g \in LLAddr, HearDao(g) PROVE Goal
  <2>1. /\ up' \subseteq up
        /\ \E new \in SUBSET {DaoAck(g), Solicitation(g)} : down' \in Joined(down, new, DownBound)
        /\ routes' \subseteq routes \cup {g}
    BY <1>9 DEF HearDao, Answer
  <2> QED
    BY <1>1, <1>4, <1>9, <2>1 DEF HearDao
<1>10. ASSUME NEW g \in LLAddr, HearNa(g) PROVE Goal
  <2>1. up' \subseteq up /\ down' \in Joined(down, {}, DownBound)
    BY <1>10 DEF HearNa, Answer
  <2> QED
    BY <1>1, <1>4, <1>10, <2>1 DEF HearNa
<1>11. ASSUME NEW g \in LLAddr, Advertise(g) \/ Forward(g) PROVE Goal
  BY <1>1, <1>4, <1>11 DEF Advertise, Forward
<1>12. CASE Lose
  BY <1>0, <1>1, <1>12 DEF Lose, NetTypeOK, Messages
<1>13. Goal => NetTypeOK'
  BY <1>0 DEF NetTypeOK, Messages
<1> HIDE DEF Goal
<1> QED
  BY <1>5, <1>6, <1>7, <1>8, <1>9, <1>10, <1>11, <1>12, <1>13 DEF NetNext

-----------------------------------------------------------------------------
(* The agreement *)

(* Its parts, as long as no datagram has reset the node. *)
DaosToChosen == \A m \in up : m.type = "DAO" => Chosen /\ m.gateway = gateway_ll
RoutesToChosen == \A g \in routes : Chosen /\ g = gateway_ll
AcksOfRoutes == \A f \in down : f.pkt.kind = "DAO_ACK" => f.ll \in routes
MembersRouted == currentState \in {"DAO_ACK_RECEIVED", "CONNECTED"} => gateway_ll \in routes

(* A step of the node that is not a reset, whatever becomes of the frames.   *)
LEMMA NodeKeepsAgreement ==
    ASSUME NetTypeOK, NetTypeOK', DaosToChosen, RoutesToChosen, AcksOfRoutes, MembersRouted,
           NodeStep, down' \subseteq down, UNCHANGED routes,
           \A x \in up' : x \in up \/ x.type # "DAO" \/ (Chosen /\ x.gateway = gateway_ll),
           \A f \in Frames : AckAccepted(f) => f \in down
    PROVE  DaosToChosen' /\ RoutesToChosen' /\ AcksOfRoutes' /\ MembersRouted'
<1>1. IInv
  BY DEF NetTypeOK
<1>2. Chosen => Chosen' /\ gateway_ll' = gateway_ll
  BY <1>1, GatewayKept
<1>3. DaosToChosen' /\ RoutesToChosen' /\ AcksOfRoutes'
  BY <1>2 DEF DaosToChosen, RoutesToChosen, AcksOfRoutes
<1>4. ASSUME currentState' \in {"DAO_ACK_RECEIVED", "CONNECTED"} PROVE gateway_ll' \in routes'
  <2>1. CASE currentState \in {"DAO_ACK_RECEIVED", "CONNECTED"}
    BY <1>2, <2>1 DEF MembersRouted, RoutesToChosen
  <2>2. ASSUME NEW f \in Frames, AckAccepted(f) PROVE gateway_ll' \in routes'
    <3>1. f.ll \in routes
      BY <1>1, <2>2, AckTaken DEF AcksOfRoutes
    <3> QED
      BY <1>2, <3>1 DEF RoutesToChosen
  <2> QED
    BY <1>1, <1>4, <2>1, <2>2, MemberByAck
<1> QED
  BY <1>3, <1>4 DEF MembersRouted

(* Every step keeps the agreement. *)
LEMMA StepAgreement == NetTypeOK /\ Agreement /\ [NetNext]_nvars => Agreement'
<1> SUFFICES ASSUME NetTypeOK, Agreement, [NetNext]_nvars, ~restarted'
             PROVE  DaosToChosen' /\ RoutesToChosen' /\ AcksOfRoutes' /\ MembersRouted'
  BY DEF Agreement, DaosToChosen, RoutesToChosen, AcksOfRoutes, MembersRouted
<1>0. IInv /\ NetTypeOK' /\ IInv'
  BY StepNetTypeOK DEF NetTypeOK
<1>1. ~restarted
  BY DEF NetTypeOK, NetNext, Transmit, Take, Internal, Time, HearDis, HearDao, HearNa,
         Advertise, Forward, Lose, net, nvars
<1>2. DaosToChosen /\ RoutesToChosen /\ AcksOfRoutes /\ MembersRouted
  BY <1>1 DEF Agreement, DaosToChosen, RoutesToChosen, AcksOfRoutes, MembersRouted
<1>3. obs'.sent \in SUBSET Message
  BY <1>0 DEF IInv, TypeOK
<1> DEFINE Goal == DaosToChosen' /\ RoutesToChosen' /\ AcksOfRoutes' /\ MembersRouted'
<1>4. ASSUME \A m \in obs'.sent : m.type = "DAO" =>
                 Chosen /\ m.to = gateway_ll /\ m.to # Broadcast,
             up' \in Joined(up, OnTheAir(obs'.sent), UpBound)
      PROVE  \A x \in up' : x \in up \/ x.type # "DAO" \/ (Chosen /\ x.gateway = gateway_ll)
  BY <1>3, <1>4, JoinedHas, AirHas
<1>5. CASE Transmit
  <2>1. /\ SendDis \/ SendDao \/ \E dest \in IPAddr : CallUdpSend(dest)
        /\ up' \in Joined(up, OnTheAir(obs'.sent), UpBound)
        /\ down' \subseteq down /\ UNCHANGED routes
    BY <1>5, LeftBySend DEF Transmit
  <2>2. \A x \in up' : x \in up \/ x.type # "DAO" \/ (Chosen /\ x.gateway = gateway_ll)
    BY <1>0, <1>4, <2>1, NodeSends
  <2>3. \A f \in Frames : ~AckAccepted(f)
    BY <2>1 DEF SendDis, SendDao, CallUdpSend, AckAccepted, TakeOutcome
  <2> QED
    BY <1>0, <1>2, <2>1, <2>2, <2>3, NodeKeepsAgreement DEF NodeStep
<1>6. ASSUME NEW f \in Frames, Take(f) PROVE Goal
  <2>1. /\ f \in down /\ (Poll(f) \/ CallReceive(f))
        /\ up' \in Joined(up, OnTheAir(obs'.sent), UpBound)
        /\ down' \subseteq down /\ UNCHANGED routes
        /\ obs'.call # "null"
    BY <1>6, LeftBySend DEF Take
  <2>2. \A x \in up' : x \in up \/ x.type # "DAO" \/ (Chosen /\ x.gateway = gateway_ll)
    BY <1>0, <1>4, <2>1, NodeSends
  <2>3. obs'.got = {f} /\ NodeStep
    BY <2>1 DEF Poll, DioAccepted, AckAccepted, DaoRepeated, OtherPolled, NullCallback,
                Restart, CallReceive, TakeOutcome, NodeStep
  <2>4. \A g \in Frames : AckAccepted(g) => g \in down
    BY <2>1, <2>3 DEF AckAccepted, TakeOutcome
  <2> QED
    BY <1>0, <1>2, <2>1, <2>2, <2>3, <2>4, NodeKeepsAgreement
<1>7. CASE Internal \/ Time
  <2>1. /\ UNCHANGED net
        /\ \/ PollNothing \/ AlreadyConnected \/ StillWaiting \/ SearchAgain
           \/ Announce \/ BecomeConnected \/ CallConnect \/ Tick
    BY <1>7 DEF Internal, Time
  <2>2. \A f \in Frames : ~AckAccepted(f)
    BY <2>1 DEF PollNothing, AlreadyConnected, StillWaiting, SearchAgain, Announce,
                BecomeConnected, NewState, CallConnect, Tick, AckAccepted, Polling, Waiting
  <2> QED
    BY <1>0, <1>2, <2>1, <2>2, NodeKeepsAgreement DEF NodeStep, net
<1>8. CASE UNCHANGED nvars
  BY <1>2, <1>8 DEF nvars, vars, net, Chosen, DaosToChosen, RoutesToChosen, AcksOfRoutes, MembersRouted
<1>9. ASSUME UNCHANGED <<vars, routes>>, up' \subseteq up,
             \A f \in down' : f \in down \/ f.pkt.kind # "DAO_ACK"
      PROVE  Goal
  BY <1>2, <1>9 DEF vars, Chosen, DaosToChosen, RoutesToChosen, AcksOfRoutes, MembersRouted
<1>10. ASSUME NEW g \in LLAddr, HearDis(g) \/ HearNa(g) \/ Advertise(g) \/ Forward(g)
       PROVE  Goal
  <2>1. /\ up' \subseteq up /\ UNCHANGED <<vars, routes>>
        /\ \E new \in SUBSET {Dio(g), Datagram(g)} : down' \in Joined(down, new, DownBound)
    BY <1>10 DEF HearDis, HearNa, Advertise, Forward, Answer
  <2>2. \A f \in down' : f \in down \/ f.pkt.kind # "DAO_ACK"
    BY <2>1, JoinedHas, GatewayFrames
  <2> QED
    BY <1>9, <2>1, <2>2
<1>11. ASSUME NEW g \in LLAddr, HearDao(g) PROVE Goal
  <2>1. PICK m \in up : m = [type |-> "DAO", gateway |-> g]
    BY <1>11 DEF HearDao, Answer
  <2>2. Chosen /\ g = gateway_ll
    BY <1>2, <2>1 DEF DaosToChosen
  <2>3. up' \subseteq up /\ UNCHANGED vars
    BY <1>11 DEF HearDao, Answer
  <2>4. CASE g \in neighbour
    <3>1. down' \in Joined(down, {DaoAck(g)}, DownBound) /\ routes' = routes \cup {g}
      BY <1>11, <2>4 DEF HearDao, Answer
    <3>2. \A f \in down' : f \in down \/ f.ll = g
      BY <3>1, JoinedHas, GatewayFrames
    <3> QED
      BY <1>2, <2>2, <2>3, <3>1, <3>2
         DEF vars, Chosen, DaosToChosen, RoutesToChosen, AcksOfRoutes, MembersRouted
  <2>5. CASE g \notin neighbour
    <3>1. down' \in Joined(down, {Solicitation(g)}, DownBound) /\ UNCHANGED routes
      BY <1>11, <2>5 DEF HearDao, Answer
    <3>2. \A f \in down' : f \in down \/ f.pkt.kind # "DAO_ACK"
      BY <3>1, JoinedHas, GatewayFrames
    <3> QED
      BY <1>9, <2>3, <3>1, <3>2
  <2> QED
    BY <2>4, <2>5
<1>12. CASE Lose
  BY <1>9, <1>12 DEF Lose
<1> QED
  BY <1>5, <1>6, <1>7, <1>8, <1>10, <1>11, <1>12 DEF NetNext

-----------------------------------------------------------------------------
(* The theorems *)

(* Between gateways, the node is the node of PicoConnection: everything that *)
(* was proved of that one among arbitrary frames holds here.                 *)
THEOREM NodeInNetwork == NetSpec => Spec
<1>1. NetInit => Init
  BY DEF NetInit
<1> QED
  BY <1>1, StepIsNodeStep, PTL DEF NetSpec, Spec

(* The invariant holds in every reachable state. *)
THEOREM NetInvariance == NetSpec => [](NetTypeOK /\ Agreement)
<1>1. NetInit => NetTypeOK /\ Agreement
  BY InitInv DEF NetInit, Init, NetTypeOK, Agreement
<1>2. (NetTypeOK /\ Agreement) /\ [NetNext]_nvars => (NetTypeOK /\ Agreement)'
  BY StepNetTypeOK, StepAgreement
<1> QED
  BY <1>1, <1>2, PTL DEF NetSpec

(* The network and the node keep to their types. *)
THEOREM NetTypeCorrect == NetSpec => []NetTypeOK
BY NetInvariance, PTL

(* Only the chosen gateway routes to the node, and a connected node has one. *)
THEOREM RoutesDoAgree == NetSpec => []RoutesAgree
<1>1. Agreement => RoutesAgree
  BY DEF Agreement, RoutesAgree
<1> QED
  BY <1>1, NetInvariance, PTL
=============================================================================
