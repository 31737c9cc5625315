------------------------ MODULE PicoConnectionProofs ------------------------
(* Proofs about PicoConnection for every set of addresses, every set of      *)
(* frames and every pair of timeouts.                                        *)
EXTENDS PicoConnection, TLAPS

-----------------------------------------------------------------------------
(* What the receive path may leave behind *)

(* ip_send() hands over well-formed messages: broadcasts, or unicast frames  *)
(* to the gateway, and none at all to a unicast address without a gateway.   *)
LEMMA IpSend ==
    ASSUME TypeOK, NEW type \in {"DIS", "DAO", "NA", "UDP"},
           NEW dest \in Sources \cup Multicast, NEW id \in 0..255
    PROVE  /\ ip_send(type, dest, id) \in SUBSET Message
           /\ \A m \in ip_send(type, dest, id) :
                 /\ m.type = type /\ m.dest = dest /\ m.id = id
                 /\ m.to \in {Broadcast, gateway_ll}
                 /\ dest \notin Multicast => m.to = gateway_ll /\ m.to # Broadcast
    BY DEF TypeOK, ip_send, Message

(* The packet receive_ipv6() looks at and the length it looks at it with.    *)
LEMMA BufferTyped ==
    ASSUME TypeOK, NEW f \in Frames
    PROVE  BufferWith(f) \in Packet /\ LengthWith(f) \in {0, 1}
    BY FrameAssumption DEF TypeOK, BufferWith, LengthWith, Frame

LEMMA NaSent ==
    ASSUME TypeOK, NEW p \in Packet
    PROVE  /\ ip_send("NA", p.src, NoInstance) \in SUBSET Message
           /\ \A m \in ip_send("NA", p.src, NoInstance) :
                 m.type = "NA" /\ m.to \in {Broadcast, gateway_ll}
<1>1. p.src \in Sources \cup Multicast /\ NoInstance \in 0..255
    BY DEF Packet, NoInstance
<1> DEFINE na == ip_send("NA", p.src, NoInstance)
<1>2. na \in SUBSET Message
    BY <1>1, IpSend
<1>3. \A m \in na : m.type = "NA" /\ m.to \in {Broadcast, gateway_ll}
    BY DEF ip_send
<1> QED
    BY <1>2, <1>3

Outcomes == [last : ReceivedPacketType, id : 0..255, src : Sources \cup {Unset},
             buf : Packet, len : {0, 1}, sent : SUBSET Message,
             call : {"none", "app", "null"}]

LEMMA GarbageTyped == Garbage \in Packet
    BY DEF Garbage, Plain, Packet, Sources

LEMMA OwnPacketsTyped ==
    /\ Plain("RPL_OTHER", Own, 0) \in Packet
    /\ Plain("UDP", Own, 0) \in Packet
    /\ Plain("UNEXPECTED", Own, 0) \in Packet
    BY DEF Plain, Packet, Sources

(* Whatever is received, the outcome is well formed. *)
LEMMA ReceiveTyped ==
    ASSUME TypeOK, NEW p \in Packet, NEW len \in {0, 1}
    PROVE  receive_ipv6(p, len) \in Outcomes
<1>2. CASE len = 0 \/ p.kind = "INVALID"
    BY <1>2 DEF receive_ipv6, Dropped, Examined, Outcomes, TypeOK, ReceivedPacketType
<1>3. CASE len # 0 /\ p.kind = "UNEXPECTED"
    BY <1>3 DEF receive_ipv6, Dropped, Examined, Outcomes, TypeOK, Packet, ReceivedPacketType
<1>4. CASE len # 0 /\ p.kind \in {"DIO", "DAO_ACK", "RPL_OTHER"}
    BY <1>4, ZenonT(60) DEF receive_ipv6, RplInput, Examined, Outcomes, TypeOK, Packet, ReceivedPacketType
<1>5. CASE len # 0 /\ p.kind = "NS"
    BY <1>5, NaSent, OwnPacketsTyped, ZenonT(60) DEF receive_ipv6, NsInput, Examined, LengthAfter, Outcomes, TypeOK, Packet, ReceivedPacketType
<1>6. CASE len # 0 /\ p.kind = "UDP"
    BY <1>6 DEF receive_ipv6, UdpInput, Examined, Outcomes, TypeOK, Packet, ReceivedPacketType
<1> QED
    BY <1>2, <1>3, <1>4, <1>5, <1>6 DEF Packet

(* What the kind of the packet says about the outcome: only a DIO and a DAO  *)
(* ACK set lastReceived to themselves, neither sends nor calls anything, and *)
(* whatever is sent is a neighbour advertisement and leaves no length.       *)
LEMMA ReceiveEffect ==
    ASSUME TypeOK, NEW p \in Packet, NEW len \in {0, 1}
    PROVE  LET r == receive_ipv6(p, len)
           IN  /\ r.last = "DIO" => \/ lastReceived = "DIO"
                                    \/ len = 1 /\ p.kind = "DIO"
               /\ r.last = "DAO_ACK" => \/ lastReceived = "DAO_ACK"
                                        \/ len = 1 /\ p.kind = "DAO_ACK"
               /\ p.kind \in {"DIO", "DAO_ACK"} /\ len = 1 =>
                     /\ r.last = p.kind /\ r.src = p.src
                     /\ r.sent = {} /\ r.call = "none"
                     /\ state = "SearchingDIO" => r.id = p.id
               /\ state # "SearchingDIO" => r.id = dodag_instance_id
               /\ r.len = 1 => len = 1 /\ r.sent = {} /\ r.buf.kind \in {p.kind, "UNEXPECTED"}
               /\ r.sent # {} => r.last = "NS"
               /\ \A m \in r.sent : m.type = "NA" /\ m.to \in {Broadcast, gateway_ll}
               /\ r.call = "app" => state = "Connected"
               /\ r.call = "null" => state # "Connected" /\ r.last = "UDP"
               /\ len = 0 => /\ r.last = "NOT_EXPECTED_OR_ERROR"
                             /\ r.sent = {} /\ r.call = "none"
<1> DEFINE r == receive_ipv6(p, len)
<1>2. CASE len = 0 \/ p.kind = "INVALID"
    BY <1>2 DEF receive_ipv6, Dropped, Examined
<1>3. CASE len # 0 /\ p.kind = "UNEXPECTED"
    BY <1>3 DEF receive_ipv6, Dropped, Examined
<1>4. CASE len # 0 /\ p.kind \in {"DIO", "DAO_ACK", "RPL_OTHER"}
    BY <1>4 DEF receive_ipv6, RplInput, Examined
<1>5. CASE len # 0 /\ p.kind = "NS"
    BY <1>5, NaSent DEF receive_ipv6, NsInput, Examined, LengthAfter, Plain
<1>6. CASE len # 0 /\ p.kind = "UDP"
    BY <1>6 DEF receive_ipv6, UdpInput, Examined
<1> QED
    BY <1>2, <1>3, <1>4, <1>5, <1>6 DEF Packet

-----------------------------------------------------------------------------
(* What the invariant says of the frame of the current poll *)

LEMMA OutcomeTyped ==
    ASSUME TypeOK, NEW f \in Frames
    PROVE  Outcome(f) \in Outcomes
    BY BufferTyped, ReceiveTyped DEF Outcome

(* A node that is still searching takes a frame for a DIO only if it is one. *)
LEMMA DioFrame ==
    ASSUME IInv, NEW f \in Frames, ~Chosen, Outcome(f).last = "DIO"
    PROVE  /\ IsDio(f)
           /\ Outcome(f).src = f.pkt.src /\ Outcome(f).id = f.pkt.id
           /\ Outcome(f).sent = {} /\ Outcome(f).call = "none"
<1> DEFINE p == BufferWith(f)
<1> DEFINE len == LengthWith(f)
<1>1. TypeOK /\ p \in Packet /\ len \in {0, 1}
    BY BufferTyped DEF IInv
<1>2. len = 1 /\ p.kind = "DIO"
    BY <1>1, ReceiveEffect DEF IInv, NothingChosenYet, Outcome
<1>3. IsDio(f)
    BY <1>2, FrameAssumption DEF IInv, NothingChosenYet, BufferWith, LengthWith, Frame, IsDio
<1>4. p = f.pkt
    BY <1>3 DEF BufferWith, IsDio
<1>5. state = "SearchingDIO"
    BY DEF Chosen
<1>6. /\ Outcome(f).src = p.src /\ Outcome(f).id = p.id
      /\ Outcome(f).sent = {} /\ Outcome(f).call = "none"
    BY <1>1, <1>2, <1>5, ReceiveEffect DEF Outcome
<1> QED
    BY <1>3, <1>4, <1>6

(* A node that waits for a DAO ACK takes a frame for one only if it is one. *)
LEMMA AckFrame ==
    ASSUME IInv, NEW f \in Frames, state = "SendingDAO",
           currentState = "WAITING_DAO_ACK", Outcome(f).last = "DAO_ACK"
    PROVE  /\ f.decode = "packet" /\ f.pkt.kind = "DAO_ACK"
           /\ Outcome(f).sent = {} /\ Outcome(f).call = "none"
<1> DEFINE p == BufferWith(f)
<1> DEFINE len == LengthWith(f)
<1>1. TypeOK /\ p \in Packet /\ len \in {0, 1}
    BY BufferTyped DEF IInv
<1>2. len = 1 /\ p.kind = "DAO_ACK"
    BY <1>1, ReceiveEffect DEF IInv, NoAckLeftOver, Outcome
<1>3. f.decode = "packet" /\ f.pkt.kind = "DAO_ACK"
    BY <1>2, FrameAssumption DEF IInv, NoAckLeftOver, BufferWith, LengthWith, Frame
<1>4. Outcome(f).sent = {} /\ Outcome(f).call = "none"
    BY <1>1, <1>2, ReceiveEffect DEF Outcome
<1> QED
    BY <1>3, <1>4

-----------------------------------------------------------------------------
(* The invariant holds initially and every action keeps it *)

LEMMA InitInv == Init => IInv
<1> SUFFICES ASSUME Init PROVE IInv
    OBVIOUS
<1>1. TypeOK
    BY GarbageTyped DEF Init, TypeOK, ConnectionState, ReceivedPacketType, NoInstance
<1>2. /\ Lifecycle /\ NothingChosenYet /\ NoAckLeftOver /\ NothingLeftBySending
      /\ JoinedThroughOneDio /\ SentToTheGateway
    BY DEF Init, Lifecycle, NothingChosenYet, NoAckLeftOver, NothingLeftBySending,
           JoinedThroughOneDio, SentToTheGateway, Chosen
<1> QED
    BY <1>1, <1>2 DEF IInv

(* The steps that only move the program on or let time pass. *)
LEMMA QuietSteps ==
    ASSUME IInv, \/ Tick \/ PollNothing \/ AlreadyConnected \/ StillWaiting
                 \/ CallConnect \/ UNCHANGED vars
    PROVE  IInv'
<1>1. UNCHANGED <<state, currentState, dodag_instance_id, lastReceived,
                  src_ip_address, src_resp, gateway_ip, gateway_ll, uip_buf,
                  uip_length, dio, obs>>
    BY DEF Tick, PollNothing, AlreadyConnected, StillWaiting, CallConnect, vars
<1>2. TypeOK'
    BY <1>1 DEF IInv, TypeOK, Tick, PollNothing, AlreadyConnected, StillWaiting,
                CallConnect, vars
<1>3. Lifecycle'
    BY <1>1 DEF IInv, Lifecycle, Tick, PollNothing, AlreadyConnected, StillWaiting,
                CallConnect, Waiting, vars
<1>4. /\ NothingChosenYet' /\ NoAckLeftOver' /\ NothingLeftBySending'
      /\ JoinedThroughOneDio' /\ SentToTheGateway'
    BY <1>1 DEF IInv, NothingChosenYet, NoAckLeftOver, NothingLeftBySending,
                JoinedThroughOneDio, SentToTheGateway, Chosen
<1> QED
    BY <1>2, <1>3, <1>4 DEF IInv

(* A transmission of the node's own: what it leaves in obs and the buffer. *)
LEMMA BufferSent ==
    ASSUME NEW sent, NEW pkt \in Packet, NEW buf \in BufferAfter(sent, pkt)
    PROVE  buf \in Packet /\ buf.kind \in {pkt.kind, "INVALID"}
    BY GarbageTyped DEF BufferAfter, Garbage, Plain

LEMMA SendDisInv == ASSUME IInv, SendDis PROVE IInv'
<1>1. ~Chosen /\ gateway_ip = RplNodes
    BY DEF SendDis, IInv, NothingChosenYet, Chosen
<1>2. TypeOK /\ gateway_ip \in Sources \cup Multicast /\ NoInstance \in 0..255
    BY <1>1 DEF IInv, Multicast, NoInstance
<1>3. dis_output \in SUBSET Message
    BY <1>2, IpSend DEF dis_output
<1>4. \A m \in dis_output : m.type = "DIS" /\ m.to = Broadcast
    BY <1>1 DEF dis_output, ip_send, Multicast
<1>5. dis_output # {}
    BY <1>1 DEF dis_output, ip_send, Multicast, RplNodes, Unspecified
<1>6. uip_buf' \in Packet /\ uip_length' = 0
    BY <1>5, BufferSent, OwnPacketsTyped DEF SendDis, LengthAfter
<1>7. TypeOK'
    BY <1>2, <1>3, <1>6 DEF SendDis, TypeOK, ConnectionState
<1>8. Lifecycle'
    BY DEF IInv, SendDis, Lifecycle
<1>9. NothingChosenYet' /\ NoAckLeftOver' /\ NothingLeftBySending'
    BY <1>1, <1>6 DEF IInv, SendDis, NothingChosenYet, NoAckLeftOver,
                      NothingLeftBySending, Chosen
<1>10. JoinedThroughOneDio' /\ SentToTheGateway'
    BY <1>1, <1>4 DEF IInv, SendDis, JoinedThroughOneDio, SentToTheGateway, Chosen
<1> QED
    BY <1>7, <1>8, <1>9, <1>10 DEF IInv

(* A DAO goes to the gateway that the accepted DIO named, or nowhere. *)
LEMMA DaoSent ==
    ASSUME IInv, Chosen
    PROVE  /\ dao_output \in SUBSET Message
           /\ \A m \in dao_output :
                 \E f \in dio : m.to = f.ll /\ m.dest = f.pkt.src /\ m.id = f.pkt.id
<1>1. TypeOK /\ gateway_ip \in Sources \cup Multicast /\ dodag_instance_id \in 0..255
    BY DEF IInv, TypeOK, Multicast
<1>2. dao_output \in SUBSET Message
    BY <1>1, IpSend DEF dao_output
<1>3. PICK f \in dio : /\ gateway_ip = f.pkt.src /\ gateway_ll = f.ll
                       /\ dodag_instance_id = f.pkt.id
    BY DEF IInv, JoinedThroughOneDio
<1>4. f.pkt.src \notin Multicast
    <2>1. f \in Frames /\ f.pkt.src \in Sources
        BY FrameAssumption DEF IInv, TypeOK, Frame, Packet
    <2> QED
        BY <2>1, AddrAssumption DEF Sources, Multicast, Unspecified, Own, AllNodes, RplNodes
<1>5. \A m \in dao_output : m.to = f.ll /\ m.dest = f.pkt.src /\ m.id = f.pkt.id
    BY <1>3, <1>4 DEF dao_output, ip_send
<1> QED
    BY <1>2, <1>5

LEMMA SendDaoInv == ASSUME IInv, SendDao PROVE IInv'
<1>1. Chosen /\ TypeOK
    BY DEF SendDao, Chosen, IInv
<1>2. uip_buf' \in Packet /\ uip_buf'.kind # "DAO_ACK"
    BY BufferSent, OwnPacketsTyped DEF SendDao, Plain
<1>3. uip_length' \in {0, 1} /\ (dao_output # {} => uip_length' = 0)
    BY <1>1 DEF SendDao, LengthAfter, TypeOK
<1>4. TypeOK'
    BY <1>1, <1>2, <1>3, DaoSent DEF SendDao, TypeOK, ConnectionState
<1>5. Lifecycle'
    BY DEF IInv, SendDao, Lifecycle
<1>6. NothingChosenYet' /\ NoAckLeftOver' /\ NothingLeftBySending'
    BY <1>1, <1>2, <1>3 DEF IInv, SendDao, NothingChosenYet, NoAckLeftOver,
                            NothingLeftBySending, Chosen
<1>7. JoinedThroughOneDio' /\ SentToTheGateway'
    BY <1>1, DaoSent DEF IInv, SendDao, JoinedThroughOneDio, SentToTheGateway, Chosen
<1> QED
    BY <1>4, <1>5, <1>6, <1>7 DEF IInv

(* A frame that is taken in without being acted upon, in any state. *)
LEMMA TakenTyped ==
    ASSUME TypeOK, NEW f \in Frames, TakeOutcome(f, Outcome(f))
    PROVE  /\ lastReceived' \in ReceivedPacketType
           /\ dodag_instance_id' \in 0..255
           /\ src_ip_address' \in Sources \cup {Unset}
           /\ src_resp' \in LLAddr
           /\ uip_buf' \in Packet
           /\ uip_length' \in {0, 1}
           /\ obs' \in [got : SUBSET Frames, sent : SUBSET Message,
                        call : {"none", "app", "null"}]
<1>1. Outcome(f) \in Outcomes
    BY OutcomeTyped
<1>2. f.ll \in LLAddr
    BY FrameAssumption DEF Frame
<1> QED
    BY <1>1, <1>2 DEF TakeOutcome, Outcomes

(* What a reception transmits goes to the gateway, once there is one. *)
LEMMA OutcomeSent ==
    ASSUME IInv, NEW f \in Frames
    PROVE  /\ Outcome(f).sent # {} => Outcome(f).len = 0
           /\ \A m \in Outcome(f).sent :
                 m.type = "NA" /\ m.to \in {Broadcast, gateway_ll}
           /\ state # "SearchingDIO" => Outcome(f).id = dodag_instance_id
           /\ f.decode = "packet" /\ f.pkt.kind \in {"DIO", "DAO_ACK"}
                 => Outcome(f).last = f.pkt.kind
           /\ Outcome(f).len = 1 =>
                 \/ f.decode = "packet" /\ Outcome(f).buf.kind \in {f.pkt.kind, "UNEXPECTED"}
                 \/ f.decode = "header"
                      /\ Outcome(f).buf.kind \in {"UNEXPECTED", "INVALID"}
                 \/ /\ f.decode = "nothing" /\ uip_length = 1
                    /\ Outcome(f).buf.kind \in {uip_buf.kind, "UNEXPECTED"}
<1> DEFINE p == BufferWith(f)
<1> DEFINE len == LengthWith(f)
<1> DEFINE r == Outcome(f)
<1>1. TypeOK /\ p \in Packet /\ len \in {0, 1} /\ r \in Outcomes
    BY BufferTyped, OutcomeTyped DEF IInv
<1>2. /\ r.len = 1 => len = 1 /\ r.sent = {} /\ r.buf.kind \in {p.kind, "UNEXPECTED"}
      /\ \A m \in r.sent : m.type = "NA" /\ m.to \in {Broadcast, gateway_ll}
      /\ state # "SearchingDIO" => r.id = dodag_instance_id
    BY <1>1, ReceiveEffect DEF Outcome
<1>3. r.sent # {} => r.len = 0
    BY <1>1, <1>2 DEF Outcomes
<1>4. f.decode \in {"packet", "header", "nothing"}
      /\ (f.decode = "header" => f.pkt.kind \in {"UNEXPECTED", "INVALID"})
    BY FrameAssumption DEF Frame
<1>5. r.len = 1 =>
         \/ f.decode = "packet" /\ r.buf.kind \in {f.pkt.kind, "UNEXPECTED"}
         \/ f.decode = "header" /\ r.buf.kind \in {"UNEXPECTED", "INVALID"}
         \/ /\ f.decode = "nothing" /\ uip_length = 1
            /\ r.buf.kind \in {uip_buf.kind, "UNEXPECTED"}
    BY <1>2, <1>4 DEF BufferWith, LengthWith
<1>6. ASSUME f.decode = "packet", f.pkt.kind \in {"DIO", "DAO_ACK"}
      PROVE  r.last = f.pkt.kind
    <2>1. p = f.pkt /\ len = 1
        BY <1>6 DEF BufferWith, LengthWith
    <2> QED
        BY <1>1, <1>6, <2>1, ReceiveEffect DEF Outcome
<1> QED
    BY <1>2, <1>3, <1>5, <1>6

LEMMA DioAcceptedInv == ASSUME IInv, NEW f \in Frames, DioAccepted(f) PROVE IInv'
<1>1. ~Chosen /\ state = "SearchingDIO" /\ Outcome(f).last = "DIO"
    BY DEF DioAccepted, IInv, Lifecycle, Chosen, Polling, Waiting
<1>2. /\ f.decode = "packet" /\ f.pkt.kind = "DIO"
      /\ Outcome(f).src = f.pkt.src /\ Outcome(f).id = f.pkt.id
      /\ Outcome(f).sent = {}
    BY <1>1, DioFrame DEF IsDio
<1>3. gateway_ip' = f.pkt.src /\ gateway_ll' = f.ll /\ dodag_instance_id' = f.pkt.id
      /\ dio' = {f} /\ obs'.sent = {} /\ currentState' = "DIO_RECEIVED"
      /\ pc' = "switch" /\ UNCHANGED <<state, elapsed>>
    BY <1>2 DEF DioAccepted, TakeOutcome
<1>4. f.pkt.src \in Sources /\ f.ll \in LLAddr
    BY FrameAssumption DEF Frame, Packet
<1>5. TypeOK'
    BY <1>3, <1>4, TakenTyped DEF IInv, DioAccepted, TypeOK, ConnectionState
<1>6. Lifecycle' /\ Chosen'
    BY <1>1, <1>3 DEF Lifecycle, Chosen
<1>7. NothingChosenYet' /\ NoAckLeftOver' /\ NothingLeftBySending'
    BY <1>1, <1>3, <1>6 DEF NothingChosenYet, NoAckLeftOver, NothingLeftBySending
<1>8. JoinedThroughOneDio' /\ SentToTheGateway'
    BY <1>3 DEF JoinedThroughOneDio, SentToTheGateway
<1> QED
    BY <1>5, <1>6, <1>7, <1>8 DEF IInv

LEMMA AckAcceptedInv == ASSUME IInv, NEW f \in Frames, AckAccepted(f) PROVE IInv'
<1>1. Chosen /\ state = "SendingDAO" /\ currentState = "WAITING_DAO_ACK"
    BY DEF AckAccepted, IInv, Lifecycle, Chosen, Polling, Waiting
<1>2. Outcome(f).sent = {} /\ Outcome(f).id = dodag_instance_id
    BY <1>1, AckFrame, OutcomeSent DEF AckAccepted
<1>3. /\ currentState' = "DAO_ACK_RECEIVED" /\ pc' = "switch" /\ obs'.sent = {}
      /\ UNCHANGED <<state, elapsed, gateway_ip, gateway_ll, dio, dodag_instance_id>>
    BY <1>2 DEF AckAccepted, TakeOutcome
<1>4. TypeOK'
    BY <1>3, TakenTyped DEF IInv, AckAccepted, TypeOK, ConnectionState
<1>5. Lifecycle' /\ Chosen'
    BY <1>1, <1>3 DEF Lifecycle, Chosen
<1>6. NothingChosenYet' /\ NoAckLeftOver' /\ NothingLeftBySending'
    BY <1>3, <1>5 DEF NothingChosenYet, NoAckLeftOver, NothingLeftBySending
<1>7. JoinedThroughOneDio' /\ SentToTheGateway'
    BY <1>1, <1>3 DEF IInv, JoinedThroughOneDio, SentToTheGateway
<1> QED
    BY <1>4, <1>5, <1>6, <1>7 DEF IInv

(* A unicast message to gateway_ll goes to the sender of the accepted DIO. *)
LEMMA GatewaySent ==
    ASSUME IInv, NEW m, m.type # "DAO", m.to \in {Broadcast, gateway_ll},
           m.to # Broadcast
    PROVE  \E f \in dio : /\ m.to = f.ll
                          /\ m.type = "DAO" => m.dest = f.pkt.src /\ m.id = f.pkt.id
<1>1. Chosen
    BY DEF IInv, NothingChosenYet
<1> QED
    BY <1>1 DEF IInv, JoinedThroughOneDio

LEMMA DaoRepeatedInv == ASSUME IInv, NEW f \in Frames, DaoRepeated(f) PROVE IInv'
<1> DEFINE r == Outcome(f)
<1>1. Chosen /\ state = "SendingDAO" /\ currentState = "WAITING_DAO_ACK"
    BY DEF DaoRepeated, IInv, Lifecycle, Chosen, Polling, Waiting
<1>2. TypeOK /\ r \in Outcomes /\ f.ll \in LLAddr
    BY OutcomeTyped, FrameAssumption DEF IInv, Frame
<1>3. r.id = dodag_instance_id /\ (r.sent # {} => r.len = 0)
      /\ \A m \in r.sent : m.type = "NA" /\ m.to \in {Broadcast, gateway_ll}
    BY <1>1, OutcomeSent
<1>4. /\ dao_output \in SUBSET Message
      /\ \A m \in dao_output :
            \E g \in dio : m.to = g.ll /\ m.dest = g.pkt.src /\ m.id = g.pkt.id
    BY <1>1, DaoSent
<1>5. uip_buf' \in Packet /\ uip_buf'.kind # "DAO_ACK"
    BY BufferSent, OwnPacketsTyped DEF DaoRepeated, Plain
<1>6. uip_length' \in {0, 1} /\ (dao_output # {} \/ r.sent # {} => uip_length' = 0)
    BY <1>2, <1>3 DEF DaoRepeated, LengthAfter, Outcomes
<1>7. lastReceived' = "NS" /\ dodag_instance_id' = dodag_instance_id
      /\ src_resp' = f.ll /\ src_ip_address' = r.src /\ pc' = "switch"
      /\ obs' = [got |-> {f}, sent |-> r.sent \cup dao_output, call |-> r.call]
      /\ UNCHANGED <<state, currentState, elapsed, gateway_ip, gateway_ll, dio>>
    BY <1>3 DEF DaoRepeated
<1>8. TypeOK'
    <2>1. obs' \in [got : SUBSET Frames, sent : SUBSET Message,
                    call : {"none", "app", "null"}]
        BY <1>2, <1>4, <1>7 DEF Outcomes
    <2>2. src_ip_address' \in Sources \cup {Unset}
        BY <1>2, <1>7 DEF Outcomes
    <2> QED
        BY <1>2, <1>5, <1>6, <1>7, <2>1, <2>2 DEF TypeOK, ReceivedPacketType
<1>9. Lifecycle' /\ Chosen'
    BY <1>1, <1>7 DEF Lifecycle, Chosen
<1>10. NothingChosenYet' /\ NoAckLeftOver' /\ NothingLeftBySending'
    BY <1>1, <1>5, <1>6, <1>7, <1>9 DEF NothingChosenYet, NoAckLeftOver, NothingLeftBySending
<1>11. JoinedThroughOneDio'
    BY <1>1, <1>7 DEF IInv, JoinedThroughOneDio
<1>12. SentToTheGateway'
    <2>1. ASSUME NEW m \in r.sent, m.to # Broadcast
          PROVE  \E g \in dio : /\ m.to = g.ll
                                /\ m.type = "DAO" => m.dest = g.pkt.src /\ m.id = g.pkt.id
        BY <1>3, <2>1, GatewaySent
    <2>2. \A m \in r.sent : m.type # "DAO"
        BY <1>3
    <2> QED
        BY <1>4, <1>7, <2>1, <2>2 DEF SentToTheGateway
<1> QED
    BY <1>8, <1>9, <1>10, <1>11, <1>12 DEF IInv

(* A frame taken in by a poll that waits for something else, or by receive(). *)
LEMMA TakenInv ==
    ASSUME IInv, NEW f \in Frames, TakeOutcome(f, Outcome(f)),
           state = "SearchingDIO" => ~Chosen /\ Outcome(f).last # "DIO",
           state = "SendingDAO" => Outcome(f).last # "DAO_ACK",
           currentState # "DAO_ACK_RECEIVED",
           UNCHANGED <<state, currentState, elapsed, gateway_ip, gateway_ll, dio>>,
           pc' \in {"app", "connect", "switch"}, Lifecycle'
    PROVE  IInv'
<1> DEFINE r == Outcome(f)
<1>1. Chosen' <=> Chosen
    BY DEF Chosen
<1>2. TypeOK /\ r \in Outcomes
    BY OutcomeTyped DEF IInv
<1>3. TypeOK'
    BY <1>2, TakenTyped DEF TypeOK
<1>4. lastReceived' = r.last /\ dodag_instance_id' = r.id /\ uip_buf' = r.buf
      /\ uip_length' = r.len /\ obs'.sent = r.sent
    BY DEF TakeOutcome
<1>5. NothingChosenYet'
    <2>1. ASSUME ~Chosen PROVE r.last # "DIO" /\ (r.len = 1 => r.buf.kind # "DIO")
        BY <2>1, OutcomeSent DEF IInv, NothingChosenYet, Chosen
    <2> QED
        BY <1>1, <1>4, <2>1 DEF IInv, NothingChosenYet
<1>6. NoAckLeftOver'
    <2>1. ASSUME currentState = "WAITING_DAO_ACK", r.len = 1
          PROVE  r.buf.kind # "DAO_ACK"
        <3>1. state = "SendingDAO"
            BY <2>1 DEF IInv, Lifecycle, TypeOK
        <3> QED
            BY <2>1, <3>1, OutcomeSent DEF IInv, NoAckLeftOver
    <2> QED
        BY <1>4, <2>1 DEF NoAckLeftOver
<1>7. NothingLeftBySending'
    BY <1>4, OutcomeSent DEF NothingLeftBySending
<1>8. JoinedThroughOneDio'
    BY <1>1, <1>4, OutcomeSent DEF IInv, JoinedThroughOneDio, Chosen
<1>9. SentToTheGateway'
    <2>1. ASSUME NEW m \in r.sent, m.to # Broadcast
          PROVE  \E g \in dio : /\ m.to = g.ll
                                /\ m.type = "DAO" => m.dest = g.pkt.src /\ m.id = g.pkt.id
        BY <2>1, OutcomeSent, GatewaySent
    <2>2. \A m \in r.sent : m.type # "DAO"
        BY OutcomeSent
    <2> QED
        BY <1>4, <2>1, <2>2 DEF SentToTheGateway
<1> QED
    BY <1>3, <1>5, <1>6, <1>7, <1>8, <1>9 DEF IInv

LEMMA OtherPolledInv == ASSUME IInv, NEW f \in Frames, OtherPolled(f) PROVE IInv'
<1>1. state = "SearchingDIO" => ~Chosen /\ Outcome(f).last # "DIO"
    BY DEF OtherPolled, IInv, Lifecycle, Polling, Waiting, Chosen
<1>2. currentState # "DAO_ACK_RECEIVED" /\ Lifecycle'
    BY DEF OtherPolled, IInv, Lifecycle, Polling, Waiting
<1> QED
    BY <1>1, <1>2, TakenInv DEF OtherPolled

LEMMA CallReceiveInv == ASSUME IInv, NEW f \in Frames, CallReceive(f) PROVE IInv'
<1>1. state = "Connected"
    BY DEF CallReceive, IInv, TypeOK, Lifecycle
<1>2. currentState # "DAO_ACK_RECEIVED" /\ Lifecycle'
    BY <1>1 DEF CallReceive, IInv, Lifecycle
<1> QED
    BY <1>1, <1>2, TakenInv DEF CallReceive

LEMMA NullCallbackInv == ASSUME IInv, NEW f \in Frames, NullCallback(f) PROVE IInv'
<1>1. TypeOK'
    BY GarbageTyped DEF NullCallback, Restart, TypeOK, ConnectionState,
                        ReceivedPacketType, NoInstance
<1>2. /\ Lifecycle' /\ NothingChosenYet' /\ NoAckLeftOver' /\ NothingLeftBySending'
      /\ JoinedThroughOneDio' /\ SentToTheGateway'
    BY DEF NullCallback, Restart, Lifecycle, NothingChosenYet, NoAckLeftOver,
           NothingLeftBySending, JoinedThroughOneDio, SentToTheGateway, Chosen
<1> QED
    BY <1>1, <1>2 DEF IInv

(* The three places where the connection replaces its state object. *)
LEMMA NewStateInv ==
    ASSUME IInv, SearchAgain \/ Announce \/ BecomeConnected
    PROVE  IInv'
<1>1. CASE SearchAgain
    <2>1. ~Chosen /\ state = "SearchingDIO"
        BY <1>1 DEF SearchAgain, IInv, TypeOK, Lifecycle, Chosen
    <2>2. TypeOK'
        BY <1>1 DEF SearchAgain, NewState, IInv, TypeOK, ConnectionState,
                    ReceivedPacketType, NoInstance
    <2>3. Lifecycle' /\ ~Chosen'
        BY <1>1 DEF SearchAgain, NewState, Lifecycle, Chosen
    <2>4. NothingChosenYet' /\ NoAckLeftOver' /\ NothingLeftBySending'
        BY <1>1, <2>1 DEF SearchAgain, NewState, IInv, NothingChosenYet,
                          NoAckLeftOver, NothingLeftBySending
    <2>5. JoinedThroughOneDio' /\ SentToTheGateway'
        BY <1>1, <2>3 DEF SearchAgain, NewState, IInv, JoinedThroughOneDio, SentToTheGateway
    <2> QED
        BY <2>2, <2>3, <2>4, <2>5 DEF IInv
<1>2. CASE Announce \/ BecomeConnected
    <2>1. Chosen
        BY <1>2 DEF Announce, BecomeConnected, IInv, TypeOK, Lifecycle, Chosen
    <2>2. TypeOK'
        BY <1>2 DEF Announce, BecomeConnected, NewState, IInv, TypeOK, ConnectionState,
                    ReceivedPacketType
    <2>3. Lifecycle' /\ Chosen'
        BY <1>2 DEF Announce, BecomeConnected, NewState, Lifecycle, Chosen
    <2>4. NothingChosenYet' /\ NoAckLeftOver' /\ NothingLeftBySending'
        BY <1>2, <2>3 DEF Announce, BecomeConnected, NewState, IInv, NothingChosenYet,
                          NoAckLeftOver, NothingLeftBySending
    <2>5. JoinedThroughOneDio' /\ SentToTheGateway'
        BY <1>2, <2>1 DEF Announce, BecomeConnected, NewState, IInv,
                          JoinedThroughOneDio, SentToTheGateway
    <2> QED
        BY <2>2, <2>3, <2>4, <2>5 DEF IInv
<1> QED
    BY <1>1, <1>2

LEMMA CallUdpSendInv ==
    ASSUME IInv, NEW dest \in IPAddr \cup {AllNodes, Unspecified}, CallUdpSend(dest)
    PROVE  IInv'
<1> DEFINE sent == ip_send("UDP", dest, NoInstance)
<1>1. TypeOK /\ dest \in Sources \cup Multicast /\ NoInstance \in 0..255
    BY DEF IInv, Sources, Multicast, NoInstance
<1>2. sent \in SUBSET Message
    BY <1>1, IpSend
<1>3. \A m \in sent : m.type = "UDP" /\ m.to \in {Broadcast, gateway_ll}
    BY DEF ip_send
<1>4. uip_buf' \in Packet /\ uip_buf'.kind \notin {"DIO", "DAO_ACK"}
    BY BufferSent, OwnPacketsTyped DEF CallUdpSend, Plain
<1>5. uip_length' \in {0, 1} /\ (sent # {} => uip_length' = 0)
    BY <1>1 DEF CallUdpSend, LengthAfter, TypeOK
<1>6. obs' = [got |-> {}, sent |-> sent, call |-> "none"] /\ pc' = pc
      /\ UNCHANGED <<state, currentState, dodag_instance_id, lastReceived, elapsed,
                     src_ip_address, src_resp, gateway_ip, gateway_ll, dio>>
    BY DEF CallUdpSend
<1>7. TypeOK'
    BY <1>1, <1>2, <1>4, <1>5, <1>6 DEF TypeOK
<1>8. Lifecycle' /\ (Chosen' <=> Chosen)
    BY <1>6 DEF IInv, Lifecycle, Chosen
<1>9. NothingChosenYet' /\ NoAckLeftOver' /\ NothingLeftBySending'
    BY <1>4, <1>5, <1>6, <1>8 DEF IInv, NothingChosenYet, NoAckLeftOver,
                                  NothingLeftBySending
<1>10. JoinedThroughOneDio'
    BY <1>6, <1>8 DEF IInv, JoinedThroughOneDio
<1>11. SentToTheGateway'
    <2>1. ASSUME NEW m \in sent, m.to # Broadcast
          PROVE  \E g \in dio : /\ m.to = g.ll
                                /\ m.type = "DAO" => m.dest = g.pkt.src /\ m.id = g.pkt.id
        BY <1>3, <2>1, GatewaySent
    <2>2. \A m \in sent : m.type # "DAO"
        BY <1>3
    <2> QED
        BY <1>6, <2>1, <2>2 DEF SentToTheGateway
<1> QED
    BY <1>7, <1>8, <1>9, <1>10, <1>11 DEF IInv

LEMMA StepInv == IInv /\ [Next]_vars => IInv'
<1> SUFFICES ASSUME IInv, [Next]_vars PROVE IInv'
    OBVIOUS
<1>1. ASSUME NEW f \in Frames, Poll(f) PROVE IInv'
    BY <1>1, DioAcceptedInv, AckAcceptedInv, DaoRepeatedInv, OtherPolledInv,
       NullCallbackInv DEF Poll
<1>2. ASSUME NEW f \in Frames, CallReceive(f) PROVE IInv'
    BY <1>2, CallReceiveInv
<1>3. ASSUME NEW dest \in IPAddr \cup {AllNodes, Unspecified}, CallUdpSend(dest)
      PROVE  IInv'
    BY <1>3, CallUdpSendInv
<1>4. CASE SendDis
    BY <1>4, SendDisInv
<1>5. CASE SendDao
    BY <1>5, SendDaoInv
<1>6. CASE SearchAgain \/ Announce \/ BecomeConnected
    BY <1>6, NewStateInv
<1>7. CASE \/ Tick \/ PollNothing \/ AlreadyConnected \/ StillWaiting
           \/ CallConnect \/ UNCHANGED vars
    BY <1>7, QuietSteps
<1> QED
    BY <1>1, <1>2, <1>3, <1>4, <1>5, <1>6, <1>7 DEF Next, Connecting

-----------------------------------------------------------------------------
(* Theorems of the specification *)

(* The strengthened invariant of the joining node holds in every execution. *)
THEOREM Invariance == Spec => []IInv
<1>1. Init => IInv
    BY InitInv
<1>2. IInv /\ [Next]_vars => IInv'
    BY StepInv
<1> QED
    BY <1>1, <1>2, PTL DEF Spec

(* Type correctness of the node. *)
THEOREM TypeCorrect == Spec => []TypeOK
<1>1. IInv => TypeOK
    BY DEF IInv
<1> QED
    BY <1>1, Invariance, PTL

(* The gateway's two addresses and the instance id always come from one and  *)
(* the same DIO frame.                                                       *)
THEOREM OneDio == Spec => []JoinedThroughOneDio
<1>1. IInv => JoinedThroughOneDio
    BY DEF IInv
<1> QED
    BY <1>1, Invariance, PTL

(* Every unicast transmission, and every DAO, goes to the node whose DIO was *)
(* accepted.                                                                 *)
THEOREM OnlyTheGateway == Spec => []SentToTheGateway
<1>1. IInv => SentToTheGateway
    BY DEF IInv
<1> QED
    BY <1>1, Invariance, PTL

(* A DAO counts as acknowledged only in a poll whose own frame is a DAO ACK. *)
THEOREM FreshAck == Spec => AckIsFresh
<1> DEFINE Fresh == \E f \in obs'.got : f.decode = "packet" /\ f.pkt.kind = "DAO_ACK"
<1> DEFINE A == currentState # "DAO_ACK_RECEIVED" /\ currentState' = "DAO_ACK_RECEIVED"
                  => Fresh
<1>1. ASSUME IInv, [Next]_vars PROVE [A]_vars
    <2>1. ASSUME NEW f \in Frames, AckAccepted(f) PROVE Fresh
        <3>1. state = "SendingDAO" /\ currentState = "WAITING_DAO_ACK"
            BY <1>1, <2>1 DEF AckAccepted, IInv, Lifecycle, Polling, Waiting
        <3>2. f.decode = "packet" /\ f.pkt.kind = "DAO_ACK"
            BY <1>1, <2>1, <3>1, AckFrame DEF AckAccepted
        <3> QED
            BY <2>1, <3>2 DEF AckAccepted, TakeOutcome
    <2>2. ASSUME NEW f \in Frames, Poll(f), ~AckAccepted(f) PROVE A
        BY <2>2 DEF Poll, DioAccepted, DaoRepeated, OtherPolled, NullCallback, Restart
    <2>3. ASSUME NEW f \in Frames, CallReceive(f) PROVE A
        BY <2>3 DEF CallReceive
    <2>4. ASSUME NEW dest \in IPAddr \cup {AllNodes, Unspecified}, CallUdpSend(dest)
          PROVE  A
        BY <2>4 DEF CallUdpSend
    <2>5. ASSUME \/ SendDis \/ SendDao \/ PollNothing \/ AlreadyConnected
                 \/ StillWaiting \/ SearchAgain \/ Announce \/ BecomeConnected
                 \/ CallConnect \/ Tick \/ UNCHANGED vars
          PROVE  A
        BY <2>5 DEF SendDis, SendDao, PollNothing, AlreadyConnected, StillWaiting,
                    SearchAgain, Announce, BecomeConnected, NewState, CallConnect,
                    Tick, vars
    <2> QED
        BY <1>1, <2>1, <2>2, <2>3, <2>4, <2>5 DEF Next, Connecting
<1>2. IInv /\ [Next]_vars => [A]_vars
    BY <1>1
<1> QED
    BY <1>2, Invariance, PTL DEF Spec, AckIsFresh

(* After a transmission, a frame that cannot be decoded has no effect: the   *)
(* node's own packet in the shared buffer is not taken for a reception.      *)
THEOREM NoSelfReception == Spec => OwnPacketNotReceived
<1> DEFINE Undecoded == obs' # obs /\ obs.sent # {}
                          /\ \E f \in obs'.got : f.decode # "packet"
<1> DEFINE A == Undecoded => obs'.sent = {} /\ obs'.call = "none"
<1>1. ASSUME IInv, [Next]_vars, Undecoded PROVE obs'.sent = {} /\ obs'.call = "none"
    <2>1. TypeOK /\ uip_length = 0
        BY <1>1 DEF IInv, NothingLeftBySending
    <2>2. ASSUME NEW f \in Frames, f.decode # "packet"
          PROVE  /\ Outcome(f).last = "NOT_EXPECTED_OR_ERROR"
                 /\ Outcome(f).sent = {} /\ Outcome(f).call = "none"
        <3>1. LengthWith(f) = 0 /\ BufferWith(f) \in Packet
            BY <2>1, <2>2, BufferTyped DEF LengthWith
        <3> QED
            BY <2>1, <3>1, ReceiveEffect DEF Outcome
    <2>3. ASSUME NEW f \in Frames, Poll(f)
          PROVE  obs'.sent = {} /\ obs'.call = "none"
        <3>1. obs'.got = {f}
            BY <2>3 DEF Poll, DioAccepted, AckAccepted, DaoRepeated, OtherPolled,
                        NullCallback, Restart, TakeOutcome
        <3>2. f.decode # "packet"
            BY <1>1, <3>1
        <3>3. OtherPolled(f)
            BY <2>2, <2>3, <3>2 DEF Poll, DioAccepted, AckAccepted, DaoRepeated, NullCallback
        <3> QED
            BY <2>2, <3>2, <3>3 DEF OtherPolled, TakeOutcome
    <2>4. ASSUME NEW f \in Frames, CallReceive(f)
          PROVE  obs'.sent = {} /\ obs'.call = "none"
        <3>1. f.decode # "packet"
            BY <1>1, <2>4 DEF CallReceive, TakeOutcome
        <3> QED
            BY <2>2, <2>4, <3>1 DEF CallReceive, TakeOutcome
    <2>5. ASSUME \/ SendDis \/ SendDao
                 \/ \E dest \in IPAddr \cup {AllNodes, Unspecified} : CallUdpSend(dest)
          PROVE  FALSE
        BY <1>1, <2>5 DEF SendDis, SendDao, CallUdpSend
    <2>6. ASSUME \/ PollNothing \/ AlreadyConnected \/ StillWaiting \/ SearchAgain
                 \/ Announce \/ BecomeConnected \/ CallConnect \/ Tick
                 \/ UNCHANGED vars
          PROVE  FALSE
        BY <1>1, <2>6 DEF PollNothing, AlreadyConnected, StillWaiting, SearchAgain,
                          Announce, BecomeConnected, NewState, CallConnect, Tick, vars
    <2> QED
        BY <1>1, <2>3, <2>4, <2>5, <2>6 DEF Next, Connecting
<1>2. IInv /\ [Next]_vars => [A]_vars
    BY <1>1
<1> QED
    BY <1>2, Invariance, PTL DEF Spec, OwnPacketNotReceived

-----------------------------------------------------------------------------
(* The node implements RplJoin *)

(* A step that keeps these four keeps the abstract state. *)
LEMMA JoinStutter ==
    ASSUME Chosen' <=> Chosen, UNCHANGED <<gateway_ip, gateway_ll>>,
           Chosen => dodag_instance_id' = dodag_instance_id,
           currentState' \in {"DAO_ACK_RECEIVED", "CONNECTED"}
             <=> currentState \in {"DAO_ACK_RECEIVED", "CONNECTED"}
    PROVE  UNCHANGED Join!joinVars
<1>1. phase' = phase
    BY DEF phase
<1> QED
    BY <1>1 DEF Join!joinVars

LEMMA JoinStep == ASSUME IInv, [Next]_vars PROVE [Join!JoinNext]_(Join!joinVars)
<1>1. ASSUME NEW f \in Frames, DioAccepted(f) PROVE Join!JoinNext
    <2>1. ~Chosen /\ state = "SearchingDIO"
        BY <1>1 DEF DioAccepted, IInv, Lifecycle, Chosen, Polling, Waiting
    <2>2. /\ IsDio(f) /\ Outcome(f).src = f.pkt.src /\ Outcome(f).id = f.pkt.id
        BY <1>1, <2>1, DioFrame DEF DioAccepted
    <2>3. /\ currentState' = "DIO_RECEIVED" /\ gateway_ip' = f.pkt.src
          /\ gateway_ll' = f.ll /\ dodag_instance_id' = f.pkt.id
        BY <1>1, <2>2 DEF DioAccepted, TakeOutcome
    <2> DEFINE r == [ip |-> f.pkt.src, ll |-> f.ll, id |-> f.pkt.id]
    <2>4. r \in Advertised
        BY <2>2 DEF Advertised
    <2>5. Chosen' /\ phase = "searching" /\ phase' = "announcing"
        BY <2>1, <2>3 DEF Chosen, phase
    <2>6. Join!Adopt(r)
        BY <2>3, <2>5 DEF Join!Adopt
    <2> QED
        BY <2>4, <2>6 DEF Join!JoinNext
<1>2. ASSUME NEW f \in Frames, AckAccepted(f) PROVE Join!JoinNext
    <2>1. Chosen /\ state = "SendingDAO" /\ currentState = "WAITING_DAO_ACK"
        BY <1>2 DEF AckAccepted, IInv, Lifecycle, Chosen, Polling, Waiting
    <2>2. Outcome(f).id = dodag_instance_id
        BY <2>1, OutcomeSent
    <2>3. /\ currentState' = "DAO_ACK_RECEIVED"
          /\ UNCHANGED <<state, gateway_ip, gateway_ll, dodag_instance_id>>
        BY <1>2, <2>2 DEF AckAccepted, TakeOutcome
    <2>4. Chosen' /\ phase = "announcing" /\ phase' = "member"
        BY <2>1, <2>3 DEF Chosen, phase
    <2>5. Join!Admit
        BY <2>1, <2>3, <2>4 DEF Join!Admit
    <2> QED
        BY <2>5 DEF Join!JoinNext
<1>3. ASSUME NEW f \in Frames, NullCallback(f) PROVE [Join!JoinNext]_(Join!joinVars)
    <2>1. ~Chosen' /\ phase' = "searching"
        BY <1>3 DEF NullCallback, Restart, Chosen, phase
    <2>2. currentState \in {"WAITING_DIO", "WAITING_DAO_ACK"}
        BY <1>3 DEF NullCallback, Polling, Waiting
    <2>3. CASE Chosen
        <3>1. phase = "announcing"
            BY <2>2, <2>3 DEF phase
        <3>2. Join!StartAgain
            BY <2>1, <3>1 DEF Join!StartAgain
        <3> QED
            BY <3>2 DEF Join!JoinNext
    <2>4. CASE ~Chosen
        <3>1. phase = "searching"
            BY <2>4 DEF phase
        <3> QED
            BY <2>1, <2>4, <3>1 DEF Join!joinVars
    <2> QED
        BY <2>3, <2>4
<1>4. ASSUME NEW f \in Frames, DaoRepeated(f) \/ OtherPolled(f) \/ CallReceive(f)
      PROVE  UNCHANGED Join!joinVars
    <2>1. UNCHANGED <<state, currentState, gateway_ip, gateway_ll>>
          /\ dodag_instance_id' = Outcome(f).id
        BY <1>4 DEF DaoRepeated, OtherPolled, CallReceive, TakeOutcome
    <2>2. Chosen => state # "SearchingDIO"
        BY <1>4 DEF DaoRepeated, OtherPolled, CallReceive, IInv, Lifecycle, Chosen,
                    Polling, Waiting
    <2>3. Chosen => dodag_instance_id' = dodag_instance_id
        BY <2>1, <2>2, OutcomeSent
    <2>4. Chosen' <=> Chosen
        BY <2>1 DEF Chosen
    <2> QED
        BY <2>1, <2>3, <2>4, JoinStutter
<1>5. ASSUME \/ SendDis \/ SendDao \/ PollNothing \/ AlreadyConnected \/ StillWaiting
             \/ CallConnect \/ Tick \/ UNCHANGED vars
             \/ \E dest \in IPAddr \cup {AllNodes, Unspecified} : CallUdpSend(dest)
      PROVE  UNCHANGED Join!joinVars
    <2>1. UNCHANGED <<state, gateway_ip, gateway_ll, dodag_instance_id>>
        BY <1>5 DEF SendDis, SendDao, PollNothing, AlreadyConnected, StillWaiting,
                    CallConnect, Tick, CallUdpSend, vars
    <2>2. /\ Chosen' <=> Chosen
          /\ currentState' \in {"DAO_ACK_RECEIVED", "CONNECTED"}
               <=> currentState \in {"DAO_ACK_RECEIVED", "CONNECTED"}
        BY <1>5 DEF SendDis, SendDao, PollNothing, AlreadyConnected, StillWaiting,
                    CallConnect, Tick, CallUdpSend, vars, Chosen
    <2> QED
        BY <2>1, <2>2, JoinStutter
<1>6. ASSUME SearchAgain \/ Announce \/ BecomeConnected PROVE UNCHANGED Join!joinVars
    <2>1. UNCHANGED <<gateway_ip, gateway_ll>> /\ (Chosen' <=> Chosen)
        BY <1>6 DEF SearchAgain, Announce, BecomeConnected, NewState, IInv, TypeOK,
                    Lifecycle, Chosen
    <2>2. Chosen => dodag_instance_id' = dodag_instance_id
        BY <1>6 DEF SearchAgain, Announce, BecomeConnected, NewState, IInv, TypeOK,
                    Lifecycle, Chosen
    <2>3. currentState' \in {"DAO_ACK_RECEIVED", "CONNECTED"}
            <=> currentState \in {"DAO_ACK_RECEIVED", "CONNECTED"}
        BY <1>6 DEF SearchAgain, Announce, BecomeConnected, NewState
    <2> QED
        BY <2>1, <2>2, <2>3, JoinStutter
<1> QED
    BY <1>1, <1>2, <1>3, <1>4, <1>5, <1>6 DEF Next, Connecting, Poll

(* The joining node implements the abstract specification of joining.        *)
THEOREM Refinement == Spec => ImplementsJoin
<1>1. Init => Join!JoinInit
    BY DEF Init, Join!JoinInit, phase, Chosen
<1>2. IInv /\ [Next]_vars => [Join!JoinNext]_(Join!joinVars)
    BY JoinStep
<1> QED
    BY <1>1, <1>2, Invariance, PTL DEF Spec, ImplementsJoin, Join!JoinSpec

=============================================================================
