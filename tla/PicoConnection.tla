--------------------------- MODULE PicoConnection ---------------------------
(* A node of the pico IPv6 stack that joins an RPL network and then          *)
(* exchanges UDP datagrams: PicoIPv6Connection, the three PicoIPv6State      *)
(* subclasses it switches between, and the receive and send paths of         *)
(* PicoIPv6State down to the MAC layer.                                      *)
(*                                                                           *)
(* The program is one loop(): at pc = "app" the sketch may call connect(),   *)
(* receive() or udp_send(); "connect" and "switch" are the two halves of     *)
(* PicoIPv6Connection::connect(), whose recursive call is a tail call and    *)
(* goes back to "connect".  Frames are whatever the MAC layer hands over at  *)
(* a poll: nothing is assumed of their order, their number or their sender.  *)
(* Time passes between any two steps of the program.                         *)
EXTENDS Integers

CONSTANTS LLAddr,         \* link-layer addresses of the neighbours
          IPAddr,         \* unicast IPv6 addresses of the neighbours
          Frames,         \* the frames the MAC layer may hand over
          DioTimeout,     \* TIMEOUT_RECEIVING_DIO, in ticks
          DaoAckTimeout   \* TIMEOUT_RECEIVING_DAO_ACK, in ticks

NoInstance  == 255                  \* -1 stored in the uint8_t dodag_instance_id
Broadcast   == "rimeaddr_null"      \* the all-zero link-layer address
Unspecified == "::"
Own         == "own"                \* own_ip_address, default prefix + IID
AllNodes    == "ff02::1"
RplNodes    == "ff02::1a"
Multicast   == {AllNodes, RplNodes}
Unset       == "unset"              \* a member the constructor leaves uninitialised

Sources == IPAddr \cup {Unspecified, Own}

ConnectionState == {"DISCONNECTED", "WAITING_DIO", "DIO_RECEIVED",
                    "WAITING_DAO_ACK", "DAO_ACK_RECEIVED", "CONNECTED"}
ReceivedPacketType == {"DIO", "DAO_ACK", "UDP", "NOT_EXPECTED_OR_ERROR", "NS"}

(* What receive_ipv6() can tell of a packet.  "INVALID" fails a check made   *)
(* before the source address is recorded (version, length, multicast         *)
(* source), "UNEXPECTED" one made after it (checksum, port, an ICMP type or  *)
(* protocol that is not handled).  "RPL_OTHER" is an RPL message that is     *)
(* neither a DIO nor a DAO ACK.  id is the first payload byte of an RPL      *)
(* message; target and dest matter for a neighbour solicitation only.        *)
Packet == [kind   : {"DIO", "DAO_ACK", "RPL_OTHER", "NS", "UDP",
                     "UNEXPECTED", "INVALID"},
           src    : Sources,
           id     : 0..255,
           target : {"own", "ownLinkLocal", "other", "malformed"},
           dest   : {"solicited", "ownLinkLocal", "other"}]

Plain(kind, src, id) ==
    [kind |-> kind, src |-> src, id |-> id, target |-> "other", dest |-> "other"]
Garbage == Plain("INVALID", Unspecified, 0)

(* What input() makes of a frame: "packet" decodes it into uip_buf and sets  *)
(* uip_length; "header" overwrites the header in uip_buf and returns before  *)
(* the length is set; "nothing" returns with both untouched.                 *)
Frame == [ll : LLAddr, decode : {"packet", "header", "nothing"}, pkt : Packet]

Message == [type : {"DIS", "DAO", "NA", "UDP"},
            to   : LLAddr \cup {Broadcast},
            dest : Sources \cup Multicast,
            id   : 0..255]

ASSUME AddrAssumption ==
    /\ Broadcast \notin LLAddr
    /\ IPAddr \cap (Multicast \cup {Unspecified, Own, Unset}) = {}
ASSUME FrameAssumption ==
    /\ Frames \subseteq Frame
    /\ \A f \in Frames : f.decode = "header" => f.pkt.kind \in {"UNEXPECTED", "INVALID"}
ASSUME TimeoutAssumption == DioTimeout \in Nat \ {0} /\ DaoAckTimeout \in Nat \ {0}

VARIABLES
    pc,                 \* where the program is: in loop() or inside connect()
    state,              \* the class of the object PicoIPv6Connection::state
    currentState,       \* its ConnectionState
    dodag_instance_id,
    lastReceived,
    elapsed,            \* ticks since timer_set() on the object's timer
    src_ip_address,
    src_resp,
    gateway_ip,         \* owned by the connection, survive the state objects
    gateway_ll,
    uip_buf,            \* the packet in the shared buffer, received or sent
    uip_length,         \* 0 or 1: whether the global uip_length is not zero
    dio,                \* history: the last DIO frame taken while searching
    obs                 \* history: the last reception or transmission

vars == <<pc, state, currentState, dodag_instance_id, lastReceived, elapsed,
          src_ip_address, src_resp, gateway_ip, gateway_ll, uip_buf,
          uip_length, dio, obs>>

TypeOK ==
    /\ pc \in {"app", "connect", "switch"}
    /\ state \in {"SearchingDIO", "SendingDAO", "Connected"}
    /\ currentState \in ConnectionState
    /\ dodag_instance_id \in 0..255
    /\ lastReceived \in ReceivedPacketType
    /\ elapsed \in Nat
    /\ src_ip_address \in Sources \cup {Unset}
    /\ src_resp \in LLAddr \cup {Unset}
    /\ gateway_ip \in Sources \cup {RplNodes}
    /\ gateway_ll \in LLAddr \cup {Broadcast}
    /\ uip_buf \in Packet
    /\ uip_length \in {0, 1}
    /\ dio \subseteq Frames
    /\ obs \in [got  : SUBSET Frames,
                sent : SUBSET Message,
                call : {"none", "app", "null"}]

-----------------------------------------------------------------------------
(* Sending *)

(* ip_send(): the messages handed to the MAC layer, none when the            *)
(* destination is unspecified or is unicast and there is no gateway yet.     *)
ip_send(type, dest, id) ==
    IF dest = Unspecified \/ (dest \notin Multicast /\ gateway_ll = Broadcast)
      THEN {}
      ELSE {[type |-> type,
             to   |-> IF dest \in Multicast THEN Broadcast ELSE gateway_ll,
             dest |-> dest, id |-> id]}

(* Mutant: compress() forgets uip_length = 0. *)
LengthNotCleared(sent, len) == len

(* compress() clears uip_length once the frame is handed over; a packet      *)
(* that is not sent leaves it as it was.                                     *)
LengthAfter(sent, len) == IF sent = {} THEN len ELSE 0

(* The outgoing packet is built in uip_buf.  If it is then not sent, the old *)
(* uip_length may be too short for it.                                       *)
BufferAfter(sent, pkt) == IF sent = {} THEN {pkt, Garbage} ELSE {pkt}

dis_output == ip_send("DIS", gateway_ip, NoInstance)
(* Mutant: the DAO is addressed to whoever was heard last. *)
dao_output_to_last_sender == ip_send("DAO", src_ip_address, dodag_instance_id)

dao_output == ip_send("DAO", gateway_ip, dodag_instance_id)

-----------------------------------------------------------------------------
(* Receiving.  An outcome is what receive_mac() and receive_ipv6() leave in  *)
(* lastReceived (last), dodag_instance_id (id), src_ip_address (src),        *)
(* uip_buf (buf), uip_length (len), what they send, and which function       *)
(* udp_input() calls.                                                        *)

(* Mutant: the source address is not recorded. *)
ExaminedNoSource(p, len) ==
    [last |-> lastReceived, id |-> dodag_instance_id, src |-> src_ip_address,
     buf |-> p, len |-> len, sent |-> {}, call |-> "none"]

(* The packet was examined and nothing else happened. *)
Examined(p, len) ==
    [last |-> lastReceived, id |-> dodag_instance_id, src |-> p.src,
     buf |-> p, len |-> len, sent |-> {}, call |-> "none"]

Dropped(p, len) == [Examined(p, len) EXCEPT !.last = "NOT_EXPECTED_OR_ERROR"]

(* Mutant: every state's process_input() takes the instance id. *)
RplInputInEveryState(p, len) ==
    IF p.kind = "RPL_OTHER"
      THEN Examined(p, len)
      ELSE [Examined(p, len) EXCEPT !.last = p.kind, !.id = p.id]

(* Mutant: the case of an unhandled RPL code falls through to the DAO ACK. *)
RplInputFallsThrough(p, len) ==
    [Examined(p, len) EXCEPT
       !.last = IF p.kind = "RPL_OTHER" THEN "DAO_ACK" ELSE p.kind,
       !.id = IF state = "SearchingDIO" THEN p.id ELSE dodag_instance_id]

(* uip_rpl_input(): only the searching state's process_input() does anything *)
(* and it does it for a DAO ACK too; any other message leaves lastReceived.  *)
RplInput(p, len) ==
    IF p.kind = "RPL_OTHER"
      THEN Examined(p, len)
      ELSE [Examined(p, len) EXCEPT
              !.last = p.kind,
              !.id = IF state = "SearchingDIO" THEN p.id ELSE dodag_instance_id]

(* uip_nd6_ns_input(): is the solicitation one to answer? *)
NsAnswered(p) ==
    /\ p.target \in {"own", "ownLinkLocal"}
    /\ p.src = Unspecified => p.dest = "solicited"
    /\ p.src # Own
    /\ p.dest \in {"solicited", "ownLinkLocal"}

(* The advertisement is built over the solicitation and sent at once; a      *)
(* solicitation that is not answered leaves lastReceived alone.              *)
NsInput(p, len) ==
    LET na == ip_send("NA", p.src, NoInstance)
    IN  IF NsAnswered(p)
          THEN [Examined(p, len) EXCEPT
                  !.last = "NS",
                  !.buf = Plain("UNEXPECTED", Own, 0),
                  !.len = LengthAfter(na, len),
                  !.sent = na]
          ELSE Examined(p, len)

(* udp_input(): the callback is NULL in every object but a ConnectedState. *)
UdpInput(p, len) ==
    [Examined(p, len) EXCEPT
       !.last = "UDP",
       !.call = IF state = "Connected" THEN "app" ELSE "null"]

receive_ipv6(p, len) ==
    CASE len = 0 \/ p.kind = "INVALID" ->
            [Dropped(p, len) EXCEPT !.src = src_ip_address]
      [] len # 0 /\ p.kind = "UNEXPECTED" -> Dropped(p, len)
      [] len # 0 /\ p.kind \in {"DIO", "DAO_ACK", "RPL_OTHER"} -> RplInput(p, len)
      [] len # 0 /\ p.kind = "NS" -> NsInput(p, len)
      [] len # 0 /\ p.kind = "UDP" -> UdpInput(p, len)

(* receive_mac(): what is in uip_buf, and how long, after input(). *)
BufferWith(f) == IF f.decode = "nothing" THEN uip_buf ELSE f.pkt
LengthWith(f) == IF f.decode = "packet" THEN 1 ELSE uip_length

Outcome(f) == receive_ipv6(BufferWith(f), LengthWith(f))

TakeOutcome(f, r) ==
    /\ lastReceived' = r.last
    /\ dodag_instance_id' = r.id
    /\ src_ip_address' = r.src
    /\ src_resp' = f.ll
    /\ uip_buf' = r.buf
    /\ uip_length' = r.len
    /\ obs' = [got |-> {f}, sent |-> r.sent, call |-> r.call]

-----------------------------------------------------------------------------
(* The objects that PicoIPv6Connection::state points to *)

Init ==
    /\ pc = "app"
    /\ state = "SearchingDIO"
    /\ currentState = "DISCONNECTED"
    /\ dodag_instance_id = NoInstance
    /\ lastReceived = "NOT_EXPECTED_OR_ERROR"
    /\ elapsed = 0
    /\ src_ip_address = Unset
    /\ src_resp = Unset
    /\ gateway_ip = RplNodes
    /\ gateway_ll = Broadcast
    /\ uip_buf = Garbage
    /\ uip_length = 0
    /\ dio = {}
    /\ obs = [got |-> {}, sent |-> {}, call |-> "none"]

(* A call through the NULL udp_input_callback: on the AVR a jump to address  *)
(* 0, the reset vector, so the sketch starts again.                          *)
Restart(f) ==
    /\ pc' = "app"
    /\ state' = "SearchingDIO"
    /\ currentState' = "DISCONNECTED"
    /\ dodag_instance_id' = NoInstance
    /\ lastReceived' = "NOT_EXPECTED_OR_ERROR"
    /\ elapsed' = 0
    /\ src_ip_address' = Unset
    /\ src_resp' = Unset
    /\ gateway_ip' = RplNodes
    /\ gateway_ll' = Broadcast
    /\ uip_buf' = Garbage
    /\ uip_length' = 0
    /\ dio' = {}
    /\ obs' = [got |-> {f}, sent |-> {}, call |-> "null"]

(* delete(state); state = new ...: the shared buffer, uip_length and the     *)
(* gateway addresses belong to nobody and stay.                              *)
NewState(class, initial, instance_id) ==
    /\ state' = class
    /\ currentState' = initial
    /\ dodag_instance_id' = instance_id
    /\ lastReceived' = "NOT_EXPECTED_OR_ERROR"
    /\ elapsed' = 0
    /\ src_ip_address' = Unset
    /\ src_resp' = Unset
    /\ UNCHANGED <<gateway_ip, gateway_ll, uip_buf, uip_length, dio, obs>>

Waiting == currentState \in {"WAITING_DIO", "WAITING_DAO_ACK"}

timeout == IF state = "SearchingDIO" THEN DioTimeout ELSE DaoAckTimeout

(* timer_expired(): the clock difference plus one exceeds the interval. *)
timer_expired == elapsed + 1 > timeout

(* Time passes.  Nothing reads the timer of an object that is not waiting,   *)
(* and once it has expired only the fact that it has matters.                *)
Tick ==
    /\ Waiting
    /\ ~timer_expired
    /\ elapsed' = elapsed + 1
    /\ UNCHANGED <<pc, state, currentState, dodag_instance_id, lastReceived,
                   src_ip_address, src_resp, gateway_ip, gateway_ll, uip_buf,
                   uip_length, dio, obs>>

-----------------------------------------------------------------------------
(* Inside PicoIPv6Connection::connect(): state->connect() *)

(* PicoIPv6StateSearchingDIOState::connect(), DISCONNECTED: solicit and wait. *)
SendDis ==
    /\ pc = "connect"
    /\ state = "SearchingDIO"
    /\ currentState = "DISCONNECTED"
    /\ currentState' = "WAITING_DIO"
    /\ elapsed' = 0
    /\ uip_buf' \in BufferAfter(dis_output, Plain("RPL_OTHER", Own, 0))
    /\ uip_length' = LengthAfter(dis_output, uip_length)
    /\ obs' = [got |-> {}, sent |-> dis_output, call |-> "none"]
    /\ UNCHANGED <<pc, state, dodag_instance_id, lastReceived, src_ip_address,
                   src_resp, gateway_ip, gateway_ll, dio>>

(* PicoIPv6StateSendingDAOState::connect(), DIO_RECEIVED: announce and wait. *)
SendDao ==
    /\ pc = "connect"
    /\ state = "SendingDAO"
    /\ currentState = "DIO_RECEIVED"
    /\ currentState' = "WAITING_DAO_ACK"
    /\ elapsed' = 0
    /\ uip_buf' \in BufferAfter(dao_output, Plain("RPL_OTHER", Own, 0))
    /\ uip_length' = LengthAfter(dao_output, uip_length)
    /\ obs' = [got |-> {}, sent |-> dao_output, call |-> "none"]
    /\ UNCHANGED <<pc, state, dodag_instance_id, lastReceived, src_ip_address,
                   src_resp, gateway_ip, gateway_ll, dio>>

(* The MAC layer is polled only while the timer runs. *)
Polling == pc = "connect" /\ Waiting /\ ~timer_expired

(* The timer has expired, or there is no frame. *)
PollNothing ==
    /\ pc = "connect"
    /\ Waiting
    /\ pc' = "switch"
    /\ UNCHANGED <<state, currentState, dodag_instance_id, lastReceived, elapsed,
                   src_ip_address, src_resp, gateway_ip, gateway_ll, uip_buf,
                   uip_length, dio, obs>>

(* receive_DIO() returned true: its sender becomes the gateway. *)
DioAccepted(f) ==
    LET r == Outcome(f)
    IN  /\ Polling
        /\ state = "SearchingDIO"
        /\ r.last = "DIO"
        /\ TakeOutcome(f, r)
        /\ currentState' = "DIO_RECEIVED"
        /\ gateway_ip' = r.src
        /\ gateway_ll' = f.ll
        /\ dio' = IF f.decode = "packet" /\ f.pkt.kind = "DIO" THEN {f} ELSE dio
        /\ pc' = "switch"
        /\ UNCHANGED <<state, elapsed>>

(* receive_DAO_ACK() returned true. *)
AckAccepted(f) ==
    LET r == Outcome(f)
    IN  /\ Polling
        /\ state = "SendingDAO"
        /\ r.last = "DAO_ACK"
        /\ TakeOutcome(f, r)
        /\ currentState' = "DAO_ACK_RECEIVED"
        /\ pc' = "switch"
        /\ UNCHANGED <<state, elapsed, gateway_ip, gateway_ll, dio>>

(* receive_DAO_ACK() found lastReceived = NS: a new DAO, the same timer. *)
DaoRepeated(f) ==
    LET r == Outcome(f)
    IN  /\ Polling
        /\ state = "SendingDAO"
        /\ r.last = "NS"
        /\ lastReceived' = r.last
        /\ dodag_instance_id' = r.id
        /\ src_ip_address' = r.src
        /\ src_resp' = f.ll
        /\ uip_buf' \in BufferAfter(dao_output, Plain("RPL_OTHER", Own, 0))
        /\ uip_length' = LengthAfter(dao_output, r.len)
        /\ obs' = [got |-> {f}, sent |-> r.sent \cup dao_output, call |-> r.call]
        /\ pc' = "switch"
        /\ UNCHANGED <<state, currentState, elapsed, gateway_ip, gateway_ll, dio>>

(* Mutant: a DIO that arrives later replaces the gateway. *)
LaterDioReplacesGateway(f) ==
    LET r == Outcome(f)
    IN  /\ Polling
        /\ r.call = "none"
        /\ state = "SearchingDIO" => r.last # "DIO"
        /\ state = "SendingDAO" => r.last \notin {"DAO_ACK", "NS"}
        /\ TakeOutcome(f, r)
        /\ gateway_ip' = IF r.last = "DIO" THEN r.src ELSE gateway_ip
        /\ gateway_ll' = IF r.last = "DIO" THEN f.ll ELSE gateway_ll
        /\ pc' = "switch"
        /\ UNCHANGED <<state, currentState, elapsed, dio>>

(* A frame that is not the one waited for. *)
OtherPolled(f) ==
    LET r == Outcome(f)
    IN  /\ Polling
        /\ r.call = "none"
        /\ state = "SearchingDIO" => r.last # "DIO"
        /\ state = "SendingDAO" => r.last \notin {"DAO_ACK", "NS"}
        /\ TakeOutcome(f, r)
        /\ pc' = "switch"
        /\ UNCHANGED <<state, currentState, elapsed, gateway_ip, gateway_ll, dio>>

(* A datagram before the node is connected. *)
NullCallback(f) ==
    /\ Polling
    /\ Outcome(f).call = "null"
    /\ Restart(f)

(* ConnectedState::connect() and the CONNECTED case return at once. *)
AlreadyConnected ==
    /\ pc = "connect"
    /\ currentState = "CONNECTED"
    /\ pc' = "app"
    /\ UNCHANGED <<state, currentState, dodag_instance_id, lastReceived, elapsed,
                   src_ip_address, src_resp, gateway_ip, gateway_ll, uip_buf,
                   uip_length, dio, obs>>

-----------------------------------------------------------------------------
(* Inside PicoIPv6Connection::connect(): the switch on what it returned *)

StillWaiting ==
    /\ pc = "switch"
    /\ Waiting
    /\ ~timer_expired
    /\ pc' = "app"
    /\ UNCHANGED <<state, currentState, dodag_instance_id, lastReceived, elapsed,
                   src_ip_address, src_resp, gateway_ip, gateway_ll, uip_buf,
                   uip_length, dio, obs>>

(* Mutant: the expired search is left as it is. *)
SearchGivenUp ==
    /\ pc = "switch"
    /\ currentState = "WAITING_DIO"
    /\ timer_expired
    /\ pc' = "app"
    /\ UNCHANGED <<state, currentState, dodag_instance_id, lastReceived, elapsed,
                   src_ip_address, src_resp, gateway_ip, gateway_ll, uip_buf,
                   uip_length, dio, obs>>

(* No DIO in time: a new search, and connect() again. *)
SearchAgain ==
    /\ pc = "switch"
    /\ currentState = "WAITING_DIO"
    /\ timer_expired
    /\ NewState("SearchingDIO", "DISCONNECTED", NoInstance)
    /\ pc' = "connect"

(* Mutant: a DAO is sent for a DIO, but none after a timeout. *)
AnnounceOnce ==
    /\ pc = "switch"
    /\ \/ /\ currentState = "DIO_RECEIVED"
          /\ NewState("SendingDAO", "DIO_RECEIVED", dodag_instance_id)
          /\ pc' = "connect"
       \/ /\ currentState = "WAITING_DAO_ACK" /\ timer_expired
          /\ pc' = "app"
          /\ UNCHANGED <<state, currentState, dodag_instance_id, lastReceived,
                         elapsed, src_ip_address, src_resp, gateway_ip, gateway_ll,
                         uip_buf, uip_length, dio, obs>>

(* A DIO, or no DAO ACK in time: a new DAO, and connect() again.  The test   *)
(* instance_id != -1 compares a uint8_t with an int and is always true.      *)
Announce ==
    /\ pc = "switch"
    /\ \/ currentState = "DIO_RECEIVED"
       \/ currentState = "WAITING_DAO_ACK" /\ timer_expired
    /\ NewState("SendingDAO", "DIO_RECEIVED", dodag_instance_id)
    /\ pc' = "connect"

(* Mutant: the instance id is not handed to the connected state. *)
ConnectedWithoutInstance ==
    /\ pc = "switch"
    /\ currentState = "DAO_ACK_RECEIVED"
    /\ NewState("Connected", "CONNECTED", NoInstance)
    /\ pc' = "app"

BecomeConnected ==
    /\ pc = "switch"
    /\ currentState = "DAO_ACK_RECEIVED"
    /\ NewState("Connected", "CONNECTED", dodag_instance_id)
    /\ pc' = "app"

-----------------------------------------------------------------------------
(* The calls the sketch makes from loop() *)

CallConnect ==
    /\ pc = "app"
    /\ pc' = "connect"
    /\ UNCHANGED <<state, currentState, dodag_instance_id, lastReceived, elapsed,
                   src_ip_address, src_resp, gateway_ip, gateway_ll, uip_buf,
                   uip_length, dio, obs>>

(* receive(): every sketch calls it only when isConnected(). *)
CallReceive(f) ==
    /\ pc = "app"
    /\ currentState = "CONNECTED"
    /\ TakeOutcome(f, Outcome(f))
    /\ UNCHANGED <<pc, state, currentState, elapsed, gateway_ip, gateway_ll, dio>>

(* udp_send(), which the sketches use before they are connected as well. *)
CallUdpSend(dest) ==
    LET sent == ip_send("UDP", dest, NoInstance)
    IN  /\ pc = "app"
        /\ uip_buf' \in BufferAfter(sent, Plain("UDP", Own, 0))
        /\ uip_length' = LengthAfter(sent, uip_length)
        /\ obs' = [got |-> {}, sent |-> sent, call |-> "none"]
        /\ UNCHANGED <<pc, state, currentState, dodag_instance_id, lastReceived,
                       elapsed, src_ip_address, src_resp, gateway_ip, gateway_ll,
                       dio>>

-----------------------------------------------------------------------------
Poll(f) ==
    \/ DioAccepted(f)
    \/ AckAccepted(f)
    \/ DaoRepeated(f)
    \/ OtherPolled(f)
    \/ NullCallback(f)

Connecting ==
    \/ SendDis
    \/ SendDao
    \/ PollNothing
    \/ \E f \in Frames : Poll(f)
    \/ AlreadyConnected
    \/ StillWaiting
    \/ SearchAgain
    \/ Announce
    \/ BecomeConnected

Next ==
    \/ Connecting
    \/ CallConnect
    \/ \E f \in Frames : CallReceive(f)
    \/ \E dest \in IPAddr \cup {AllNodes, Unspecified} : CallUdpSend(dest)
    \/ Tick

Spec == Init /\ [][Next]_vars

(* loop() runs for ever and calls connect() while the node is not connected, *)
(* each call of connect() goes on, and the clock advances.                   *)
Fairness ==
    /\ WF_vars(CallConnect /\ currentState # "CONNECTED")
    /\ WF_vars(Connecting)
    /\ WF_vars(Tick)

FairSpec == Spec /\ Fairness

-----------------------------------------------------------------------------
(* Properties *)

IsDio(f) == f.decode = "packet" /\ f.pkt.kind = "DIO"

Chosen == state # "SearchingDIO" \/ currentState = "DIO_RECEIVED"

(* The gateway's IPv6 address, its link-layer address and the instance id    *)
(* are read at three places, over several calls and two state objects; they  *)
(* all come from one and the same DIO frame, and stay those of that frame    *)
(* whatever else is received, resent or timed out later.                     *)
JoinedThroughOneDio ==
    Chosen => \E f \in dio : /\ gateway_ip = f.pkt.src
                             /\ gateway_ll = f.ll
                             /\ dodag_instance_id = f.pkt.id

(* Until a DIO has been accepted everything the node transmits is a          *)
(* broadcast; afterwards every unicast frame goes to the link-layer address  *)
(* the DIO came from and every DAO carries that DIO's instance id and is     *)
(* addressed to its source, resent DAOs included.                            *)
SentToTheGateway ==
    \A m \in obs.sent :
        m.type = "DAO" \/ m.to # Broadcast =>
            \E f \in dio : /\ m.to = f.ll
                          /\ m.type = "DAO" => m.dest = f.pkt.src /\ m.id = f.pkt.id

(* The node takes a DAO as acknowledged only in a poll whose own frame is a  *)
(* DAO ACK: not on a DAO ACK left in lastReceived or in the shared buffer    *)
(* by an earlier poll, perhaps of an earlier state object.                   *)
AckIsFresh ==
    [][currentState # "DAO_ACK_RECEIVED" /\ currentState' = "DAO_ACK_RECEIVED"
         => \E f \in obs'.got : f.decode = "packet" /\ f.pkt.kind = "DAO_ACK"]_vars

(* uip_buf is shared by what is received and what is sent.  When the last    *)
(* thing the node did on the air was to transmit, a frame that input()       *)
(* cannot decode makes it neither transmit nor call the sketch: its own      *)
(* transmission is never taken for a reception.                              *)
OwnPacketNotReceived ==
    [][obs' # obs /\ obs.sent # {} /\ (\E f \in obs'.got : f.decode # "packet")
         => obs'.sent = {} /\ obs'.call = "none"]_vars

(* The node implements RplJoin: a member is a node whose DAO was             *)
(* acknowledged, and its root is what the gateway fields hold.               *)
phase ==
    CASE ~Chosen -> "searching"
      [] Chosen /\ currentState \in {"DAO_ACK_RECEIVED", "CONNECTED"} -> "member"
      [] OTHER -> "announcing"

Advertised == {[ip |-> f.pkt.src, ll |-> f.ll, id |-> f.pkt.id] :
                   f \in {g \in Frames : IsDio(g)}}

Join == INSTANCE RplJoin WITH
            Root <- Advertised,
            root <- IF Chosen
                      THEN {[ip |-> gateway_ip, ll |-> gateway_ll, id |-> dodag_instance_id]}
                      ELSE {}

(* One of the advertised roots is adopted, as a whole and once; only a       *)
(* restart, and only of a node that is not yet a member, undoes it.          *)
ImplementsJoin == Join!JoinSpec

(* The strengthening that makes the invariants above inductive. *)

(* The objects and the states they may be in; the two states that only the   *)
(* switch of connect() sees.                                                 *)
Lifecycle ==
    /\ state = "SearchingDIO"
          => currentState \in {"DISCONNECTED", "WAITING_DIO", "DIO_RECEIVED"}
    /\ state = "SendingDAO"
          => currentState \in {"DIO_RECEIVED", "WAITING_DAO_ACK", "DAO_ACK_RECEIVED"}
    /\ state = "Connected" => currentState = "CONNECTED"
    /\ state = "SearchingDIO" /\ currentState = "DIO_RECEIVED" => pc = "switch"
    /\ state = "SendingDAO" /\ currentState = "DIO_RECEIVED" => pc = "connect"
    /\ currentState = "DAO_ACK_RECEIVED" => pc = "switch"

(* Before a DIO is accepted the gateway fields hold what the connection's    *)
(* constructor put there, and no DIO is left over from an earlier poll.      *)
NothingChosenYet ==
    ~Chosen => /\ gateway_ip = RplNodes /\ gateway_ll = Broadcast
               /\ lastReceived # "DIO"
               /\ uip_length = 1 => uip_buf.kind # "DIO"

(* No DAO ACK is left over while one is waited for. *)
NoAckLeftOver ==
    /\ state = "SendingDAO" /\ currentState # "DAO_ACK_RECEIVED"
          => lastReceived # "DAO_ACK"
    /\ currentState = "WAITING_DAO_ACK" /\ uip_length = 1
          => uip_buf.kind # "DAO_ACK"

(* Nothing decodable is left in the buffer by a transmission. *)
NothingLeftBySending == obs.sent # {} => uip_length = 0

(* The conjunction TLC checks and the proofs use. *)
IInv ==
    /\ TypeOK
    /\ Lifecycle
    /\ NothingChosenYet
    /\ NoAckLeftOver
    /\ NothingLeftBySending
    /\ JoinedThroughOneDio
    /\ SentToTheGateway

(* A lost DIS or DIO is retried: a node that goes on searching solicits      *)
(* again and again.                                                          *)
DisRetried == <>[](state = "SearchingDIO") => []<><<SendDis>>_vars

(* A lost DAO or DAO ACK is retried: a node that goes on announcing itself   *)
(* keeps starting a new DAO exchange.                                        *)
DaoRetried == <>[](state = "SendingDAO") => []<><<SendDao>>_vars

-----------------------------------------------------------------------------
(* What comments of the source say and the code does not do *)

(* PicoIPv6Connection.h: udp_input() calls the sketch's callback only in a   *)
(* ConnectedState.  In the other states it calls through a NULL pointer.     *)
CalledOnlyWhenConnected == obs.call # "null"

(* PicoIPv6Connection.h: receive() invokes the callback when there is new    *)
(* UDP data.  A frame that input() gives up on leaves the previous packet    *)
(* and its length in place, and the previous datagram is delivered again.    *)
CalledForNewData ==
    obs.call = "app" => \E f \in obs.got : f.decode = "packet" /\ f.pkt.kind = "UDP"

(* PicoIPv6Connection.h and PicoIPv6State.cpp: instance id -1 means that no  *)
(* valid DIO was received, and then no DAO is sent.  The id is a uint8_t, so *)
(* it is never equal to -1 and the test guards nothing.                      *)
AnnouncesValidInstance == state = "SendingDAO" => dodag_instance_id # NoInstance

=============================================================================
