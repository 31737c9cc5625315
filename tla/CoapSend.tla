------------------------------- MODULE CoapSend -------------------------------
(* The sketch that sends a CoAP request every DATA_SEND_PERIOD: its loop(),  *)
(* the timer that paces it and the message that the engine hands to          *)
(* udp_send().  The module ends at that call.  Joining is what               *)
(* PicoConnection models: here connect() takes any time, longer than the     *)
(* clock takes to wrap if need be, and leaves the node connected or not.     *)
EXTENDS Timer, Coap

CONSTANTS Requests,            \* what the sketch asks of the engine
          DATA_SEND_PERIOD,
          MaxStep              \* bound: the clock's advance in one step of loop()

COAP_PACKET_SIZE == 112        \* UIP_UDP_PAYLOAD_MAX_BUFSIZE

ASSUME PeriodAssumption ==
    /\ DATA_SEND_PERIOD \in Nat \ {0}
    /\ MaxStep \in Nat \ {0}
    /\ DATA_SEND_PERIOD + MaxStep < ClockModulus - 1

(* What the sketch keeps to.  A path of 13 bytes or more would be read as    *)
(* another length or option, and a request without a payload would end in a  *)
(* marker with nothing behind it, a format error; its payload is a number.   *)
ASSUME RequestAssumption ==
    \A r \in Requests :
        /\ r \in Request
        /\ Len(r.uri) <= 12 /\ r.payload # <<>>
        /\ Len(r.uri) + Len(r.query) + Len(r.secondQuery) + Len(r.payload)
             <= COAP_PACKET_SIZE - 10

VARIABLES
    pc,                \* where loop() is
    connected,         \* isConnected()
    clock,             \* clock_time()
    data_send_timer,
    messageID,
    message,           \* the request in hand and packetBuffer, or none
    since,             \* history: time since udp_send() was called, or setup()
    waited             \* history: time loop() has been polling the timer

vars == <<pc, connected, clock, data_send_timer, messageID, message, since, waited>>

Idle == [request |-> {}, bytes |-> <<>>]

(* The histories stop counting here: no property looks further.              *)
Enough == DATA_SEND_PERIOD + 2 * MaxStep + 1
Longer(time, d) == IF time + d < Enough THEN time + d ELSE Enough

TypeOK ==
    /\ pc \in {"loop", "send", "restart"}
    /\ connected \in BOOLEAN
    /\ clock \in Clock
    /\ data_send_timer \in struct_timer
    /\ messageID \in 0..(ByteBase * ByteBase - 1)
    /\ message = Idle \/ \E r \in Requests : message.request = {r}
    /\ since \in 0..Enough
    /\ waited \in 0..Enough

Init ==
    /\ pc = "loop"
    /\ connected = FALSE
    /\ clock \in Clock
    /\ data_send_timer = timer_set(DATA_SEND_PERIOD, clock)
    /\ messageID = 0
    /\ message = Idle
    /\ since = 0
    /\ waited = 0

(* Time passes in every step, after the step has read the clock. *)
Advance(d) ==
    /\ clock' = (clock + d) % ClockModulus
    /\ since' = Longer(since, d)

(* connect() and the delay(200) after it. *)
Connect ==
    /\ pc = "loop"
    /\ ~connected
    /\ connected' \in BOOLEAN
    /\ \E d \in 0..(2 * ClockModulus) : Advance(d)
    /\ waited' = 0
    /\ UNCHANGED <<pc, data_send_timer, messageID, message>>

NotYet ==
    /\ pc = "loop"
    /\ connected
    /\ ~timer_expired(data_send_timer, clock)
    /\ \E d \in 0..MaxStep : Advance(d) /\ waited' = Longer(waited, d)
    /\ UNCHANGED <<pc, connected, data_send_timer, messageID, message>>

(* sendCoAPpacket() up to udp_send(). *)
BuildRequest ==
    /\ pc = "loop"
    /\ connected
    /\ timer_expired(data_send_timer, clock)
    /\ pc' = "send"
    /\ messageID' = NextID(messageID)
    /\ \E r \in Requests :
          message' = [request |-> {r}, bytes |-> packetBuffer(messageID', r)]
    /\ \E d \in 0..MaxStep : Advance(d)
    /\ waited' = 0
    /\ UNCHANGED <<connected, data_send_timer>>

(* udp_send(), however long the MAC layer waits for a status in it. *)
SendRequest ==
    /\ pc = "send"
    /\ pc' = "restart"
    /\ message' = Idle
    /\ \E d \in 0..(2 * ClockModulus) :
          /\ clock' = (clock + d) % ClockModulus
          /\ since' = Longer(0, d)
    /\ UNCHANGED <<connected, data_send_timer, messageID, waited>>

RestartTimer ==
    /\ pc = "restart"
    /\ pc' = "loop"
    /\ data_send_timer' = timer_restart(data_send_timer, clock)
    /\ \E d \in 0..MaxStep : Advance(d) /\ waited' = Longer(0, d)
    /\ UNCHANGED <<connected, messageID, message>>

Next == Connect \/ NotYet \/ BuildRequest \/ SendRequest \/ RestartTimer

Spec == Init /\ [][Next]_vars
-----------------------------------------------------------------------------
(* Properties *)

(* However late loop() looks at the timer, however long udp_send() takes and *)
(* wherever the clock wraps, two requests are DATA_SEND_PERIOD apart, and    *)
(* the first is so from setup(): timer_restart() counts from the end of the  *)
(* send, and the wrapped difference never exceeds the time that has passed.  *)
SendsApart == [][pc = "send" /\ pc' = "restart" => since >= DATA_SEND_PERIOD]_vars

(* loop() does not poll a connected node's timer longer than the period and  *)
(* one step, although the clock wraps, and although timer_expired() says no  *)
(* at the largest difference and at the small ones after a wrap (a node that *)
(* joined late then waits the period once more, and no longer).              *)
RequestSoon == connected /\ pc = "loop" => waited <= DATA_SEND_PERIOD + MaxStep

(* The inductive invariant: what ties the two histories to the difference    *)
(* that timer_expired() computes.  waited may be ahead of it by the one tick *)
(* at which the largest difference does not count as expired.                *)
Diff == (clock - data_send_timer.start) % ClockModulus

IInv ==
    /\ TypeOK
    /\ data_send_timer.interval = DATA_SEND_PERIOD
    /\ pc = "send" => since >= DATA_SEND_PERIOD
    /\ pc = "loop" => since >= Diff \/ since = Enough
    /\ pc = "loop" /\ connected =>
          /\ waited <= Diff + 1
          /\ waited <= DATA_SEND_PERIOD + MaxStep
          /\ Diff = ClockModulus - 1 => waited = 0

(* What a server reads in the message is the path, the queries and the       *)
(* payload the sketch gave to sendCoAPpacket(), with no format error, under  *)
(* this request's message ID; and the message has room in packetBuffer.      *)
RequestDecodes ==
    \A r \in message.request :
        /\ Message(message.bytes) = Meant(r)
        /\ message.bytes[3] * ByteBase + message.bytes[4] = messageID
        /\ Len(message.bytes) <= COAP_PACKET_SIZE
=============================================================================
