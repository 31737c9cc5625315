# Verification of the pico IPv6 stack for Arduino

TLA+ models of the stack in `src/`, the TLC configurations that check them on
small instances, and TLAPS proofs of what holds for every instance.

    tlc -config PicoConnection.cfg MCPicoConnection     # one run; see "Runs"
    tlapm PicoConnectionProofs.tla                      # theorems; see "Proofs"

## 1. The system

A node is an Arduino with an XBee 802.15.4 radio. It joins an RPL network
through a gateway and then exchanges UDP datagrams, or sends CoAP requests. The
program is one `loop()`: it has no threads, and the only interrupt that matters
fills the serial receive buffer. What is concurrent is the network, the radio and
the clock.

    sketch: setup(), loop(), udp_input_callback()
      |  connect / receive / udp_send / isConnected        CoAPEngine
      v                                                        |
    PicoIPv6Connection  -- owns -->  PicoIPv6State object  <---+ (a copy)
      |  (gateway addresses)         (SearchingDIO, SendingDAO, Connected)
      v                                   |  output / input
    timer.c, clock.c                 sicsLowPan.c (shared uip_buf, uip_length)
                                          |
                                     MACLayer: XBeeMACLayer
                                          |  API frames
                                     XBee: readPacket / send
                                          |  bytes (HardwareSerial)
                                     XBee radio (external)

| component | state | operations | talks to | what is hard | what makes it correct |
| --- | --- | --- | --- | --- | --- |
| `PicoIPv6Connection` (`.h`) | pointer to the state object, gateway IPv6 and link-layer address | `connect` (calls itself after a switch), `receive`, `udp_send`, `isConnected` | the state object; the sketch's callback | the state object is deleted and replaced while the gateway addresses and the packet buffer stay | one gateway per join; no step on stale data |
| `PicoIPv6State`, `...SearchingDIOState`, `...SendingDAOState`, `...ConnectedState` | `currentState`, `dodag_instance_id`, `lastReceived`, `src_ip_address`, `src_resp`, timer | `connect`, `receive_mac`, `receive_ipv6`, `icmp6_send`, `udp_send`, `ip_send`, `uip_nd6_ns_input`, `uip_rpl_input`, `udp_input` | `sicsLowPan.c`, `MACLayer`, the callback | lost, late, repeated and foreign messages; a timer that expires between a poll and the test of its result; results kept in members and read later | a DAO ACK counts only in its own poll; DIS and DAO are repeated; unicast goes to the gateway only |
| `sicsLowPan.c` | globals `uip_buf`, `uip_length`, `uip_buf_6lp`, `uip_6lp_len` | `input`, `output`, HC06 and IPv6 dispatch | the state objects | early returns that leave old content and lengths behind; compression and expansion must be inverse | a frame that cannot be decoded has no effect; `input(output(p)) = p` |
| `XBeeMACLayer` | `my_mac`, the shared `atRequest`, `cca_retries`, `txStatus` | `init`, `send`, `receive` | `XBee` | answers are not matched with requests; three nested retry loops; packets that arrive while waiting are dropped | the address is the radio's; a status is that of the frame sent; calls return |
| `XBee` | parser position, escape flag, running checksum, response | `readPacket`, `readPacket(timeout)`, `send` | the serial port | a packet spread over many calls; lost bytes | what is delivered was sent; a loss costs few packets |
| `timer.c`, `clock.c` | `start`, `interval` | `timer_set`, `timer_reset`, `timer_restart`, `timer_expired`, `timer_remaining` | `millis()` | the clock wraps | expires when due |
| `CoAPEngine` | a copy of the connection, `messageID`, `packetBuffer` | `init`, `sendCoAPpacket` | `udp_send` of the copy | the copy's state pointer dangles after a switch; byte-wide index | the request decodes to its parts |
| sketches | message buffers, a periodic timer | `setup`, `loop`, `udp_input_callback` | the connection | calls in any order | (environment) |
| `rimeaddr.c`, `conf.h`, `*_Constants.h`, `arduino_debug.*` | none | copies, comparisons, constants, logging | | | not modelled on their own |

`PROJECT.json` lists, under `hazards`, the places where this goes wrong without a
test noticing, and the properties that watch them.

## 2. Modules

| module | what it is | code |
| --- | --- | --- |
| `PicoConnection` | the node: `connect()`, `receive()`, `udp_send()` and everything below them down to the MAC layer | `PicoIPv6Connection.h`, `PicoIPv6State*.cpp`, the interface of `sicsLowPan.c`, the two join timers |
| `RplJoin` | abstract specification: a node adopts one advertised root as a whole, is admitted by it, and only before that may start again | what the classes above promise together |
| `MCPicoConnection` | the frames of the small instance | |
| `PicoConnectionProofs` | theorems about `PicoConnection` | |
| `JoinNetwork`, `MCJoinNetwork` | `PicoConnection` between gateways, over a network that loses, delays and repeats frames | the same, and the frames that `XBeeMACLayer::send()` drops |
| `JoinNetworkProofs` | theorems about `JoinNetwork` | |
| `Iphc` | the header compression and expansion, as operators | `sicsLowPan.c` 341-1020 |
| `Lowpan`, `MCLowpan` | the path of a packet from `compress()` of one node to the checks of `receive_ipv6()` of another | `output()` and `input()` of `sicsLowPan.c`, `compress()`, `receive_mac()` and `receive_ipv6()` of `PicoIPv6State.cpp` |
| `IphcProofs` | theorems about the compression: a header read is the header written | |
| `LowpanProofs` | theorems about `Lowpan` | |
| `XBeeFraming` | the byte parser `readPacket()` against a serial line that loses bytes, with the encoding of `send()` | `XBee.cpp` |
| `MCXBeeFraming` | three frames and a limit of 8 bytes | |
| `XBeeFramingProofs` | theorems about `XBeeFraming` | |
| `XBeeMac` | `init()`, `send()`, `receive()` with their retry loops, over an external radio | `XBeeMACLayer.cpp` |
| `XBeeMacProofs` | theorems about `XBeeMac` | |
| `Timer` | the timer functions over a clock that wraps | `timer.c`, `clock.c` |
| `Coap` | the message of `sendCoAPpacket()`, and how a server reads it | `CoAPEngine.cpp` |
| `CoapSend`, `MCCoapSend` | the sketch that sends a request every period | `CoAPSendPeriodic.pde`, `CoAPEngine.cpp` |
| `CoapSendProofs` | theorems about `Timer`, `Coap` and `CoapSend` | |
| `Induction` | lemmas on induction and on folds that the proofs share | |

`JoinNetwork` extends `PicoConnection`; `Lowpan` extends `Iphc`; `CoapSend` extends
`Timer` and `Coap`; `PicoConnection` refines `RplJoin`. The layers below meet the
ones above in what they hand over: `Lowpan` justifies the three outcomes `packet`,
`header` and `nothing` of a frame in `PicoConnection`, and `XBeeMac` the frames that
`JoinNetwork` drops during a send.

### PicoConnection

`pc` tells where the program is: `"app"` in `loop()`, `"connect"` at the beginning
of `PicoIPv6Connection::connect()`, `"switch"` at its `switch`. The recursive call
at the end of a `case` is a jump back to `"connect"`. The other variables carry
the names of the members and globals they stand for; `state` is the class of the
object `state` points to, `elapsed` the ticks since `timer_set()`, `uip_length`
whether the global is zero. `dio` and `obs` are history: the DIO frame taken, and
what the last step received, sent and called.

| action | code |
| --- | --- |
| `CallConnect`, `CallReceive`, `CallUdpSend` | the calls of the sketches; `receive()` only when connected, `udp_send()` at any time, as `picoIPv6MacV1.ino` does in `setup()` |
| `SendDis`, `SendDao` | the first half of `connect()` of the two waiting states |
| `PollNothing`, `DioAccepted`, `AckAccepted`, `DaoRepeated`, `OtherPolled`, `NullCallback` | one poll of the MAC layer with its outcome |
| `AlreadyConnected`, `StillWaiting`, `SearchAgain`, `Announce`, `BecomeConnected` | the cases of the `switch` |
| `Tick` | the clock; it may advance between any two steps, so also between a poll and `has_timer_expired()` |

A frame is any member of `Frames`: what `input()` makes of it (`decode`), its
sender, and the packet as far as `receive_ipv6()` tells packets apart. No order,
number or honesty of frames is assumed, so loss, duplication, delay and foreign
gateways are all included. `receive_ipv6()` is an operator that returns an outcome
record; its cases follow the code's early returns, including those that leave
`lastReceived` or `src_ip_address` as they were. A packet that `ip_send()` drops
leaves `uip_buf` overwritten but the length as it was (`BufferAfter`,
`LengthAfter`). A call through the NULL callback is a jump to address 0, the reset
vector of the AVR: `Restart`.

Abstracted: bytes, checksums (a packet passes or not), `dao_sequence` (it is never
compared), lengths above zero, the getters, the wrap of the clock.

### JoinNetwork

Here a frame is polled only after a gateway has sent it. `up` and `down` are the
messages on their way; a gateway (external, modelled from what the node expects of
it) answers a DIS with a DIO, advertises itself at any time, takes a DAO only from a
node whose address it has resolved, solicits it otherwise (`neighbour`), and keeps a
route from then on (`routes`). The node's steps are those of `PicoConnection`,
grouped into `Transmit`, `Take`, `Internal` and `Time`; what they send goes to `up`.
`DroppedBySend` is the loop of `XBeeMACLayer::send()` that reads packets until it has
its status and the answer to `EC`, and throws away what is neither: everything that
was waiting, and any part of the frames that may arrive meanwhile.

### Iphc and Lowpan

An address is a prefix, a subnet and an interface identifier, each a value to
compare; a compressed header is its flags and a row of inline fields, each with its
length in bytes. So every form of the encoding is there, with its length, and not
one bit operation that is not about a field of several parts (traffic class, ports).
The two nodes each have one packet buffer and one frame buffer for both directions,
and the lengths in `uip_length` and `uip_6lp_len`. `output()` returns whether the
frame fits and `compress()` does not look: `Send` then transmits the half-built frame
with the length of the node's last frame, in or out. `input()` is nondeterministic
where the code reads past what was received (`CutHeader`, `FrameAsPacket`).

`compress_hdr_hc06()` hands `&uip_lladdr` to `compress_addr_64()`, the address of a
pointer variable: the node's own identifier is compared with the bytes of the
pointer, which is the constant `AtPointer`, and is never left out.

A checksum is the tuple it covers: the sum of 16-bit words is taken to be free of
collisions. `Packet` is what `compress_hdr_hc06()` reads of a packet: words, bytes and
addresses. `SourceAssumption` says of every packet (`Sendable`) what addresses a node
gives itself and that its lengths are those of its payload; `ContextAssumption` that
the contexts of a node, a table of the code, have a number each.

### CoapSend

`pc` is the place in `loop()`: `"loop"` before `timer_expired()`, `"send"` before
`udp_send()`, `"restart"` before `timer_restart()`. The clock advances in every step,
by up to `MaxStep` in `loop()` itself, by more than two wraps in `connect()` and in
`udp_send()`. `since` and `waited` are history and stop counting at `Enough`.
`messageID` has two bytes of `ByteBase` values. `Message` in `Coap` is the reference:
it reads the options by number, delta and length, and the payload behind the marker,
as the CoAP draft that the code cites defines them: a marker with no payload behind
it is a format error. It is a recursive function of the place in the message. The
module ends at the call of `udp_send()`; see Findings for the object it is called on.

### XBeeFraming

Bytes are real bytes: the checksum is what decides whether a mixture of two
packets is accepted. `line` is what the radio has still to emit, `serial` the ring
buffer of `HardwareSerial`; `Arrive` and `Overrun` may happen between any two steps
of the parser, so a packet, and an escape sequence, is spread over calls in every
way. `readPacket()` takes one byte per action; its cases are actions. Only the
second length byte counts, as in `getPacketLength()`, where a mask removes the
first one.

### XBeeMac

`pc` follows the program through `sendAtCommand()` and `send()`; `requests` and
`reads` are the two loop variables of `sendAtCommand()`, both called `i`. A read
gives a frame, a timeout, or an error for a damaged frame. The radio answers AT
commands in order and transmissions in order, after any delay unless `Prompt`,
and packets come in between. `transmitted`, `about`, `repeated` and `givenUp` are
history. Not modelled: `init()` called again after it failed (every sketch halts),
and the bytes of addresses.

The request object that `send()` builds is local to a block and used after it; the
stack slot is not reused in that function, so it is taken to be intact.

## 3. Runs

| run | instance | question | outcome |
| --- | --- | --- | --- |
| `node` | two neighbours, 15 frames (four DIOs, one of them with id 255 and one from `::`, two DAO ACKs, three solicitations, a datagram, unexpected, damaged and undecodable frames), timeouts of two ticks | does the node join through one gateway, and keep trying? | holds |
| `framing` | four frames out of three kinds, buffer of two bytes, one byte lost, limit 8 | is what is delivered sent, in order, and what does a loss cost? | holds |
| `mac` | two requests of two reads each, two sends, late answers, damaged frames, other packets | are address and status the right ones, is a frame's count taken after it, and do calls return? | holds |
| `lowpan` | two nodes with different contexts; one packet per behaviour, over all address, field, port and size forms, and one behaviour that mixes eleven packets | does `input()` give back what `output()` took, and is nothing else accepted? | holds |
| `join_network` | two gateways, two messages up, one frame down, timeouts of one tick | do node and gateways agree, and does the node connect? | holds |
| `coap_send` | clock of 16, period 5, steps of up to 3, ten requests around the lengths where the encoding changes | are requests sent in time, and are they the ones asked for? | holds |
| `null_callback` | as `node` | is the callback used only when connected? | violated |
| `stale_datagram` | as `node` | is the callback used only for new data? | violated |
| `instance_255` | as `node` | is -1 an instance id that is never announced? | violated |
| `wrong_address` | as `mac`, prompt radio | does `init()` returning true mean that the address is right? | violated |
| `transmissions` | as `mac`, prompt radio, one send | is the number of transmissions that `send()` gives back that of this frame, 1 or more? | violated |
| `too_large` | as `lowpan` | is a packet that is too large dropped? | violated |

What the passing properties say:

- `JoinedThroughOneDio`, `SentToTheGateway`: gateway address, link-layer address and
  instance id stem from one DIO frame although they are picked up in different
  functions and survive several objects; unicast frames and DAOs go there.
- `AckIsFresh`: a DAO ACK left in the buffer or in `lastReceived` by an earlier
  poll never completes a join.
- `OwnPacketNotReceived`: `uip_buf` is shared by both directions; what was sent is
  not processed as received.
- `ImplementsJoin`: the node refines `RplJoin`.
- `DisRetried`, `DaoRetried`: as long as the node is searching it solicits again
  and again, as long as it is announcing itself it starts DAO exchanges.
- `DeliveredInOrder`, `LossIsBounded`: of the frames of the instance, with at most one
  lost byte, nothing that was not sent is delivered, in order, and at most three frames
  per lost byte and two per frame that is too long are missed. The second part is
  proved for all frames and any number of lost bytes; the first is not true of all
  (section 5): the checksum has eight bits.
- `AddressUnlessRepeated`, `StatusIsOwn`, `OwnFailuresCounted`: `XBeeMACLayer` matches
  answers with requests by order only, which is right exactly as long as nothing
  was repeated or given up. The last one says only that the count was read after the
  frame it is about; as a number of transmissions it is wrong (finding 6).
- `CallsReturn`: the nested loops end without any answer.
- `RoutesAgree`: the one gateway that routes to the node is the one the node
  believes in, and a connected node has a route, although an acknowledgement names
  neither DAO nor sender and comes late or twice. Only a reset of the node by a
  datagram before it is connected parts the two.
- `EventuallyConnected`: a join takes a DIS, a DIO, a DAO, a solicitation, an
  advertisement, a second DAO and its acknowledgement; whatever is lost, late or
  dropped by a send, the node connects for good unless datagrams reset it for ever.
- `RoundTrip`: what `output()` accepts, `input()` restores in every field, whatever is
  left of older packets. `DeliveredWasSent`: what passes the receiver's checks was
  sent, also when a frame went out with another one's length, was cut off, or used
  an unknown context. Of the last two the depth is in the lengths and in the packets that
  follow: what mixture of old and new bytes they leave is not modelled, only that it
  does not pass the checks (`Garbage`). `BufferHolds`: no payload goes past `uip_buf`,
  which no line of the code checks.
- `SendsApart`, `RequestSoon`: requests are neither closer than the period nor later
  than a period and a step, wherever the clock wraps, although at the largest
  difference the timer says it has not expired. `RequestDecodes`: a server reads
  what the sketch asked for; a marker without a payload would be an error to it.

Each of these has a mutant in the modules (a comment "Mutant: ..." above it): a
plausible slip in the code that TLC finds to violate the property.

Bounds. Two neighbours are the least with which gateways can be mixed up, and the
node keeps no more than one address of each kind. A timeout of two ticks gives a poll
before, at and after the tick that expires it. Four frames let one lost byte have its
longest effect and one frame more; a buffer of two bytes lets an escape sequence
arrive whole or in two parts. Two attempts are the least with a repetition; two
sends the least with a status left over; one packet of another node at a time is
enough to fill the reads because the inbox is refilled. In `lowpan` each form is
its own behaviour, since forms do not interact; what interacts are lengths and
leftovers, and the mixture has the shortest, a middle and the longest frame, packets
at and beyond what fits, and packets with a context one side has not. In
`join_network` a DIS to both gateways fills `up`; the single frame `down` may be
displaced by any other, which is a loss, and may stay, which is a repetition. A
timeout of one tick expires between any two polls. A clock of 16 with a period of 5
has room for a poll before and after each wrap, and for the difference of 15.

Fairness. `PicoConnection` assumes weak fairness of `loop()` calling `connect()`
while the node is not connected (all sketches do), of the steps inside `connect()`
(a sequential program goes on) and of the clock. Nothing is assumed of the network.
`XBeeMac` assumes weak fairness of the steps inside a call: a read returns at the
latest after its timeout. Nothing is assumed of the radio.
`JoinNetwork` assumes weak fairness of the node's own steps, as above, and strong
fairness of the network: a gateway that again and again may answer while the node
polls sometimes does, and a frame that again and again lies ready for a poll is
sometimes polled. Losses, late answers and answers that fall into a send may be any
finite number in a row; without such an assumption a network that loses everything
would refute the property. `Lowpan` and `CoapSend` have safety properties only.
Deadlock is not checked in
`mac` because a sketch stops for good when `init()` fails.

## 4. Findings

Six disagreements between the code and its comments are shown by runs (see
`PROJECT.json`, `findings`):

1. A datagram polled while the node is joining calls a NULL pointer (`null_callback`).
2. A frame that `input()` gives up on delivers the previous datagram again
   (`stale_datagram`).
3. The test for an invalid instance id is constant, and 255 is announced
   (`instance_255`).
4. A late answer to SH becomes the lower half of the node's address
   (`wrong_address`).
5. A packet that does not fit is transmitted as a header and zeros, with the length
   of the last frame (`too_large`).
6. `send()` does not give back the number of transmissions, 1 or more, that
   `MACLayer.h:53` promises: the one for the first is added to the pointer, so a frame
   that went out at once is given 0 (`transmissions`). The radio's counter is never
   reset either (`XBeeMACLayer.cpp:111`), so from the second frame on the failures of
   earlier ones are in the number.

Read off the models, without a run of their own:

- an ignored RPL message or solicitation leaves `lastReceived`: after a datagram a
  sketch answers again, after an answered solicitation a DAO is sent again
  (`PicoIPv6State.cpp:333`, `PicoIPv6StateSendingDAOState.cpp:69`);
- a DAO ACK of any node completes the join (`PicoIPv6StateSendingDAOState.cpp:65`);
- after a DIO from `::` every DAO is dropped by `ip_send()` (`PicoIPv6State.cpp:202`);
- packets of the largest size are refused by the parser (`XBee.cpp:918`);
- one lost byte may cost three packets, the most that `LossIsBounded` allows: the start
  byte that cuts a packet off is consumed, and the running checksum is not reset, where
  `XBee.cpp:866` says 'discard previous packet and start over' (`XBee.cpp:867`, `:754`);
- a status that `send()` gave up waiting for is taken for that of the next frame
  (`XBeeMACLayer.cpp:159`);
- once a DIO is accepted the node never searches again (`PicoIPv6Connection.h:111`);
- the node's own identifier is never left out of a compressed header, because its
  link-layer address is passed as `&uip_lladdr` (`sicsLowPan.c:640`, `:647`) where
  `sicsLowPan.h:357` wants the address itself: 8 bytes more in every frame;
- `CoAPEngine::setPicoIPv6Connection()` copies the connection before it joins. Joining
  deletes the object the copy's `state` points to and creates others; when `udp_send()`
  of the copy works, it does so because the allocator has put the connected object at
  the same place (`CoAPEngine.h:32`, `PicoIPv6Connection.h:98`, `:114`, `:128`);
- a URI path longer than 12 bytes is not encoded as one: `0xB0 | uri.length()` makes
  13 the mark of an extended length and spoils the delta from 16 on
  (`CoAPEngine.cpp:59`); `RequestAssumption` keeps to 12;
- a request without a payload ends in a payload marker all the same
  (`CoAPEngine.cpp:102`), which the draft cited at `CoAPEngine.cpp:45` calls a message
  format error: a server rejects it. `RequestAssumption` keeps to requests with a payload; the sketch's is a
  counter;
- the sketches that only send never call `receive()`, so a connected node answers no
  more solicitations (`CoAPSendPeriodic.pde:53`).

## 5. Proofs

`PicoConnectionProofs` proves, for every set of addresses, every set of frames and
every pair of timeouts that satisfies `AddrAssumption` (the broadcast address is no
neighbour's, unicast addresses are not the special ones), `FrameAssumption` (frames
are frames; an `input()` that stops after the header leaves nothing that passes the
checks) and `TimeoutAssumption` (timeouts are positive):

| theorem | statement |
| --- | --- |
| `Invariance` | `Spec => []IInv` |
| `TypeCorrect`, `OneDio`, `OnlyTheGateway` | its parts `TypeOK`, `JoinedThroughOneDio`, `SentToTheGateway` |
| `FreshAck`, `NoSelfReception` | the action properties `AckIsFresh`, `OwnPacketNotReceived` |
| `Refinement` | `Spec => Join!JoinSpec` |

`JoinedThroughOneDio` is not inductive: a state whose `lastReceived` is a DIO of an
earlier poll, or whose buffer holds one while `uip_length` is not zero, would accept it
with the sender of an undecodable frame as its gateway. `IInv` adds what excludes
this: which states each class of object may be in and at which `pc` (`Lifecycle`),
that before a choice no DIO is left over in the buffer or in `lastReceived`
(`NothingChosenYet`), the same of a DAO ACK while one is waited for
(`NoAckLeftOver`), and that a transmission leaves nothing decodable
(`NothingLeftBySending`). TLC checks `IInv` in the run `node`. The proof has one
lemma per action or group of actions; the action properties and the refinement use
`IInv` in both states of a step.

`CoapSendProofs` proves, for every clock width, byte width, period, bound on a step
and set of requests that satisfies `ClockAssumption`, `ByteAssumption` (at least two
values), `PeriodAssumption` (period and step are positive and together less than
the largest clock difference) and `RequestAssumption` (the sketch keeps the path to
12 bytes, has a payload, and leaves room for ten bytes of header and options):

| theorem | statement |
| --- | --- |
| `TimerIsExact` | `timer_expired` and `timer_remaining` are exact for every start, interval and time passed below the largest difference |
| `Invariance`, `TypeCorrect`, `Soon` | `Spec => []IInv`, and its consequences `TypeOK`, `RequestSoon` |
| `Apart` | the action property `SendsApart` |
| `Decoded` | `Spec => []RequestDecodes` |

It starts with modular arithmetic (`ModShift`: a sum may be reduced at any point;
`DiffGrows`: the wrapped difference grows with the clock). `IInv` ties the histories
to that difference: the time since the last send is at least the difference, which
gives `SendsApart`; the time spent polling is at most the difference and one tick,
the tick being that of the largest difference, and at the largest difference no time
has been spent polling, because a poll that says no is followed by another before
the wrap.

`RequestDecodes` is about a recursive reading of bytes. `ReadingExists` shows, by
induction over what is still to be read, that there is a function that satisfies the
recursion (every option ends behind its first byte, so a place is read from later
places only). `OptionIsThere` says where an option that `QueryOption()` laid into a
message is found, with which delta, value and end, for every length up to and past 12;
`WholeIsRead` follows the reading from the path to the marker and the payload behind it,
and `RequestIsRead` adds the message ID and the room in `packetBuffer`.

`XBeeMacProofs` proves, for every number of requests per command and of reads per
request, every number of sends and of failures per send (`BoundsAssumption`: the
first two are positive), and any number of frames on their way:

| theorem | statement |
| --- | --- |
| `Invariance` | `Spec => []IInv` |
| `TypeCorrect`, `AddressIsRight` | its consequences `TypeOK`, `AddressUnlessRepeated` |
| `StatusAndCountInvariance` | `Spec => [](IInv /\ StatusInv /\ CountInv)` |
| `StatusIsRight`, `CountIsRight` | its consequences `StatusIsOwn`, `OwnFailuresCounted` |

`TypeOK` alone is not inductive: `ReadAnswer` writes `my_mac[mac_position]` and adds
one, which stays in the array only because the command in hand and the position go
together (`Lifecycle`); the same part bounds the two loop counters. The address is
right because of `OneAtATime`: while it is incomplete and nothing was repeated, there
is one command or one answer on its way at most, and it is that of the command in
hand. A command may be sent once without breaking this; the second `SendRequest`
sets `repeated`. `StatusInv` and `CountInv` are the same argument for transmission
statuses and for answers to `EC`: until a wait is given up there is one status on its
way at most, that of the frame in hand, and every answer carries the radio's counter
as it still is. That counter is the sum of the failures of all frames, the one just
sent among them, so `CountInv` needs what adding one frame does to the sum, and
`CountIsRight` that no part of a sum exceeds it; both are solved with `Induction`.
`CountIsRight` assumes more than one request per command (the code has 20,
`AT_REQUEST_MAX_ATTEMPTS`): with one, a command can fail without anything having been
repeated, and the failure value is returned as a count. The proofs have one step per
action, and lemmas for what appending and reading a frame do to the set of answers in
the inbox.

`JoinNetworkProofs` proves, for every set of gateways, bounds on the messages on their
way and timeouts that satisfy the assumptions of `PicoConnection` and
`NetworkAssumption` (the frames are those a gateway sends):

| theorem | statement |
| --- | --- |
| `NodeInNetwork` | `NetSpec => Spec`: the node between gateways is the node of `PicoConnection` |
| `NetInvariance` | `NetSpec => [](NetTypeOK /\ Agreement)` |
| `NetTypeCorrect`, `RoutesDoAgree` | its consequences `NetTypeOK`, `RoutesAgree` |

By `NodeInNetwork` everything proved of the node among arbitrary frames holds in the
network. `RoutesAgree` is not inductive: a DAO or an acknowledgement on its way can
still change who routes. `Agreement` says of these what `RoutesAgree` says of the
routes: DAOs go to the chosen gateway, and an acknowledgement comes from one that
already routes. That a connected node's acknowledgement was one polled in
this poll, and the choice of the gateway, come from `IInv` of `PicoConnection`.

`IphcProofs` proves of the operators of `Iphc`, for all packets, contexts and
link-layer addresses (`GroupAssumption`: the short multicast forms are disjoint):

| theorem | statement |
| --- | --- |
| `HeaderBytes` | a compressed header has 2 to 48 bytes |
| `HeaderRoundTrip` | `uncompress_hdr_hc06(compress_hdr_hc06(p))` is `p` in every field |

The inline fields are a row that the reader consumes from the front, so the proof
follows the reader: one lemma per field says that what is read next is what was
written, whatever follows it. The hypotheses are those of the protocol: the receiver
has the contexts that were used, one per number (`OneEach`); its link-layer address is
the one the sender had for the destination; the source is an address a node can have
(`SourceForm`); lengths and ports are filled in (`FilledIn`). `Sendable` implies the
last two, and `LowpanProofs` shows it.

`LowpanProofs` proves, for all nodes, contexts and traffic that satisfy
`SourceAssumption` and `ContextAssumption`:

| theorem | statement |
| --- | --- |
| `LowpanInvariance` | `Spec => []LowpanInv` |
| `LowpanTypeCorrect`, `BufferDoesHold` | its parts `TypeOK`, `BufferHolds` |
| `OnlySentIsDelivered` | the action property `DeliveredWasSent` |
| `FrameRoundTrip` | the action property `RoundTrip` |

`BufferHolds` rests on the lengths: a frame has at most `MAC_MAX_PAYLOAD` bytes and a
compressed header at least two, which bounds what `input()` can write behind the
expanded one. `LowpanInv` adds that the frame on air is one that a packet of the
traffic was made into, also one with another frame's length (`FrameIsSent`), and that
what was delivered is its packet (`DeliveredIsOnAir`; `Lose` empties the air and
leaves `delivered`). `DeliveredWasSent` then follows from a case analysis of
`input()` including its nondeterministic outcomes: only an expansion that restores
every field passes the checksum. `RoundTrip` is `HeaderRoundTrip` carried through
`output()` and `input()`.

`XBeeFramingProofs` proves, for every set of frames of up to 254 bytes of data
(`FramesAssumption`: a radio's packets are shorter), every limit and buffer size
(`SizeAssumption`), and any number of frames and of lost bytes:

| theorem | statement |
| --- | --- |
| `FramingTypes` | `Spec => []TypeOK` |
| `BoundedLoss` | `Spec => []LossIsBounded` |
| `InOrderUnlessLost` | `Spec => [](lost = 0 => DeliveredInOrder)` |

`send()` is a fold over bytes, some of which become two. The first part of the module
unrolls it: there is a walk through the encoding that says where each byte of the
frame begins, the only start byte is the first one, and the last byte is not an
escape.

The variables do not say which frame a byte in the buffer belongs to, so `FramingInv`
is `TypeOK` and the existence of a history of the line: the bytes `t` that found room,
where each frame of the log ends among them (`end`), and how many bytes were lost and
how many frames too long up to there (`cum`, `big`). A frame of which nothing was lost
is there as `send()` wrote it; one that lost a single byte is whole but for its last byte
or does not end in an escape byte; of others only that no start byte is inside them
is known. `off` is how far the parser has read and `j` the frame it is in or behind.
The credit of the first `j` frames is `3 * cum[j] + 2 * big[j] - j`: with the packets
already taken it may never become negative. One of four modes says how much of it is
still to be spent:

- `Skip`: the parser waits for a start byte, and what is left of frame `j` has none; a
  `checksumTotal` other than 0 costs one more frame, the next to reach its checksum;
- `Garbage`: a byte was lost and it parses the rest of some frame for a packet, which
  may cost two frames, and one more if that rest ends in an escape byte, which may
  swallow the next start byte;
- `Cut`: only the escape byte of a frame's last byte came, and the byte it is read with
  ends the packet;
- `Exact`: it is within frame `j + 1`, and position, length, identifier and data are
  those of the frame; the sum is that of the frame and of `r`, what an earlier packet
  left, and unless `r` is 0 the frame fails.

Each action moves from mode to mode, and no path spends more than a lost byte or a
frame beyond the limit earns. `LossIsBounded` is what remains of this when everything
is read and `j` is the length of the log. While nothing is lost only `Exact` leads to a
packet that passes its checksum, and what was taken is a subsequence of the log
(`InOrder`). TLC cannot evaluate the existential over histories; it checks the three
invariants and not `FramingInv`.

`Induction` makes up for what the provers cannot do with the library's induction
rules, whose hypotheses are operators: `WFMin`, the least-element principle, speaks of
sets. From it follow induction over the numbers (`NatSetInduction`), over the subsets
of a finite set, that a recursion over a finite set has a solution (`FoldExists`)
and only one (`SameFold`).

Only model-checked: the liveness properties `DisRetried`, `DaoRetried`, `CallsReturn`
and `EventuallyConnected` (the prover has no rules for ENABLED), and
`DeliveredInOrder` after a byte was lost. That is true of the frames of the instance
and not of all: of the packet `7E 00 03 01 64 9B FF` the radio emits, the second byte
may be lost; then 3 is taken for the ignored high byte of the length and 1 for the low
one, `64` is an identifier and `9B` its checksum, and the caller is given a packet that
was never sent. Eight bits of checksum do not exclude this.

## 6. What is left

Not modelled: the byte layout of ICMPv6 and RPL options and the one's complement sum
(loops over bytes), the getters of the last datagram, fragmentation (not compiled
in: `conf.h`), the classes of `XBee.cpp` for ZigBee, IO samples and remote commands
(unused here), what a call on a deleted object does (`CoAPEngine`), the depth of the
recursion of `connect()` (up to the compiler), `rimeaddr.c`, logging, and the sketches
under `examples/Old`, which do not compile against this stack.
