--------------------------------- MODULE Coap ---------------------------------
(* The message CoAPEngine::sendCoAPpacket() builds, byte by byte where a     *)
(* byte has a meaning, and how a server reads it.                            *)
EXTENDS Integers, Sequences

CONSTANT ByteBase      \* 256, the values of a byte of the message ID

ASSUME ByteAssumption == ByteBase \in Nat \ {0, 1}

(* Mutant: the message ID does not wrap. *)
UnboundedID(id) == id + 1

(* this->messageID++, in a word of two bytes. *)
NextID(id) == (id + 1) % (ByteBase * ByteBase)

highByte(id) == id \div ByteBase
lowByte(id)  == id % ByteBase

UriPath  == 11          \* option numbers
UriQuery == 15
Marker   == 255

Header(id) == <<80, 3, highByte(id), lowByte(id)>>    \* version 1, NON; PUT

(* Mutant: 13 is still taken for a length that fits the option header. *)
QueryOptionUpTo13(delta, text) ==
    IF Len(text) <= 13
      THEN <<delta * 16 + Len(text)>> \o text
      ELSE <<delta * 16 + 13, Len(text) - 13>> \o text

(* A query option: its delta to the option before and its length in one      *)
(* byte, a longer length in the next.                                        *)
QueryOption(delta, text) ==
    IF Len(text) <= 12
      THEN <<delta * 16 + Len(text)>> \o text
      ELSE <<delta * 16 + 13, Len(text) - 13>> \o text

(* The path is given no second length byte: it must not exceed 12 bytes.     *)
UriOption(text) == <<176 + Len(text)>> \o text

Request == [uri : Seq(0..254), query : Seq(0..254), secondQuery : Seq(0..254),
            payload : Seq(0..254)]

(* The second query has the number of the first, and is left out when empty. *)
packetBuffer(id, r) ==
    Header(id) \o UriOption(r.uri)
      \o QueryOption(UriQuery - UriPath, r.query)
      \o (IF r.secondQuery = <<>> THEN <<>> ELSE QueryOption(0, r.secondQuery))
      \o <<Marker>> \o r.payload

-----------------------------------------------------------------------------
(* A server's reading of a message (external), by section 3 of the draft     *)
(* that sendCoAPpacket() cites: the options, each with its number and its    *)
(* value, up to the end or to a marker, and the payload after the marker.  A *)
(* marker without a payload after it and an option that claims more than     *)
(* there is are format errors.                                               *)

(* Where the value of the option at i begins and how long it is.  Of the     *)
(* extended lengths only the one-byte form is needed in so short a message.  *)
ValueAt(p, i) ==
    IF p[i] % 16 = 13 /\ i < Len(p)
      THEN [first |-> i + 2, length |-> p[i + 1] + 13]
      ELSE [first |-> i + 1, length |-> p[i] % 16]
After(p, i) == ValueAt(p, i).first + ValueAt(p, i).length
Value(p, i) == SubSeq(p, ValueAt(p, i).first, After(p, i) - 1)

(* What may be at i: an option (those with an extended delta or a two-byte   *)
(* length, which this client has no use for, are not read), a payload behind *)
(* its marker, or the end.                                                   *)
OptionAt(p, i) ==
    /\ i <= Len(p) /\ After(p, i) <= Len(p) + 1
    /\ p[i] \div 16 <= 12 /\ p[i] % 16 <= 13
PayloadAt(p, i) == i < Len(p) /\ p[i] = Marker
EndAt(p, i)     == i = Len(p) + 1

(* What there is from i on, after an option with this number: the option at  *)
(* i and what is read after it, or what ends the options.                    *)
ReadAt(from, p, i) ==
    [number \in Nat |->
        IF OptionAt(p, i)
          THEN LET opt  == number + (p[i] \div 16)
                   rest == from[After(p, i)][opt]
               IN  [options |-> <<[number |-> opt, value |-> Value(p, i)]>> \o rest.options,
                    payload |-> rest.payload, formatError |-> rest.formatError]
          ELSE [options |-> <<>>,
                payload |-> IF PayloadAt(p, i) THEN SubSeq(p, i + 1, Len(p)) ELSE <<>>,
                formatError |-> ~(PayloadAt(p, i) \/ EndAt(p, i))]]

Message(p) == LET from[i \in 5..(Len(p) + 1)] == ReadAt(from, p, i) IN from[5][0]

(* What the server must find in the message of a request. *)
Meant(r) ==
    LET option(number, value) == [number |-> number, value |-> value]
    IN  [options |-> <<option(UriPath, r.uri), option(UriQuery, r.query)>>
                       \o (IF r.secondQuery = <<>> THEN <<>>
                             ELSE <<option(UriQuery, r.secondQuery)>>),
         payload |-> r.payload, formatError |-> FALSE]
=============================================================================
