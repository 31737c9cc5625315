---------------------------- MODULE XBeeFraming ----------------------------
(* The serial line between the sketch's processor and the XBee radio, in API *)
(* mode 2 (ATAP == 2): the byte parser XBee::readPacket(), with the response *)
(* it fills, and the encoding XBee::send() writes, which is also the one the *)
(* radio uses.  The radio emits any sequence of frames.  Bytes arrive by     *)
(* interrupt in a ring buffer while the program reads or does something      *)
(* else; a byte that finds the buffer full is lost.                          *)
EXTENDS Integers, SequencesExt

CONSTANTS Frames,               \* the frames the radio may send
          MAX_FRAME_DATA_SIZE,
          BufferSize,           \* of the serial receive buffer
          MaxFrames,            \* bound: frames the radio sends
          MaxLost               \* bound: bytes lost to a full buffer

START_BYTE == 126
ESCAPE     == 125
XON        == 17
XOFF       == 19
API_ID_INDEX == 3
Byte == 0..255

Frame == [api : Byte, data : Seq(Byte)]

(* A frame of the radio carries an 802.15.4 packet of 127 bytes at most, so  *)
(* the high byte of its length, which the parser ignores, is 0.              *)
ASSUME FramesAssumption == Frames \subseteq {f \in Frame : Len(f.data) <= 254}
ASSUME SizeAssumption ==
    /\ MAX_FRAME_DATA_SIZE \in 4..250 /\ BufferSize \in Nat \ {0}
    /\ MaxFrames \in Nat /\ MaxLost \in Nat

VARIABLES
    line,            \* the bytes of the current frame the radio has yet to emit
    log,             \* history: the frames the radio has begun to emit
    serial,          \* the ring buffer of the serial port
    lost,            \* history: how many bytes found it full
    reading,         \* inside readPacket()
    pos, escape, checksumTotal,     \* XBee::_pos, _escape, _checksumTotal
    lsbLength, apiId, frameData,    \* of XBee::_response; frameData up to pos
    complete, errorCode,
    taken            \* history: the frames made available to the caller

vars == <<line, log, serial, lost, reading, pos, escape, checksumTotal,
          lsbLength, apiId, frameData, complete, errorCode, taken>>

TypeOK ==
    /\ line \in Seq(Byte) /\ serial \in Seq(Byte)
    /\ log \in Seq(Frames) /\ lost \in 0..MaxLost
    /\ reading \in BOOLEAN
    /\ pos \in 0..MAX_FRAME_DATA_SIZE + 1
    /\ escape \in BOOLEAN
    /\ checksumTotal \in Byte
    /\ lsbLength \in Byte /\ apiId \in Byte /\ frameData \in Seq(Byte)
    /\ complete \in BOOLEAN
    /\ errorCode \in {"NO_ERROR", "CHECKSUM_FAILURE", "UNEXPECTED_START_BYTE",
                      "PACKET_EXCEEDS_BYTE_ARRAY_LENGTH"}
    /\ taken \in Seq(Frame)

-----------------------------------------------------------------------------
(* Encoding: XBee::send() and sendByte() *)

xor20(b) == IF (b \div 32) % 2 = 0 THEN b + 32 ELSE b - 32

escaped(b) == IF b \in {START_BYTE, ESCAPE, XON, XOFF} THEN <<ESCAPE, xor20(b)>> ELSE <<b>>

ByteSum(s) == FoldLeft(LAMBDA total, b : (total + b) % 256, 0, s)

checksum(f) == 255 - ((f.api + ByteSum(f.data)) % 256)

(* What follows the start byte, before escaping. *)
Body(f) ==
    LET length == Len(f.data) + 1
    IN  <<length \div 256, length % 256, f.api>> \o f.data \o <<checksum(f)>>

send(f) == FoldLeft(LAMBDA sent, b : sent \o escaped(b), <<START_BYTE>>, Body(f))

-----------------------------------------------------------------------------
(* The radio and the serial port *)

StartFrame(f) ==
    /\ line = <<>>
    /\ Len(log) < MaxFrames
    /\ line' = send(f)
    /\ log' = Append(log, f)
    /\ UNCHANGED <<serial, lost, reading, pos, escape, checksumTotal, lsbLength,
                   apiId, frameData, complete, errorCode, taken>>

Arrive ==
    /\ line # <<>>
    /\ Len(serial) < BufferSize
    /\ serial' = Append(serial, Head(line))
    /\ line' = Tail(line)
    /\ UNCHANGED <<log, lost, reading, pos, escape, checksumTotal, lsbLength,
                   apiId, frameData, complete, errorCode, taken>>

Overrun ==
    /\ line # <<>>
    /\ Len(serial) = BufferSize
    /\ lost < MaxLost
    /\ lost' = lost + 1
    /\ line' = Tail(line)
    /\ UNCHANGED <<log, serial, reading, pos, escape, checksumTotal, lsbLength,
                   apiId, frameData, complete, errorCode, taken>>

-----------------------------------------------------------------------------
(* XBee::readPacket() *)

Init ==
    /\ line = <<>> /\ log = <<>> /\ serial = <<>> /\ lost = 0
    /\ reading = FALSE
    /\ pos = 0 /\ escape = FALSE /\ checksumTotal = 0
    /\ lsbLength = 0 /\ apiId = 0 /\ frameData = <<>>
    /\ complete = FALSE /\ errorCode = "NO_ERROR"
    /\ taken = <<>>

(* resetResponse(), which does not touch _checksumTotal. *)
resetResponse ==
    /\ pos' = 0 /\ escape' = FALSE
    /\ lsbLength' = 0 /\ apiId' = 0 /\ frameData' = <<>>
    /\ complete' = FALSE /\ errorCode' = "NO_ERROR"

(* A call: the response of the previous one is discarded first. *)
CallReadPacket ==
    /\ ~reading
    /\ reading' = TRUE
    /\ IF complete \/ errorCode # "NO_ERROR"
         THEN resetResponse
         ELSE UNCHANGED <<pos, escape, lsbLength, apiId, frameData, complete, errorCode>>
    /\ UNCHANGED <<line, log, serial, lost, checksumTotal, taken>>

(* available() is false: a packet that is not complete goes on next time. *)
NothingAvailable ==
    /\ reading
    /\ serial = <<>>
    /\ reading' = FALSE
    /\ UNCHANGED <<line, log, serial, lost, pos, escape, checksumTotal, lsbLength,
                   apiId, frameData, complete, errorCode, taken>>

UnexpectedStart ==
    /\ reading
    /\ serial # <<>> /\ Head(serial) = START_BYTE /\ pos > 0
    /\ serial' = Tail(serial)
    /\ errorCode' = "UNEXPECTED_START_BYTE"
    /\ reading' = FALSE
    /\ UNCHANGED <<line, log, lost, pos, escape, checksumTotal, lsbLength, apiId,
                   frameData, complete, taken>>

(* Mutant: the escape byte is forgotten when its successor is not there yet. *)
EscapeForgotten ==
    /\ reading
    /\ serial = <<ESCAPE>> /\ pos > 0
    /\ serial' = <<>>
    /\ UNCHANGED <<line, log, lost, reading, pos, escape, checksumTotal, lsbLength,
                   apiId, frameData, complete, errorCode, taken>>

(* The escape byte has come but the byte it escapes has not. *)
EscapeAlone ==
    /\ reading
    /\ serial = <<ESCAPE>> /\ pos > 0
    /\ serial' = <<>>
    /\ escape' = TRUE
    /\ UNCHANGED <<line, log, lost, reading, pos, checksumTotal, lsbLength, apiId,
                   frameData, complete, errorCode, taken>>

(* The next byte to parse, unescaped, and what stays in the serial buffer.   *)
Parsable ==
    /\ reading
    /\ serial # <<>>
    /\ pos > 0 => Head(serial) # START_BYTE /\ serial # <<ESCAPE>>

Escaping == pos > 0 /\ Head(serial) = ESCAPE
NextByte ==
    LET c == IF Escaping THEN xor20(serial[2]) ELSE Head(serial)
    IN  IF escape THEN xor20(c) ELSE c
Rest == IF Escaping THEN Tail(Tail(serial)) ELSE Tail(serial)

Total == IF pos >= API_ID_INDEX THEN (checksumTotal + NextByte) % 256 ELSE checksumTotal

(* Bytes before a start byte are skipped. *)
StartByte ==
    /\ Parsable
    /\ pos = 0
    /\ pos' = IF NextByte = START_BYTE THEN 1 ELSE 0
    /\ serial' = Rest /\ escape' = FALSE
    /\ UNCHANGED <<line, log, lost, reading, checksumTotal, lsbLength, apiId,
                   frameData, complete, errorCode, taken>>

(* The two length bytes, of which getPacketLength() uses the second only,    *)
(* and the API id.                                                           *)
HeaderByte ==
    /\ Parsable
    /\ pos \in 1..API_ID_INDEX
    /\ pos' = pos + 1
    /\ lsbLength' = IF pos = 2 THEN NextByte ELSE lsbLength
    /\ apiId' = IF pos = 3 THEN NextByte ELSE apiId
    /\ checksumTotal' = Total
    /\ serial' = Rest /\ escape' = FALSE
    /\ UNCHANGED <<line, log, lost, reading, frameData, complete, errorCode, taken>>

(* Mutant: no limit on the length. *)
NoLimit == FALSE

TooLong == pos > MAX_FRAME_DATA_SIZE
AtChecksum == pos = lsbLength + 3

PacketExceeds ==
    /\ Parsable
    /\ pos > API_ID_INDEX
    /\ TooLong
    /\ errorCode' = "PACKET_EXCEEDS_BYTE_ARRAY_LENGTH"
    /\ reading' = FALSE
    /\ checksumTotal' = Total
    /\ serial' = Rest /\ escape' = FALSE
    /\ UNCHANGED <<line, log, lost, pos, lsbLength, apiId, frameData, complete, taken>>

DataByte ==
    /\ Parsable
    /\ pos > API_ID_INDEX
    /\ ~TooLong
    /\ ~AtChecksum
    /\ frameData' = Append(frameData, NextByte)
    /\ pos' = pos + 1
    /\ checksumTotal' = Total
    /\ serial' = Rest /\ escape' = FALSE
    /\ UNCHANGED <<line, log, lost, reading, lsbLength, apiId, complete, errorCode, taken>>

(* Mutant: the checksum is not verified. *)
AnyChecksum(total) == TRUE

ChecksumOK(total) == total = 255

ChecksumByte ==
    /\ Parsable
    /\ pos > API_ID_INDEX
    /\ ~TooLong
    /\ AtChecksum
    /\ IF ChecksumOK(Total)
         THEN /\ complete' = TRUE
              /\ errorCode' = "NO_ERROR"
              /\ taken' = Append(taken, [api |-> apiId, data |-> frameData])
         ELSE /\ errorCode' = "CHECKSUM_FAILURE"
              /\ UNCHANGED <<complete, taken>>
    /\ pos' = 0
    /\ checksumTotal' = 0
    /\ reading' = FALSE
    /\ serial' = Rest /\ escape' = FALSE
    /\ UNCHANGED <<line, log, lost, lsbLength, apiId, frameData>>

readPacket ==
    \/ CallReadPacket
    \/ NothingAvailable
    \/ UnexpectedStart
    \/ EscapeAlone
    \/ StartByte
    \/ HeaderByte
    \/ PacketExceeds
    \/ DataByte
    \/ ChecksumByte

Next ==
    \/ \E f \in Frames : StartFrame(f)
    \/ Arrive
    \/ Overrun
    \/ readPacket

Spec == Init /\ [][Next]_vars

-----------------------------------------------------------------------------
(* Properties *)

(* Whatever the caller is given was sent by the radio, in this order, each   *)
(* frame at most once, although frames are cut by others and a frame is      *)
(* parsed over several calls, an escape sequence included.  While no byte is *)
(* lost this is so for any frames.  With a lost byte it depends on them: the *)
(* checksum has eight bits, and what is left of two frames may pass it.      *)
DeliveredInOrder ==
    \E index \in [DOMAIN taken -> DOMAIN log] :
        /\ \A i \in DOMAIN taken : taken[i] = log[index[i]]
        /\ \A i, k \in DOMAIN taken : i < k => index[i] < index[k]

(* The frames that can be parsed: the checksum must come before the limit.   *)
Fits(f) == Len(f.data) + 4 <= MAX_FRAME_DATA_SIZE

Quiet == line = <<>> /\ serial = <<>>
Missed == Len(log) - Len(taken)
Oversize == Cardinality({i \in DOMAIN log : ~Fits(log[i])})

(* The parser finds its way back: a lost byte costs three frames at most     *)
(* (its own, the one that cuts it off, and one whose checksum is added to    *)
(* what was summed up before), a frame that is too long costs itself and one *)
(* more, and nothing else is ever missed.                                    *)
LossIsBounded == Quiet => Missed <= 3 * lost + 2 * Oversize

=============================================================================
