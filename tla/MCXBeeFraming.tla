--------------------------- MODULE MCXBeeFraming ---------------------------
(* Three kinds of frames and a limit of eight bytes instead of 110.          *)
EXTENDS XBeeFraming

(* The transmission status of frame 1: success. *)
TxStatus == [api |-> 137, data |-> <<1, 0>>]

(* A received packet without payload whose source address needs escapes and  *)
(* whose checksum is itself the start byte.                                  *)
Rx16 == [api |-> 129, data |-> <<START_BYTE, ESCAPE, 5, 0>>]

(* One with as much payload as the limit allows in its comment. *)
LongRx16 == [api |-> 129, data |-> <<1, 2, 40, 0, 9, 8, 7, 6>>]

AllFrames == {TxStatus, Rx16, LongRx16}
=============================================================================
