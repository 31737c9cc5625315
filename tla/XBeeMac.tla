------------------------------ MODULE XBeeMac ------------------------------
(* XBeeMACLayer over the API frames of an XBee radio: init(), which asks for *)
(* the two halves of the node's address, send(), which waits for a           *)
(* transmission status and then asks for the count of CCA failures, and      *)
(* receive().  All of them read the same stream of frames: answers to AT     *)
(* commands, transmission statuses, and packets of other nodes.              *)
(*                                                                           *)
(* The radio is external.  It answers AT commands in order, and              *)
(* transmissions in order, but a packet, or a status, may come in between.   *)
EXTENDS Integers, Sequences, FiniteSetsExt

CONSTANTS RequestAttempts,   \* AT_REQUEST_MAX_ATTEMPTS
          ResponseAttempts,  \* AT_RESPONSE_MAX_ATTEMPTS
          Prompt,            \* whether the radio answers before a read times out
          MaxInbox,          \* bound: unread frames when another packet arrives
          MaxSends,          \* bound: calls of send()
          MaxFailures        \* bound: CCA failures of one transmission

Half == {"SH", "SL"}         \* the upper and lower four bytes of an address
Unset == "unset"
CCA_RETRIES_FAIL == 10

ASSUME BoundsAssumption ==
    /\ RequestAttempts \in Nat \ {0} /\ ResponseAttempts \in Nat \ {0}
    /\ Prompt \in BOOLEAN /\ MaxInbox \in Nat
    /\ MaxSends \in Nat /\ MaxFailures \in Nat

(* The frames of the radio.  The value of an answer is the command's name    *)
(* for SH and SL, whose values have four bytes, and the counter for EC,      *)
(* whose value has two.  of is the number of the send() a status is about.   *)
Answer == [type : {"AT"}, command : Half, ok : BOOLEAN, value : Half]
              \cup [type : {"AT"}, command : {"EC"}, ok : BOOLEAN, value : Nat]
TxResult == {"OK", "NO_ACK", "COLLISION", "PURGED"}
TxStatus == [type : {"TX_STATUS"}, of : 1..MaxSends, result : TxResult]
Rx       == [type |-> "RX"]
ApiFrame == Answer \cup TxStatus \cup {Rx}

VARIABLES
    pc,              \* "off", "at_send" and "at_read" inside sendAtCommand(),
                     \* "tx_read" inside send(), "idle", or "halted"
    command,         \* of atRequest
    requests, reads, \* the loop counters of sendAtCommand() and send()
    my_mac,          \* the two halves of the address
    mac_position,    \* mac_position / 4
    cca_retries,
    status,          \* what send() returned last, or is about to return
    number_transmissions,
    inbox,           \* frames the radio has passed on
    atPending,       \* AT commands, and
    txPending,       \* transmissions, the radio has not answered
    ec,              \* the radio's counter of CCA failures
    transmitted,     \* history: result and CCA failures of every transmission
    sends,           \* history: calls of send()
    about,           \* history: the send() whose status was read last, or 0
    repeated,        \* history: an AT command was sent again
    givenUp          \* history: a send() returned without a status

radio == <<inbox, atPending, txPending, ec, transmitted>>
history == <<sends, about, repeated, givenUp>>
vars == <<pc, command, requests, reads, my_mac, mac_position, cca_retries,
          status, number_transmissions, radio, history>>

TypeOK ==
    /\ pc \in {"off", "at_send", "at_read", "tx_read", "idle", "halted"}
    /\ command \in Half \cup {"EC"}
    /\ requests \in 0..RequestAttempts
    /\ reads \in 0..ResponseAttempts
    /\ my_mac \in [0..1 -> Half \cup {Unset}]
    /\ mac_position \in 0..2
    /\ cca_retries \in Nat
    /\ status \in {"none", "OK", "NO_ACK", "COLLISION", "ERR"}
    /\ number_transmissions \in Nat
    /\ inbox \in Seq(ApiFrame)
    /\ atPending \in Seq(Half \cup {"EC"})
    /\ txPending \in Seq(1..MaxSends)
    /\ ec \in Nat
    /\ transmitted \in [1..MaxSends -> [result : TxResult \cup {"none"}, failures : Nat]]
    /\ sends \in 0..MaxSends /\ about \in 0..MaxSends
    /\ repeated \in BOOLEAN /\ givenUp \in BOOLEAN

Init ==
    /\ pc = "off"
    /\ command = "SH"
    /\ requests = 0 /\ reads = 0
    /\ my_mac = [h \in 0..1 |-> Unset] /\ mac_position = 0
    /\ cca_retries = 0
    /\ status = "none" /\ number_transmissions = 0
    /\ inbox = <<>> /\ atPending = <<>> /\ txPending = <<>> /\ ec = 0
    /\ transmitted = [n \in 1..MaxSends |-> [result |-> "none", failures |-> 0]]
    /\ sends = 0 /\ about = 0 /\ repeated = FALSE /\ givenUp = FALSE

-----------------------------------------------------------------------------
(* The radio *)

program == <<pc, command, requests, reads, my_mac, mac_position, cca_retries,
             status, number_transmissions, history>>

(* The CCA failure counter is read, not written: see SendRequest. *)
RadioAnswers(ok) ==
    /\ atPending # <<>>
    /\ LET c == Head(atPending)
       IN  inbox' = Append(inbox, [type |-> "AT", command |-> c, ok |-> ok,
                                   value |-> IF c = "EC" THEN ec ELSE c])
    /\ atPending' = Tail(atPending)
    /\ UNCHANGED <<txPending, ec, transmitted, program>>

(* A collision is a CCA failure; a transmission may succeed after one. *)
RadioTransmits(result, failures) ==
    /\ txPending # <<>>
    /\ result = "COLLISION" => failures > 0
    /\ inbox' = Append(inbox, [type |-> "TX_STATUS", of |-> Head(txPending), result |-> result])
    /\ transmitted' = [transmitted EXCEPT ![Head(txPending)] =
                           [result |-> result, failures |-> failures]]
    /\ txPending' = Tail(txPending)
    /\ ec' = ec + failures
    /\ UNCHANGED <<atPending, program>>

RadioReceives ==
    /\ Len(inbox) < MaxInbox
    /\ inbox' = Append(inbox, Rx)
    /\ UNCHANGED <<atPending, txPending, ec, transmitted, program>>

-----------------------------------------------------------------------------
(* readPacket(timeout) gives a frame; or none in time; or, at once, an error *)
(* for a frame that was damaged.                                             *)

Read(type) == inbox # <<>> /\ Head(inbox).type = type /\ inbox' = Tail(inbox)
TimedOut ==
    /\ inbox = <<>>
    /\ Prompt => atPending = <<>> /\ txPending = <<>>
    /\ UNCHANGED inbox
Skipped == inbox # <<>> /\ inbox' = Tail(inbox)

-----------------------------------------------------------------------------
(* sendAtCommand() *)

(* Mutant: the two nested loops share their variable. *)
SharedCounter == 1
(* Mutant: the inner loop's counter is not set back. *)
NoFirstRead == reads

NextRequest == requests + 1
FirstRead == 0

(* atRequest's value is set for EC but its length stays 0, so the radio gets *)
(* a query and does not reset its counter.                                   *)
SendRequest ==
    /\ pc = "at_send"
    /\ requests < RequestAttempts
    /\ atPending' = Append(atPending, command)
    /\ requests' = NextRequest
    /\ reads' = FirstRead
    /\ repeated' = (repeated \/ requests > 0)
    /\ pc' = "at_read"
    /\ UNCHANGED <<command, my_mac, mac_position, cca_retries, status,
                   number_transmissions, inbox, txPending, ec, transmitted,
                   sends, about, givenUp>>

(* Mutant: init() asks for SH twice. *)
SameCommand(success) == command

CommandAfter(success) == IF command = "SH" /\ success THEN "SL" ELSE command

(* Mutant: the count is taken before the answer is. *)
StaleCount(success) == cca_retries

Count(success) == IF success THEN cca_retries' ELSE CCA_RETRIES_FAIL

(* The result goes to init(), which asks for the other half or returns, and  *)
(* whose failure makes the sketch halt, or to getNumberOfTransmissions().    *)
(* send() increments its pointer, not the number it has just been given.     *)
AtReturns(success) ==
    /\ command' = CommandAfter(success)
    /\ pc' = CASE command = "EC"             -> "idle"
               [] command # "EC" /\ ~success -> "halted"
               [] command # "EC" /\ success  -> IF mac_position' = 1 THEN "at_send" ELSE "idle"
    /\ number_transmissions' = IF command = "EC" THEN Count(success) ELSE number_transmissions
    /\ requests' = 0
    /\ UNCHANGED <<reads, status, atPending, txPending, ec, transmitted, history>>

NoMoreRequests ==
    /\ pc = "at_send"
    /\ requests = RequestAttempts
    /\ UNCHANGED <<my_mac, mac_position, cca_retries, inbox>>
    /\ AtReturns(FALSE)

(* Any positive answer ends the wait: which command it answers is not looked *)
(* at, only the length of its value is.                                      *)
ReadAnswer ==
    /\ pc = "at_read"
    /\ Read("AT")
    /\ LET frame == Head(inbox)
           fits  == (frame.command = "EC") = (command = "EC")
           half  == fits /\ command # "EC"
       IN  /\ frame.ok
           /\ my_mac' = IF half THEN [my_mac EXCEPT ![mac_position] = frame.value] ELSE my_mac
           /\ mac_position' = IF half THEN mac_position + 1 ELSE mac_position
           /\ cca_retries' = IF fits /\ ~half THEN frame.value ELSE cca_retries
           /\ AtReturns(fits)

(* A timeout, a damaged frame, or one that is not a positive answer.         *)
NoAnswer ==
    /\ pc = "at_read"
    /\ TimedOut \/ Skipped
    /\ reads' = reads + 1
    /\ pc' = IF reads + 1 = ResponseAttempts THEN "at_send" ELSE pc
    /\ UNCHANGED <<command, requests, my_mac, mac_position, cca_retries, status,
                   number_transmissions, atPending, txPending, ec, transmitted,
                   history>>

-----------------------------------------------------------------------------
(* The operations of the MAC layer *)

init ==
    /\ pc = "off"
    /\ mac_position' = 0
    /\ requests' = 0
    /\ pc' = "at_send"
    /\ UNCHANGED <<command, reads, my_mac, cca_retries, status,
                   number_transmissions, radio, history>>

send ==
    /\ pc = "idle"
    /\ sends < MaxSends
    /\ sends' = sends + 1
    /\ txPending' = Append(txPending, sends + 1)
    /\ reads' = 0
    /\ status' = "none" /\ about' = 0
    /\ pc' = "tx_read"
    /\ UNCHANGED <<command, requests, my_mac, mac_position, cca_retries,
                   number_transmissions, inbox, atPending, ec, transmitted,
                   repeated, givenUp>>

(* Mutant: the case of a missing acknowledgement has no return. *)
StatusFallsThrough(result) ==
    CASE result = "OK"                     -> "OK"
      [] result \in {"NO_ACK", "COLLISION"} -> "COLLISION"
      [] result = "PURGED"                 -> "ERR"

StatusOf(result) == IF result = "PURGED" THEN "ERR" ELSE result

(* Any status ends the wait: its frame id is not looked at. *)
ReadStatus ==
    /\ pc = "tx_read"
    /\ Read("TX_STATUS")
    /\ status' = StatusOf(Head(inbox).result)
    /\ about' = Head(inbox).of
    /\ IF status' \in {"OK", "COLLISION"}
         THEN pc' = "at_send" /\ command' = "EC" /\ requests' = 0
         ELSE pc' = "idle" /\ UNCHANGED <<command, requests>>
    /\ UNCHANGED <<reads, my_mac, mac_position, cca_retries, number_transmissions,
                   atPending, txPending, ec, transmitted, sends, repeated, givenUp>>

NoStatus ==
    /\ pc = "tx_read"
    /\ TimedOut \/ Skipped
    /\ reads' = reads + 1
    /\ IF reads + 1 = ResponseAttempts
         THEN pc' = "idle" /\ status' = "ERR" /\ givenUp' = TRUE
         ELSE UNCHANGED <<pc, status, givenUp>>
    /\ UNCHANGED <<command, requests, my_mac, mac_position, cca_retries,
                   number_transmissions, atPending, txPending, ec, transmitted,
                   sends, about, repeated>>

(* receive() takes one frame, whatever it is, and hands over packets only. *)
receive ==
    /\ pc = "idle"
    /\ Skipped
    /\ UNCHANGED <<program, atPending, txPending, ec, transmitted>>

sendAtCommand == SendRequest \/ NoMoreRequests \/ ReadAnswer \/ NoAnswer
Call == sendAtCommand \/ ReadStatus \/ NoStatus

Next ==
    \/ init
    \/ Call
    \/ send
    \/ receive
    \/ \E ok \in BOOLEAN : RadioAnswers(ok)
    \/ \E result \in TxResult, failures \in 0..MaxFailures : RadioTransmits(result, failures)
    \/ RadioReceives

Spec == Init /\ [][Next]_vars

(* A call that has begun goes on: a read returns at the latest when its time *)
(* is over.  Nothing is assumed of the radio.                                *)
FairSpec == Spec /\ WF_vars(Call)

-----------------------------------------------------------------------------
(* Properties *)

Initialised == mac_position = 2

(* init() leaves the node's address in my_mac, its halves in their order,    *)
(* unless a command had to be sent again: other frames, damaged frames and   *)
(* negative answers in between do no harm.                                   *)
AddressUnlessRepeated == Initialised /\ ~repeated => my_mac = [h \in 0..1 |-> <<"SH", "SL">>[h + 1]]

(* The inductive invariant.  Where the program is, which command it has in   *)
(* hand and how much of the address it has go together.                      *)
InCommand == pc \in {"at_send", "at_read"}

Lifecycle ==
    /\ pc = "off" => mac_position = 0 /\ command = "SH"
    /\ InCommand => CASE command = "SH" -> mac_position = 0
                       [] command = "SL" -> mac_position = 1
                       [] command = "EC" -> mac_position = 2
    /\ pc \in {"idle", "tx_read"} => mac_position = 2
    /\ pc = "halted" => mac_position \in {0, 1}
    /\ pc \in {"at_read", "tx_read"} => reads < ResponseAttempts
    /\ pc = "at_read" => requests > 0

(* While the address is incomplete and nothing was repeated, there is at     *)
(* most one command or answer on its way, and it is the one in hand.         *)
OfType(s, type) == {i \in 1..Len(s) : s[i].type = type}
AtMostOne(s, type) == \A i, j \in OfType(s, type) : i = j
Answers == OfType(inbox, "AT")

OneAtATime ==
    /\ pc = "off" \/ (pc = "at_send" /\ requests = 0) => atPending = <<>> /\ Answers = {}
    /\ atPending = <<>> \/ (atPending = <<command>> /\ Answers = {})
    /\ \A i \in Answers : inbox[i].command = command /\ inbox[i].value = command
    /\ AtMostOne(inbox, "AT")

AddressSoFar ==
    /\ mac_position \in {1, 2} => my_mac[0] = "SH"
    /\ mac_position = 2 => my_mac[1] = "SL"

IInv ==
    /\ TypeOK
    /\ Lifecycle
    /\ ~repeated => AddressSoFar
    /\ ~repeated /\ (pc = "off" \/ (InCommand /\ command # "EC")) => OneAtATime

(* When send() returns, its status is the one of the frame it was called     *)
(* with, unless this or an earlier send() gave up waiting for its own.       *)
OwnStatus ==
    LET result == transmitted[sends].result
    IN  about = sends /\ IF status = "ERR" THEN result = "PURGED" ELSE status = result

StatusIsOwn == pc = "idle" /\ sends > 0 /\ ~givenUp => OwnStatus

(* Its inductive form.  Until a send() gives up, there is at most one        *)
(* transmission or status on its way, and it is the one of the last send().  *)
Statuses == OfType(inbox, "TX_STATUS")

OneStatus ==
    /\ pc # "tx_read" => txPending = <<>> /\ Statuses = {}
    /\ txPending = <<>>
         \/ (txPending = <<sends>> /\ Statuses = {} /\ transmitted[sends].failures = 0)
    /\ \A i \in Statuses : inbox[i].of = sends /\ inbox[i].result = transmitted[sends].result
    /\ AtMostOne(inbox, "TX_STATUS")
    /\ \A n \in 1..MaxSends : n > sends => transmitted[n].failures = 0

StatusInv ==
    ~givenUp => /\ sends > 0 \/ pc # "tx_read"
                /\ OneStatus
                /\ pc # "tx_read" /\ sends > 0 => OwnStatus

(* Where send() gives a count back, neither it nor a call before it having   *)
(* repeated a command or given up.                                           *)
CountGiven ==
    pc = "idle" /\ sends > 0 /\ status \in {"OK", "COLLISION"} /\ ~givenUp /\ ~repeated

(* The CCA failures of the frame just sent are in the count that send()      *)
(* gives back: the counter it reads is the one after this frame, never that  *)
(* of an earlier answer or of another command, whatever comes in between.    *)
(* What else is in the count, CountsTransmissions is about.                  *)
OwnFailuresCounted == CountGiven => number_transmissions >= transmitted[sends].failures

(* Its inductive form.  The radio's counter is the sum of the failures of    *)
(* all frames so far; nothing is sent before the address is complete; and as *)
(* long as nothing is repeated there is one EC command or answer on its way  *)
(* at most, which holds the counter as it still is.                          *)
Failures(t, n) == MapThenSumSet(LAMBDA i : t[i].failures, 1..n)

CounterIsSum == ~givenUp => ec = Failures(transmitted, sends)

FirstTime ==
    /\ mac_position # 2 => status = "none"
    /\ requests > 1 => repeated

OneCount ==
    /\ pc \in {"idle", "tx_read"} \/ (pc = "at_send" /\ requests = 0)
         => atPending = <<>> /\ Answers = {}
    /\ atPending = <<>> \/ (atPending = <<"EC">> /\ Answers = {})
    /\ \A i \in Answers : inbox[i].command = "EC" /\ inbox[i].value = ec
    /\ AtMostOne(inbox, "AT")
    /\ pc = "idle" /\ status \in {"OK", "COLLISION"} => number_transmissions = ec

Counting == pc \in {"idle", "tx_read"} \/ (InCommand /\ command = "EC")

CountInv ==
    /\ CounterIsSum
    /\ FirstTime
    /\ RequestAttempts > 1 /\ ~givenUp /\ ~repeated /\ Counting => OneCount

(* init() and send() return, whatever the radio does, though each of their   *)
(* attempts may be repeated and one wait starts another.                     *)
CallsReturn == pc \in {"at_send", "at_read", "tx_read"} ~> pc \in {"idle", "halted"}

-----------------------------------------------------------------------------
(* What comments of the source say and the code does not do *)

(* MACLayer.h: init() returns true when the layer was correctly initialised  *)
(* and getMacAddress() can be used.  An answer to the first SH request that  *)
(* comes after the answer to the second is taken for SL.                     *)
InitialisedMeansAddress == Initialised => my_mac[1] = "SL"

(* MACLayer.h: number_transmissions is filled with the number of MAC layer   *)
(* transmissions that were performed, 1 or more; XBeeMACLayer.cpp: always    *)
(* one, plus one for every CCA failure.  The one is added to the pointer, so *)
(* that a frame sent at the first attempt is given 0 transmissions.          *)
CountsTransmissions == CountGiven => number_transmissions = 1 + transmitted[sends].failures

=============================================================================
