---------------------------- MODULE CoapSendProofs ----------------------------
(* The timer counts right while the clock wraps, the sketch's requests are   *)
(* neither too close nor too late, and a server reads in each what the       *)
(* sketch asked for, for every clock width, period, bound on a step and set  *)
(* of requests that fit.                                                     *)
EXTENDS CoapSend, Induction, SequenceTheorems, TLAPS

-----------------------------------------------------------------------------
(* Arithmetic modulo n *)

(* A remainder lies between 0 and n. *)
LEMMA ModRange ==
    ASSUME NEW n \in Nat \ {0}, NEW a \in Int
    PROVE  a % n \in 0..(n - 1)
BY SMT

(* What lies there is its own remainder. *)
LEMMA ModSmall ==
    ASSUME NEW n \in Nat \ {0}, NEW a \in 0..(n - 1)
    PROVE  a % n = a
BY SMT

(* Quotient and remainder make up the number. *)
LEMMA ModDivision ==
    ASSUME NEW n \in Nat \ {0}, NEW a \in Int
    PROVE  /\ a \div n \in Int
           /\ a = (n * (a \div n)) + (a % n)
BY SMT

(* And no other pair does. *)
LEMMA ModUnique ==
    ASSUME NEW n \in Nat \ {0}, NEW q \in Int, NEW r \in 0..(n - 1)
    PROVE  ((n * q) + r) % n = r
BY SMT

(* A multiple of n more makes no difference. *)
LEMMA ModShift ==
    ASSUME NEW n \in Nat \ {0}, NEW a \in Int, NEW d \in Int
    PROVE  ((a % n) + d) % n = (a + d) % n
<1> DEFINE r == a % n
           q == a \div n
<1>1. r \in Int /\ q \in Int /\ a = (n * q) + r
  BY ModDivision, ModRange, SMT
<1> HIDE DEF r, q
<1> DEFINE b == r + d
           s == b % n
           p == b \div n
<1>2. b \in Int
  BY <1>1, SMT
<1>3. s \in 0..(n - 1) /\ p \in Int /\ b = (n * p) + s
  <2> HIDE DEF b
  <2> QED
    BY <1>2, ModDivision, ModRange
<1>4. a + d = (n * (q + p)) + s
  <2>1. a + d = (n * q) + b
    BY <1>1, SMT
  <2> HIDE DEF b, s, p
  <2> QED
    BY <2>1, <1>1, <1>3, SMT
<1>5. q + p \in Int
  BY <1>1, <1>3, SMT
<1> HIDE DEF s, p
<1>6. ((n * (q + p)) + s) % n = s
  BY <1>3, <1>5, ModUnique
<1> QED
  BY <1>4, <1>6 DEF s, r

(* The difference that timer_expired() computes grows as the clock does,     *)
(* modulo the clock.                                                         *)
LEMMA DiffGrows ==
    ASSUME NEW n \in Nat \ {0}, NEW now \in Int, NEW start \in Int, NEW d \in Int
    PROVE  (((now + d) % n) - start) % n = (((now - start) % n) + d) % n
<1> DEFINE a == now + d
           b == - start
           c == now - start
<1>1. a \in Int /\ b \in Int /\ c \in Int
  BY SMT
<1>2. a + b = c + d /\ (a % n) + b = (a % n) - start
  BY ModRange, SMT
<1> HIDE DEF a, b, c
<1>3. ((a % n) + b) % n = (a + b) % n
  BY <1>1, ModShift
<1>4. ((c % n) + d) % n = (c + d) % n
  BY <1>1, ModShift
<1>5. ((a % n) - start) % n = ((c % n) + d) % n
  BY <1>2, <1>3, <1>4
<1> QED
  BY <1>5 DEF a, c

-----------------------------------------------------------------------------
(* The timer *)

(* Until the largest difference is reached, a timer has expired exactly when *)
(* its interval has passed since it was started, wherever the clock wraps in *)
(* between, and before that the time remaining is what is missing.           *)
THEOREM TimerIsExact ==
    ASSUME NEW interval \in Clock, NEW start \in Clock,
           NEW passed \in 0..(ClockModulus - 2)
    PROVE  LET t   == timer_set(interval, start)
               now == (start + passed) % ClockModulus
           IN  /\ timer_expired(t, now) <=> passed >= interval
               /\ passed <= interval => timer_remaining(t, now) = interval - passed
<1> DEFINE t   == timer_set(interval, start)
           now == (start + passed) % ClockModulus
<1>1. /\ t.start = start /\ t.interval = interval
      /\ start \in Int /\ passed \in Int /\ interval \in Int
      /\ ClockModulus \in Nat \ {0}
  BY ClockAssumption, SMT DEF timer_set, Clock
<1>2. (now - start) % ClockModulus = (((start - start) % ClockModulus) + passed) % ClockModulus
  BY <1>1, DiffGrows
<1>3. (now - start) % ClockModulus = passed
  <2>1. start - start = 0
    BY <1>1, SMT
  <2>2. (start - start) % ClockModulus = 0
    BY <2>1, <1>1, ModSmall, SMT
  <2>3. 0 + passed = passed /\ passed \in 0..(ClockModulus - 1)
    BY <1>1, SMT
  <2> QED
    BY <1>1, <1>2, <2>2, <2>3, ModSmall
<1>4. timer_expired(t, now) <=> passed >= interval
  <2>1. passed + 1 \in 0..(ClockModulus - 1)
    BY <1>1, SMT
  <2>2. (passed + 1) % ClockModulus = passed + 1
    BY <2>1, <1>1, ModSmall
  <2>3. timer_expired(t, now) <=> interval < passed + 1
    BY <1>1, <1>3, <2>2 DEF timer_expired
  <2> QED
    BY <1>1, <2>3, SMT
<1>5. ASSUME passed <= interval
      PROVE  timer_remaining(t, now) = interval - passed
  <2> DEFINE m == - now
             k == start + interval
  <2>1. /\ m \in Int /\ k \in Int /\ now \in Int
        /\ (start + interval) - now = m + k
    BY <1>1, ModRange, SMT
  <2>2. (m + k) % ClockModulus = interval - passed
    <3> DEFINE q == (start + passed) \div ClockModulus
    <3>1. q \in Int /\ start + passed = (ClockModulus * q) + now
      BY <1>1, ModDivision, SMT
    <3> HIDE DEF q, now
    <3>2. m + k = (ClockModulus * q) + (interval - passed)
      BY <3>1, <2>1, <1>1, SMT
    <3>3. interval - passed \in 0..(ClockModulus - 1)
      BY <1>1, <1>5, SMT DEF Clock
    <3> QED
      BY <1>1, <3>1, <3>2, <3>3, ModUnique
  <2> QED
    BY <1>1, <2>1, <2>2 DEF timer_remaining
<1> QED
  BY <1>4, <1>5
-----------------------------------------------------------------------------
(* The sketch *)

(* The constants as the arithmetic below needs them. *)
LEMMA ConstantsAreNumbers ==
    /\ ClockModulus \in Nat \ {0}
    /\ DATA_SEND_PERIOD \in Nat \ {0}
    /\ MaxStep \in Nat \ {0}
    /\ DATA_SEND_PERIOD + MaxStep < ClockModulus - 1
    /\ Enough \in Nat
    /\ Enough = DATA_SEND_PERIOD + 2 * MaxStep + 1
BY ClockAssumption, PeriodAssumption, SMT DEF Enough

(* A history is exact until it stops counting. *)
LEMMA LongerBounds ==
    ASSUME NEW time \in 0..Enough, NEW d \in Nat
    PROVE  /\ Longer(time, d) \in 0..Enough
           /\ Longer(time, d) = time + d \/ Longer(time, d) = Enough
           /\ time + d < Enough => Longer(time, d) = time + d
BY ConstantsAreNumbers, SMT DEF Longer

(* this->messageID++ stays a word. *)
LEMMA NextIDInRange ==
    ASSUME NEW id \in Nat
    PROVE  NextID(id) \in 0..(ByteBase * ByteBase - 1)
<1>1. ByteBase * ByteBase \in Nat \ {0}
  BY ByteAssumption, SMT
<1>2. id + 1 \in Int
  BY SMT
<1> HIDE DEF NextID
<1> QED
  BY <1>1, <1>2, ModRange DEF NextID

(* The clock's difference to the start of a timer after a step. *)
LEMMA DiffAfter ==
    ASSUME NEW now \in Clock, NEW start \in Clock, NEW d \in Nat
    PROVE  LET diff  == (now - start) % ClockModulus
               later == (((now + d) % ClockModulus) - start) % ClockModulus
           IN  /\ (now + d) % ClockModulus \in Clock
               /\ diff \in Clock
               /\ later \in Clock
               /\ later = (diff + d) % ClockModulus
               /\ later <= diff + d
               /\ diff + d < ClockModulus => later = diff + d
<1> DEFINE diff  == (now - start) % ClockModulus
           next  == (now + d) % ClockModulus
           later == (next - start) % ClockModulus
<1>1. ClockModulus \in Nat \ {0} /\ now \in Int /\ start \in Int /\ d \in Int
  BY ConstantsAreNumbers, SMT DEF Clock
<1>2. now + d \in Int /\ now - start \in Int
  BY <1>1, SMT
<1>3. next \in Clock /\ diff \in Clock
  BY <1>1, <1>2, ModRange DEF Clock
<1>4. later = (diff + d) % ClockModulus
  BY <1>1, DiffGrows
<1> HIDE DEF diff, next
<1>5. diff + d \in Int /\ next - start \in Int
  BY <1>1, <1>3, SMT DEF Clock
<1>6. later \in Clock
  BY <1>1, <1>5, ModRange DEF Clock
<1>7. diff + d < ClockModulus => later = diff + d
  <2>1. diff + d < ClockModulus => diff + d \in 0..(ClockModulus - 1)
    BY <1>1, <1>3, SMT DEF Clock
  <2> QED
    BY <2>1, <1>1, <1>4, ModSmall
<1>8. later <= diff + d
  <2> HIDE DEF later
  <2> QED
    BY <1>1, <1>3, <1>6, <1>7, SMT DEF Clock
<1> QED
  BY <1>3, <1>4, <1>6, <1>7, <1>8 DEF diff, next

(* timer_expired() says no while the difference is short of the interval,    *)
(* and at the largest difference.                                            *)
LEMMA ExpiredByDiff ==
    ASSUME NEW t \in struct_timer, NEW now \in Clock
    PROVE  LET diff == (now - t.start) % ClockModulus
           IN  timer_expired(t, now) <=> diff >= t.interval /\ diff < ClockModulus - 1
<1> DEFINE diff == (now - t.start) % ClockModulus
<1>1. /\ ClockModulus \in Nat \ {0} /\ now \in Int
      /\ t.start \in Int /\ t.interval \in Nat
  BY ConstantsAreNumbers, SMT DEF Clock, struct_timer
<1>2. now - t.start \in Int
  BY <1>1, SMT
<1>3. diff \in 0..(ClockModulus - 1)
  BY <1>1, <1>2, ModRange
<1>4. timer_expired(t, now) <=> t.interval < (diff + 1) % ClockModulus
  BY DEF timer_expired
<1> HIDE DEF diff
<1>5. CASE diff = ClockModulus - 1
  <2>1. diff + 1 = (ClockModulus * 1) + 0
    BY <1>1, <1>5, SMT
  <2>2. (diff + 1) % ClockModulus = 0
    BY <1>1, <2>1, ModUnique, SMT
  <2> QED
    BY <1>1, <1>4, <1>5, <2>2, SMT DEF diff
<1>6. CASE diff # ClockModulus - 1
  <2>1. diff + 1 \in 0..(ClockModulus - 1)
    BY <1>1, <1>3, <1>6, SMT
  <2>2. (diff + 1) % ClockModulus = diff + 1
    BY <1>1, <2>1, ModSmall
  <2>3. t.interval < diff + 1 <=> diff >= t.interval
    BY <1>1, <1>3, SMT
  <2>4. diff < ClockModulus - 1
    BY <1>1, <1>3, <1>6, SMT
  <2> QED
    BY <1>4, <2>2, <2>3, <2>4 DEF diff
<1> QED
  BY <1>5, <1>6
-----------------------------------------------------------------------------
(* The inductive invariant *)

(* setup() establishes the invariant. *)
LEMMA InitIInv == Init => IInv
<1> SUFFICES ASSUME Init PROVE IInv
  OBVIOUS
<1>1. /\ data_send_timer \in struct_timer
      /\ data_send_timer.interval = DATA_SEND_PERIOD
      /\ data_send_timer.start = clock /\ clock \in Clock
  BY ConstantsAreNumbers, SMT DEF Init, timer_set, struct_timer, Clock
<1>2. Diff = 0
  <2>1. clock - clock = 0 /\ 0 \in 0..(ClockModulus - 1)
    BY <1>1, ConstantsAreNumbers, SMT DEF Clock
  <2> QED
    BY <1>1, <2>1, ConstantsAreNumbers, ModSmall DEF Diff
<1>3. TypeOK
  <2>1. 0 \in 0..(ByteBase * ByteBase - 1)
    BY ByteAssumption, SMT
  <2>2. 0 \in 0..Enough
    BY ConstantsAreNumbers, SMT
  <2> QED
    BY <1>1, <2>1, <2>2 DEF Init, TypeOK
<1> QED
  BY <1>1, <1>2, <1>3, SMT DEF Init, IInv

(* Every step of loop() preserves it.  Polling is the hard one: the period   *)
(* and one step together are less than a wrap, so that a poll that does not  *)
(* find the timer expired is followed by one before the wrap.                *)
LEMMA StepIInv == IInv /\ [Next]_vars => IInv'
<1> SUFFICES ASSUME IInv, [Next]_vars PROVE IInv'
  OBVIOUS
<1> USE ConstantsAreNumbers
<1>1. /\ TypeOK
      /\ clock \in Clock /\ data_send_timer \in struct_timer
      /\ data_send_timer.start \in Clock
      /\ since \in 0..Enough /\ waited \in 0..Enough
      /\ messageID \in Nat
      /\ data_send_timer.interval = DATA_SEND_PERIOD
  <2>1. messageID \in 0..(ByteBase * ByteBase - 1)
    BY DEF IInv, TypeOK
  <2>2. ByteBase * ByteBase \in Nat
    BY ByteAssumption, SMT
  <2> QED
    BY <2>1, <2>2, SMT DEF IInv, TypeOK, struct_timer
<1>2. Diff \in Clock
  <2>1. clock + 0 = clock /\ 0 \in Nat
    BY <1>1, SMT DEF Clock
  <2> QED
    BY <1>1, <2>1, DiffAfter DEF Diff
<1>3. CASE Connect
  <2>1. PICK d \in 0..(2 * ClockModulus) : Advance(d)
    BY <1>3 DEF Connect
  <2>2. d \in Nat
    BY SMT
  <2>3. /\ clock' \in Clock /\ Diff' \in Clock /\ Diff' <= Diff + d
    BY <1>1, <1>3, <2>1, <2>2, DiffAfter DEF Connect, Advance, Diff
  <2>4. since' \in 0..Enough /\ (since' = since + d \/ since' = Enough)
    BY <1>1, <2>1, <2>2, LongerBounds DEF Advance
  <2>5. TypeOK'
    BY <1>1, <1>3, <2>3, <2>4, SMT DEF Connect, TypeOK
  <2>6. since' >= Diff' \/ since' = Enough
    BY <1>1, <1>2, <1>3, <2>2, <2>3, <2>4, SMT DEF IInv, Connect, Clock
  <2>7. /\ \A x \in Clock : 0 <= x + 1
        /\ 0 <= DATA_SEND_PERIOD + MaxStep
    BY SMT DEF Clock
  <2>8. 0 <= Diff' + 1
    BY <2>3, <2>7
  <2> QED
    BY <1>1, <1>3, <2>5, <2>6, <2>7, <2>8 DEF IInv, Connect
<1>4. CASE NotYet
  <2>1. PICK d \in 0..MaxStep : Advance(d) /\ waited' = Longer(waited, d)
    BY <1>4 DEF NotYet
  <2>2. d \in Nat /\ d <= MaxStep
    BY SMT
  <2>3. /\ clock' \in Clock /\ Diff' \in Clock /\ Diff' <= Diff + d
        /\ Diff' = (Diff + d) % ClockModulus
        /\ Diff + d < ClockModulus => Diff' = Diff + d
    BY <1>1, <1>4, <2>1, <2>2, DiffAfter DEF NotYet, Advance, Diff
  <2>4. since' \in 0..Enough /\ (since' = since + d \/ since' = Enough)
    BY <1>1, <2>1, <2>2, LongerBounds DEF Advance
  <2>5. /\ waited' \in 0..Enough
        /\ waited + d < Enough => waited' = waited + d
    BY <1>1, <2>1, <2>2, LongerBounds
  <2>6. since' >= Diff' \/ since' = Enough
    BY <1>1, <1>2, <1>4, <2>2, <2>3, <2>4, SMT DEF IInv, NotYet, Clock
  <2>7. Diff < DATA_SEND_PERIOD \/ Diff = ClockModulus - 1
    <3>1. ~(Diff >= DATA_SEND_PERIOD /\ Diff < ClockModulus - 1)
      BY <1>1, <1>4, ExpiredByDiff DEF NotYet, Diff
    <3> QED
      BY <1>2, <3>1, SMT DEF Clock
  <2>8. /\ waited' <= Diff' + 1
        /\ waited' <= DATA_SEND_PERIOD + MaxStep
        /\ Diff' = ClockModulus - 1 => waited' = 0
    <3>1. /\ waited <= Diff + 1
          /\ Diff = ClockModulus - 1 => waited = 0
      BY <1>4 DEF IInv, NotYet
    <3>2. CASE Diff < DATA_SEND_PERIOD
      BY <1>1, <1>2, <2>2, <2>3, <2>5, <3>1, <3>2, SMT DEF Clock
    <3>3. CASE Diff = ClockModulus - 1 /\ d = 0
      BY <1>1, <1>2, <2>3, <2>5, <3>1, <3>3, SMT DEF Clock
    <3>4. CASE Diff = ClockModulus - 1 /\ d # 0
      <4>1. Diff + d = (ClockModulus * 1) + (d - 1) /\ d - 1 \in 0..(ClockModulus - 1)
        BY <2>2, <3>4, SMT
      <4>2. Diff' = d - 1
        BY <2>3, <4>1, ModUnique, SMT
      <4> QED
        BY <1>1, <2>2, <2>5, <3>1, <3>4, <4>2, SMT
    <3> QED
      BY <2>7, <3>2, <3>3, <3>4
  <2>9. TypeOK'
    BY <1>1, <1>4, <2>3, <2>4, <2>5, SMT DEF NotYet, TypeOK
  <2> QED
    BY <1>1, <1>4, <2>6, <2>8, <2>9, SMT DEF IInv, NotYet
<1>5. CASE BuildRequest
  <2>1. PICK d \in 0..MaxStep : Advance(d)
    BY <1>5 DEF BuildRequest
  <2>2. d \in Nat
    BY SMT
  <2>3. clock' \in Clock
    BY <1>1, <2>1, <2>2, DiffAfter DEF Advance
  <2>4. since' \in 0..Enough /\ (since' = since + d \/ since' = Enough)
    BY <1>1, <2>1, <2>2, LongerBounds DEF Advance
  <2>5. messageID' \in 0..(ByteBase * ByteBase - 1)
    BY <1>1, <1>5, NextIDInRange DEF BuildRequest
  <2>6. message' = Idle \/ \E r \in Requests : message'.request = {r}
    <3>1. PICK r \in Requests :
             message' = [request |-> {r}, bytes |-> packetBuffer(messageID', r)]
      BY <1>5 DEF BuildRequest
    <3> QED
      BY <3>1
  <2>7. Diff >= DATA_SEND_PERIOD
    BY <1>1, <1>5, ExpiredByDiff DEF BuildRequest, Diff
  <2>8. since' >= DATA_SEND_PERIOD
    BY <1>1, <1>2, <1>5, <2>2, <2>4, <2>7, SMT DEF IInv, BuildRequest, Clock
  <2>9. TypeOK'
    BY <1>1, <1>5, <2>3, <2>4, <2>5, <2>6, SMT DEF BuildRequest, TypeOK
  <2> QED
    BY <1>1, <1>5, <2>8, <2>9 DEF IInv, BuildRequest
<1>6. CASE SendRequest
  <2>1. PICK d \in 0..(2 * ClockModulus) :
           clock' = (clock + d) % ClockModulus /\ since' = Longer(0, d)
    BY <1>6 DEF SendRequest
  <2>2. d \in Nat /\ 0 \in 0..Enough
    BY SMT
  <2>3. clock' \in Clock
    BY <1>1, <2>1, <2>2, DiffAfter
  <2>4. since' \in 0..Enough
    BY <2>1, <2>2, LongerBounds
  <2>5. TypeOK'
    BY <1>1, <1>6, <2>3, <2>4 DEF SendRequest, TypeOK
  <2> QED
    BY <1>1, <1>6, <2>5 DEF IInv, SendRequest
<1>7. CASE RestartTimer
  <2>1. PICK d \in 0..MaxStep : Advance(d) /\ waited' = Longer(0, d)
    BY <1>7 DEF RestartTimer
  <2>2. d \in Nat /\ d <= MaxStep /\ 0 \in 0..Enough
    BY SMT
  <2>3. /\ data_send_timer' \in struct_timer
        /\ data_send_timer'.start = clock
        /\ data_send_timer'.interval = DATA_SEND_PERIOD
    BY <1>1, <1>7, SMT DEF RestartTimer, timer_restart, struct_timer
  <2>4. clock' \in Clock /\ Diff' = d
    <3>1. /\ clock' \in Clock
          /\ ((clock - clock) % ClockModulus) + d < ClockModulus
                => Diff' = ((clock - clock) % ClockModulus) + d
      BY <1>1, <2>1, <2>2, <2>3, DiffAfter DEF Advance, Diff
    <3>2. clock - clock = 0 /\ 0 \in 0..(ClockModulus - 1)
      BY <1>1, SMT DEF Clock
    <3>3. (clock - clock) % ClockModulus = 0
      BY <3>2, ModSmall
    <3> QED
      BY <2>2, <3>1, <3>3, SMT
  <2>5. since' \in 0..Enough /\ (since' = since + d \/ since' = Enough)
    BY <1>1, <2>1, <2>2, LongerBounds DEF Advance
  <2>6. waited' = d
    BY <2>1, <2>2, LongerBounds, SMT
  <2>7. TypeOK'
    BY <1>1, <1>7, <2>2, <2>3, <2>4, <2>5, <2>6, SMT DEF RestartTimer, TypeOK
  <2>8. since' >= Diff' \/ since' = Enough
    BY <1>1, <2>2, <2>4, <2>5, SMT
  <2>9. /\ waited' <= Diff' + 1
        /\ waited' <= DATA_SEND_PERIOD + MaxStep
        /\ Diff' # ClockModulus - 1
    BY <2>2, <2>4, <2>6, SMT
  <2> QED
    BY <1>7, <2>3, <2>7, <2>8, <2>9 DEF IInv, RestartTimer
<1>8. CASE UNCHANGED vars
  BY <1>8 DEF vars, IInv, TypeOK, Diff
<1> QED
  BY <1>3, <1>4, <1>5, <1>6, <1>7, <1>8 DEF Next
-----------------------------------------------------------------------------
(* A server's reading of a message *)

(* g is the recursive function that Message() defines.                       *)
IsReading(g, p) == g = [i \in 5..(Len(p) + 1) |-> ReadAt(g, p, i)]

(* An option is read from what comes after it. *)
LEMMA ReadsOn ==
    ASSUME NEW p \in Seq(Nat), NEW i \in 5..(Len(p) + 1), OptionAt(p, i)
    PROVE  After(p, i) \in (i + 1)..(Len(p) + 1)
<1>1. /\ i <= Len(p) /\ p[i] \in Nat /\ Len(p) \in Nat
      /\ After(p, i) <= Len(p) + 1
  BY DEF OptionAt
<1>2. p[i] % 16 \in 0..15
  <2>1. p[i] \in Int /\ 16 \in Nat \ {0} /\ 16 - 1 = 15
    BY <1>1
  <2> QED
    BY <2>1, ModRange
<1>3. CASE p[i] % 16 = 13 /\ i < Len(p)
  <2>1. p[i + 1] \in Nat
    BY <1>1, <1>3
  <2>2. After(p, i) = (i + 2) + (p[i + 1] + 13)
    BY <1>3 DEF After, ValueAt
  <2> HIDE DEF After
  <2> QED
    BY <2>1, <2>2, <1>1, SMTT(30)
<1>4. CASE ~(p[i] % 16 = 13 /\ i < Len(p))
  <2>1. After(p, i) = (i + 1) + (p[i] % 16)
    BY <1>4 DEF After, ValueAt
  <2> HIDE DEF After
  <2> QED
    BY <2>1, <1>1, <1>2
<1> QED
  BY <1>3, <1>4

(* What is read at a place depends on what is read after it only. *)
LEMMA ReadsAhead ==
    ASSUME NEW p \in Seq(Nat), NEW i \in 5..(Len(p) + 1), NEW g, NEW h,
           \A j \in (i + 1)..(Len(p) + 1) : g[j] = h[j]
    PROVE  ReadAt(g, p, i) = ReadAt(h, p, i)
<1>1. CASE ~OptionAt(p, i)
  BY <1>1 DEF ReadAt
<1>2. CASE OptionAt(p, i)
  <2>1. g[After(p, i)] = h[After(p, i)]
    BY <1>2, ReadsOn
  <2> QED
    BY <2>1, Zenon DEF ReadAt
<1> QED
  BY <1>1, <1>2

(* The reading is defined for every message, and Message() is what it says   *)
(* at the first option.                                                      *)
LEMMA ReadingExists ==
    ASSUME NEW p \in Seq(Nat)
    PROVE  \E g : IsReading(g, p) /\ Message(p) = g[5][0]
<1> DEFINE D == 5..(Len(p) + 1)
           Right(g, k) == \A i \in D : i + k > Len(p) + 1 => g[i] = ReadAt(g, p, i)
           K == {k \in Nat : \E g : g = [i \in D |-> g[i]] /\ Right(g, k)}
<1>1. 0 \in K
  <2>1. PICK g : g = [i \in D |-> 0]
    OBVIOUS
  <2>2. g = [i \in D |-> g[i]] /\ Right(g, 0)
    BY <2>1
  <2> QED
    BY <2>2
<1>2. ASSUME NEW k \in K PROVE k + 1 \in K
  <2>1. PICK g : g = [i \in D |-> g[i]] /\ Right(g, k)
    OBVIOUS
  <2>2. PICK h : h = [i \in D |-> ReadAt(g, p, i)]
    OBVIOUS
  <2>3. h = [i \in D |-> h[i]]
    BY <2>2
  <2>4. Right(h, k + 1)
    <3> SUFFICES ASSUME NEW i \in D, i + (k + 1) > Len(p) + 1
                 PROVE  h[i] = ReadAt(h, p, i)
      OBVIOUS
    <3>1. \A j \in (i + 1)..(Len(p) + 1) : g[j] = h[j]
      <4> TAKE j \in (i + 1)..(Len(p) + 1)
      <4>1. j \in D /\ j + k > Len(p) + 1
        BY SMTT(30)
      <4>2. g[j] = ReadAt(g, p, j)
        BY <2>1, <4>1
      <4> QED
        BY <2>2, <4>1, <4>2
    <3>2. ReadAt(g, p, i) = ReadAt(h, p, i)
      BY <3>1, ReadsAhead
    <3> QED
      BY <2>2, <3>2
  <2> QED
    BY <2>3, <2>4
<1>3. K = Nat
  <2>1. K \in SUBSET Nat
    OBVIOUS
  <2> HIDE DEF K
  <2> QED
    BY <1>1, <1>2, <2>1, NatSetInduction
<1>4. PICK g : g = [i \in D |-> g[i]] /\ Right(g, Len(p) + 1)
  <2>1. Len(p) + 1 \in Nat
    OBVIOUS
  <2>2. Len(p) + 1 \in K
    <3> HIDE DEF K
    <3> QED
      BY <1>3, <2>1
  <2> QED
    BY <2>2
<1>5. IsReading(g, p)
  <2>1. \A i \in D : g[i] = ReadAt(g, p, i)
    BY <1>4
  <2>2. [i \in D |-> g[i]] = [i \in D |-> ReadAt(g, p, i)]
    BY <2>1
  <2> QED
    BY <1>4, <2>2 DEF IsReading
<1>6. PICK f : f = CHOOSE h : IsReading(h, p)
  OBVIOUS
<1>7. IsReading(f, p)
  BY <1>5, <1>6
<1>8. Message(p) = f[5][0]
  BY <1>6 DEF Message, IsReading
<1> QED
  BY <1>7, <1>8

-----------------------------------------------------------------------------
(* Where the parts of a message are *)

(* x stands in p from i on. *)
StandsAt(p, x, i) == \A k \in 1..Len(x) : p[i + k - 1] = x[k]

(* p is made of three parts, of which x is the middle one.                   *)
PartAt(p, S, a, x, b) ==
    /\ p \in Seq(S) /\ Len(p) = Len(a) + Len(x) + Len(b)
    /\ StandsAt(p, x, Len(a) + 1)

(* A part of a concatenation stands after the parts before it. *)
LEMMA PartStands ==
    ASSUME NEW S, NEW a \in Seq(S), NEW x \in Seq(S), NEW b \in Seq(S),
           NEW p, p = a \o x \o b
    PROVE  PartAt(p, S, a, x, b)
<1>1. a \o x \in Seq(S) /\ Len(a \o x) = Len(a) + Len(x)
  BY ConcatProperties
<1>2. p \in Seq(S) /\ Len(p) = Len(a) + Len(x) + Len(b)
  BY <1>1, ConcatProperties
<1>3. ASSUME NEW k \in 1..Len(x) PROVE p[Len(a) + 1 + k - 1] = x[k]
  <2>1. PICK m : m = Len(a) + k
    OBVIOUS
  <2>2. /\ Len(a) \in Nat /\ Len(x) \in Nat /\ Len(b) \in Nat
    BY LenProperties
  <2>3. /\ m \in 1..(Len(a) + Len(x)) /\ ~(m <= Len(a)) /\ m - Len(a) = k
        /\ m \in 1..(Len(a \o x) + Len(b)) /\ m <= Len(a \o x)
        /\ Len(a) + 1 + k - 1 = m
    BY <2>1, <2>2, <1>1
  <2>4. p[m] = (a \o x)[m]
    BY <1>1, <2>3, ConcatProperties
  <2>5. (a \o x)[m] = x[k]
    BY <2>3, ConcatProperties
  <2> QED
    BY <2>3, <2>4, <2>5
<1> QED
  BY <1>2, <1>3 DEF StandsAt, PartAt

(* What stands there is the value of an option that begins there. *)
LEMMA StandsIsSubSeq ==
    ASSUME NEW S, NEW p \in Seq(S), NEW x \in Seq(S), NEW i \in Nat \ {0},
           i + Len(x) <= Len(p) + 1, StandsAt(p, x, i)
    PROVE  SubSeq(p, i, i + Len(x) - 1) = x
<1>1. PICK y, j : y = SubSeq(p, i, j) /\ j = i + Len(x) - 1
  OBVIOUS
<1>2. Len(x) \in Nat /\ Len(p) \in Nat
  BY LenProperties
<1>3. j \in Int /\ j - i + 1 = Len(x)
  BY <1>1, <1>2
<1>4. \A k \in i..j : p[k] \in S
  BY <1>1, <1>2
<1>5. y = [k \in 1..Len(x) |-> p[i + k - 1]]
  BY <1>1, <1>2, <1>3
<1>6. x = [k \in 1..Len(x) |-> x[k]]
  BY LenProperties
<1> QED
  BY <1>1, <1>5, <1>6 DEF StandsAt

(* The order in which three parts are put together makes no difference.      *)
Associative(a, b, c) == (a \o b) \o c = a \o (b \o c)

(* Concatenation is associative. *)
LEMMA Rebracketed ==
    ASSUME NEW S, NEW a \in Seq(S), NEW b \in Seq(S), NEW c \in Seq(S)
    PROVE  Associative(a, b, c)
BY ConcatAssociative, SMTT(30) DEF Associative

(* Concatenation of bytes is. *)
LEMMA Concatenation ==
    ASSUME NEW a \in Seq(Nat), NEW b \in Seq(Nat), NEW c \in Seq(Nat)
    PROVE  Associative(a, b, c)
BY Rebracketed, Zenon

-----------------------------------------------------------------------------
(* Reading an option *)

(* The bytes before the value of an option. *)
Prelude(delta, text) ==
    IF Len(text) <= 12 THEN <<delta * 16 + Len(text)>>
                       ELSE <<delta * 16 + 13, Len(text) - 13>>

(* They are bytes, one or two of them, and the option is they and its        *)
(* value.                                                                    *)
LEMMA PreludeType ==
    ASSUME NEW delta \in Nat, NEW text \in Seq(Nat)
    PROVE  /\ Prelude(delta, text) \in Seq(Nat)
           /\ QueryOption(delta, text) = Prelude(delta, text) \o text
           /\ Len(Prelude(delta, text)) = IF Len(text) <= 12 THEN 1 ELSE 2
<1>1. Len(text) \in Nat
  BY LenProperties
<1>2. CASE Len(text) <= 12
  BY <1>1, <1>2 DEF Prelude, QueryOption
<1>3. CASE ~(Len(text) <= 12)
  <2>1. Len(text) - 13 \in Nat /\ delta * 16 + 13 \in Nat
    BY <1>1, <1>3
  <2> QED
    BY <2>1, <1>3 DEF Prelude, QueryOption
<1> QED
  BY <1>2, <1>3

(* The first byte gives the delta and the length. *)
Splits(byte, delta, l) ==
    byte \div 16 = delta /\ byte % 16 = l /\ byte \in Nat /\ byte < 255

(* So it does for the deltas and lengths that QueryOption() is given.        *)
LEMMA Nibbles ==
    ASSUME NEW delta \in {0, 4, 11}, NEW l \in 0..13, NEW byte, byte = delta * 16 + l
    PROVE  Splits(byte, delta, l)
<1>1. CASE delta = 0
  BY <1>1, SMT DEF Splits
<1>2. CASE delta = 4
  BY <1>2, SMT DEF Splits
<1>3. CASE delta = 11
  BY <1>3, SMT DEF Splits
<1> QED
  BY <1>1, <1>2, <1>3

(* An option with these first bytes and this value is at i, and b follows    *)
(* it.                                                                       *)
Laid(p, i, h, text, b) ==
    /\ p \in Seq(Nat) /\ i \in Nat \ {0}
    /\ Len(p) = (i - 1) + Len(h) + Len(text) + Len(b)
    /\ StandsAt(p, h, i) /\ StandsAt(p, text, i + Len(h))

(* Where the bytes of an option are in a message. *)
LEMMA OptionStands ==
    ASSUME NEW a \in Seq(Nat), NEW b \in Seq(Nat), NEW text \in Seq(Nat), NEW delta \in Nat,
           NEW p, p = a \o QueryOption(delta, text) \o b, NEW i, i = Len(a) + 1,
           NEW h, h = Prelude(delta, text)
    PROVE  Laid(p, i, h, text, b)
<1>1. h \in Seq(Nat) /\ Len(h) \in Nat /\ Len(a) \in Nat /\ Len(text) \in Nat /\ Len(b) \in Nat
  BY PreludeType, LenProperties
<1>2. QueryOption(delta, text) = h \o text
  BY PreludeType
<1>3. PICK u, v : u = a \o h /\ v = text \o b
  OBVIOUS
<1>4. /\ u \in Seq(Nat) /\ Len(u) = Len(a) + Len(h)
      /\ v \in Seq(Nat) /\ Len(v) = Len(text) + Len(b)
  BY <1>1, <1>3, ConcatProperties
<1>5. p = u \o text \o b
  <2>1. Associative(a, h, text)
    BY <1>1, Concatenation
  <2>2. a \o (h \o text) = u \o text
    BY <1>3, <2>1, Zenon DEF Associative
  <2> QED
    BY <1>2, <2>2, Zenon
<1>6. p = a \o h \o v
  <2>1. Associative(u, text, b)
    BY <1>1, <1>4, Concatenation
  <2>2. (u \o text) \o b = u \o v
    BY <1>3, <2>1, Zenon DEF Associative
  <2> QED
    BY <1>3, <1>5, <2>2, Zenon
<1>7. p \in Seq(Nat) /\ Len(p) = Len(a) + Len(h) + Len(v) /\ StandsAt(p, h, Len(a) + 1)
  <2>1. PartAt(p, Nat, a, h, v)
    BY <1>1, <1>4, <1>6, PartStands, Zenon
  <2> QED
    BY <2>1 DEF PartAt
<1>8. StandsAt(p, text, Len(u) + 1)
  <2>1. PartAt(p, Nat, u, text, b)
    BY <1>4, <1>5, PartStands, Zenon
  <2> QED
    BY <2>1 DEF PartAt
<1>9. Len(u) + 1 = i + Len(h)
  BY <1>1, <1>4
<1>10. Len(p) = (i - 1) + Len(h) + Len(text) + Len(b) /\ i \in Nat \ {0}
  BY <1>1, <1>4, <1>7, SMTT(30)
<1> QED
  BY <1>7, <1>8, <1>9, <1>10 DEF Laid

(* The option at i has this value and ends before j. *)
HasOption(p, i, delta, text, j) ==
    /\ OptionAt(p, i) /\ After(p, i) = j /\ Value(p, i) = text /\ p[i] \div 16 = delta

(* A server finds an option where QueryOption() laid one: with its delta,    *)
(* its value, and the place where the next one begins.                       *)
LEMMA OptionIsThere ==
    ASSUME NEW a \in Seq(Nat), NEW b \in Seq(Nat), NEW text \in Seq(Nat),
           NEW delta \in {0, 4, 11},
           NEW p, p = a \o QueryOption(delta, text) \o b, NEW i, i = Len(a) + 1
    PROVE  HasOption(p, i, delta, text, i + Len(QueryOption(delta, text)))
<1>0. delta \in Nat
  OBVIOUS
<1>1. PICK h : h = Prelude(delta, text)
  OBVIOUS
<1>2. /\ p \in Seq(Nat) /\ i \in Nat \ {0}
      /\ Len(p) = (i - 1) + Len(h) + Len(text) + Len(b)
      /\ StandsAt(p, h, i) /\ StandsAt(p, text, i + Len(h))
  <2>1. Laid(p, i, h, text, b)
    BY <1>0, <1>1, OptionStands, Zenon
  <2> QED
    BY <2>1 DEF Laid
<1>3. PICK m \in Nat, n \in Nat, z \in Nat : m = Len(text) /\ n = Len(p) /\ z = Len(b)
  BY <1>2, LenProperties
<1>4. h \in Seq(Nat) /\ Len(h) = IF m <= 12 THEN 1 ELSE 2
  BY <1>0, <1>1, <1>3, PreludeType, Zenon
<1>5. Len(QueryOption(delta, text)) = Len(h) + m
  <2>1. QueryOption(delta, text) = h \o text
    BY <1>0, <1>1, PreludeType, Zenon
  <2> QED
    BY <1>3, <1>4, <2>1, ConcatProperties, ZenonT(60)
<1>6. PICK l \in 0..13 : h[1] = delta * 16 + l /\ (IF m <= 12 THEN l = m ELSE l = 13 /\ h[2] = m - 13)
  <2>1. CASE m <= 12
    <3>1. h = <<delta * 16 + m>>
      BY <1>1, <1>3, <2>1 DEF Prelude
    <3>2. h[1] = delta * 16 + m /\ m \in 0..13
      BY <3>1, <2>1
    <3> QED
      BY <2>1, <3>2
  <2>2. CASE ~(m <= 12)
    <3>1. h = <<delta * 16 + 13, m - 13>>
      BY <1>1, <1>3, <2>2 DEF Prelude
    <3>2. h[1] = delta * 16 + 13 /\ h[2] = m - 13
      BY <3>1
    <3> QED
      BY <2>2, <3>2
  <2> QED
    BY <2>1, <2>2
<1>7. p[i] = h[1]
  <2>1. 1 \in 1..Len(h) /\ i + 1 - 1 = i
    BY <1>2, <1>4
  <2> QED
    BY <1>2, <2>1 DEF StandsAt
<1>8. p[i] \div 16 = delta /\ p[i] % 16 = l /\ p[i] \in Nat /\ p[i] < 255
  <2>1. PICK byte : byte = p[i]
    OBVIOUS
  <2>2. byte = delta * 16 + l
    BY <1>6, <1>7, <2>1
  <2>3. Splits(byte, delta, l)
    BY <2>2, Nibbles
  <2> QED
    BY <2>1, <2>3, Zenon DEF Splits
<1>9. ValueAt(p, i) = [first |-> i + Len(h), length |-> m]
  <2>1. CASE m <= 12
    <3>1. l = m /\ l # 13 /\ Len(h) = 1
      BY <2>1, <1>4, <1>6
    <3> QED
      BY <3>1, <1>8 DEF ValueAt
  <2>2. CASE ~(m <= 12)
    <3>1. l = 13 /\ Len(h) = 2 /\ h[2] = m - 13
      BY <2>2, <1>4, <1>6
    <3>2. p[i + 1] = h[2]
      <4>1. 2 \in 1..Len(h) /\ i + 2 - 1 = i + 1
        BY <1>2, <3>1
      <4> QED
        BY <1>2, <4>1 DEF StandsAt
    <3>3. i < Len(p)
      BY <1>2, <1>3, <3>1
    <3>4. p[i + 1] + 13 = m
      BY <3>1, <3>2
    <3> QED
      BY <3>1, <3>3, <3>4, <1>8 DEF ValueAt
  <2> QED
    BY <2>1, <2>2
<1>10. After(p, i) = i + Len(h) + m
  BY <1>9 DEF After
<1>11. Value(p, i) = text
  <2>1. PICK f, j : f = ValueAt(p, i).first /\ j = After(p, i)
    OBVIOUS
  <2>3. Value(p, i) = SubSeq(p, f, j - 1)
    BY <2>1 DEF Value
  <2>4. f = i + Len(h) /\ j = f + Len(text)
    BY <1>3, <1>9, <1>10, <2>1
  <2>2. i + Len(h) \in Nat \ {0} /\ i + Len(h) + Len(text) <= Len(p) + 1
    BY <1>2, <1>3, <1>4, SMTT(30)
  <2>5. /\ f \in Nat \ {0} /\ f + Len(text) <= Len(p) + 1
        /\ p \in Seq(Nat) /\ StandsAt(p, text, f)
    BY <1>2, <2>2, <2>4
  <2>6. SubSeq(p, f, f + Len(text) - 1) = text
    BY <2>5, StandsIsSubSeq
  <2> QED
    <3>1. j - 1 = f + (Len(text) - 1)
      BY <2>4, <2>5, LenProperties
    <3>2. SubSeq(p, f, j - 1) = text
      BY <2>6, <3>1, Zenon
    <3> QED
      BY <2>3, <3>2, Zenon
<1>12. OptionAt(p, i)
  <2>1. PICK o \in 1..2 : o = Len(h)
    BY <1>4
  <2>2. n = (i - 1) + o + m + z
    BY <1>2, <1>3, <2>1
  <2>3. i <= n /\ i + o + m <= n + 1
    <3>1. PICK k \in Nat : k = i
      BY <1>2
    <3>2. n = (k - 1) + o + m + z
      BY <2>2, <3>1
    <3>3. k <= n /\ k + o + m <= n + 1
      <4>1. m \in Nat /\ n \in Nat /\ z \in Nat /\ k \in Nat /\ o \in {1, 2}
        BY <1>3, <2>1, <3>1, SMTT(30)
      <4> QED
        BY <3>2, <4>1
    <3> QED
      BY <3>1, <3>3
  <2>4. i <= Len(p) /\ After(p, i) <= Len(p) + 1
    BY <1>2, <1>3, <1>10, <2>1, <2>3, SMTT(30)
  <2>5. p[i] \div 16 <= 12 /\ p[i] % 16 <= 13
    <3>1. delta <= 12 /\ l <= 13
      BY <1>6
    <3> QED
      BY <1>8, <3>1, Zenon
  <2> QED
    BY <2>4, <2>5, Zenon DEF OptionAt
<1>13. After(p, i) = i + Len(QueryOption(delta, text))
  <2>1. PICK o \in 1..2 : o = Len(h)
    BY <1>4
  <2>2. i + o + m = i + (o + m)
    BY <1>2, <1>3, <2>1
  <2> QED
    BY <1>5, <1>10, <2>1, <2>2
<1> QED
  BY <1>8, <1>11, <1>12, <1>13 DEF HasOption

(* What is read at i with an option there: the option, then what is read     *)
(* at j.                                                                     *)
Continues(g, i, number, delta, text, j) ==
    g[i][number] = [options |-> <<[number |-> number + delta, value |-> text]>>
                                   \o g[j][number + delta].options,
                    payload |-> g[j][number + delta].payload,
                    formatError |-> g[j][number + delta].formatError]

(* Which is how a reading goes on at an option.                              *)
LEMMA OptionIsRead ==
    ASSUME NEW p \in Seq(Nat), NEW i \in 5..(Len(p) + 1), NEW delta, NEW text, NEW j,
           HasOption(p, i, delta, text, j), NEW g, IsReading(g, p), NEW number \in Nat
    PROVE  Continues(g, i, number, delta, text, j)
<1>1. /\ OptionAt(p, i) /\ After(p, i) = j /\ Value(p, i) = text /\ p[i] \div 16 = delta
  BY DEF HasOption
<1>2. g[i] = ReadAt(g, p, i)
  BY Zenon DEF IsReading
<1>3. g[i][number] =
          [options |-> <<[number |-> number + (p[i] \div 16), value |-> Value(p, i)]>>
                          \o g[After(p, i)][number + (p[i] \div 16)].options,
           payload |-> g[After(p, i)][number + (p[i] \div 16)].payload,
           formatError |-> g[After(p, i)][number + (p[i] \div 16)].formatError]
  BY <1>1, <1>2, Zenon DEF ReadAt
<1> QED
  BY <1>1, <1>3, Zenon DEF Continues

(* What is read at i is no option, and the payload b.                        *)
Stops(g, i, number, b) ==
    g[i][number] = [options |-> <<>>, payload |-> b, formatError |-> FALSE]

(* The marker ends the options, and what is behind it is the payload, if     *)
(* there is one.                                                             *)
LEMMA PayloadIsRead ==
    ASSUME NEW a \in Seq(Nat), NEW b \in Seq(Nat), b # <<>>,
           NEW p, p = a \o <<Marker>> \o b,
           Len(a) >= 4, NEW g, IsReading(g, p), NEW number \in Nat
    PROVE  Stops(g, Len(a) + 1, number, b)
<1>1. PICK i : i = Len(a) + 1
  OBVIOUS
<1>2. PartAt(p, Nat, a, <<Marker>>, b)
  <2>1. <<Marker>> \in Seq(Nat)
    BY DEF Marker
  <2> QED
    BY <2>1, PartStands, Zenon
<1>3. Len(a) \in Nat /\ Len(b) \in Nat
  BY LenProperties
<1>4. p \in Seq(Nat) /\ Len(p) = Len(a) + 1 + Len(b) /\ p[Len(a) + 1] = Marker
  BY <1>2, <1>3 DEF PartAt, StandsAt
<1>5. i \in 5..(Len(p) + 1) /\ p[i] = Marker
  BY <1>1, <1>3, <1>4
<1>6. g[i] = ReadAt(g, p, i)
  BY <1>5, Zenon DEF IsReading
<1>7. PayloadAt(p, i) /\ ~OptionAt(p, i)
  <2>1. Len(b) # 0
    BY EmptySeq, <1>3
  <2>2. i < Len(p)
    BY <1>1, <1>3, <1>4, <2>1
  <2>3. ~(255 % 16 <= 13)
    BY SMT
  <2>4. ~OptionAt(p, i)
    BY <1>5, <2>3, Zenon DEF OptionAt, Marker
  <2> QED
    BY <1>5, <2>2, <2>4 DEF PayloadAt
<1>8. g[i][number] = [options |-> <<>>, payload |-> SubSeq(p, i + 1, Len(p)),
                      formatError |-> FALSE]
  <2>1. g[i][number] = [options |-> <<>>, payload |-> SubSeq(p, i + 1, Len(p)),
                        formatError |-> ~(PayloadAt(p, i) \/ EndAt(p, i))]
    BY <1>6, <1>7, Zenon DEF ReadAt
  <2>2. ~(PayloadAt(p, i) \/ EndAt(p, i)) = FALSE
    BY <1>7, Zenon
  <2> QED
    BY <2>1, <2>2, Zenon
<1>9. SubSeq(p, i + 1, Len(p)) = b
  <2>1. PICK u : u = a \o <<Marker>>
    OBVIOUS
  <2>2. u \in Seq(Nat) /\ Len(u) = Len(a) + 1
    BY <1>3, <2>1 DEF Marker
  <2>3. p = u \o b \o <<>>
    <3>1. u \o b \in Seq(Nat) /\ p = u \o b
      BY <2>1, <2>2, ConcatProperties
    <3> QED
      BY <3>1, ConcatEmptySeq
  <2>4. PartAt(p, Nat, u, b, <<>>)
    <3>1. <<>> \in Seq(Nat)
      BY EmptySeq
    <3> QED
      BY <2>2, <2>3, <3>1, PartStands, Zenon
  <2>5. PICK k \in Nat : k = i + 1
    BY <1>1, <1>3
  <2>6. StandsAt(p, b, k)
    <3>1. k = Len(u) + 1
      BY <1>1, <1>3, <2>2, <2>5
    <3> QED
      BY <2>4, <3>1, Zenon DEF PartAt
  <2>7. k \in Nat \ {0} /\ k + Len(b) <= Len(p) + 1
    BY <1>1, <1>3, <1>4, <2>5
  <2>8. SubSeq(p, k, k + Len(b) - 1) = b
    BY <1>4, <2>6, <2>7, StandsIsSubSeq
  <2>9. k + Len(b) - 1 = Len(p)
    BY <1>1, <1>3, <1>4, <2>5
  <2> QED
    BY <2>5, <2>8, <2>9, Zenon
<1> QED
  BY <1>1, <1>8, <1>9, Zenon DEF Stops

-----------------------------------------------------------------------------
(* Reading a whole message *)

(* A message whose parts are these: header, path, query, the second query if *)
(* there is one, marker and payload.                                         *)
Whole(h, u, q, s, b) == h \o u \o q \o s \o <<Marker>> \o b

(* Each of the parts of p is the middle one of three.                        *)
CanBeCut(p, h, u, q, s, b) ==
    \E t1 \in Seq(Nat), t2 \in Seq(Nat), t3 \in Seq(Nat) :
        /\ p = h \o u \o t1 /\ p = (h \o u) \o q \o t2
        /\ p = (h \o u \o q) \o s \o t3
        /\ p = (h \o u \o q \o s) \o <<Marker>> \o b

(* It can be cut at each of its parts.                                       *)
LEMMA Cuts ==
    ASSUME NEW h \in Seq(Nat), NEW u \in Seq(Nat), NEW q \in Seq(Nat), NEW s \in Seq(Nat),
           NEW b \in Seq(Nat), NEW p, p = Whole(h, u, q, s, b)
    PROVE  CanBeCut(p, h, u, q, s, b)
<1>1. PICK m, x, y, z : m = <<Marker>> /\ x = h \o u /\ y = x \o q /\ z = y \o s
  OBVIOUS
<1>2. /\ m \in Seq(Nat) /\ x \in Seq(Nat) /\ y \in Seq(Nat) /\ z \in Seq(Nat)
  <2>1. m \in Seq(Nat)
    BY <1>1 DEF Marker
  <2>2. x \in Seq(Nat)
    BY <1>1, ConcatProperties
  <2>3. y \in Seq(Nat)
    BY <1>1, <2>2, ConcatProperties
  <2>4. z \in Seq(Nat)
    BY <1>1, <2>3, ConcatProperties
  <2> QED
    BY <2>1, <2>2, <2>3, <2>4
<1>3. PICK t3 : t3 = m \o b
  OBVIOUS
<1>4. t3 \in Seq(Nat)
  BY <1>2, <1>3, ConcatProperties
<1>5. PICK t2 : t2 = s \o t3
  OBVIOUS
<1>6. t2 \in Seq(Nat)
  BY <1>4, <1>5, ConcatProperties
<1>7. PICK t1 : t1 = q \o t2
  OBVIOUS
<1>8. t1 \in Seq(Nat)
  BY <1>6, <1>7, ConcatProperties
<1>9. p = z \o m \o b
  BY <1>1, Zenon DEF Whole
<1>10. p = z \o t3
  <2>1. Associative(z, m, b)
    BY <1>2, Concatenation
  <2> QED
    BY <1>3, <1>9, <2>1, Zenon DEF Associative
<1>11. p = y \o s \o t3
  BY <1>1, <1>10, Zenon
<1>12. p = y \o t2
  <2>1. Associative(y, s, t3)
    BY <1>2, <1>4, Concatenation
  <2> QED
    BY <1>5, <1>11, <2>1, Zenon DEF Associative
<1>13. p = x \o q \o t2
  BY <1>1, <1>12, Zenon
<1>14. p = x \o t1
  <2>1. Associative(x, q, t2)
    BY <1>2, <1>6, Concatenation
  <2> QED
    BY <1>7, <1>13, <2>1, Zenon DEF Associative
<1>15. p = h \o u \o t1
  BY <1>1, <1>14, Zenon
<1> QED
  BY <1>1, <1>4, <1>6, <1>8, <1>9, <1>11, <1>13, <1>15, Zenon DEF CanBeCut

(* p is as long as its parts and begins with h.                              *)
Sized(p, h, u, q, s, b) ==
    /\ p \in Seq(Nat)
    /\ Len(p) = Len(h) + Len(u) + Len(q) + Len(s) + 1 + Len(b)
    /\ \A k \in 1..Len(h) : p[k] = h[k]

(* The lengths of the parts of a message. *)
LEMMA WholeLength ==
    ASSUME NEW h \in Seq(Nat), NEW u \in Seq(Nat), NEW q \in Seq(Nat), NEW s \in Seq(Nat),
           NEW b \in Seq(Nat), NEW p, p = Whole(h, u, q, s, b)
    PROVE  Sized(p, h, u, q, s, b)
<1>1. PICK x, y, z, m : m = <<Marker>> /\ x = h \o u /\ y = x \o q /\ z = y \o s
  OBVIOUS
<1>2. m \in Seq(Nat) /\ Len(m) = 1
  BY <1>1 DEF Marker
<1>3. x \in Seq(Nat) /\ Len(x) = Len(h) + Len(u)
  BY <1>1, ConcatProperties
<1>4. y \in Seq(Nat) /\ Len(y) = Len(x) + Len(q)
  BY <1>1, <1>3, ConcatProperties
<1>5. z \in Seq(Nat) /\ Len(z) = Len(y) + Len(s)
  BY <1>1, <1>4, ConcatProperties
<1>6. p = z \o m \o b
  BY <1>1, Zenon DEF Whole
<1>7. PartAt(p, Nat, z, m, b)
  BY <1>2, <1>5, <1>6, PartStands, Zenon
<1>8. p \in Seq(Nat) /\ Len(p) = Len(z) + 1 + Len(b)
  BY <1>2, <1>7 DEF PartAt
<1>9. Len(p) = Len(h) + Len(u) + Len(q) + Len(s) + 1 + Len(b)
  <2>1. PICK i \in Nat, j \in Nat, k \in Nat, l \in Nat, n \in Nat :
            i = Len(h) /\ j = Len(u) /\ k = Len(q) /\ l = Len(s) /\ n = Len(b)
    BY LenProperties
  <2> QED
    BY <1>3, <1>4, <1>5, <1>8, <2>1
<1>10. PICK t1 \in Seq(Nat) : p = h \o u \o t1
  <2>1. CanBeCut(p, h, u, q, s, b)
    BY Cuts
  <2> QED
    BY <2>1, Zenon DEF CanBeCut
<1>11. PICK v : v = u \o t1
  OBVIOUS
<1>12. v \in Seq(Nat) /\ p = h \o v
  <2>1. Associative(h, u, t1)
    BY <1>10, Concatenation
  <2>2. v \in Seq(Nat)
    BY <1>10, <1>11, ConcatProperties
  <2> QED
    BY <1>10, <1>11, <2>1, <2>2, Zenon DEF Associative
<1>13. \A k \in 1..Len(h) : p[k] = h[k]
  BY <1>12, ConcatProperties, LenProperties
<1> QED
  BY <1>8, <1>9, <1>13 DEF Sized

(* What a server reads in a message with these parts.                        *)
Found(number, value) == [number |-> number, value |-> value]

Readable(p, u, q, t, b) ==
    Message(p) = [options |-> <<Found(UriPath, u), Found(UriQuery, q)>>
                                \o (IF t = <<>> THEN <<>> ELSE <<Found(UriQuery, t)>>),
                  payload |-> b, formatError |-> FALSE]

(* Two options, one put after the other.                                     *)
LEMMA Pair ==
    ASSUME NEW v, NEW w
    PROVE  <<v>> \o <<w>> = <<v, w>>
<1>1. PICK S, x, y, z : S = {v, w} /\ x = <<v>> /\ y = <<w>> /\ z = <<v, w>>
  OBVIOUS
<1>2. /\ x \in Seq(S) /\ y \in Seq(S) /\ Len(x) = 1 /\ Len(y) = 1 /\ x[1] = v /\ y[1] = w
      /\ z \in Seq(S) /\ Len(z) = 2 /\ z[1] = v /\ z[2] = w
  BY <1>1
<1>3. PICK s : s = x \o y
  OBVIOUS
<1>4. s \in Seq(S) /\ Len(s) = 2 /\ s[1] = v /\ s[2] = w
  BY <1>2, <1>3, ConcatProperties, SMTT(30)
<1>5. s = z
  <2>1. \A i \in 1..2 : s[i] = z[i]
    BY <1>2, <1>4
  <2> QED
    BY <1>2, <1>4, <2>1, SeqEqual
<1> QED
  BY <1>1, <1>3, <1>5, Zenon

(* Where the options after the path begin, in a message of length o.         *)
Placed(j, k, l, o1, o2, o3, o) ==
    /\ o1 + 1 = 5 + j /\ o2 + 1 = (o1 + 1) + k /\ o3 + 1 = (o2 + 1) + l
    /\ 5 <= o1 + 1 /\ o1 + 1 <= o2 + 1 /\ o2 + 1 <= o3 + 1 /\ o3 + 1 <= o
    /\ o1 + 1 \in Nat /\ o2 + 1 \in Nat /\ o3 + 1 \in Nat

(* They do, if the options are so long.                                      *)
LEMMA Places ==
    ASSUME NEW j \in Nat, NEW k \in Nat, NEW l \in Nat, NEW n \in Nat,
           NEW o1, NEW o2, NEW o3, NEW o,
           o1 = 4 + j, o2 = o1 + k, o3 = o2 + l, o = 4 + j + k + l + 1 + n
    PROVE  Placed(j, k, l, o1, o2, o3, o)
BY SMT DEF Placed

(* A place up to n is one where something can be read.                       *)
LEMMA InRange ==
    ASSUME NEW i \in Nat, NEW n \in Nat, 5 <= i, i <= n
    PROVE  i \in 5..(n + 1)
BY SMT

(* A message whose parts are a header, the options and a payload is read as  *)
(* these options and this payload.                                           *)
LEMMA WholeIsRead ==
    ASSUME NEW h \in Seq(Nat), Len(h) = 4, NEW u \in Seq(Nat), NEW q \in Seq(Nat),
           NEW t \in Seq(Nat), NEW b \in Seq(Nat), b # <<>>,
           NEW p, p = Whole(h, QueryOption(11, u), QueryOption(4, q),
                            IF t = <<>> THEN <<>> ELSE QueryOption(0, t), b)
    PROVE  Readable(p, u, q, t, b)
<1>1. PICK x, y, z : /\ x = QueryOption(11, u) /\ y = QueryOption(4, q)
                     /\ z = IF t = <<>> THEN <<>> ELSE QueryOption(0, t)
  OBVIOUS
<1>2. \A delta \in {0, 4, 11} : \A v \in Seq(Nat) : QueryOption(delta, v) \in Seq(Nat)
  <2> TAKE delta \in {0, 4, 11}
  <2> TAKE v \in Seq(Nat)
  <2>1. delta \in Nat
    OBVIOUS
  <2>2. QueryOption(delta, v) = Prelude(delta, v) \o v /\ Prelude(delta, v) \in Seq(Nat)
    BY <2>1, PreludeType, Zenon
  <2> QED
    BY <2>2, ConcatProperties
<1>3. x \in Seq(Nat) /\ y \in Seq(Nat) /\ z \in Seq(Nat)
  <2>1. x \in Seq(Nat) /\ y \in Seq(Nat) /\ QueryOption(0, t) \in Seq(Nat)
    BY <1>1, <1>2
  <2>2. <<>> \in Seq(Nat)
    BY EmptySeq
  <2> QED
    BY <1>1, <2>1, <2>2, Zenon
<1>4. p = Whole(h, x, y, z, b)
  BY <1>1, Zenon
<1>5. PICK t1 \in Seq(Nat), t2 \in Seq(Nat), t3 \in Seq(Nat) :
          /\ p = h \o x \o t1 /\ p = (h \o x) \o y \o t2
          /\ p = (h \o x \o y) \o z \o t3
          /\ p = (h \o x \o y \o z) \o <<Marker>> \o b
  <2>1. CanBeCut(p, h, x, y, z, b)
    BY <1>3, <1>4, Cuts
  <2> QED
    BY <2>1, Zenon DEF CanBeCut
<1>6. PICK a1, a2, a3 : a1 = h \o x /\ a2 = a1 \o y /\ a3 = a2 \o z
  OBVIOUS
<1>7. a1 \in Seq(Nat) /\ Len(a1) = 4 + Len(x)
  <2>1. h \o x \in Seq(Nat) /\ Len(h \o x) = Len(h) + Len(x)
    BY <1>3, ConcatProperties
  <2> QED
    BY <1>6, <2>1, Zenon
<1>8. a2 \in Seq(Nat) /\ Len(a2) = Len(a1) + Len(y)
  BY <1>3, <1>6, <1>7, ConcatProperties
<1>9. a3 \in Seq(Nat) /\ Len(a3) = Len(a2) + Len(z)
  BY <1>3, <1>6, <1>8, ConcatProperties
<1>10. p \in Seq(Nat) /\ Len(p) = 4 + Len(x) + Len(y) + Len(z) + 1 + Len(b)
  <2>1. Sized(p, h, x, y, z, b)
    BY <1>3, <1>4, WholeLength
  <2> QED
    BY <2>1, Zenon DEF Sized
<1>11. PICK i2 \in Nat, i3 \in Nat, i4 \in Nat :
           /\ i2 = Len(a1) + 1 /\ i3 = Len(a2) + 1 /\ i4 = Len(a3) + 1
           /\ i2 = 5 + Len(x) /\ i3 = i2 + Len(y) /\ i4 = i3 + Len(z)
           /\ 5 <= i2 /\ i2 <= i3 /\ i3 <= i4 /\ i4 <= Len(p)
  <2>1. PICK j \in Nat, k \in Nat, l \in Nat, n \in Nat :
            j = Len(x) /\ k = Len(y) /\ l = Len(z) /\ n = Len(b)
    BY <1>3, LenProperties
  <2>2. /\ Len(a1) = 4 + j /\ Len(a2) = Len(a1) + k /\ Len(a3) = Len(a2) + l
        /\ Len(p) = 4 + j + k + l + 1 + n
    BY <1>7, <1>8, <1>9, <1>10, <2>1, Zenon
  <2>3. PICK o1 \in Nat, o2 \in Nat, o3 \in Nat, o \in Nat :
            /\ o1 = Len(a1) /\ o2 = Len(a2) /\ o3 = Len(a3) /\ o = Len(p)
            /\ o1 = 4 + j /\ o2 = o1 + k /\ o3 = o2 + l /\ o = 4 + j + k + l + 1 + n
    BY <1>7, <1>8, <1>9, <1>10, <2>2, LenProperties
  <2>4. Placed(j, k, l, o1, o2, o3, o)
    BY <2>1, <2>3, Places, Zenon
  <2> QED
    BY <2>1, <2>3, <2>4, Zenon DEF Placed
<1>12. PICK g : IsReading(g, p) /\ Message(p) = g[5][0]
  BY <1>10, ReadingExists
<1>13. \A i \in {5, i2, i3, i4} : i \in 5..(Len(p) + 1)
  <2>1. PICK o \in Nat : o = Len(p)
    BY <1>10, LenProperties
  <2>2. /\ i2 <= o /\ i3 <= o /\ i4 <= o /\ 5 <= o
        /\ 5 <= i3 /\ 5 <= i4
    <3>1. \A i \in Nat, j \in Nat, k \in Nat : i <= j /\ j <= k => i <= k
      BY SMT
    <3>2. 5 \in Nat /\ i2 <= i3 /\ i3 <= i4 /\ i4 <= o /\ 5 <= i2
      BY <1>11, <2>1
    <3> QED
      BY <1>11, <2>1, <3>1, <3>2, Zenon
  <2>3. i2 \in 5..(o + 1) /\ i3 \in 5..(o + 1) /\ i4 \in 5..(o + 1) /\ 5 \in 5..(o + 1)
    <3>1. 5 <= i2 /\ 5 \in Nat /\ 5 <= 5
      BY <1>11
    <3> QED
      BY <1>11, <2>1, <2>2, <3>1, InRange, Zenon
  <2> QED
    BY <2>1, <2>3
<1>14. HasOption(p, 5, 11, u, i2)
  <2>1. p = h \o QueryOption(11, u) \o t1 /\ 5 = Len(h) + 1
    <3>1. 5 = Len(h) + 1
      OBVIOUS
    <3> QED
      BY <1>1, <1>5, <3>1, Zenon
  <2>2. HasOption(p, 5, 11, u, 5 + Len(QueryOption(11, u)))
    BY <2>1, OptionIsThere
  <2> QED
    BY <1>1, <1>11, <2>2, Zenon
<1>15. HasOption(p, i2, 4, q, i3)
  <2>1. p = a1 \o QueryOption(4, q) \o t2
    BY <1>1, <1>5, <1>6, Zenon
  <2>2. HasOption(p, i2, 4, q, i2 + Len(QueryOption(4, q)))
    BY <1>7, <1>11, <2>1, OptionIsThere
  <2> QED
    BY <1>1, <1>11, <2>2, Zenon
<1>16. ASSUME NEW n \in Nat PROVE Stops(g, i4, n, b)
  <2>1. p = a3 \o <<Marker>> \o b
    BY <1>5, <1>6, Zenon
  <2>2. Len(a3) >= 4
    <3>1. PICK k \in Nat : k = Len(a3)
      BY <1>9, LenProperties
    <3> QED
      BY <1>11, <3>1, SMTT(30)
  <2>3. Stops(g, Len(a3) + 1, n, b)
    BY <1>9, <1>12, <1>16, <2>1, <2>2, PayloadIsRead
  <2> QED
    BY <1>11, <2>3, Zenon
<1>17. Continues(g, 5, 0, 11, u, i2) /\ Continues(g, i2, 11, 4, q, i3)
  <2>1. 0 \in Nat /\ 11 \in Nat
    OBVIOUS
  <2>2. 5 \in 5..(Len(p) + 1) /\ i2 \in 5..(Len(p) + 1)
    BY <1>13, Zenon
  <2> QED
    BY <1>10, <1>12, <1>14, <1>15, <2>1, <2>2, OptionIsRead, Zenon
<1>18. /\ 0 + 11 = 11 /\ 11 + 4 = 15 /\ 15 + 0 = 15 /\ 15 \in Nat
       /\ UriPath = 11 /\ UriQuery = 15
  BY DEF UriPath, UriQuery
<1>19. PICK r : r = g[i3][15]
  OBVIOUS
<1>20. g[5][0] = [options |-> <<Found(11, u)>> \o (<<Found(15, q)>> \o r.options),
                  payload |-> r.payload, formatError |-> r.formatError]
  <2>1. g[5][0] = [options |-> <<Found(11, u)>> \o g[i2][11].options,
                   payload |-> g[i2][11].payload, formatError |-> g[i2][11].formatError]
    BY <1>17, <1>18, Zenon DEF Continues, Found
  <2>2. g[i2][11] = [options |-> <<Found(15, q)>> \o r.options, payload |-> r.payload,
                     formatError |-> r.formatError]
    BY <1>17, <1>18, <1>19, Zenon DEF Continues, Found
  <2>3. /\ g[i2][11].options = <<Found(15, q)>> \o r.options
        /\ g[i2][11].payload = r.payload /\ g[i2][11].formatError = r.formatError
    <3>1. PICK o, w, e, x2 : /\ o = <<Found(15, q)>> \o r.options /\ w = r.payload
                            /\ e = r.formatError /\ x2 = g[i2][11]
      OBVIOUS
    <3>2. x2 = [options |-> o, payload |-> w, formatError |-> e]
      BY <2>2, <3>1, Zenon
    <3>3. x2.options = o /\ x2.payload = w /\ x2.formatError = e
      BY <3>2
    <3> QED
      BY <3>1, <3>3, Zenon
  <2> QED
    BY <2>1, <2>3, Zenon
<1>21. CASE t # <<>>
  <2>1. p = a2 \o QueryOption(0, t) \o t3
    BY <1>1, <1>5, <1>6, <1>21, Zenon
  <2>2. HasOption(p, i3, 0, t, i3 + Len(QueryOption(0, t)))
    BY <1>8, <1>11, <2>1, OptionIsThere
  <2>3. HasOption(p, i3, 0, t, i4)
    BY <1>1, <1>11, <1>21, <2>2, Zenon
  <2>4. i3 \in 5..(Len(p) + 1)
    BY <1>13, Zenon
  <2>5. Continues(g, i3, 15, 0, t, i4)
    BY <1>10, <1>12, <1>18, <2>3, <2>4, OptionIsRead, Zenon
  <2>6. r = [options |-> <<Found(15, t)>> \o g[i4][15].options,
             payload |-> g[i4][15].payload, formatError |-> g[i4][15].formatError]
    BY <1>18, <1>19, <2>5, Zenon DEF Continues, Found
  <2>7. g[i4][15].options = <<>> /\ g[i4][15].payload = b /\ g[i4][15].formatError = FALSE
    BY <1>16, <1>18 DEF Stops
  <2>8. <<Found(15, t)>> \o <<>> = <<Found(15, t)>>
    OBVIOUS
  <2>9. r = [options |-> <<Found(15, t)>>, payload |-> b, formatError |-> FALSE]
    BY <2>6, <2>7, <2>8, Zenon
  <2>10. r.options = <<Found(15, t)>> /\ r.payload = b /\ r.formatError = FALSE
    BY <2>9
  <2>11. g[5][0] = [options |-> <<Found(11, u)>> \o (<<Found(15, q)>> \o <<Found(15, t)>>),
                    payload |-> b, formatError |-> FALSE]
    BY <1>20, <2>10, Zenon
  <2>12. <<Found(11, u)>> \o (<<Found(15, q)>> \o <<Found(15, t)>>)
            = <<Found(11, u), Found(15, q)>> \o <<Found(15, t)>>
    <3>1. PICK S, v, w, x1 : /\ S = {v, w, x1} /\ v = Found(11, u)
                             /\ w = Found(15, q) /\ x1 = Found(15, t)
      OBVIOUS
    <3>2. <<v>> \in Seq(S) /\ <<w>> \in Seq(S) /\ <<x1>> \in Seq(S)
      BY <3>1
    <3>3. (<<v>> \o <<w>>) \o <<x1>> = <<v>> \o (<<w>> \o <<x1>>)
      <4>1. PICK b1, b2, b3 : b1 = <<v>> /\ b2 = <<w>> /\ b3 = <<x1>>
        OBVIOUS
      <4>2. b1 \in Seq(S) /\ b2 \in Seq(S) /\ b3 \in Seq(S)
        BY <3>2, <4>1, Zenon
      <4>3. (b1 \o b2) \o b3 = b1 \o (b2 \o b3)
        <5>1. Associative(b1, b2, b3)
          BY <4>2, Rebracketed
        <5> QED
          BY <5>1, Zenon DEF Associative
      <4> QED
        BY <4>1, <4>3, Zenon
    <3>4. <<v>> \o <<w>> = <<v, w>>
      BY Pair
    <3> QED
      BY <3>1, <3>3, <3>4, Zenon
  <2> QED
    BY <1>12, <1>18, <1>21, <2>11, <2>12, Zenon DEF Readable
<1>22. CASE t = <<>>
  <2>1. z = <<>>
    BY <1>1, <1>22, Zenon
  <2>2. i3 = i4
    BY <1>11, <2>1
  <2>3. r.options = <<>> /\ r.payload = b /\ r.formatError = FALSE
    <3>1. r = [options |-> <<>>, payload |-> b, formatError |-> FALSE]
      BY <1>16, <1>18, <1>19, <2>2, Zenon DEF Stops
    <3> QED
      BY <3>1
  <2>4. g[5][0] = [options |-> <<Found(11, u)>> \o (<<Found(15, q)>> \o <<>>), payload |-> b,
                   formatError |-> FALSE]
    BY <1>20, <2>3, Zenon
  <2>5. <<Found(11, u)>> \o (<<Found(15, q)>> \o <<>>) = <<Found(11, u), Found(15, q)>> \o <<>>
    <3>1. PICK S, v, w : S = {v, w} /\ v = Found(11, u) /\ w = Found(15, q)
      OBVIOUS
    <3>2. <<w>> \in Seq(S) /\ <<v, w>> \in Seq(S)
      BY <3>1
    <3>3. <<w>> \o <<>> = <<w>> /\ <<v, w>> \o <<>> = <<v, w>>
      BY <3>2, ConcatEmptySeq, Zenon
    <3>4. <<v>> \o <<w>> = <<v, w>>
      BY Pair
    <3> QED
      BY <3>1, <3>3, <3>4, Zenon
  <2> QED
    BY <1>12, <1>18, <1>22, <2>4, <2>5, Zenon DEF Readable
<1> QED
  BY <1>21, <1>22

-----------------------------------------------------------------------------
(* The messages of the sketch *)

(* The message of a request is one of those, with the path as an option of   *)
(* delta 11 that is short enough.                                            *)
LEMMA BufferIsWhole ==
    ASSUME NEW r, NEW id, r.uri \in Seq(Nat), Len(r.uri) <= 12
    PROVE  packetBuffer(id, r) =
               Whole(Header(id), QueryOption(11, r.uri), QueryOption(4, r.query),
                     IF r.secondQuery = <<>> THEN <<>> ELSE QueryOption(0, r.secondQuery),
                     r.payload)
<1>1. 11 * 16 = 176 /\ UriQuery - UriPath = 4
  BY DEF UriQuery, UriPath
<1>2. UriOption(r.uri) = QueryOption(11, r.uri)
  BY <1>1, Zenon DEF UriOption, QueryOption
<1> QED
  BY <1>1, <1>2, Zenon DEF packetBuffer, Whole

(* The two bytes of the message ID give it back. *)
LEMMA IDIsKept ==
    ASSUME NEW id \in Nat
    PROVE  /\ highByte(id) \in Nat /\ lowByte(id) \in Nat
           /\ highByte(id) * ByteBase + lowByte(id) = id
<1>1. PICK n \in Nat \ {0} : n = ByteBase
  BY ByteAssumption
<1>2. PICK a, b : a = id \div n /\ b = id % n
  OBVIOUS
<1>3. a \in Nat /\ b \in Nat /\ id = n * a + b
  BY <1>2, SMT
<1>4. a * n + b = id
  BY <1>3, SMT
<1> QED
  BY <1>1, <1>2, <1>3, <1>4, Zenon DEF highByte, lowByte

(* Option headers take two bytes at most. *)
LEMMA OptionLength ==
    ASSUME NEW delta \in Nat, NEW text \in Seq(Nat)
    PROVE  /\ QueryOption(delta, text) \in Seq(Nat)
           /\ \E k \in 1..2 : /\ Len(QueryOption(delta, text)) = k + Len(text)
                              /\ Len(text) <= 12 => k = 1
<1>1. PICK h : h = Prelude(delta, text)
  OBVIOUS
<1>2. /\ h \in Seq(Nat) /\ QueryOption(delta, text) = h \o text
      /\ Len(h) = IF Len(text) <= 12 THEN 1 ELSE 2
  BY <1>1, PreludeType, Zenon
<1>3. h \o text \in Seq(Nat) /\ Len(h \o text) = Len(h) + Len(text)
  BY <1>2, ConcatProperties
<1> QED
  BY <1>2, <1>3

(* What is sent for a request is read as it was meant, has its message ID    *)
(* and fits.                                                                 *)
Decodes(bytes, r, id) ==
    /\ Message(bytes) = Meant(r)
    /\ bytes[3] * ByteBase + bytes[4] = id
    /\ Len(bytes) <= COAP_PACKET_SIZE

(* The header, a byte for the path, two for each query and the marker are    *)
(* the ten bytes that RequestAssumption sets aside.                          *)
LEMMA RoomIsEnough ==
    ASSUME NEW lu \in Nat, NEW lq \in Nat, NEW lt \in Nat, NEW lb \in Nat,
           NEW lx \in Nat, NEW ly \in Nat, NEW lz \in Nat,
           lu + lq + lt + lb <= 102,
           lx = 1 + lu, ly <= 2 + lq, lz <= 2 + lt
    PROVE  4 + lx + ly + lz + 1 + lb <= 112
BY SMT

(* The assumption on the requests, for one of them. *)
Fits(u, q, t, b) ==
    /\ u \in Seq(Nat) /\ q \in Seq(Nat) /\ t \in Seq(Nat) /\ b \in Seq(Nat)
    /\ Len(u) <= 12
    /\ Len(u) + Len(q) + Len(t) + Len(b) <= 102

(* Every request the sketch makes does.                                      *)
LEMMA RequestFits ==
    ASSUME NEW r \in Requests
    PROVE  Fits(r.uri, r.query, r.secondQuery, r.payload)
<1>1. /\ r \in Request /\ Len(r.uri) <= 12
      /\ Len(r.uri) + Len(r.query) + Len(r.secondQuery) + Len(r.payload)
           <= COAP_PACKET_SIZE - 10
  BY RequestAssumption, Zenon
<1>2. 0..254 \subseteq Nat
  OBVIOUS
<1>3. Seq(0..254) \subseteq Seq(Nat)
  BY <1>2, SeqMonotonic
<1>4. /\ r.uri \in Seq(0..254) /\ r.query \in Seq(0..254)
      /\ r.secondQuery \in Seq(0..254) /\ r.payload \in Seq(0..254)
  BY <1>1 DEF Request
<1>5. COAP_PACKET_SIZE - 10 = 102
  BY DEF COAP_PACKET_SIZE
<1>6. /\ r.uri \in Seq(Nat) /\ r.query \in Seq(Nat)
      /\ r.secondQuery \in Seq(Nat) /\ r.payload \in Seq(Nat)
  BY <1>3, <1>4, Zenon
<1>7. Len(r.uri) + Len(r.query) + Len(r.secondQuery) + Len(r.payload) <= 102
  BY <1>1, <1>5, Zenon
<1> QED
  BY <1>1, <1>6, <1>7, Zenon DEF Fits

(* The message built for any request and under any message ID is so.         *)
LEMMA RequestIsRead ==
    ASSUME NEW r \in Requests, NEW id \in Nat
    PROVE  Decodes(packetBuffer(id, r), r, id)
<1>1. PICK u, q, t, b : u = r.uri /\ q = r.query /\ t = r.secondQuery /\ b = r.payload
  OBVIOUS
<1>2. /\ u \in Seq(Nat) /\ q \in Seq(Nat) /\ t \in Seq(Nat) /\ b \in Seq(Nat)
      /\ Len(u) <= 12
      /\ Len(u) + Len(q) + Len(t) + Len(b) <= 102
  <2>1. Fits(u, q, t, b)
    BY <1>1, RequestFits, Zenon
  <2> QED
    BY <2>1, Zenon DEF Fits
<1>3. PICK h : h = Header(id)
  OBVIOUS
<1>4. h \in Seq(Nat) /\ Len(h) = 4 /\ h[3] = highByte(id) /\ h[4] = lowByte(id)
  <2>1. highByte(id) \in Nat /\ lowByte(id) \in Nat
    BY IDIsKept
  <2> QED
    BY <1>3, <2>1 DEF Header
<1>5. PICK x, y, z, p : /\ x = QueryOption(11, u) /\ y = QueryOption(4, q)
                        /\ z = IF t = <<>> THEN <<>> ELSE QueryOption(0, t)
                        /\ p = Whole(h, x, y, z, b)
  OBVIOUS
<1>6. p = packetBuffer(id, r)
  <2>1. packetBuffer(id, r) =
            Whole(Header(id), QueryOption(11, u), QueryOption(4, q),
                  IF t = <<>> THEN <<>> ELSE QueryOption(0, t), b)
    BY <1>1, <1>2, BufferIsWhole, Zenon
  <2> QED
    BY <1>3, <1>5, <2>1, Zenon
<1>7. Readable(p, u, q, t, b)
  <2>1. p = Whole(h, QueryOption(11, u), QueryOption(4, q),
                  IF t = <<>> THEN <<>> ELSE QueryOption(0, t), b)
    BY <1>5, Zenon
  <2>2. b # <<>>
    BY <1>1, RequestAssumption, Zenon
  <2> QED
    BY <1>2, <1>4, <2>1, <2>2, WholeIsRead, Zenon
<1>8. Message(p) = Meant(r)
  BY <1>1, <1>7, Zenon DEF Readable, Meant, Found
<1>9. x \in Seq(Nat) /\ y \in Seq(Nat) /\ Len(x) = 1 + Len(u) /\ Len(y) <= 2 + Len(q)
  <2>1. 11 \in Nat /\ 4 \in Nat
    OBVIOUS
  <2>2. PICK k1 \in 1..2 : Len(x) = k1 + Len(u) /\ (Len(u) <= 12 => k1 = 1)
    BY <1>2, <1>5, <2>1, OptionLength, Zenon
  <2>3. PICK k2 \in 1..2 : Len(y) = k2 + Len(q)
    BY <1>2, <1>5, <2>1, OptionLength, Zenon
  <2>4. x \in Seq(Nat) /\ y \in Seq(Nat)
    BY <1>2, <1>5, <2>1, OptionLength, Zenon
  <2>5. Len(q) \in Nat
    BY <1>2, LenProperties
  <2> QED
    BY <1>2, <2>2, <2>3, <2>4, <2>5
<1>10. z \in Seq(Nat) /\ Len(z) <= 2 + Len(t)
  <2>1. CASE t = <<>>
    <3>1. z = <<>>
      BY <1>5, <2>1, Zenon
    <3>2. Len(t) = 0 /\ Len(z) = 0
      BY <2>1, <3>1
    <3> QED
      BY <3>1, <3>2
  <2>2. CASE t # <<>>
    <3>1. z = QueryOption(0, t) /\ 0 \in Nat
      BY <1>5, <2>2
    <3>2. z \in Seq(Nat) /\ \E k \in 1..2 : Len(z) = k + Len(t)
      BY <1>2, <3>1, OptionLength, Zenon
    <3>3. Len(t) \in Nat
      BY <1>2, LenProperties
    <3> QED
      BY <3>2, <3>3
  <2> QED
    BY <2>1, <2>2
<1>11. /\ p \in Seq(Nat) /\ Len(p) = 4 + Len(x) + Len(y) + Len(z) + 1 + Len(b)
       /\ \A k \in 1..4 : p[k] = h[k]
  <2>1. Sized(p, h, x, y, z, b)
    BY <1>2, <1>4, <1>5, <1>9, <1>10, WholeLength
  <2> QED
    BY <1>4, <2>1, Zenon DEF Sized
<1>12. Len(p) <= COAP_PACKET_SIZE
  <2>1. PICK lu \in Nat, lq \in Nat, lt \in Nat, lb \in Nat :
            lu = Len(u) /\ lq = Len(q) /\ lt = Len(t) /\ lb = Len(b)
    BY <1>2, LenProperties, Zenon
  <2>2. PICK lx \in Nat, ly \in Nat, lz \in Nat : lx = Len(x) /\ ly = Len(y) /\ lz = Len(z)
    BY <1>9, <1>10, LenProperties, Zenon
  <2>3. 4 + lx + ly + lz + 1 + lb <= 112
    BY <1>2, <1>9, <1>10, <2>1, <2>2, RoomIsEnough
  <2> QED
    BY <1>11, <2>1, <2>2, <2>3, Zenon DEF COAP_PACKET_SIZE
<1>13. p[3] * ByteBase + p[4] = id
  <2>1. 3 \in 1..4 /\ 4 \in 1..4
    OBVIOUS
  <2>2. p[3] = highByte(id) /\ p[4] = lowByte(id)
    BY <1>4, <1>11, <2>1, Zenon
  <2> QED
    BY <2>2, IDIsKept, Zenon
<1> QED
  BY <1>6, <1>8, <1>12, <1>13, Zenon DEF Decodes

(* What is in packetBuffer is built under the message ID the engine then     *)
(* has, and both stay until udp_send() returns.                              *)
LEMMA StepDecodes == TypeOK /\ RequestDecodes /\ [Next]_vars => RequestDecodes'
<1> SUFFICES ASSUME TypeOK, RequestDecodes, [Next]_vars PROVE RequestDecodes'
  OBVIOUS
<1>1. CASE BuildRequest
  <2>1. PICK r \in Requests :
            message' = [request |-> {r}, bytes |-> packetBuffer(messageID', r)]
    BY <1>1, Zenon DEF BuildRequest
  <2>2. message'.request = {r} /\ message'.bytes = packetBuffer(messageID', r)
    BY <2>1
  <2>3. messageID' \in Nat
    <3>1. messageID \in Nat
      BY ByteAssumption, SMT DEF TypeOK
    <3>2. PICK m : m = ByteBase * ByteBase - 1
      OBVIOUS
    <3>3. NextID(messageID) \in 0..m
      BY <3>1, <3>2, NextIDInRange, Zenon
    <3> QED
      BY <1>1, <3>3, SMT DEF BuildRequest
  <2>4. Decodes(packetBuffer(messageID', r), r, messageID')
    BY <2>3, RequestIsRead, Zenon
  <2>5. ASSUME NEW s \in message'.request PROVE Decodes(message'.bytes, s, messageID')
    <3>1. s = r
      BY <2>2
    <3> QED
      BY <2>2, <2>4, <3>1, Zenon
  <2> QED
    BY <2>5, Zenon DEF RequestDecodes, Decodes
<1>2. CASE SendRequest
  BY <1>2 DEF SendRequest, Idle, RequestDecodes
<1>3. CASE Connect \/ NotYet \/ RestartTimer \/ UNCHANGED vars
  <2>1. message' = message /\ messageID' = messageID
    BY <1>3, Zenon DEF Connect, NotYet, RestartTimer, vars
  <2> QED
    BY <2>1, Zenon DEF RequestDecodes
<1> QED
  BY <1>1, <1>2, <1>3, Zenon DEF Next
-----------------------------------------------------------------------------
(* The theorems *)

(* The invariant holds in every reachable state. *)
THEOREM Invariance == Spec => []IInv
BY InitIInv, StepIInv, PTL DEF Spec

(* The variables have their types. *)
THEOREM TypeCorrect == Spec => []TypeOK
<1>1. IInv => TypeOK
  BY DEF IInv
<1> QED
  BY <1>1, Invariance, PTL

(* However the clock wraps, requests are at least the period apart. *)
THEOREM Apart == Spec => SendsApart
<1>1. IInv /\ [Next]_vars
        => [pc = "send" /\ pc' = "restart" => since >= DATA_SEND_PERIOD]_vars
  BY DEF IInv
<1> QED
  BY <1>1, Invariance, PTL DEF Spec, SendsApart

(* A connected sketch waits no longer than the period and one step. *)
THEOREM Soon == Spec => []RequestSoon
<1>1. IInv => RequestSoon
  BY DEF IInv, RequestSoon
<1> QED
  BY <1>1, Invariance, PTL

(* A server reads in every message what the sketch asked for, under the      *)
(* request's message ID, and the message fits packetBuffer.                  *)
THEOREM Decoded == Spec => []RequestDecodes
<1>1. Init => RequestDecodes
  BY DEF Init, Idle, RequestDecodes
<1> QED
  BY <1>1, StepDecodes, TypeCorrect, PTL DEF Spec
=============================================================================
