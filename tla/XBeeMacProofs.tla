----------------------------- MODULE XBeeMacProofs -----------------------------
(* XBeeMACLayer keeps its variables in their types, and its address is right *)
(* unless a command was repeated, for every number of attempts, whatever the *)
(* radio answers and when, and whatever it passes on in between.             *)
EXTENDS XBeeMac, SequenceTheorems, Induction

-----------------------------------------------------------------------------
(* Sequences of frames *)

(* A frame that is passed on comes after the others. *)
LEMMA AppendFrame ==
    ASSUME NEW s \in Seq(ApiFrame), NEW f \in ApiFrame, NEW type,
           NEW i \in OfType(Append(s, f), type)
    PROVE  \/ i \in OfType(s, type) /\ Append(s, f)[i] = s[i]
           \/ i = Len(s) + 1 /\ Append(s, f)[i] = f /\ f.type = type
<1>1. /\ Len(Append(s, f)) = Len(s) + 1
      /\ \A j \in 1..Len(s) : Append(s, f)[j] = s[j]
      /\ Append(s, f)[Len(s) + 1] = f
  BY AppendProperties
<1>2. i \in 1..(Len(s) + 1) /\ Append(s, f)[i].type = type /\ Len(s) \in Nat
  BY <1>1, LenProperties DEF OfType
<1>3. CASE i \in 1..Len(s)
  BY <1>1, <1>2, <1>3 DEF OfType
<1>4. CASE i = Len(s) + 1
  BY <1>1, <1>2, <1>4
<1> QED
  BY <1>2, <1>3, <1>4, SMT

(* What is left when a frame is read. *)
LEMMA TailFrame ==
    ASSUME NEW s \in Seq(ApiFrame), s # <<>>, NEW type, NEW i \in OfType(Tail(s), type)
    PROVE  i \in Nat /\ i >= 1 /\ i + 1 \in OfType(s, type) /\ Tail(s)[i] = s[i + 1]
<1>1. /\ Len(Tail(s)) = Len(s) - 1
      /\ \A j \in 1..Len(Tail(s)) : Tail(s)[j] = s[j + 1]
      /\ Len(s) \in Nat
  BY HeadTailProperties, LenProperties
<1>2. i \in 1..Len(Tail(s)) /\ Tail(s)[i].type = type
  BY DEF OfType
<1>3. i \in Nat /\ i >= 1 /\ i + 1 \in 1..Len(s)
  BY <1>1, <1>2, SMT
<1> QED
  BY <1>1, <1>2, <1>3 DEF OfType

(* The frame that is read first. *)
LEMMA HeadFrame ==
    ASSUME NEW s \in Seq(ApiFrame), s # <<>>
    PROVE  /\ Head(s) \in ApiFrame /\ Tail(s) \in Seq(ApiFrame)
           /\ Head(s) = s[1]
           /\ 1 \in OfType(s, Head(s).type)
<1>1. Head(s) \in ApiFrame /\ Tail(s) \in Seq(ApiFrame)
  BY HeadTailProperties
<1>2. Head(s) = s[1]
  BY SMT
<1>3. Len(s) \in Nat /\ Len(s) # 0
  BY EmptySeq
<1>4. 1 \in 1..Len(s)
  BY <1>3, SMT
<1> QED
  BY <1>1, <1>2, <1>4 DEF OfType

(* A frame of another type changes nothing about the frames of a type.       *)
NothingNew(t, s, type) == \A i \in OfType(t, type) : i \in OfType(s, type) /\ t[i] = s[i]

LEMMA AppendOther ==
    ASSUME NEW s \in Seq(ApiFrame), NEW f \in ApiFrame, NEW type, f.type # type
    PROVE  NothingNew(Append(s, f), s, type)
BY AppendFrame DEF NothingNew

(* The first frame of a type is the only one.                                *)
LEMMA AppendFirst ==
    ASSUME NEW s \in Seq(ApiFrame), NEW f \in ApiFrame, NEW type, OfType(s, type) = {}
    PROVE  /\ AtMostOne(Append(s, f), type)
           /\ \A i \in OfType(Append(s, f), type) : Append(s, f)[i] = f
BY AppendFrame DEF AtMostOne

(* A read leaves at most one frame of a type if there was one at most, and   *)
(* none of the type that it takes.                                           *)
LEMMA TailOne ==
    ASSUME NEW s \in Seq(ApiFrame), s # <<>>, NEW type, AtMostOne(s, type)
    PROVE  /\ AtMostOne(Tail(s), type)
           /\ Head(s).type = type => OfType(Tail(s), type) = {}
<1>1. \A i \in OfType(Tail(s), type) : i \in Nat /\ i >= 1 /\ i + 1 \in OfType(s, type)
  BY TailFrame
<1>2. AtMostOne(Tail(s), type)
  <2> SUFFICES ASSUME NEW i \in OfType(Tail(s), type), NEW j \in OfType(Tail(s), type)
               PROVE  i = j
    BY DEF AtMostOne
  <2>1. i \in Nat /\ j \in Nat /\ i + 1 = j + 1
    BY <1>1 DEF AtMostOne
  <2> QED
    BY <2>1, SMT
<1>3. ASSUME Head(s).type = type, NEW i \in OfType(Tail(s), type) PROVE FALSE
  <2>1. i \in Nat /\ i >= 1 /\ i + 1 = 1
    BY <1>1, <1>3, HeadFrame DEF AtMostOne
  <2> QED
    BY <2>1, SMT
<1> QED
  BY <1>2, <1>3

(* What the fields of a frame may be. *)
LEMMA FrameFields ==
    ASSUME NEW f \in ApiFrame
    PROVE  /\ f.type = "AT" => /\ f.command \in Half \cup {"EC"}
                               /\ f.ok \in BOOLEAN
                               /\ f.command = "EC" => f.value \in Nat
                               /\ f.command # "EC" => f.value \in Half
           /\ f.type = "TX_STATUS" => f.of \in 1..MaxSends /\ f.result \in TxResult
BY DEF ApiFrame, Answer, TxStatus, Rx, Half

-----------------------------------------------------------------------------
(* Sums of failures *)

(* What transmitted may be. *)
Transmissions == [1..MaxSends -> [result : TxResult \cup {"none"}, failures : Nat]]

(* The sum over a set is a function of its subsets: each takes one element   *)
(* away, always the same one, and adds what is left.                         *)
pick(s) == CHOOSE x \in s : TRUE
Counted(t, S) == \A i \in S : t[i].failures \in Nat
IsSum(g, t, S) ==
    g = [s \in SUBSET S |-> IF s = {} THEN 0 ELSE t[pick(s)].failures + g[s \ {pick(s)}]]

(* There is such a function. *)
LEMMA SumExists ==
    ASSUME NEW S, IsFiniteSet(S), NEW t, Counted(t, S)
    PROVE  \E g : IsSum(g, t, S) /\ g \in [SUBSET S -> Nat]
<1> DEFINE c == [s \in SUBSET S |-> pick(s)]
           h == [i \in S |-> [v \in Nat |-> t[i].failures + v]]
<1>1. IsChoice(c, S)
  BY DEF pick, IsChoice
<1>2. \A i \in S, v \in Nat : h[i][v] = t[i].failures + v /\ h[i][v] \in Nat
  BY DEF Counted
<1>3. PICK g \in [SUBSET S -> Nat] : IsFold(g, S, 0, c, h)
  <2>1. 0 \in Nat
    OBVIOUS
  <2>2. h \in [S -> [Nat -> Nat]]
    BY <1>2
  <2> HIDE DEF c, h
  <2> QED
    BY <1>1, <2>1, <2>2, FoldExists
<1>4. ASSUME NEW s \in SUBSET S, s # {}
      PROVE  g[s] = t[pick(s)].failures + g[s \ {pick(s)}]
  <2>1. c[s] = pick(s) /\ pick(s) \in S /\ g[s \ {c[s]}] \in Nat
    BY <1>1, <1>4 DEF IsChoice
  <2> HIDE DEF c, h
  <2> QED
    BY <1>2, <1>3, <1>4, <2>1, ZenonT(60) DEF IsFold
<1>5. IsSum(g, t, S)
  BY <1>3, <1>4 DEF IsSum, IsFold
<1> QED
  BY <1>5

(* A sum depends on the terms only. *)
LEMMA SumUnique ==
    ASSUME NEW S, NEW T, NEW s, IsFiniteSet(s), s \subseteq S, s \subseteq T,
           NEW t, NEW u, \A i \in s : t[i].failures = u[i].failures,
           NEW f, IsSum(f, t, S), NEW g, IsSum(g, u, T)
    PROVE  f[s] = g[s]
<1> DEFINE c == [r \in SUBSET s |-> pick(r)]
<1>1. IsChoice(c, s)
  BY DEF pick, IsChoice
<1>2. f[{}] = g[{}]
  BY DEF IsSum
<1>3. ASSUME NEW r \in SUBSET s, r # {}, f[r \ {c[r]}] = g[r \ {c[r]}]
      PROVE  f[r] = g[r]
  <2>1. c[r] = pick(r) /\ pick(r) \in s
    BY <1>1, <1>3 DEF IsChoice
  <2>2. f[r] = t[pick(r)].failures + f[r \ {pick(r)}]
    BY <1>3 DEF IsSum
  <2>3. g[r] = u[pick(r)].failures + g[r \ {pick(r)}]
    BY <1>3 DEF IsSum
  <2> HIDE DEF c
  <2> QED
    BY <1>3, <2>1, <2>2, <2>3
<1>4. \A r \in SUBSET s : f[r] = g[r]
  <2>1. SameSteps(f, g, c, s)
    BY <1>2, <1>3 DEF SameSteps
  <2> HIDE DEF c
  <2> QED
    BY <1>1, <2>1, SameFold
<1> QED
  BY <1>4

(* Whichever element is taken away first. *)
Splits(g, t, S, x) == g[S] = t[x].failures + g[S \ {x}]

LEMMA SumRemove ==
    ASSUME NEW S, IsFiniteSet(S), NEW t, Counted(t, S),
           NEW g \in [SUBSET S -> Nat], IsSum(g, t, S), NEW x \in S
    PROVE  Splits(g, t, S, x)
<1> DEFINE T == {s \in SUBSET S : \A y \in s : g[s] = t[y].failures + g[s \ {y}]}
<1>1. ASSUME NEW s \in SUBSET S, s # {}, \A y \in s : s \ {y} \in T
      PROVE  s \in T
  <2> DEFINE c == pick(s)
  <2>1. c \in s
    BY <1>1 DEF pick
  <2>2. g[s] = t[c].failures + g[s \ {c}]
    BY <1>1 DEF IsSum
  <2> HIDE DEF c
  <2>3. ASSUME NEW y \in s, y # c PROVE g[s] = t[y].failures + g[s \ {y}]
    <3>1. /\ g[s \ {c}] = t[y].failures + g[(s \ {c}) \ {y}]
          /\ g[s \ {y}] = t[c].failures + g[(s \ {y}) \ {c}]
      BY <1>1, <2>1, <2>3
    <3>2. (s \ {c}) \ {y} = (s \ {y}) \ {c} /\ (s \ {c}) \ {y} \in SUBSET S
      OBVIOUS
    <3>3. t[c].failures \in Nat /\ t[y].failures \in Nat /\ g[(s \ {c}) \ {y}] \in Nat
      BY <2>1, <3>2 DEF Counted
    <3>4. \A i, j, k \in Nat : i + (j + k) = j + (i + k)
      BY SMT
    <3>5. t[c].failures + (t[y].failures + g[(s \ {c}) \ {y}])
             = t[y].failures + (t[c].failures + g[(s \ {c}) \ {y}])
      BY <3>3, <3>4
    <3> QED
      BY <2>2, <3>1, <3>2, <3>5
  <2> QED
    BY <2>1, <2>2, <2>3
<1>2. T = SUBSET S
  <2>1. T \in SUBSET SUBSET S
    OBVIOUS
  <2>2. {} \in T
    OBVIOUS
  <2>3. \A s \in SUBSET S : s # {} /\ (\A y \in s : s \ {y} \in T) => s \in T
    BY <1>1
  <2> HIDE DEF T
  <2> QED
    BY <2>1, <2>2, <2>3, SubsetInduction, Zenon
<1> QED
  BY <1>2 DEF Splits

(* Failures is such a sum. *)
LEMMA FailuresIsSum ==
    ASSUME NEW n \in 0..MaxSends, NEW t \in Transmissions
    PROVE  \E g \in [SUBSET (1..n) -> Nat] : IsSum(g, t, 1..n) /\ Failures(t, n) = g[1..n]
<1> DEFINE S == 1..n
           iter == CHOOSE g : IsSum(g, t, S)
<1>1. Failures(t, n) = iter[S]
  BY DEF Failures, MapThenSumSet, MapThenFoldSet, IsSum, pick
<1>2. IsFiniteSet(S) /\ Counted(t, S)
  <2>1. MaxSends \in Nat
    BY BoundsAssumption
  <2> QED
    <3>1. 1 \in Int /\ n \in Int /\ \A i \in S : i \in 1..MaxSends
      BY <2>1, SMT
    <3>2. IsFiniteSet(S)
      BY <3>1, FS_Interval
    <3> QED
      BY <3>1, <3>2 DEF Transmissions, Counted
<1>3. PICK g : IsSum(g, t, S) /\ g \in [SUBSET S -> Nat]
  <2> HIDE DEF S
  <2> QED
    BY <1>2, SumExists
<1>4. IsSum(iter, t, S)
  BY <1>3
<1>5. iter \in [SUBSET S -> Nat]
  <2>1. \A s \in SUBSET S : iter[s] = g[s]
    <3> SUFFICES ASSUME NEW s \in SUBSET S PROVE iter[s] = g[s]
      OBVIOUS
    <3>1. IsFiniteSet(s)
      BY <1>2, FS_Subset
    <3> HIDE DEF S, iter
    <3> QED
      BY <1>3, <1>4, <3>1, SumUnique
  <2>2. \A s \in SUBSET S : iter[s] \in Nat
    BY <1>3, <2>1
  <2> HIDE DEF iter
  <2> QED
    BY <1>4, <2>2 DEF IsSum
<1> HIDE DEF iter
<1> QED
  BY <1>1, <1>4, <1>5

(* It is a number. *)
LEMMA FailuresType ==
    ASSUME NEW n \in 0..MaxSends, NEW t \in Transmissions
    PROVE  Failures(t, n) \in Nat
<1>1. PICK g \in [SUBSET (1..n) -> Nat] : IsSum(g, t, 1..n) /\ Failures(t, n) = g[1..n]
  BY FailuresIsSum
<1> QED
  BY <1>1

(* No transmission, no failure. *)
LEMMA FailuresNone == ASSUME NEW t \in Transmissions PROVE Failures(t, 0) = 0
<1>1. 0 \in 0..MaxSends /\ 1..0 = {}
  BY BoundsAssumption, SMT
<1> QED
  BY <1>1, FailuresIsSum, ZenonT(60) DEF IsSum

(* The failures of the first transmissions do not depend on the others.      *)
LEMMA FailuresSame ==
    ASSUME NEW n \in 0..MaxSends, NEW t \in Transmissions, NEW u \in Transmissions,
           \A i \in 1..n : t[i].failures = u[i].failures
    PROVE  Failures(t, n) = Failures(u, n)
<1>1. IsFiniteSet(1..n)
  BY FS_Interval
<1>2. PICK f \in [SUBSET (1..n) -> Nat] : IsSum(f, t, 1..n) /\ Failures(t, n) = f[1..n]
  BY FailuresIsSum
<1>3. PICK g \in [SUBSET (1..n) -> Nat] : IsSum(g, u, 1..n) /\ Failures(u, n) = g[1..n]
  BY FailuresIsSum
<1> QED
  BY <1>1, <1>2, <1>3, SumUnique

(* One more transmission adds its own failures. *)
LEMMA FailuresLast ==
    ASSUME NEW n \in 0..MaxSends, n + 1 \in 0..MaxSends, NEW t \in Transmissions
    PROVE  Failures(t, n + 1) = t[n + 1].failures + Failures(t, n)
<1> DEFINE S == 1..(n + 1)
           T == 1..n
<1>1. IsFiniteSet(S) /\ IsFiniteSet(T) /\ T \subseteq S /\ S \ {n + 1} = T /\ n + 1 \in S
  <2>1. /\ 1 \in Int /\ n \in Int /\ n + 1 \in Int /\ T \subseteq S
        /\ S \ {n + 1} = T /\ n + 1 \in S
    BY BoundsAssumption, SMT
  <2>2. IsFiniteSet(S) /\ IsFiniteSet(T)
    BY <2>1, FS_Interval
  <2> QED
    BY <2>1, <2>2
<1>2. PICK f \in [SUBSET S -> Nat] : IsSum(f, t, S) /\ Failures(t, n + 1) = f[S]
  BY FailuresIsSum
<1>3. PICK g \in [SUBSET T -> Nat] : IsSum(g, t, T) /\ Failures(t, n) = g[T]
  BY FailuresIsSum
<1>4. Counted(t, S)
  BY BoundsAssumption DEF Transmissions, Counted
<1> HIDE DEF S, T
<1>5. f[S] = t[n + 1].failures + f[T]
  <2>1. f[S] = t[n + 1].failures + f[S \ {n + 1}]
    <3> DEFINE x == n + 1
    <3>1. IsFiniteSet(S) /\ x \in S /\ IsSum(f, t, S) /\ f \in [SUBSET S -> Nat]
      BY <1>1, <1>2
    <3> HIDE DEF x
    <3>2. Splits(f, t, S, x)
      BY <1>4, <3>1, SumRemove
    <3> QED
      BY <3>2 DEF x, Splits
  <2> QED
    BY <1>1, <2>1
<1>6. f[T] = g[T]
  BY <1>1, <1>2, <1>3, SumUnique
<1> QED
  BY <1>2, <1>3, <1>5, <1>6

-----------------------------------------------------------------------------
(* What a read leaves in the inbox *)

(* A read takes a frame from the inbox or leaves it as it is. *)
LEMMA ReadKeepsType ==
    ASSUME TypeOK, (\E t \in {"AT", "TX_STATUS"} : Read(t)) \/ TimedOut \/ Skipped
    PROVE  inbox' \in Seq(ApiFrame)
BY HeadFrame DEF TypeOK, Read, TimedOut, Skipped

(* A step that reads or skips at most one frame, and changes neither command *)
(* nor what is pending, keeps to one answer at a time.                       *)
LEMMA ReadKeepsOne ==
    ASSUME TypeOK, OneAtATime, inbox' = inbox \/ (inbox # <<>> /\ inbox' = Tail(inbox)),
           UNCHANGED <<command, atPending>>,
           pc' = "off" => pc = "off",
           pc' = "at_send" /\ requests' = 0 => pc = "at_send" /\ requests = 0
    PROVE  OneAtATime'
<1>1. CASE inbox' = inbox
  BY <1>1 DEF OneAtATime, AtMostOne, Answers, OfType
<1>2. CASE inbox # <<>> /\ inbox' = Tail(inbox)
  <2>1. \A i \in Answers' : /\ i \in Nat /\ i + 1 \in Answers
                            /\ inbox'[i] = inbox[i + 1]
    BY <1>2, TailFrame DEF TypeOK, Answers
  <2>2. Answers = {} => Answers' = {}
    BY <2>1
  <2>3. \A i \in Answers' : inbox'[i].command = command /\ inbox'[i].value = command
    BY <2>1 DEF OneAtATime
  <2>4. AtMostOne(inbox, "AT")'
    BY <1>2, TailOne DEF TypeOK, OneAtATime
  <2> QED
    BY <2>2, <2>3, <2>4 DEF OneAtATime
<1> QED
  BY <1>1, <1>2
-----------------------------------------------------------------------------
(* The types *)

(* The bounds without their names. *)
LEMMA Constants ==
    /\ RequestAttempts \in Nat \ {0} /\ ResponseAttempts \in Nat \ {0}
    /\ MaxSends \in Nat /\ MaxFailures \in Nat
BY BoundsAssumption

(* The state at power on. *)
LEMMA InitIInv == Init => IInv
<1> SUFFICES ASSUME Init PROVE IInv
  OBVIOUS
<1> USE Constants
<1>1. TypeOK
  <2>1. /\ inbox \in Seq(ApiFrame)
        /\ atPending \in Seq(Half \cup {"EC"})
        /\ txPending \in Seq(1..MaxSends)
    BY EmptySeq DEF Init
  <2>2. /\ 0 \in 0..RequestAttempts /\ 0 \in 0..ResponseAttempts /\ 0 \in 0..MaxSends
        /\ 0 \in Nat /\ 0 \in 0..2
    BY SMT
  <2>3. command \in Half \cup {"EC"}
    BY DEF Init, Half
  <2>4. /\ my_mac \in [0..1 -> Half \cup {Unset}]
        /\ transmitted \in [1..MaxSends -> [result : TxResult \cup {"none"}, failures : Nat]]
    BY <2>2 DEF Init
  <2> QED
    BY <2>1, <2>2, <2>3, <2>4 DEF Init, TypeOK
<1>2. Lifecycle
  BY DEF Init, Lifecycle, InCommand
<1>3. AddressSoFar
  BY SMT DEF Init, AddressSoFar
<1>4. OneAtATime
  <2>1. Answers = {}
    BY SMT DEF Init, Answers, OfType
  <2> QED
    BY <2>1 DEF Init, OneAtATime, AtMostOne, Answers
<1> QED
  BY <1>1, <1>2, <1>3, <1>4 DEF IInv

(* A positive answer of the right length fills in the half in hand, which is *)
(* missing; any other ends the command in vain.                              *)
LEMMA AtReturnsTypes ==
    ASSUME TypeOK, NEW success \in BOOLEAN, AtReturns(success), cca_retries' \in Nat
    PROVE  /\ command' \in Half \cup {"EC"}
           /\ pc' \in {"idle", "halted", "at_send"}
           /\ number_transmissions' \in Nat
           /\ requests' \in 0..RequestAttempts
           /\ UNCHANGED <<reads, status, atPending, txPending, ec, transmitted,
                          sends, about, repeated, givenUp>>
<1>1. 0 \in 0..RequestAttempts /\ CCA_RETRIES_FAIL \in Nat
  BY Constants, SMT DEF CCA_RETRIES_FAIL
<1>2. command' \in Half \cup {"EC"}
  BY DEF AtReturns, CommandAfter, TypeOK, Half
<1>3. pc' \in {"idle", "halted", "at_send"}
  <2>1. CASE command = "EC"
    BY <2>1 DEF AtReturns
  <2>2. CASE command # "EC" /\ ~success
    BY <2>2 DEF AtReturns
  <2>3. CASE command # "EC" /\ success
    BY <2>3 DEF AtReturns
  <2> QED
    BY <2>1, <2>2, <2>3
<1>4. number_transmissions' \in Nat
  BY <1>1 DEF AtReturns, Count, TypeOK
<1> QED
  BY <1>1, <1>2, <1>3, <1>4 DEF AtReturns, history

(* Every step keeps the types; the loop counters need Lifecycle, and so does *)
(* mac_position, which indexes my_mac.                                       *)
LEMMA StepTypeOK == TypeOK /\ Lifecycle /\ [Next]_vars => TypeOK'
<1> SUFFICES ASSUME TypeOK, Lifecycle, [Next]_vars PROVE TypeOK'
  OBVIOUS
<1> USE Constants
<1>0. /\ 0 \in 0..RequestAttempts /\ 0 \in 0..ResponseAttempts /\ 0 \in 0..MaxSends
      /\ 0 \in 0..2
  BY SMT
<1>1. CASE init
  BY <1>0, <1>1 DEF init, TypeOK, radio, history
<1>2. CASE SendRequest
  <2>1. NextRequest \in 0..RequestAttempts
    BY <1>2, SMT DEF SendRequest, NextRequest, TypeOK
  <2>2. atPending' \in Seq(Half \cup {"EC"})
    BY <1>2, AppendProperties DEF SendRequest, TypeOK
  <2> QED
    BY <1>0, <1>2, <2>1, <2>2 DEF SendRequest, FirstRead, TypeOK
<1>3. CASE NoMoreRequests
  <2>1. FALSE \in BOOLEAN /\ cca_retries' \in Nat
    BY <1>3 DEF NoMoreRequests, TypeOK
  <2> QED
    BY <1>3, <2>1, AtReturnsTypes DEF NoMoreRequests, TypeOK
<1>4. CASE ReadAnswer
  <2> DEFINE frame == Head(inbox)
             fits  == (frame.command = "EC") = (command = "EC")
             half  == fits /\ command # "EC"
  <2>1. /\ inbox # <<>> /\ frame.type = "AT" /\ inbox' = Tail(inbox)
        /\ my_mac' = IF half THEN [my_mac EXCEPT ![mac_position] = frame.value] ELSE my_mac
        /\ mac_position' = IF half THEN mac_position + 1 ELSE mac_position
        /\ cca_retries' = IF fits /\ ~half THEN frame.value ELSE cca_retries
        /\ AtReturns(fits)
        /\ pc = "at_read"
    BY <1>4 DEF ReadAnswer, Read
  <2>2. /\ inbox' \in Seq(ApiFrame)
        /\ frame.command = "EC" => frame.value \in Nat
        /\ frame.command # "EC" => frame.value \in Half
    BY <2>1, HeadFrame, FrameFields DEF TypeOK
  <2>3. half => mac_position \in 0..1
    <3>1. half => command \in {"SH", "SL"}
      BY DEF TypeOK, Half
    <3>2. CASE command = "SH"
      BY <2>1, <3>2, SMT DEF Lifecycle, InCommand
    <3>3. CASE command = "SL"
      BY <2>1, <3>3, SMT DEF Lifecycle, InCommand
    <3> QED
      BY <3>1, <3>2, <3>3
  <2>4. half => frame.command # "EC"
    OBVIOUS
  <2>5. mac_position' \in 0..2
    <3>1. CASE half
      BY <2>1, <2>3, <3>1, SMT
    <3>2. CASE ~half
      BY <2>1, <3>2 DEF TypeOK
    <3> QED
      BY <3>1, <3>2
  <2>6. my_mac' \in [0..1 -> Half \cup {Unset}]
    <3>1. CASE half
      BY <2>1, <2>2, <2>3, <2>4, <3>1 DEF TypeOK
    <3>2. CASE ~half
      BY <2>1, <3>2 DEF TypeOK
    <3> QED
      BY <3>1, <3>2
  <2>7. cca_retries' \in Nat
    BY <2>1, <2>2 DEF TypeOK
  <2>8. fits \in BOOLEAN
    OBVIOUS
  <2> HIDE DEF fits, half, frame
  <2> QED
    BY <2>1, <2>2, <2>5, <2>6, <2>7, <2>8, AtReturnsTypes DEF TypeOK
<1>5. CASE NoAnswer
  <2>1. inbox' \in Seq(ApiFrame)
    BY <1>5, ReadKeepsType DEF NoAnswer
  <2>2. reads' \in 0..ResponseAttempts
    BY <1>5, SMT DEF NoAnswer, Lifecycle, TypeOK
  <2> QED
    BY <1>5, <2>1, <2>2 DEF NoAnswer, TypeOK, history
<1>6. CASE ReadStatus
  <2>1. inbox # <<>> /\ Head(inbox).type = "TX_STATUS" /\ inbox' = Tail(inbox)
    BY <1>6 DEF ReadStatus, Read
  <2>2. /\ inbox' \in Seq(ApiFrame)
        /\ Head(inbox).of \in 0..MaxSends /\ Head(inbox).result \in TxResult
    <3>1. Head(inbox).of \in 1..MaxSends => Head(inbox).of \in 0..MaxSends
      BY SMT
    <3> QED
      BY <2>1, <3>1, HeadFrame, FrameFields DEF TypeOK
  <2>3. status' \in {"OK", "NO_ACK", "COLLISION", "ERR"}
    BY <1>6, <2>2 DEF ReadStatus, StatusOf, TxResult
  <2>4. /\ pc' \in {"at_send", "idle"}
        /\ command' \in Half \cup {"EC"}
        /\ requests' \in 0..RequestAttempts
    BY <1>0, <1>6 DEF ReadStatus, TypeOK
  <2> QED
    BY <1>6, <2>2, <2>3, <2>4 DEF ReadStatus, TypeOK
<1>7. CASE NoStatus
  <2>1. inbox' \in Seq(ApiFrame)
    BY <1>7, ReadKeepsType DEF NoStatus
  <2>2. reads' \in 0..ResponseAttempts
    BY <1>7, SMT DEF NoStatus, Lifecycle, TypeOK
  <2>3. /\ pc' \in {"idle", "tx_read"}
        /\ status' \in {"none", "OK", "NO_ACK", "COLLISION", "ERR"}
        /\ givenUp' \in BOOLEAN
    BY <1>7 DEF NoStatus, TypeOK
  <2> QED
    BY <1>7, <2>1, <2>2, <2>3 DEF NoStatus, TypeOK
<1>8. CASE send
  <2>1. sends + 1 \in 1..MaxSends /\ sends + 1 \in 0..MaxSends
    BY <1>8, SMT DEF send, TypeOK
  <2>2. txPending' \in Seq(1..MaxSends)
    BY <1>8, <2>1, AppendProperties DEF send, TypeOK
  <2> QED
    BY <1>0, <1>8, <2>1, <2>2 DEF send, TypeOK
<1>9. CASE receive
  <2>1. inbox' \in Seq(ApiFrame)
    BY <1>9, ReadKeepsType DEF receive
  <2> QED
    BY <1>9, <2>1 DEF receive, TypeOK, program, history
<1>10. ASSUME NEW ok \in BOOLEAN, RadioAnswers(ok) PROVE TypeOK'
  <2> DEFINE f == [type |-> "AT", command |-> Head(atPending), ok |-> ok,
                   value |-> IF Head(atPending) = "EC" THEN ec ELSE Head(atPending)]
  <2>1. atPending # <<>> /\ inbox' = Append(inbox, f) /\ atPending' = Tail(atPending)
    BY <1>10 DEF RadioAnswers
  <2>2. Head(atPending) \in Half \cup {"EC"} /\ atPending' \in Seq(Half \cup {"EC"})
    BY <2>1, HeadTailProperties DEF TypeOK
  <2>3. f \in ApiFrame
    BY <2>2 DEF ApiFrame, Answer, TypeOK, Half
  <2> HIDE DEF f
  <2>4. inbox' \in Seq(ApiFrame)
    BY <2>1, <2>3, AppendProperties DEF TypeOK
  <2> QED
    BY <1>10, <2>2, <2>4 DEF RadioAnswers, TypeOK, program, history
<1>11. ASSUME NEW result \in TxResult, NEW failures \in 0..MaxFailures,
              RadioTransmits(result, failures)
       PROVE  TypeOK'
  <2> DEFINE f == [type |-> "TX_STATUS", of |-> Head(txPending), result |-> result]
  <2>1. /\ txPending # <<>> /\ inbox' = Append(inbox, f) /\ txPending' = Tail(txPending)
        /\ transmitted' = [transmitted EXCEPT ![Head(txPending)] =
                               [result |-> result, failures |-> failures]]
        /\ ec' = ec + failures
    BY <1>11 DEF RadioTransmits
  <2>2. Head(txPending) \in 1..MaxSends /\ txPending' \in Seq(1..MaxSends)
    BY <2>1, HeadTailProperties DEF TypeOK
  <2>3. f \in ApiFrame
    BY <2>2 DEF ApiFrame, TxStatus
  <2> HIDE DEF f
  <2>4. inbox' \in Seq(ApiFrame)
    BY <2>1, <2>3, AppendProperties DEF TypeOK
  <2>5. failures \in Nat /\ ec' \in Nat
    BY <2>1, SMT DEF TypeOK
  <2>6. transmitted' \in [1..MaxSends -> [result : TxResult \cup {"none"}, failures : Nat]]
    BY <2>1, <2>2, <2>5 DEF TypeOK
  <2> QED
    BY <1>11, <2>2, <2>4, <2>5, <2>6 DEF RadioTransmits, TypeOK, program, history
<1>12. CASE RadioReceives
  <2>1. inbox' \in Seq(ApiFrame)
    BY <1>12, AppendProperties DEF RadioReceives, TypeOK, ApiFrame
  <2> QED
    BY <1>12, <2>1 DEF RadioReceives, TypeOK, program, history
<1>13. CASE UNCHANGED vars
  BY <1>13 DEF vars, radio, history, TypeOK
<1> QED
  BY <1>1, <1>2, <1>3, <1>4, <1>5, <1>6, <1>7, <1>8, <1>9, <1>10, <1>11, <1>12, <1>13
     DEF Next, Call, sendAtCommand
-----------------------------------------------------------------------------
(* The invariant *)

(* Program place, command and position go together. *)
LEMMA StepLifecycle == TypeOK /\ Lifecycle /\ [Next]_vars => Lifecycle'
<1> SUFFICES ASSUME TypeOK, Lifecycle, [Next]_vars PROVE Lifecycle'
  OBVIOUS
<1> USE Constants
<1>1. CASE init
  BY <1>1 DEF init, Lifecycle, InCommand
<1>2. CASE SendRequest
  <2>1. 0 < ResponseAttempts /\ NextRequest > 0
    BY SMT DEF NextRequest, TypeOK
  <2> QED
    BY <1>2, <2>1 DEF SendRequest, FirstRead, Lifecycle, InCommand
<1>3. CASE NoMoreRequests
  <2>1. pc = "at_send" /\ mac_position' = mac_position /\ AtReturns(FALSE)
    BY <1>3 DEF NoMoreRequests
  <2>2. CASE command = "EC"
    BY <2>1, <2>2 DEF AtReturns, Lifecycle, InCommand
  <2>3. CASE command # "EC"
    <3>1. pc' = "halted"
      BY <2>1, <2>3 DEF AtReturns
    <3>2. mac_position \in {0, 1}
      BY <2>1, <2>3 DEF TypeOK, Half, Lifecycle, InCommand
    <3> QED
      BY <2>1, <3>1, <3>2 DEF Lifecycle, InCommand
  <2> QED
    BY <2>2, <2>3
<1>4. CASE ReadAnswer
  <2> DEFINE frame == Head(inbox)
             fits  == (frame.command = "EC") = (command = "EC")
             half  == fits /\ command # "EC"
  <2>1. /\ mac_position' = IF half THEN mac_position + 1 ELSE mac_position
        /\ AtReturns(fits) /\ fits \in BOOLEAN
        /\ pc = "at_read"
    BY <1>4 DEF ReadAnswer
  <2> HIDE DEF fits
  <2>2. CASE command = "EC"
    BY <2>1, <2>2 DEF AtReturns, Lifecycle, InCommand
  <2>3. CASE command # "EC" /\ ~fits
    <3>1. pc' = "halted" /\ mac_position' = mac_position
      BY <2>1, <2>3 DEF AtReturns
    <3>2. mac_position \in {0, 1}
      BY <2>1, <2>3 DEF TypeOK, Half, Lifecycle, InCommand
    <3> QED
      BY <3>1, <3>2 DEF Lifecycle, InCommand
  <2>4. CASE command = "SH" /\ fits
    <3>1. mac_position = 0
      BY <2>1, <2>4 DEF Lifecycle, InCommand
    <3>2. mac_position' = 1
      BY <2>1, <2>4, <3>1, SMT
    <3>3. pc' = "at_send" /\ command' = "SL"
      BY <2>1, <2>4, <3>2 DEF AtReturns, CommandAfter
    <3> QED
      BY <3>2, <3>3 DEF Lifecycle, InCommand
  <2>5. CASE command = "SL" /\ fits
    <3>1. mac_position = 1
      BY <2>1, <2>5 DEF Lifecycle, InCommand
    <3>2. mac_position' = 2 /\ mac_position' # 1
      BY <2>1, <2>5, <3>1, SMT
    <3>3. pc' = "idle"
      BY <2>1, <2>5, <3>2 DEF AtReturns
    <3> QED
      BY <3>2, <3>3 DEF Lifecycle, InCommand
  <2> QED
    BY <2>2, <2>3, <2>4, <2>5 DEF TypeOK, Half
<1>5. CASE NoAnswer
  <2>1. reads + 1 # ResponseAttempts => reads + 1 < ResponseAttempts
    BY <1>5, SMT DEF NoAnswer, Lifecycle, TypeOK
  <2> QED
    BY <1>5, <2>1 DEF NoAnswer, Lifecycle, InCommand, TypeOK
<1>6. CASE ReadStatus
  BY <1>6 DEF ReadStatus, Lifecycle, InCommand
<1>7. CASE NoStatus
  <2>1. reads + 1 # ResponseAttempts => reads + 1 < ResponseAttempts
    BY <1>7, SMT DEF NoStatus, Lifecycle, TypeOK
  <2> QED
    BY <1>7, <2>1 DEF NoStatus, Lifecycle, InCommand, TypeOK
<1>8. CASE send
  <2>1. 0 < ResponseAttempts
    BY SMT
  <2> QED
    BY <1>8, <2>1 DEF send, Lifecycle, InCommand
<1>9. CASE receive
  BY <1>9 DEF receive, program, history, Lifecycle, InCommand
<1>10. ASSUME NEW ok \in BOOLEAN, RadioAnswers(ok) PROVE Lifecycle'
  BY <1>10 DEF RadioAnswers, program, history, Lifecycle, InCommand
<1>11. ASSUME NEW result \in TxResult, NEW failures \in 0..MaxFailures,
              RadioTransmits(result, failures)
       PROVE  Lifecycle'
  BY <1>11 DEF RadioTransmits, program, history, Lifecycle, InCommand
<1>12. CASE RadioReceives
  BY <1>12 DEF RadioReceives, program, history, Lifecycle, InCommand
<1>13. CASE UNCHANGED vars
  BY <1>13 DEF vars, radio, history, Lifecycle, InCommand
<1> QED
  BY <1>1, <1>2, <1>3, <1>4, <1>5, <1>6, <1>7, <1>8, <1>9, <1>10, <1>11, <1>12, <1>13
     DEF Next, Call, sendAtCommand

(* The halves of the address arrive in their order: the only step that takes *)
(* one is ReadAnswer, and the answer it takes is the one to the command.     *)
LEMMA StepAddress == IInv /\ [Next]_vars => (~repeated' => AddressSoFar')
<1> SUFFICES ASSUME IInv, [Next]_vars, ~repeated' PROVE AddressSoFar'
  OBVIOUS
<1>1. ~repeated
  BY DEF IInv, TypeOK, Next, Call, sendAtCommand, vars, radio, history, program, init,
         SendRequest, NoMoreRequests, ReadAnswer, AtReturns, NoAnswer, ReadStatus,
         NoStatus, send, receive, RadioAnswers, RadioTransmits, RadioReceives
<1>2. AddressSoFar
  BY <1>1 DEF IInv
<1>3. CASE ReadAnswer
  <2> DEFINE frame == Head(inbox)
             fits  == (frame.command = "EC") = (command = "EC")
             half  == fits /\ command # "EC"
  <2>1. /\ inbox # <<>> /\ frame.type = "AT" /\ inbox' = Tail(inbox)
        /\ my_mac' = IF half THEN [my_mac EXCEPT ![mac_position] = frame.value] ELSE my_mac
        /\ mac_position' = IF half THEN mac_position + 1 ELSE mac_position
        /\ pc = "at_read"
    BY <1>3 DEF ReadAnswer, Read
  <2>2. my_mac \in [0..1 -> Half \cup {Unset}]
    BY DEF IInv, TypeOK
  <2>3. CASE ~half
    BY <1>2, <2>1, <2>3 DEF AddressSoFar
  <2>4. CASE half
    <3>1. command # "EC" /\ OneAtATime
      BY <1>1, <2>1, <2>4 DEF IInv, InCommand
    <3>2. frame.value = command
      BY <2>1, <3>1, HeadFrame DEF IInv, TypeOK, OneAtATime, Answers
    <3>3. CASE command = "SH"
      <4>1. mac_position = 0
        BY <2>1, <3>3 DEF IInv, Lifecycle, InCommand
      <4> QED
        BY <2>1, <2>2, <2>4, <3>2, <3>3, <4>1, SMT DEF AddressSoFar
    <3>4. CASE command = "SL"
      <4>1. mac_position = 1
        BY <2>1, <3>4 DEF IInv, Lifecycle, InCommand
      <4> QED
        BY <1>2, <2>1, <2>2, <2>4, <3>2, <3>4, <4>1, SMT DEF AddressSoFar
    <3> QED
      BY <3>1, <3>3, <3>4 DEF IInv, TypeOK, Half
  <2> QED
    BY <2>3, <2>4
<1>4. CASE init
  BY <1>4, SMT DEF init, AddressSoFar
<1>5. CASE UNCHANGED <<my_mac, mac_position>>
  BY <1>2, <1>5 DEF AddressSoFar
<1> QED
  BY <1>3, <1>4, <1>5
     DEF Next, Call, sendAtCommand, vars, radio, history, program, SendRequest,
         NoMoreRequests, NoAnswer, ReadStatus, NoStatus, send, receive,
         RadioAnswers, RadioTransmits, RadioReceives

(* A frame that is not an answer changes nothing about the answers. *)
LEMMA OtherFrameKeepsOne ==
    ASSUME TypeOK, OneAtATime, NEW f \in ApiFrame, f.type # "AT",
           inbox' = Append(inbox, f), UNCHANGED <<pc, requests, command, atPending>>
    PROVE  OneAtATime'
<1>1. \A i \in Answers' : i \in Answers /\ inbox'[i] = inbox[i]
  <2>1. NothingNew(inbox', inbox, "AT")
    BY AppendOther DEF TypeOK
  <2> QED
    BY <2>1 DEF Answers, NothingNew
<1> QED
  BY <1>1 DEF OneAtATime, AtMostOne, Answers

(* Until something is repeated there is one command, or its answer, at most. *)
LEMMA StepOneAtATime ==
    IInv /\ [Next]_vars
      => (~repeated' /\ (pc' = "off" \/ (InCommand' /\ command' # "EC")) => OneAtATime')
<1> SUFFICES ASSUME IInv, [Next]_vars, ~repeated',
                    pc' = "off" \/ (InCommand' /\ command' # "EC")
             PROVE  OneAtATime'
  OBVIOUS
<1>0. TypeOK /\ Lifecycle
  BY DEF IInv
<1>1. ~repeated
  BY DEF IInv, TypeOK, Next, Call, sendAtCommand, vars, radio, history, program, init,
         SendRequest, NoMoreRequests, ReadAnswer, AtReturns, NoAnswer, ReadStatus,
         NoStatus, send, receive, RadioAnswers, RadioTransmits, RadioReceives
<1>2. pc = "off" \/ (InCommand /\ command # "EC") => OneAtATime
  BY <1>1 DEF IInv
<1>3. CASE init
  BY <1>2, <1>3 DEF init, radio, OneAtATime, Answers, OfType
<1>4. CASE SendRequest
  <2>1. /\ pc = "at_send" /\ command # "EC" /\ command' = command /\ pc' = "at_read"
        /\ inbox' = inbox /\ atPending' = Append(atPending, command)
        /\ ~(requests > 0)
    BY <1>4 DEF SendRequest, InCommand
  <2>2. requests = 0
    BY <1>0, <2>1, SMT DEF TypeOK
  <2>3. atPending = <<>> /\ Answers = {}
    BY <1>2, <2>1, <2>2 DEF OneAtATime, InCommand
  <2>4. atPending' = <<command'>>
    BY <2>1, <2>3, SMT
  <2>5. Answers' = {}
    BY <2>1, <2>3 DEF Answers, OfType
  <2> QED
    BY <2>1, <2>4, <2>5 DEF OneAtATime, AtMostOne, Answers
<1>5. CASE NoMoreRequests
  <2>1. pc' \in {"idle", "halted"}
    BY <1>5 DEF NoMoreRequests, AtReturns
  <2> QED
    BY <2>1 DEF InCommand
<1>6. CASE ReadAnswer
  <2> DEFINE fits == (Head(inbox).command = "EC") = (command = "EC")
  <2>1. /\ inbox # <<>> /\ Head(inbox).type = "AT" /\ inbox' = Tail(inbox)
        /\ pc = "at_read" /\ AtReturns(fits) /\ fits \in BOOLEAN
    BY <1>6 DEF ReadAnswer, Read
  <2> HIDE DEF fits
  <2>2. command # "EC" /\ pc' = "at_send"
    BY <2>1 DEF AtReturns, InCommand
  <2>3. OneAtATime /\ 1 \in Answers
    BY <1>0, <1>2, <2>1, <2>2, HeadFrame DEF InCommand, TypeOK, Answers
  <2>4. Answers' = {}
    BY <1>0, <2>1, <2>3, TailOne DEF TypeOK, OneAtATime, Answers
  <2>5. atPending' = <<>>
    BY <2>1, <2>3 DEF OneAtATime, AtReturns
  <2> QED
    BY <2>2, <2>4, <2>5 DEF OneAtATime, AtMostOne, Answers
<1>7. CASE NoAnswer
  <2>1. /\ inbox' = inbox \/ (inbox # <<>> /\ inbox' = Tail(inbox))
        /\ UNCHANGED <<command, requests, atPending>>
        /\ pc = "at_read" /\ pc' \in {"at_read", "at_send"}
    BY <1>7 DEF NoAnswer, TimedOut, Skipped
  <2>2. OneAtATime
    BY <1>2, <2>1 DEF InCommand
  <2>3. requests' # 0
    BY <1>0, <2>1, SMT DEF Lifecycle
  <2> QED
    BY <1>0, <2>1, <2>2, <2>3, ReadKeepsOne
<1>8. CASE ReadStatus
  BY <1>8 DEF ReadStatus, InCommand
<1>9. CASE NoStatus \/ send \/ receive
  <2>1. pc' \in {"idle", "tx_read"}
    BY <1>9 DEF NoStatus, send, receive, program
  <2> QED
    BY <2>1 DEF InCommand
<1>10. ASSUME NEW ok \in BOOLEAN, RadioAnswers(ok) PROVE OneAtATime'
  <2> DEFINE f == [type |-> "AT", command |-> Head(atPending), ok |-> ok,
                   value |-> IF Head(atPending) = "EC" THEN ec ELSE Head(atPending)]
  <2>1. /\ atPending # <<>> /\ inbox' = Append(inbox, f) /\ atPending' = Tail(atPending)
        /\ UNCHANGED <<pc, command, requests>>
    BY <1>10 DEF RadioAnswers, program
  <2>2. OneAtATime
    BY <1>2, <2>1 DEF InCommand
  <2>3. /\ atPending = <<command>> /\ Answers = {}
        /\ ~(pc = "off" \/ (pc = "at_send" /\ requests = 0))
    BY <2>1, <2>2 DEF OneAtATime
  <2>4. Head(atPending) = command /\ Tail(atPending) = <<>>
    BY <2>3, SMT
  <2>5. command # "EC"
    BY <2>1, <2>3 DEF InCommand
  <2>6. f \in ApiFrame /\ f.command = command /\ f.value = command
    BY <1>0, <2>4, <2>5 DEF ApiFrame, Answer, TypeOK, Half
  <2> HIDE DEF f
  <2>7. AtMostOne(inbox, "AT")' /\ \A i \in Answers' : inbox'[i] = f
    BY <1>0, <2>1, <2>3, <2>6, AppendFirst DEF TypeOK, Answers
  <2> QED
    BY <2>1, <2>3, <2>4, <2>6, <2>7 DEF OneAtATime
<1>11. ASSUME NEW result \in TxResult, NEW failures \in 0..MaxFailures,
              RadioTransmits(result, failures)
       PROVE  OneAtATime'
  <2> DEFINE f == [type |-> "TX_STATUS", of |-> Head(txPending), result |-> result]
  <2>1. /\ txPending # <<>> /\ inbox' = Append(inbox, f)
        /\ UNCHANGED <<pc, command, requests, atPending>>
    BY <1>11 DEF RadioTransmits, program
  <2>2. f \in ApiFrame /\ f.type # "AT"
    <3>1. Head(txPending) \in 1..MaxSends
      BY <1>0, <2>1, HeadTailProperties DEF TypeOK
    <3> QED
      BY <3>1 DEF ApiFrame, TxStatus
  <2>3. OneAtATime
    BY <1>2, <2>1 DEF InCommand
  <2> HIDE DEF f
  <2> QED
    BY <1>0, <2>1, <2>2, <2>3, OtherFrameKeepsOne
<1>12. CASE RadioReceives
  <2>1. /\ inbox' = Append(inbox, Rx) /\ Rx \in ApiFrame /\ Rx.type # "AT"
        /\ UNCHANGED <<pc, command, requests, atPending>>
    BY <1>12 DEF RadioReceives, program, ApiFrame, Rx
  <2>2. OneAtATime
    BY <1>2, <2>1 DEF InCommand
  <2> QED
    BY <1>0, <2>1, <2>2, OtherFrameKeepsOne
<1>13. CASE UNCHANGED vars
  BY <1>2, <1>13 DEF vars, radio, history, InCommand, OneAtATime, Answers, OfType
<1> QED
  BY <1>3, <1>4, <1>5, <1>6, <1>7, <1>8, <1>9, <1>10, <1>11, <1>12, <1>13
     DEF Next, Call, sendAtCommand

-----------------------------------------------------------------------------
(* The status of a transmission *)

(* Nothing that gave up waiting is taken back. *)
LEMMA GivenUpStays == TypeOK /\ [Next]_vars /\ ~givenUp' => ~givenUp
BY DEF TypeOK, Next, Call, sendAtCommand, vars, radio, history, program, init,
       SendRequest, NoMoreRequests, ReadAnswer, AtReturns, NoAnswer, ReadStatus,
       NoStatus, send, receive, RadioAnswers, RadioTransmits, RadioReceives

(* A step that takes at most one frame, of whatever type, and does not leave *)
(* or enter send(), keeps to one status at a time.                           *)
LEMMA ReadKeepsStatus ==
    ASSUME TypeOK, OneStatus, inbox' = inbox \/ (inbox # <<>> /\ inbox' = Tail(inbox)),
           UNCHANGED <<txPending, transmitted, sends>>, pc = "tx_read" <=> pc' = "tx_read"
    PROVE  OneStatus'
<1>1. CASE inbox' = inbox
  BY <1>1 DEF OneStatus, AtMostOne, Statuses
<1>2. CASE inbox # <<>> /\ inbox' = Tail(inbox)
  <2>1. \A i \in Statuses' : i + 1 \in Statuses /\ inbox'[i] = inbox[i + 1]
    BY <1>2, TailFrame DEF TypeOK, Statuses
  <2>2. AtMostOne(inbox, "TX_STATUS")'
    BY <1>2, TailOne DEF TypeOK, OneStatus
  <2>3. Statuses = {} => Statuses' = {}
    BY <2>1
  <2>4. \A i \in Statuses' : inbox'[i].of = sends /\ inbox'[i].result = transmitted[sends].result
    BY <2>1 DEF OneStatus
  <2> QED
    BY <2>2, <2>3, <2>4 DEF OneStatus
<1> QED
  BY <1>1, <1>2

(* So does a frame that is not a status. *)
LEMMA OtherFrameKeepsStatus ==
    ASSUME TypeOK, OneStatus, NEW f \in ApiFrame, f.type # "TX_STATUS",
           inbox' = Append(inbox, f), UNCHANGED <<pc, txPending, transmitted, sends>>
    PROVE  OneStatus'
<1>1. NothingNew(inbox', inbox, "TX_STATUS")
  BY AppendOther DEF TypeOK
<1>2. \A i \in Statuses' : i \in Statuses /\ inbox'[i] = inbox[i]
  BY <1>1 DEF Statuses, NothingNew
<1>3. AtMostOne(inbox, "TX_STATUS")'
  BY <1>2 DEF OneStatus, AtMostOne, Statuses
<1> QED
  BY <1>2, <1>3 DEF OneStatus

(* Until a send() gives up, the status it reads is that of its own frame.    *)
LEMMA StepStatusInv == IInv /\ StatusInv /\ [Next]_vars => StatusInv'
<1> SUFFICES ASSUME IInv, StatusInv, [Next]_vars, ~givenUp'
             PROVE  /\ (sends > 0 \/ pc # "tx_read")'
                    /\ OneStatus'
                    /\ (pc # "tx_read" /\ sends > 0 => OwnStatus)'
  BY DEF StatusInv
<1>0. TypeOK /\ TypeOK'
  BY StepTypeOK DEF IInv
<1>1. /\ ~givenUp
      /\ sends > 0 \/ pc # "tx_read"
      /\ OneStatus
      /\ pc # "tx_read" /\ sends > 0 => OwnStatus
  BY <1>0, GivenUpStays DEF StatusInv
<1>2. CASE init \/ SendRequest \/ NoMoreRequests \/ ReadAnswer \/ NoAnswer \/ receive
  <2>1. /\ inbox' = inbox \/ (inbox # <<>> /\ inbox' = Tail(inbox))
        /\ UNCHANGED <<txPending, transmitted, sends, about, status>>
        /\ pc # "tx_read" /\ pc' # "tx_read"
    BY <1>2 DEF init, SendRequest, NoMoreRequests, ReadAnswer, AtReturns, NoAnswer, receive,
                Read, TimedOut, Skipped, radio, history, program
  <2>2. OneStatus'
    BY <1>0, <1>1, <2>1, ReadKeepsStatus
  <2> QED
    BY <1>1, <2>1, <2>2 DEF OwnStatus
<1>3. CASE ReadStatus
  <2>1. /\ inbox # <<>> /\ Head(inbox).type = "TX_STATUS" /\ inbox' = Tail(inbox)
        /\ pc = "tx_read" /\ pc' # "tx_read"
        /\ status' = StatusOf(Head(inbox).result) /\ about' = Head(inbox).of
        /\ UNCHANGED <<txPending, transmitted, sends>>
    BY <1>3 DEF ReadStatus, Read
  <2>2. /\ Head(inbox) = inbox[1] /\ Head(inbox) \in ApiFrame
        /\ 1 \in Statuses
        /\ AtMostOne(inbox, "TX_STATUS")
        /\ AtMostOne(inbox', "TX_STATUS") /\ Statuses' = {}
    BY <1>0, <1>1, <2>1, HeadFrame, TailOne DEF TypeOK, OneStatus, Statuses
  <2>3. txPending = <<>> /\ about' = sends /\ Head(inbox).result = transmitted[sends].result
    BY <1>1, <2>1, <2>2 DEF OneStatus
  <2>4. OneStatus'
    BY <1>1, <2>1, <2>2, <2>3 DEF OneStatus
  <2>5. OwnStatus'
    <3>1. Head(inbox).result \in TxResult
      BY <2>1, <2>2, FrameFields
    <3> QED
      BY <2>1, <2>3, <3>1 DEF OwnStatus, StatusOf, TxResult
  <2> QED
    BY <2>1, <2>4, <2>5
<1>4. CASE NoStatus
  <2>1. /\ inbox' = inbox \/ (inbox # <<>> /\ inbox' = Tail(inbox))
        /\ UNCHANGED <<pc, txPending, transmitted, sends, about, status>>
    BY <1>4 DEF NoStatus, TimedOut, Skipped
  <2>2. OneStatus'
    BY <1>0, <1>1, <2>1, ReadKeepsStatus
  <2> QED
    BY <1>1, <2>1, <2>2 DEF OwnStatus
<1>5. CASE send
  <2>1. /\ pc = "idle" /\ pc' = "tx_read" /\ sends' = sends + 1
        /\ txPending' = Append(txPending, sends + 1)
        /\ UNCHANGED <<inbox, transmitted>>
    BY <1>5 DEF send
  <2>2. sends \in Nat /\ sends + 1 \in 1..MaxSends /\ sends + 1 > sends /\ sends + 1 > 0
    BY <1>0, <1>5, Constants, SMT DEF send, TypeOK
  <2>3. txPending = <<>> /\ Statuses = {}
    BY <1>1, <2>1 DEF OneStatus
  <2>4. txPending' = <<sends'>>
    BY <2>1, <2>3, SMT
  <2>5. Statuses' = {}
    BY <2>1, <2>3 DEF Statuses
  <2>6. transmitted'[sends'].failures = 0
    BY <1>1, <2>1, <2>2 DEF OneStatus
  <2>7. ASSUME NEW n \in 1..MaxSends, n > sends' PROVE transmitted'[n].failures = 0
    <3>1. n > sends
      BY <2>1, <2>2, <2>7, SMT
    <3> QED
      BY <1>1, <2>1, <3>1 DEF OneStatus
  <2>8. OneStatus'
    BY <2>1, <2>4, <2>5, <2>6, <2>7 DEF OneStatus, AtMostOne, Statuses
  <2> QED
    BY <2>1, <2>2, <2>8
<1>6. ASSUME NEW ok \in BOOLEAN, RadioAnswers(ok)
      PROVE  /\ (sends > 0 \/ pc # "tx_read")'
             /\ OneStatus'
             /\ (pc # "tx_read" /\ sends > 0 => OwnStatus)'
  <2> DEFINE f == [type |-> "AT", command |-> Head(atPending), ok |-> ok,
                   value |-> IF Head(atPending) = "EC" THEN ec ELSE Head(atPending)]
  <2>1. /\ atPending # <<>> /\ inbox' = Append(inbox, f)
        /\ UNCHANGED <<pc, txPending, transmitted, sends, about, status>>
    BY <1>6 DEF RadioAnswers, program, history
  <2>2. f \in ApiFrame /\ f.type # "TX_STATUS"
    <3>1. Head(atPending) \in Half \cup {"EC"}
      BY <1>0, <2>1, HeadTailProperties DEF TypeOK
    <3> QED
      BY <1>0, <3>1 DEF ApiFrame, Answer, TypeOK, Half
  <2> HIDE DEF f
  <2>3. OneStatus'
    BY <1>0, <1>1, <2>1, <2>2, OtherFrameKeepsStatus
  <2> QED
    BY <1>1, <2>1, <2>3 DEF OwnStatus
<1>7. ASSUME NEW result \in TxResult, NEW failures \in 0..MaxFailures,
             RadioTransmits(result, failures)
      PROVE  /\ (sends > 0 \/ pc # "tx_read")'
             /\ OneStatus'
             /\ (pc # "tx_read" /\ sends > 0 => OwnStatus)'
  <2> DEFINE f == [type |-> "TX_STATUS", of |-> Head(txPending), result |-> result]
             t == [result |-> result, failures |-> failures]
  <2>1. /\ txPending # <<>> /\ inbox' = Append(inbox, f) /\ txPending' = Tail(txPending)
        /\ transmitted' = [transmitted EXCEPT ![Head(txPending)] = t]
        /\ UNCHANGED <<pc, sends, about, status>>
    BY <1>7 DEF RadioTransmits, program, history
  <2>2. pc = "tx_read" /\ txPending = <<sends>> /\ Statuses = {}
    BY <1>1, <2>1 DEF OneStatus
  <2>3. Head(txPending) = sends /\ Tail(txPending) = <<>>
    BY <2>2, SMT
  <2>4. sends \in 1..MaxSends
    BY <1>0, <2>1, <2>3, HeadTailProperties DEF TypeOK
  <2>5. f \in ApiFrame /\ f.of = sends /\ f.result = result
    BY <2>3, <2>4 DEF ApiFrame, TxStatus
  <2>6. transmitted'[sends].result = result
    BY <1>0, <2>1, <2>3, <2>4 DEF TypeOK
  <2>7. ASSUME NEW n \in 1..MaxSends, n > sends PROVE transmitted'[n].failures = 0
    <3>1. n # sends
      BY <2>4, <2>7, SMT
    <3> QED
      BY <1>0, <1>1, <2>1, <2>3, <2>4, <2>7, <3>1 DEF OneStatus, TypeOK
  <2> HIDE DEF f
  <2>8. AtMostOne(inbox', "TX_STATUS") /\ \A i \in Statuses' : inbox'[i] = f
    BY <1>0, <2>1, <2>2, <2>5, AppendFirst DEF TypeOK, Statuses
  <2>9. OneStatus'
    BY <2>1, <2>2, <2>3, <2>5, <2>6, <2>7, <2>8 DEF OneStatus
  <2> QED
    BY <1>1, <2>1, <2>2, <2>9
<1>8. CASE RadioReceives
  <2>1. /\ inbox' = Append(inbox, Rx) /\ Rx \in ApiFrame /\ Rx.type # "TX_STATUS"
        /\ UNCHANGED <<pc, txPending, transmitted, sends, about, status>>
    BY <1>8 DEF RadioReceives, program, history, ApiFrame, Rx
  <2>2. OneStatus'
    BY <1>0, <1>1, <2>1, OtherFrameKeepsStatus
  <2> QED
    BY <1>1, <2>1, <2>2 DEF OwnStatus
<1>9. CASE UNCHANGED vars
  <2>1. UNCHANGED <<pc, inbox, txPending, transmitted, sends, about, status>>
    BY <1>9 DEF vars, radio, history
  <2> QED
    BY <1>1, <2>1 DEF OneStatus, OwnStatus, AtMostOne, Statuses
<1> QED
  BY <1>2, <1>3, <1>4, <1>5, <1>6, <1>7, <1>8, <1>9 DEF Next, Call, sendAtCommand

-----------------------------------------------------------------------------
(* The count of CCA failures *)

(* A command that is sent again is remembered. *)
LEMMA RepeatedStays == TypeOK /\ [Next]_vars /\ ~repeated' => ~repeated
BY DEF TypeOK, Next, Call, sendAtCommand, vars, radio, history, program, init,
       SendRequest, NoMoreRequests, ReadAnswer, AtReturns, NoAnswer, ReadStatus,
       NoStatus, send, receive, RadioAnswers, RadioTransmits, RadioReceives

(* Before the address is complete nothing is sent; and a command's second    *)
(* request is a repetition.                                                  *)
LEMMA StepFirstTime == IInv /\ FirstTime /\ [Next]_vars => FirstTime'
<1> SUFFICES ASSUME IInv, FirstTime, [Next]_vars PROVE FirstTime'
  OBVIOUS
<1> USE DEF FirstTime
<1>0. TypeOK /\ Lifecycle
  BY DEF IInv
<1>1. CASE SendRequest
  <2>1. NextRequest > 1 => requests > 0
    BY <1>0, SMT DEF NextRequest, TypeOK
  <2> QED
    BY <1>1, <2>1 DEF SendRequest
<1>2. CASE ReadAnswer
  <2>1. /\ requests' = 0 /\ status' = status
        /\ mac_position' = mac_position \/ mac_position' = mac_position + 1
        /\ pc = "at_read"
    BY <1>2 DEF ReadAnswer, AtReturns
  <2>2. mac_position = 2 => mac_position' = 2
    <3>1. /\ command = "SH" => mac_position = 0
          /\ command = "SL" => mac_position = 1
          /\ command \in {"SH", "SL", "EC"}
      BY <1>0, <2>1 DEF Lifecycle, InCommand, TypeOK, Half
    <3> QED
      BY <1>2, <3>1, SMT DEF ReadAnswer
  <2>3. ~(0 > 1)
    BY SMT
  <2> QED
    BY <2>1, <2>2, <2>3
<1>3. CASE init
  <2>1. mac_position = 0 /\ status' = status /\ requests' = 0
    BY <1>0, <1>3 DEF init, Lifecycle
  <2> QED
    BY <2>1, SMT
<1>4. CASE ReadStatus \/ NoStatus \/ send
  <2>1. mac_position' = 2 /\ (requests' = requests \/ requests' = 0) /\ repeated' = repeated
    BY <1>0, <1>4 DEF ReadStatus, NoStatus, send, Lifecycle
  <2> QED
    BY <2>1, SMT
<1>5. CASE NoMoreRequests
  <2>1. requests' = 0 /\ UNCHANGED <<mac_position, status>>
    BY <1>5 DEF NoMoreRequests, AtReturns
  <2> QED
    BY <2>1, SMT
<1>6. CASE UNCHANGED <<mac_position, status, requests, repeated>>
  BY <1>6
<1> QED
  BY <1>1, <1>2, <1>3, <1>4, <1>5, <1>6
     DEF Next, Call, sendAtCommand, vars, radio, history, program, NoAnswer, receive,
         RadioAnswers, RadioTransmits, RadioReceives

(* The radio's counter is the sum of the failures of all transmissions.      *)
LEMMA StepCounter == IInv /\ StatusInv /\ CounterIsSum /\ [Next]_vars => CounterIsSum'
<1> SUFFICES ASSUME IInv, StatusInv, ~givenUp => ec = Failures(transmitted, sends),
                    [Next]_vars, ~givenUp'
             PROVE  ec' = Failures(transmitted', sends')
  BY DEF CounterIsSum
<1>0. TypeOK /\ TypeOK'
  BY StepTypeOK DEF IInv
<1>1. ~givenUp /\ OneStatus /\ ec = Failures(transmitted, sends)
  BY <1>0, GivenUpStays DEF StatusInv
<1>2. transmitted \in Transmissions /\ transmitted' \in Transmissions /\ sends \in 0..MaxSends
  BY <1>0 DEF TypeOK, Transmissions
<1>3. CASE send
  <2>1. sends' = sends + 1 /\ UNCHANGED <<ec, transmitted>>
    BY <1>3 DEF send
  <2>2. sends + 1 \in 0..MaxSends /\ sends + 1 \in 1..MaxSends /\ sends + 1 > sends
    BY <1>0, <1>3, Constants, SMT DEF send, TypeOK
  <2>3. transmitted[sends + 1].failures = 0
    BY <1>1, <2>2 DEF OneStatus
  <2>4. Failures(transmitted, sends + 1) = transmitted[sends + 1].failures + Failures(transmitted, sends)
    BY <1>2, <2>2, FailuresLast
  <2>5. 0 + ec = ec
    BY <1>0, SMT DEF TypeOK
  <2> QED
    BY <1>1, <2>1, <2>3, <2>4, <2>5
<1>4. ASSUME NEW result \in TxResult, NEW failures \in 0..MaxFailures,
             RadioTransmits(result, failures)
      PROVE  ec' = Failures(transmitted', sends')
  <2> DEFINE n == sends - 1
  <2>1. /\ txPending # <<>>
        /\ transmitted' = [transmitted EXCEPT ![Head(txPending)] =
                               [result |-> result, failures |-> failures]]
        /\ ec' = ec + failures /\ sends' = sends
    BY <1>4 DEF RadioTransmits, program, history
  <2>2. txPending = <<sends>> /\ transmitted[sends].failures = 0
    BY <1>1, <2>1 DEF OneStatus
  <2>3. Head(txPending) = sends
    BY <2>2, SMT
  <2>4. sends \in 1..MaxSends
    BY <1>0, <2>1, <2>3, HeadTailProperties DEF TypeOK
  <2>5. n \in 0..MaxSends /\ n + 1 = sends /\ n + 1 \in 0..MaxSends
    BY <2>4, Constants, SMT
  <2>6. transmitted'[sends].failures = failures
    BY <1>2, <2>1, <2>3, <2>4 DEF Transmissions
  <2>7. Failures(transmitted, n) = Failures(transmitted', n)
    <3>1. \A i \in 1..n : transmitted[i].failures = transmitted'[i].failures
      <4> SUFFICES ASSUME NEW i \in 1..n PROVE transmitted[i].failures = transmitted'[i].failures
        OBVIOUS
      <4>1. i \in 1..MaxSends /\ i # sends
        BY <2>4, Constants, SMT
      <4> QED
        BY <1>2, <2>1, <2>3, <4>1 DEF Transmissions
    <3> HIDE DEF n
    <3> QED
      BY <1>2, <2>5, <3>1, FailuresSame
  <2> HIDE DEF n
  <2>8. Failures(transmitted, n + 1) = transmitted[n + 1].failures + Failures(transmitted, n)
    BY <1>2, <2>5, FailuresLast
  <2>9. Failures(transmitted', n + 1) = transmitted'[n + 1].failures + Failures(transmitted', n)
    BY <1>2, <2>5, FailuresLast
  <2>10. Failures(transmitted, n) \in Nat
    BY <1>2, <2>5, FailuresType
  <2>11. /\ ec = 0 + Failures(transmitted, n)
         /\ Failures(transmitted', sends) = failures + Failures(transmitted, n)
    BY <1>1, <2>2, <2>5, <2>6, <2>7, <2>8, <2>9
  <2>12. \A i, j \in Nat : i = 0 + j => i + failures = failures + j
    BY Constants, SMT
  <2> QED
    BY <1>0, <2>1, <2>10, <2>11, <2>12 DEF TypeOK
<1>5. CASE UNCHANGED <<ec, transmitted, sends>>
  BY <1>1, <1>5
<1> QED
  BY <1>3, <1>4, <1>5
     DEF Next, Call, sendAtCommand, vars, radio, history, program, init, SendRequest,
         NoMoreRequests, ReadAnswer, AtReturns, NoAnswer, ReadStatus, NoStatus, receive,
         RadioAnswers, RadioReceives

(* A step that takes at most one frame and asks for nothing keeps to one     *)
(* count at a time.                                                          *)
LEMMA ReadKeepsCount ==
    ASSUME TypeOK, OneCount, inbox' = inbox \/ (inbox # <<>> /\ inbox' = Tail(inbox)),
           UNCHANGED <<atPending, ec>>,
           pc' \in {"idle", "tx_read"} \/ (pc' = "at_send" /\ requests' = 0)
             => pc \in {"idle", "tx_read"} \/ (pc = "at_send" /\ requests = 0),
           pc' = "idle" /\ status' \in {"OK", "COLLISION"}
             => pc = "idle" /\ UNCHANGED <<status, number_transmissions>>
    PROVE  OneCount'
<1>1. CASE inbox' = inbox
  BY <1>1 DEF OneCount, AtMostOne, Answers
<1>2. CASE inbox # <<>> /\ inbox' = Tail(inbox)
  <2>1. \A i \in Answers' : i + 1 \in Answers /\ inbox'[i] = inbox[i + 1]
    BY <1>2, TailFrame DEF TypeOK, Answers
  <2>2. AtMostOne(inbox, "AT")'
    BY <1>2, TailOne DEF TypeOK, OneCount
  <2>3. Answers = {} => Answers' = {}
    BY <2>1
  <2>4. \A i \in Answers' : inbox'[i].command = "EC" /\ inbox'[i].value = ec
    BY <2>1 DEF OneCount
  <2> QED
    BY <2>2, <2>3, <2>4 DEF OneCount
<1> QED
  BY <1>1, <1>2

(* So does a frame that is not an answer. *)
LEMMA OtherFrameKeepsCount ==
    ASSUME TypeOK, OneCount, NEW f \in ApiFrame, f.type # "AT", inbox' = Append(inbox, f),
           ec' = ec \/ Answers = {},
           UNCHANGED <<pc, requests, atPending, status, number_transmissions>>,
           ec' = ec \/ pc # "idle"
    PROVE  OneCount'
<1>1. NothingNew(inbox', inbox, "AT")
  BY AppendOther DEF TypeOK
<1>2. \A i \in Answers' : i \in Answers /\ inbox'[i] = inbox[i]
  BY <1>1 DEF Answers, NothingNew
<1>3. AtMostOne(inbox, "AT")'
  BY <1>2 DEF OneCount, AtMostOne, Answers
<1>4. \A i \in Answers' : inbox'[i].command = "EC" /\ inbox'[i].value = ec'
  BY <1>2 DEF OneCount
<1>5. Answers = {} => Answers' = {}
  BY <1>2
<1> QED
  BY <1>2, <1>3, <1>4, <1>5 DEF OneCount

(* While nothing is repeated or given up, the count that is read is the      *)
(* counter as it is.                                                         *)
LEMMA StepOneCount ==
    IInv /\ StatusInv /\ CountInv /\ [Next]_vars
      => (RequestAttempts > 1 /\ ~givenUp' /\ ~repeated' /\ Counting' => OneCount')
<1> SUFFICES ASSUME IInv, StatusInv, CountInv, [Next]_vars,
                    RequestAttempts > 1, ~givenUp', ~repeated', Counting'
             PROVE  OneCount'
  OBVIOUS
<1>0. TypeOK /\ Lifecycle /\ TypeOK' /\ Lifecycle'
  BY StepTypeOK, StepLifecycle DEF IInv
<1>1. /\ ~givenUp /\ ~repeated
      /\ OneStatus
      /\ ~(requests > 1)
  BY <1>0, GivenUpStays, RepeatedStays DEF StatusInv, CountInv, FirstTime
<1>2. Counting => OneCount
  BY <1>1 DEF CountInv
<1>3. CASE init
  BY <1>0, <1>3 DEF init, Lifecycle, Counting, InCommand
<1>4. CASE SendRequest
  <2>1. /\ pc = "at_send" /\ command = "EC" /\ pc' = "at_read"
        /\ inbox' = inbox /\ atPending' = Append(atPending, command)
        /\ ~(requests > 0)
    BY <1>4 DEF SendRequest, Counting, InCommand
  <2>2. requests = 0
    BY <1>0, <2>1, SMT DEF TypeOK
  <2>3. atPending = <<>> /\ Answers = {}
    BY <1>2, <2>1, <2>2 DEF OneCount, Counting, InCommand
  <2>4. atPending' = <<"EC">>
    BY <2>1, <2>3, SMT
  <2>5. Answers' = {}
    BY <2>1, <2>3 DEF Answers
  <2> QED
    BY <2>1, <2>4, <2>5 DEF OneCount, AtMostOne, Answers
<1>5. CASE NoMoreRequests
  <2>1. requests = RequestAttempts
    BY <1>5 DEF NoMoreRequests
  <2> QED
    BY <1>1, <2>1
<1>6. CASE ReadAnswer
  <2> DEFINE fits == (Head(inbox).command = "EC") = (command = "EC")
             half == fits /\ command # "EC"
  <2>1. /\ inbox # <<>> /\ Head(inbox).type = "AT" /\ inbox' = Tail(inbox)
        /\ pc = "at_read" /\ AtReturns(fits) /\ fits \in BOOLEAN
        /\ cca_retries' = IF fits /\ ~half THEN Head(inbox).value ELSE cca_retries
        /\ mac_position' = IF half THEN mac_position + 1 ELSE mac_position
    BY <1>6 DEF ReadAnswer, Read
  <2>2. Head(inbox) = inbox[1] /\ 1 \in Answers
    BY <1>0, <2>1, HeadFrame DEF TypeOK, Answers
  <2>3. CASE command = "EC"
    <3>1. OneCount
      BY <1>2, <2>1, <2>3 DEF Counting, InCommand
    <3>2. Head(inbox).command = "EC" /\ Head(inbox).value = ec
      BY <2>2, <3>1 DEF OneCount
    <3>3. fits /\ ~half
      BY <2>3, <3>2
    <3> HIDE DEF fits, half
    <3>4. Answers' = {}
      BY <1>0, <2>1, <3>1, TailOne DEF TypeOK, OneCount, Answers
    <3>5. atPending' = <<>> /\ ec' = ec
      BY <2>1, <2>2, <3>1 DEF OneCount, AtReturns
    <3>6. pc' = "idle" /\ number_transmissions' = ec
      BY <2>1, <2>3, <3>2, <3>3 DEF AtReturns, Count
    <3> QED
      BY <3>4, <3>5, <3>6 DEF OneCount, AtMostOne, Answers
  <2>4. CASE command # "EC"
    <3>1. OneAtATime
      BY <1>1, <2>1, <2>4 DEF IInv, InCommand
    <3>2. Answers' = {}
      BY <1>0, <2>1, <3>1, TailOne DEF TypeOK, OneAtATime, Answers
    <3>3. atPending' = <<>>
      BY <2>1, <2>2, <3>1 DEF OneAtATime, AtReturns
    <3>4. mac_position # 2 /\ status' = status
      <4>1. /\ command = "SH" => mac_position = 0
            /\ command = "SL" => mac_position = 1
            /\ command \in {"SH", "SL"}
        BY <1>0, <2>1, <2>4 DEF Lifecycle, InCommand, TypeOK, Half
      <4> QED
        BY <2>1, <4>1, SMT DEF AtReturns
    <3>5. status' = "none"
      BY <3>4 DEF CountInv, FirstTime
    <3> QED
      BY <3>2, <3>3, <3>5 DEF OneCount, AtMostOne, Answers
  <2> QED
    BY <2>3, <2>4
<1>7. CASE NoAnswer
  <2>1. /\ inbox' = inbox \/ (inbox # <<>> /\ inbox' = Tail(inbox))
        /\ UNCHANGED <<command, requests, atPending, ec>>
        /\ pc = "at_read" /\ pc' \in {"at_read", "at_send"}
    BY <1>7 DEF NoAnswer, TimedOut, Skipped
  <2>2. OneCount
    BY <1>2, <2>1 DEF Counting, InCommand
  <2>3. requests' # 0
    BY <1>0, <2>1, SMT DEF Lifecycle
  <2> QED
    BY <1>0, <2>1, <2>2, <2>3, ReadKeepsCount
<1>8. CASE ReadStatus
  <2>1. /\ inbox # <<>> /\ inbox' = Tail(inbox)
        /\ UNCHANGED <<atPending, ec>>
        /\ pc = "tx_read"
        /\ pc' = "idle" => ~(status' \in {"OK", "COLLISION"})
    BY <1>8 DEF ReadStatus, Read
  <2>2. OneCount
    BY <1>2, <2>1 DEF Counting
  <2> QED
    BY <1>0, <2>1, <2>2, ReadKeepsCount
<1>9. CASE NoStatus
  <2>1. /\ inbox' = inbox \/ (inbox # <<>> /\ inbox' = Tail(inbox))
        /\ UNCHANGED <<atPending, ec>>
        /\ pc = "tx_read" /\ pc' = "tx_read"
    BY <1>9 DEF NoStatus, TimedOut, Skipped
  <2>2. OneCount
    BY <1>2, <2>1 DEF Counting
  <2> QED
    BY <1>0, <2>1, <2>2, ReadKeepsCount
<1>10. CASE send
  <2>1. UNCHANGED <<inbox, atPending, ec>> /\ pc = "idle" /\ pc' = "tx_read"
    BY <1>10 DEF send
  <2>2. OneCount
    BY <1>2, <2>1 DEF Counting
  <2> QED
    BY <1>0, <2>1, <2>2, ReadKeepsCount
<1>11. CASE receive
  <2>1. /\ inbox # <<>> /\ inbox' = Tail(inbox)
        /\ UNCHANGED <<pc, atPending, ec, status, number_transmissions>> /\ pc = "idle"
    BY <1>11 DEF receive, Skipped, program
  <2>2. OneCount
    BY <1>2, <2>1 DEF Counting
  <2> QED
    BY <1>0, <2>1, <2>2, ReadKeepsCount
<1>12. ASSUME NEW ok \in BOOLEAN, RadioAnswers(ok) PROVE OneCount'
  <2> DEFINE f == [type |-> "AT", command |-> Head(atPending), ok |-> ok,
                   value |-> IF Head(atPending) = "EC" THEN ec ELSE Head(atPending)]
  <2>1. /\ atPending # <<>> /\ inbox' = Append(inbox, f) /\ atPending' = Tail(atPending)
        /\ UNCHANGED <<pc, requests, command, status, number_transmissions, ec>>
    BY <1>12 DEF RadioAnswers, program
  <2>2. OneCount
    BY <1>2, <2>1 DEF Counting, InCommand
  <2>3. /\ atPending = <<"EC">> /\ Answers = {}
        /\ ~(pc \in {"idle", "tx_read"} \/ (pc = "at_send" /\ requests = 0))
    BY <2>1, <2>2 DEF OneCount
  <2>4. Head(atPending) = "EC" /\ Tail(atPending) = <<>>
    BY <2>3, SMT
  <2>5. f \in ApiFrame /\ f.command = "EC" /\ f.value = ec
    BY <1>0, <2>4 DEF ApiFrame, Answer, TypeOK
  <2> HIDE DEF f
  <2>6. AtMostOne(inbox', "AT") /\ \A i \in Answers' : inbox'[i] = f
    BY <1>0, <2>1, <2>3, <2>5, AppendFirst, ZenonT(60) DEF TypeOK, Answers
  <2> QED
    BY <2>1, <2>3, <2>4, <2>5, <2>6 DEF OneCount
<1>13. ASSUME NEW result \in TxResult, NEW failures \in 0..MaxFailures,
              RadioTransmits(result, failures)
       PROVE  OneCount'
  <2> DEFINE f == [type |-> "TX_STATUS", of |-> Head(txPending), result |-> result]
  <2>1. /\ txPending # <<>> /\ inbox' = Append(inbox, f)
        /\ UNCHANGED <<pc, requests, command, status, number_transmissions, atPending>>
    BY <1>13 DEF RadioTransmits, program
  <2>2. pc = "tx_read"
    BY <1>1, <2>1 DEF OneStatus
  <2>3. OneCount /\ Answers = {}
    BY <1>2, <2>2 DEF Counting, OneCount
  <2>4. f \in ApiFrame /\ f.type # "AT"
    <3>1. Head(txPending) \in 1..MaxSends
      BY <1>0, <2>1, HeadTailProperties DEF TypeOK
    <3> QED
      BY <3>1 DEF ApiFrame, TxStatus
  <2> HIDE DEF f
  <2> QED
    BY <1>0, <2>1, <2>2, <2>3, <2>4, OtherFrameKeepsCount
<1>14. CASE RadioReceives
  <2>1. /\ inbox' = Append(inbox, Rx) /\ Rx \in ApiFrame /\ Rx.type # "AT"
        /\ UNCHANGED <<pc, requests, command, status, number_transmissions, atPending, ec>>
    BY <1>14 DEF RadioReceives, program, ApiFrame, Rx
  <2>2. OneCount
    BY <1>2, <2>1 DEF Counting, InCommand
  <2> QED
    BY <1>0, <2>1, <2>2, OtherFrameKeepsCount
<1>15. CASE UNCHANGED vars
  <2>1. UNCHANGED <<pc, requests, command, status, number_transmissions, inbox, atPending, ec>>
    BY <1>15 DEF vars, radio, history
  <2>2. OneCount
    BY <1>2, <2>1 DEF Counting, InCommand
  <2> QED
    BY <1>0, <2>1, <2>2, ReadKeepsCount
<1> QED
  BY <1>3, <1>4, <1>5, <1>6, <1>7, <1>8, <1>9, <1>10, <1>11, <1>12, <1>13, <1>14, <1>15
     DEF Next, Call, sendAtCommand

-----------------------------------------------------------------------------
(* The theorems *)

(* The invariant holds in every reachable state. *)
THEOREM Invariance == Spec => []IInv
<1>1. IInv /\ [Next]_vars => IInv'
  BY StepTypeOK, StepLifecycle, StepAddress, StepOneAtATime DEF IInv
<1> QED
  BY <1>1, InitIInv, PTL DEF Spec

(* The variables of the MAC layer have their types, whatever the radio does. *)
THEOREM TypeCorrect == Spec => []TypeOK
<1>1. IInv => TypeOK
  BY DEF IInv
<1> QED
  BY <1>1, Invariance, PTL

(* After an init() that repeated nothing the address is the radio's.         *)
THEOREM AddressIsRight == Spec => []AddressUnlessRepeated
<1>1. IInv => AddressUnlessRepeated
  <2> SUFFICES ASSUME IInv, Initialised, ~repeated
               PROVE  my_mac = [h \in 0..1 |-> <<"SH", "SL">>[h + 1]]
    BY DEF AddressUnlessRepeated
  <2>1. my_mac \in [0..1 -> Half \cup {Unset}] /\ my_mac[0] = "SH" /\ my_mac[1] = "SL"
    BY DEF IInv, TypeOK, AddressSoFar, Initialised
  <2>2. \A h \in 0..1 : my_mac[h] = <<"SH", "SL">>[h + 1]
    <3>1. /\ <<"SH", "SL">>[0 + 1] = "SH" /\ <<"SH", "SL">>[1 + 1] = "SL"
          /\ \A h \in 0..1 : h = 0 \/ h = 1
      BY SMT
    <3> QED
      BY <2>1, <3>1
  <2> QED
    BY <2>1, <2>2
<1> QED
  BY <1>1, Invariance, PTL

(* Nothing is on its way at power on, and nothing was sent. *)
LEMMA InitStatusAndCount == Init => StatusInv /\ CountInv
<1> SUFFICES ASSUME Init PROVE StatusInv /\ CountInv
  OBVIOUS
<1>1. TypeOK
  BY InitIInv DEF IInv
<1>2. Statuses = {} /\ Answers = {}
  BY SMT DEF Init, Statuses, Answers, OfType
<1>3. \A n \in 1..MaxSends : transmitted[n].failures = 0
  BY DEF Init
<1>4. OneStatus
  BY <1>2, <1>3 DEF Init, OneStatus, AtMostOne, Statuses
<1>5. StatusInv
  <2>1. ~(sends > 0)
    BY SMT DEF Init
  <2> QED
    BY <1>4, <2>1 DEF Init, StatusInv
<1>6. CounterIsSum
  <2>1. transmitted \in Transmissions
    BY <1>1 DEF TypeOK, Transmissions
  <2> QED
    BY <2>1, FailuresNone DEF Init, CounterIsSum
<1>7. FirstTime
  BY SMT DEF Init, FirstTime
<1>8. ~Counting
  BY DEF Init, Counting, InCommand
<1> QED
  BY <1>5, <1>6, <1>7, <1>8 DEF CountInv

(* Both invariants hold in every reachable state. *)
THEOREM StatusAndCountInvariance == Spec => [](IInv /\ StatusInv /\ CountInv)
<1>1. IInv /\ StatusInv /\ CountInv /\ [Next]_vars => (IInv /\ StatusInv /\ CountInv)'
  <2> SUFFICES ASSUME IInv, StatusInv, CountInv, [Next]_vars
               PROVE  IInv' /\ StatusInv' /\ CountInv'
    OBVIOUS
  <2>1. IInv'
    BY StepTypeOK, StepLifecycle, StepAddress, StepOneAtATime DEF IInv
  <2>2. StatusInv'
    BY StepStatusInv
  <2>3. CounterIsSum' /\ FirstTime'
    BY StepCounter, StepFirstTime DEF CountInv
  <2>4. (RequestAttempts > 1 /\ ~givenUp /\ ~repeated /\ Counting => OneCount)'
    BY StepOneCount
  <2> QED
    BY <2>1, <2>2, <2>3, <2>4 DEF CountInv
<1> QED
  BY <1>1, InitIInv, InitStatusAndCount, PTL DEF Spec

(* send() returns the status of its own frame, until one gives up waiting.   *)
THEOREM StatusIsRight == Spec => []StatusIsOwn
<1>1. StatusInv => StatusIsOwn
  BY DEF StatusInv, StatusIsOwn
<1> QED
  BY <1>1, StatusAndCountInvariance, PTL

(* Any frame's failures are in the sum of those up to it. *)
LEMMA OwnInSum ==
    ASSUME NEW n \in 1..MaxSends, NEW t \in Transmissions
    PROVE  Failures(t, n) >= t[n].failures
<1>1. PICK k : k = n - 1
  OBVIOUS
<1>2. k \in 0..MaxSends /\ k + 1 = n /\ k + 1 \in 0..MaxSends
  BY <1>1, BoundsAssumption, SMT
<1>3. Failures(t, k + 1) = t[k + 1].failures + Failures(t, k)
  BY <1>2, FailuresLast
<1>4. PICK a \in Nat, b \in Nat : a = t[n].failures /\ b = Failures(t, k)
  BY <1>2, FailuresType DEF Transmissions
<1>5. a + b >= a
  BY SMT
<1> QED
  BY <1>2, <1>3, <1>4, <1>5, Zenon

(* The failures of its own frame are in the count that send() gives back,    *)
(* until something is repeated or given up.  With a single attempt a command *)
(* that is not answered fails without having been repeated, and the count is *)
(* the constant that stands for a failure; the code has twenty attempts.     *)
THEOREM CountIsRight ==
    ASSUME RequestAttempts > 1
    PROVE  Spec => []OwnFailuresCounted
<1>1. IInv /\ CountInv => OwnFailuresCounted
  <2> SUFFICES ASSUME IInv, CountInv, CountGiven
               PROVE  number_transmissions >= transmitted[sends].failures
    BY DEF OwnFailuresCounted
  <2>1. OneCount
    BY DEF CountInv, Counting, CountGiven
  <2>2. number_transmissions = Failures(transmitted, sends)
    BY <2>1 DEF OneCount, CountInv, CounterIsSum, CountGiven
  <2>3. sends \in 1..MaxSends /\ transmitted \in Transmissions
    BY BoundsAssumption DEF IInv, TypeOK, Transmissions, CountGiven
  <2> QED
    BY <2>2, <2>3, OwnInSum
<1> QED
  BY <1>1, StatusAndCountInvariance, PTL
=============================================================================
