------------------------- MODULE XBeeFramingProofs -------------------------
(* What is proved of XBeeFraming: its types, that what is missed is bounded  *)
(* by what is lost and too long, and that nothing is out of order until a    *)
(* byte is lost.                                                             *)
EXTENDS XBeeFraming, Induction, SequenceTheorems

-----------------------------------------------------------------------------
(* Folds over the bytes of a frame, unrolled *)

(* The last number of a sequence's beginning. *)
LEMMA MaxOfPrefix ==
    ASSUME NEW n \in Nat, n # 0
    PROVE  Max(1..n) = n
<1>1. \A y \in 1..n : n >= y
  BY SMT
<1>2. \A x \in 1..n : (\A y \in 1..n : x >= y) => x = n
  BY SMT
<1>3. n \in 1..n
  BY SMT
<1> QED
  BY <1>1, <1>2, <1>3 DEF Max

(* Of any places of a sequence there is a last one. *)
LEMMA MaxIsMember ==
    ASSUME NEW n \in Nat, NEW s \in SUBSET (1..n), s # {}
    PROVE  Max(s) \in s
<1> DEFINE HasLast(r) == \E x \in r : \A y \in r : x >= y
           K == {k \in Nat : \A r \in SUBSET (1..k) : r # {} => HasLast(r)}
<1>1. 0 \in K
  <2>1. 1..0 = {}
    BY SMT
  <2> QED
    BY <2>1
<1>2. ASSUME NEW k \in K PROVE k + 1 \in K
  <2>1. ASSUME NEW r \in SUBSET (1..(k + 1)), r # {} PROVE HasLast(r)
    <3>1. CASE k + 1 \in r
      <4>1. \A y \in r : k + 1 >= y
        BY SMT
      <4> QED
        BY <3>1, <4>1
    <3>2. CASE k + 1 \notin r
      <4>1. r \in SUBSET (1..k)
        BY <3>2, SMT
      <4> QED
        BY <2>1, <4>1
    <3> QED
      BY <3>1, <3>2
  <2> QED
    BY <2>1
<1>3. K = Nat
  <2>1. K \in SUBSET Nat
    OBVIOUS
  <2> HIDE DEF K
  <2> QED
    BY <1>1, <1>2, <2>1, NatSetInduction
<1>4. HasLast(s)
  <2>1. n \in K
    BY <1>3
  <2> QED
    BY <2>1
<1> QED
  BY <1>4 DEF Max

(* The last of any of the first n places: FoldLeft() takes it off first. *)
LastOf(n) == [s \in SUBSET (1..n) |-> Max(s)]

(* The last of any places is a choice of one of them. *)
LEMMA LastIsChoice ==
    ASSUME NEW n \in Nat
    PROVE  IsFiniteSet(1..n) /\ IsChoice(LastOf(n), 1..n)
<1>1. IsFiniteSet(1..n)
  <2>1. 1 \in Int /\ n \in Int
    OBVIOUS
  <2> QED
    BY <2>1, FS_Interval
<1>2. \A s \in SUBSET (1..n) : s # {} => LastOf(n)[s] \in s
  BY MaxIsMember DEF LastOf
<1> QED
  BY <1>1, <1>2 DEF IsChoice

(* What is left of the first k places without the last of them. *)
LEMMA PrefixWithoutLast ==
    ASSUME NEW n \in Nat, NEW k \in 1..n
    PROVE  /\ 1..k \in SUBSET (1..n) /\ 1..k # {}
           /\ Max(1..k) = k /\ (1..k) \ {k} = 1..(k - 1)
<1>1. Max(1..k) = k
  BY MaxOfPrefix
<1>2. (1..k) \ {k} = 1..(k - 1)
  BY SMT
<1>3. 1..k \in SUBSET (1..n) /\ k \in 1..k
  BY SMT
<1> QED
  BY <1>1, <1>2, <1>3

(* A byte is a number. *)
LEMMA ByteIsNat == \A b \in Byte : b \in Nat /\ b <= 255
BY SMT DEF Byte

(* A remainder by 256 is a byte. *)
LEMMA ByteRemainder == ASSUME NEW a \in Nat PROVE a % 256 \in Byte
BY SMT DEF Byte

(* z is s and then r, of lengths l and m. *)
Joined(z, s, l, r, m) ==
    /\ z \in Seq(Byte) /\ Len(z) = l + m
    /\ \A i \in 1..(l + m) : z[i] = IF i <= l THEN s[i] ELSE r[i - l]

(* Two sequences of bytes, one after the other. *)
LEMMA ByteConcat ==
    ASSUME NEW s \in Seq(Byte), NEW r \in Seq(Byte)
    PROVE  Joined(s \o r, s, Len(s), r, Len(r))
<1>1. s \o r \in Seq(Byte) /\ Len(s \o r) = Len(s) + Len(r)
  BY ConcatProperties
<1>2. ASSUME NEW i \in 1..(Len(s) + Len(r))
      PROVE  (s \o r)[i] = IF i <= Len(s) THEN s[i] ELSE r[i - Len(s)]
  BY ConcatProperties
<1> QED
  BY <1>1, <1>2 DEF Joined

(* ByteSum() adds byte after byte. *)
SumSteps(G, s) ==
    /\ G \in [0..Len(s) -> Byte] /\ G[0] = 0
    /\ \A k \in 1..Len(s) : G[k] = (G[k - 1] + s[k]) % 256

(* g[r] sums the bytes of s at the places r, from the first to the last. *)
SumFold(g, s) ==
    g = [r \in SUBSET (1..Len(s)) |->
            IF r = {} THEN 0 ELSE (g[r \ {Max(r)}] + s[Max(r)]) % 256]

(* There is such a sum of the first bytes. *)
LEMMA SumFoldExists ==
    ASSUME NEW s \in Seq(Byte)
    PROVE  \E g : SumFold(g, s)
<1> DEFINE S == 1..Len(s)
           c == LastOf(Len(s))
           h == [i \in S |-> [v \in Byte |-> (v + s[i]) % 256]]
<1>1. Len(s) \in Nat /\ \A i \in S : s[i] \in Byte
  BY LenProperties
<1>2. \A i \in S, v \in Byte : h[i][v] = (v + s[i]) % 256 /\ h[i][v] \in Byte
  <2> TAKE i \in S
  <2> TAKE v \in Byte
  <2>1. v \in Nat /\ s[i] \in Nat
    BY <1>1, ByteIsNat, Zenon
  <2>2. v + s[i] \in Nat
    BY <2>1, SMT
  <2> QED
    BY <2>2, ByteRemainder
<1>3. h \in [S -> [Byte -> Byte]]
  BY <1>2
<1>4. IsFiniteSet(S) /\ IsChoice(c, S)
  BY <1>1, LastIsChoice
<1>5. 0 \in Byte
  BY DEF Byte
<1>6. PICK g \in [SUBSET S -> Byte] : IsFold(g, S, 0, c, h)
  <2> HIDE DEF S, c, h
  <2> QED
    BY <1>3, <1>4, <1>5, FoldExists
<1>7. ASSUME NEW r \in SUBSET S
      PROVE  g[r] = IF r = {} THEN 0 ELSE (g[r \ {Max(r)}] + s[Max(r)]) % 256
  <2>1. c[r] = Max(r)
    BY DEF LastOf
  <2>2. CASE r = {}
    BY <1>6, <2>2 DEF IsFold
  <2>3. CASE r # {}
    <3>1. Max(r) \in S /\ g[r \ {Max(r)}] \in Byte
      BY <1>1, <2>3, MaxIsMember
    <3>2. g[r] = h[Max(r)][g[r \ {Max(r)}]]
      <4> HIDE DEF h, c, S
      <4> QED
        BY <1>6, <2>1, <2>3, Zenon DEF IsFold
    <3> HIDE DEF h, c, S
    <3> QED
      BY <1>2, <2>3, <3>1, <3>2, Zenon
  <2> QED
    BY <2>2, <2>3
<1>8. SumFold(g, s)
  <2>1. g = [r \in SUBSET S |-> g[r]]
    OBVIOUS
  <2> QED
    BY <1>7, <2>1, Zenon DEF SumFold
<1> QED
  BY <1>8

(* ByteSum() is such a sum. *)
LEMMA SumUnrolled ==
    ASSUME NEW s \in Seq(Byte)
    PROVE  \E G : SumSteps(G, s) /\ ByteSum(s) = G[Len(s)]
<1>1. PICK n \in Nat : n = Len(s)
  BY LenProperties
<1>2. DOMAIN s = 1..n /\ \A i \in 1..n : s[i] \in Byte
  BY <1>1, LenProperties
<1>3. PICK g : g = CHOOSE f : SumFold(f, s)
  OBVIOUS
<1>4. SumFold(g, s)
  BY <1>3, SumFoldExists
<1>5. ByteSum(s) = g[1..n]
  BY <1>1, <1>2, <1>3, Zenon DEF ByteSum, FoldLeft, MapThenFoldSet, SumFold
<1>6. PICK G : G = [k \in 0..n |-> g[1..k]]
  OBVIOUS
<1>7. G[0] = 0
  <2>1. 1..0 = {} /\ 0 \in 0..n
    BY SMT
  <2>2. {} \in SUBSET (1..n)
    OBVIOUS
  <2>3. g[{}] = 0
    BY <1>1, <1>4, <2>2, Zenon DEF SumFold
  <2> QED
    BY <1>6, <2>1, <2>3
<1>8. ASSUME NEW k \in 1..n PROVE G[k] = (G[k - 1] + s[k]) % 256
  <2>1. k \in 0..n /\ k - 1 \in 0..n
    BY SMT
  <2>2. /\ 1..k \in SUBSET (1..n) /\ 1..k # {}
        /\ Max(1..k) = k /\ (1..k) \ {k} = 1..(k - 1)
    BY PrefixWithoutLast
  <2>3. PICK r : r = 1..k
    OBVIOUS
  <2>4. g[r] = (g[r \ {Max(r)}] + s[Max(r)]) % 256
    BY <1>1, <1>4, <2>2, <2>3, Zenon DEF SumFold
  <2>5. g[1..k] = (g[1..(k - 1)] + s[k]) % 256
    BY <2>2, <2>3, <2>4, Zenon
  <2> QED
    BY <1>6, <2>1, <2>5, Zenon
<1>9. \A k \in 0..n : G[k] \in Byte
  <2> DEFINE K == {k \in Nat : k <= n => G[k] \in Byte}
  <2>1. 0 \in K
    BY <1>7 DEF Byte
  <2>2. ASSUME NEW k \in K PROVE k + 1 \in K
    <3>1. CASE k + 1 <= n
      <4>1. k + 1 \in 1..n /\ k <= n /\ (k + 1) - 1 = k
        BY <3>1, SMT
      <4>2. G[k] \in Byte /\ s[k + 1] \in Byte
        BY <1>2, <4>1
      <4>3. G[k + 1] = (G[k] + s[k + 1]) % 256
        BY <1>8, <4>1
      <4>4. G[k] + s[k + 1] \in Nat
        <5>1. G[k] \in Nat /\ s[k + 1] \in Nat
          BY <4>2, ByteIsNat, Zenon
        <5> QED
          BY <5>1, SMT
      <4> QED
        BY <4>3, <4>4, ByteRemainder
    <3> QED
      BY <3>1
  <2>3. K = Nat
    <3>1. K \in SUBSET Nat
      OBVIOUS
    <3> HIDE DEF K
    <3> QED
      BY <2>1, <2>2, <3>1, NatSetInduction
  <2> QED
    BY <2>3
<1>10. G \in [0..n -> Byte]
  BY <1>6, <1>9
<1>11. ByteSum(s) = G[n]
  BY <1>5, <1>6
<1> QED
  BY <1>1, <1>7, <1>8, <1>10, <1>11 DEF SumSteps

(* A sum of bytes is a byte. *)
LEMMA SumType == ASSUME NEW s \in Seq(Byte) PROVE ByteSum(s) \in Byte
<1>1. PICK G : SumSteps(G, s) /\ ByteSum(s) = G[Len(s)]
  BY SumUnrolled
<1>2. Len(s) \in 0..Len(s)
  BY LenProperties
<1> QED
  BY <1>1, <1>2 DEF SumSteps

(* The sum of no bytes. *)
LEMMA SumNone == ByteSum(<<>>) = 0
<1>1. <<>> \in Seq(Byte) /\ Len(<<>>) = 0
  OBVIOUS
<1>2. PICK s : s = <<>>
  OBVIOUS
<1>3. PICK G : SumSteps(G, s) /\ ByteSum(s) = G[Len(s)]
  BY <1>1, <1>2, SumUnrolled
<1> QED
  BY <1>1, <1>2, <1>3 DEF SumSteps

(* The sum with one more byte. *)
LEMMA SumAppend ==
    ASSUME NEW s \in Seq(Byte), NEW b \in Byte
    PROVE  ByteSum(Append(s, b)) = (ByteSum(s) + b) % 256
<1>1. PICK t : t = Append(s, b)
  OBVIOUS
<1>2. PICK n \in Nat : n = Len(s)
  BY LenProperties
<1>3. t \in Seq(Byte) /\ Len(t) = n + 1 /\ t[n + 1] = b /\ \A i \in 1..n : t[i] = s[i]
  BY <1>1, <1>2, AppendProperties
<1>4. PICK G : SumSteps(G, s) /\ ByteSum(s) = G[n]
  BY <1>2, SumUnrolled
<1>5. PICK H : SumSteps(H, t) /\ ByteSum(t) = H[n + 1]
  BY <1>3, SumUnrolled
<1> DEFINE K == {k \in Nat : k <= n => H[k] = G[k]}
<1>6. 0 \in K
  BY <1>4, <1>5 DEF SumSteps
<1>7. ASSUME NEW k \in K PROVE k + 1 \in K
  <2>1. CASE k + 1 <= n
    <3>1. k + 1 \in 1..n /\ k + 1 \in 1..(n + 1) /\ k <= n /\ (k + 1) - 1 = k
      BY <2>1, SMT
    <3>2. H[k] = G[k]
      BY <3>1
    <3>3. G[k + 1] = (G[k] + s[k + 1]) % 256
      BY <1>2, <1>4, <3>1, ZenonT(40) DEF SumSteps
    <3>4. H[k + 1] = (H[k] + t[k + 1]) % 256
      BY <1>3, <1>5, <3>1, ZenonT(40) DEF SumSteps
    <3>5. t[k + 1] = s[k + 1]
      BY <1>3, <3>1
    <3> QED
      BY <3>2, <3>3, <3>4, <3>5
  <2> QED
    BY <2>1
<1>8. K = Nat
  <2>1. K \in SUBSET Nat
    OBVIOUS
  <2> HIDE DEF K
  <2> QED
    BY <1>6, <1>7, <2>1, NatSetInduction
<1>9. H[n] = G[n]
  BY <1>8
<1>10. H[n + 1] = (H[n] + b) % 256
  <2>1. n + 1 \in 1..(n + 1) /\ (n + 1) - 1 = n
    BY SMT
  <2>2. H[n + 1] = (H[(n + 1) - 1] + t[n + 1]) % 256
    BY <1>3, <1>5, <2>1, Zenon DEF SumSteps
  <2> QED
    BY <1>3, <2>1, <2>2, Zenon
<1> QED
  BY <1>1, <1>4, <1>5, <1>9, <1>10, Zenon

-----------------------------------------------------------------------------
(* Escaping *)

(* What xor20() does, it undoes. *)
LEMMA XorTwice ==
    ASSUME NEW b \in Byte
    PROVE  xor20(b) \in Byte /\ xor20(xor20(b)) = b
<1>1. PICK q \in 0..7, r \in 0..31 : b = 32 * q + r /\ q = b \div 32
  <2>1. b \in Nat /\ b <= 255
    BY ByteIsNat
  <2>2. PICK q, r : q = b \div 32 /\ r = b % 32
    OBVIOUS
  <2>3. q \in Nat /\ r \in Nat /\ r <= 31 /\ b = 32 * q + r
    BY <2>1, <2>2, SMT
  <2>4. q <= 7
    BY <2>1, <2>3, SMT
  <2> QED
    BY <2>2, <2>3, <2>4, SMT
<1>2. /\ q % 2 = 0 => xor20(b) = b + 32 /\ q \in {0, 2, 4, 6}
      /\ q % 2 # 0 => xor20(b) = b - 32 /\ q \in {1, 3, 5, 7}
  <2>1. q \in {0, 1, 2, 3, 4, 5, 6, 7}
    BY SMT
  <2>2. xor20(b) = IF q % 2 = 0 THEN b + 32 ELSE b - 32
    BY <1>1, Zenon DEF xor20
  <2> QED
    BY <2>1, <2>2, SMT
<1>3. CASE q % 2 = 0
  <2>1. PICK x : x = b + 32
    OBVIOUS
  <2>2. xor20(b) = x /\ x \in 0..255 /\ x \in Int
    BY <1>1, <1>2, <1>3, <2>1, SMT
  <2>3. (x \div 32) % 2 # 0
    <3>1. q \in {0, 2, 4, 6}
      BY <1>2, <1>3
    <3>2. x = 32 * (q + 1) + r
      BY <1>1, <2>1, SMT
    <3>3. x \div 32 = q + 1
      BY <2>2, <3>1, <3>2, SMT
    <3> QED
      BY <3>1, <3>3, SMT
  <2>4. xor20(x) = x - 32
    BY <2>3 DEF xor20
  <2>5. x - 32 = b
    BY <1>1, <2>1, SMT
  <2> QED
    BY <2>2, <2>4, <2>5 DEF Byte
<1>4. CASE q % 2 # 0
  <2>1. PICK x : x = b - 32
    OBVIOUS
  <2>2. xor20(b) = x /\ x \in 0..255 /\ x \in Int
    BY <1>1, <1>2, <1>4, <2>1, SMT
  <2>3. (x \div 32) % 2 = 0
    <3>1. q \in {1, 3, 5, 7}
      BY <1>2, <1>4
    <3>2. x = 32 * (q - 1) + r
      BY <1>1, <2>1, SMT
    <3>3. x \div 32 = q - 1
      BY <2>2, <3>1, <3>2, SMT
    <3> QED
      BY <3>1, <3>3, SMT
  <2>4. xor20(x) = x + 32
    BY <2>3 DEF xor20
  <2>5. x + 32 = b
    BY <1>1, <2>1, SMT
  <2> QED
    BY <2>2, <2>4, <2>5 DEF Byte
<1> QED
  BY <1>3, <1>4

(* A byte goes over the line as it is, or as two bytes of which none is a    *)
(* start byte and the second is not the escape byte.                         *)
Plainly(e, b) == Len(e) = 1 /\ e[1] = b /\ b \notin {START_BYTE, ESCAPE}
InTwo(e, b)   == /\ Len(e) = 2 /\ e[1] = ESCAPE /\ e[2] = xor20(b)
                 /\ e[2] \notin {START_BYTE, ESCAPE}

(* escaped() is one of the two. *)
LEMMA EscapedForms ==
    ASSUME NEW b \in Byte
    PROVE  /\ escaped(b) \in Seq(Byte)
           /\ Plainly(escaped(b), b) \/ InTwo(escaped(b), b)
<1>1. CASE b \in {START_BYTE, ESCAPE, XON, XOFF}
  <2>1. escaped(b) = <<ESCAPE, xor20(b)>>
    BY <1>1 DEF escaped
  <2>2. xor20(b) \in Byte /\ ESCAPE \in Byte
    <3>1. xor20(b) \in Byte
      BY XorTwice
    <3>2. ESCAPE \in Byte
      BY SMT DEF ESCAPE, Byte
    <3> QED
      BY <3>1, <3>2
  <2>3. xor20(b) \in {94, 93, 49, 51}
    <3>1. CASE b = 126
      <4>1. 126 \div 32 = 3 /\ 3 % 2 = 1 /\ 126 - 32 = 94
        BY SMT
      <4> QED
        BY <3>1, <4>1 DEF xor20
    <3>2. CASE b = 125
      <4>1. 125 \div 32 = 3 /\ 3 % 2 = 1 /\ 125 - 32 = 93
        BY SMT
      <4> QED
        BY <3>2, <4>1 DEF xor20
    <3>3. CASE b = 17
      <4>1. 17 \div 32 = 0 /\ 0 % 2 = 0 /\ 17 + 32 = 49
        BY SMT
      <4> QED
        BY <3>3, <4>1 DEF xor20
    <3>4. CASE b = 19
      <4>1. 19 \div 32 = 0 /\ 0 % 2 = 0 /\ 19 + 32 = 51
        BY SMT
      <4> QED
        BY <3>4, <4>1 DEF xor20
    <3> QED
      BY <1>1, <3>1, <3>2, <3>3, <3>4 DEF START_BYTE, ESCAPE, XON, XOFF
  <2>4. xor20(b) \notin {START_BYTE, ESCAPE}
    BY <2>3, SMT DEF START_BYTE, ESCAPE
  <2>5. PICK x, y : x = xor20(b) /\ y = ESCAPE
    OBVIOUS
  <2>6. <<y, x>> \in Seq(Byte) /\ Len(<<y, x>>) = 2 /\ <<y, x>>[1] = y /\ <<y, x>>[2] = x
    BY <2>2, <2>5
  <2> QED
    BY <2>1, <2>4, <2>5, <2>6, Zenon DEF InTwo
<1>2. CASE b \notin {START_BYTE, ESCAPE, XON, XOFF}
  <2>1. escaped(b) = <<b>> /\ b \notin {START_BYTE, ESCAPE}
    BY <1>2 DEF escaped
  <2>2. <<b>> \in Seq(Byte) /\ Len(<<b>>) = 1 /\ <<b>>[1] = b
    OBVIOUS
  <2> QED
    BY <2>1, <2>2, Zenon DEF Plainly
<1> QED
  BY <1>1, <1>2

-----------------------------------------------------------------------------
(* The bytes of a frame on the line *)

(* e holds the escaped form of s[k] behind its first c[k - 1] bytes. *)
Piece(e, s, c, k) ==
    /\ c[k] = c[k - 1] + Len(escaped(s[k]))
    /\ \A i \in 1..Len(escaped(s[k])) : e[c[k - 1] + i] = escaped(s[k])[i]

(* e is a start byte and the escaped forms of the first n bytes of s, of     *)
(* which the k-th ends at c[k].                                              *)
Laid(e, s, c, n) ==
    /\ e \in Seq(Byte) /\ Len(e) = c[n]
    /\ c[0] = 1 /\ e[1] = START_BYTE
    /\ \A k \in 1..n : c[k] \in Nat /\ c[k] <= c[n] /\ Piece(e, s, c, k)

(* Appending a sequence leaves what was there. *)
LEMMA PieceKept ==
    ASSUME NEW e \in Seq(Byte), NEW x \in Seq(Byte), NEW s, NEW c, NEW k,
           c[k - 1] \in Nat, c[k] <= Len(e), Len(escaped(s[k])) \in Nat, Piece(e, s, c, k)
    PROVE  Piece(e \o x, s, c, k)
<1>1. PICK m \in Nat, a \in Nat, l \in Nat :
          m = Len(escaped(s[k])) /\ a = c[k - 1] /\ l = Len(e)
  BY LenProperties
<1>2. ASSUME NEW i \in 1..m PROVE (e \o x)[a + i] = e[a + i]
  <2>1. a + m <= l
    BY <1>1 DEF Piece
  <2>2. Len(x) \in Nat
    BY LenProperties
  <2>3. a + i \in 1..(l + Len(x)) /\ a + i <= l
    BY <2>1, <2>2, SMT
  <2> QED
    BY <1>1, <2>3, ConcatProperties
<1> QED
  BY <1>1, <1>2, Zenon DEF Piece

(* The encoding of one more byte. *)
LEMMA LaidOneMore ==
    ASSUME NEW n \in Nat, NEW e, NEW s, NEW c, Laid(e, s, c, n),
           \A k \in 1..(n + 1) : s[k] \in Byte, c[n + 1] = c[n] + Len(escaped(s[n + 1]))
    PROVE  Laid(e \o escaped(s[n + 1]), s, c, n + 1)
<1>1. PICK x : x = escaped(s[n + 1])
  OBVIOUS
<1>2. n + 1 \in 1..(n + 1) /\ (n + 1) - 1 = n
  BY SMT
<1>3. x \in Seq(Byte) /\ Len(x) \in Nat
  BY <1>1, <1>2, EscapedForms, LenProperties
<1>4. e \in Seq(Byte) /\ Len(e) = c[n] /\ c[n] \in Nat /\ c[0] = 1 /\ e[1] = START_BYTE
  BY LenProperties DEF Laid
<1>5. e \o x \in Seq(Byte) /\ Len(e \o x) = c[n] + Len(x)
  BY <1>3, <1>4, ConcatProperties
<1>6. c[n + 1] = c[n] + Len(x) /\ c[n + 1] \in Nat /\ c[n] <= c[n + 1]
  <2>1. c[n + 1] = c[n] + Len(x)
    BY <1>1
  <2> QED
    BY <1>3, <1>4, <2>1, SMT
<1>7. ASSUME NEW k \in 1..n
      PROVE  c[k] \in Nat /\ c[k] <= c[n + 1] /\ Piece(e \o x, s, c, k)
  <2>1. c[k] \in Nat /\ c[k] <= c[n] /\ Piece(e, s, c, k)
    BY DEF Laid
  <2>2. c[k] <= c[n + 1]
    BY <1>4, <1>6, <2>1, SMT
  <2>3. c[k - 1] \in Nat
    <3>1. k - 1 = 0 \/ k - 1 \in 1..n
      BY SMT
    <3> QED
      BY <1>4, <3>1 DEF Laid
  <2>4. Len(escaped(s[k])) \in Nat
    <3>1. k \in 1..(n + 1)
      BY SMT
    <3> QED
      BY <3>1, EscapedForms, LenProperties
  <2> QED
    BY <1>3, <1>4, <2>1, <2>2, <2>3, <2>4, PieceKept
<1>8. Piece(e \o x, s, c, n + 1)
  <2>1. ASSUME NEW i \in 1..Len(x) PROVE (e \o x)[c[n] + i] = x[i]
    <3>1. PICK z, l, m : z = e \o x /\ l = c[n] /\ m = Len(x)
      OBVIOUS
    <3>2. Joined(z, e, l, x, m)
      BY <1>3, <1>4, <3>1, ByteConcat
    <3>3. i \in Nat /\ l + i \in 1..(l + m) /\ ~ (l + i <= l) /\ (l + i) - l = i
      BY <1>3, <1>4, <3>1, SMTT(30)
    <3>4. z[l + i] = x[(l + i) - l]
      BY <3>2, <3>3 DEF Joined
    <3> QED
      BY <3>1, <3>3, <3>4
  <2> QED
    BY <1>1, <1>2, <1>6, <2>1, Zenon DEF Piece
<1>9. (e \o x)[1] = START_BYTE
  <2>1. 1 <= c[n]
    <3>1. n = 0 \/ n \in 1..n
      BY SMT
    <3>2. ASSUME n \in 1..n PROVE 1 <= c[n]
      <4> DEFINE K == {k \in Nat : k <= n => c[k] \in Nat /\ 1 <= c[k]}
      <4>1. 0 \in K
        BY <1>4
      <4>2. ASSUME NEW k \in K PROVE k + 1 \in K
        <5>1. CASE k + 1 <= n
          <6>1. k + 1 \in 1..n /\ k <= n /\ (k + 1) - 1 = k /\ k + 1 \in 1..(n + 1)
            BY <5>1, SMT
          <6>2. c[k + 1] = c[k] + Len(escaped(s[k + 1])) /\ c[k] \in Nat /\ 1 <= c[k]
            BY <6>1 DEF Laid, Piece
          <6>3. Len(escaped(s[k + 1])) \in Nat
            BY <6>1, EscapedForms, LenProperties
          <6> QED
            BY <6>2, <6>3, SMT
        <5> QED
          BY <5>1
      <4>3. K = Nat
        <5>1. K \in SUBSET Nat
          OBVIOUS
        <5> HIDE DEF K
        <5> QED
          BY <4>1, <4>2, <5>1, NatSetInduction
      <4> QED
        BY <4>3
    <3> QED
      BY <1>4, <3>1, <3>2
  <2>2. 1 \in 1..(c[n] + Len(x))
    BY <1>3, <1>4, <2>1, SMT
  <2> QED
    BY <1>3, <1>4, <2>1, <2>2, ConcatProperties
<1>10. \A k \in 1..(n + 1) : k \in 1..n \/ k = n + 1
  BY SMT
<1>11. Laid(e \o x, s, c, n + 1)
  <2>1. ASSUME NEW k \in 1..(n + 1)
        PROVE  c[k] \in Nat /\ c[k] <= c[n + 1] /\ Piece(e \o x, s, c, k)
    BY <1>6, <1>7, <1>8, <1>10
  <2> QED
    BY <1>4, <1>5, <1>6, <1>9, <2>1 DEF Laid
<1> QED
  BY <1>1, <1>11

(* The two special bytes. *)
LEMMA ByteConstants == START_BYTE \in Byte /\ ESCAPE \in Byte /\ START_BYTE # ESCAPE
BY SMT DEF START_BYTE, ESCAPE, Byte

(* send() as a recursion over the places of the body. *)
SendFold(g, s) ==
    g = [r \in SUBSET (1..Len(s)) |->
            IF r = {} THEN <<START_BYTE>> ELSE g[r \ {Max(r)}] \o escaped(s[Max(r)])]

(* There is such an encoding of the first bytes. *)
LEMMA SendFoldExists ==
    ASSUME NEW s \in Seq(Byte)
    PROVE  \E g : SendFold(g, s)
<1> DEFINE S == 1..Len(s)
           V == Seq(Byte)
           c == LastOf(Len(s))
           h == [i \in S |-> [v \in V |-> v \o escaped(s[i])]]
<1>1. Len(s) \in Nat /\ \A i \in S : s[i] \in Byte
  BY LenProperties
<1>2. \A i \in S, v \in V : h[i][v] = v \o escaped(s[i]) /\ h[i][v] \in V
  <2> TAKE i \in S
  <2> TAKE v \in V
  <2>1. escaped(s[i]) \in Seq(Byte)
    BY <1>1, EscapedForms
  <2> QED
    BY <2>1, ConcatProperties
<1>3. h \in [S -> [V -> V]]
  BY <1>2
<1>4. IsFiniteSet(S) /\ IsChoice(c, S)
  BY <1>1, LastIsChoice
<1>5. <<START_BYTE>> \in V
  BY ByteConstants
<1>6. PICK g \in [SUBSET S -> V] : IsFold(g, S, <<START_BYTE>>, c, h)
  <2> HIDE DEF S, c, h, V
  <2> QED
    BY <1>3, <1>4, <1>5, FoldExists
<1>7. ASSUME NEW r \in SUBSET S
      PROVE  g[r] = IF r = {} THEN <<START_BYTE>> ELSE g[r \ {Max(r)}] \o escaped(s[Max(r)])
  <2>1. c[r] = Max(r)
    BY DEF LastOf
  <2>2. CASE r = {}
    BY <1>6, <2>2 DEF IsFold
  <2>3. CASE r # {}
    <3>1. Max(r) \in S /\ g[r \ {Max(r)}] \in V
      BY <1>1, <2>3, MaxIsMember
    <3>2. g[r] = h[Max(r)][g[r \ {Max(r)}]]
      <4> HIDE DEF h, c, S, V
      <4> QED
        BY <1>6, <2>1, <2>3, Zenon DEF IsFold
    <3> HIDE DEF h, c, S, V
    <3> QED
      BY <1>2, <2>3, <3>1, <3>2, Zenon
  <2> QED
    BY <2>2, <2>3
<1>8. SendFold(g, s)
  <2>1. g = [r \in SUBSET S |-> g[r]]
    OBVIOUS
  <2> QED
    BY <1>7, <2>1, Zenon DEF SendFold
<1> QED
  BY <1>8

(* The fold of send() lays the bytes out one after the other. *)
LEMMA SendUnrolled ==
    ASSUME NEW s \in Seq(Byte)
    PROVE  \E c : Laid(FoldLeft(LAMBDA sent, b : sent \o escaped(b), <<START_BYTE>>, s),
                       s, c, Len(s))
<1>1. PICK n \in Nat : n = Len(s)
  BY LenProperties
<1>2. DOMAIN s = 1..n /\ \A i \in 1..n : s[i] \in Byte
  BY <1>1, LenProperties
<1>3. PICK g : g = CHOOSE f : SendFold(f, s)
  OBVIOUS
<1>4. SendFold(g, s)
  BY <1>3, SendFoldExists
<1>5. FoldLeft(LAMBDA sent, b : sent \o escaped(b), <<START_BYTE>>, s) = g[1..n]
  BY <1>1, <1>2, <1>3, Zenon DEF FoldLeft, MapThenFoldSet, SendFold
<1>6. PICK c : c = [k \in 0..n |-> Len(g[1..k])]
  OBVIOUS
<1> DEFINE K == {k \in Nat : k <= n => Laid(g[1..k], s, c, k)}
<1>7. 0 \in K
  <2>1. 1..0 = {} /\ 0 \in 0..n
    BY SMT
  <2>2. {} \in SUBSET (1..n)
    OBVIOUS
  <2>3. g[{}] = <<START_BYTE>>
    BY <1>1, <1>4, <2>2, Zenon DEF SendFold
  <2>4. PICK e : e = <<START_BYTE>>
    OBVIOUS
  <2>5. e \in Seq(Byte) /\ Len(e) = 1 /\ e[1] = START_BYTE
    BY <2>4, ByteConstants
  <2>6. g[1..0] = e /\ c[0] = 1
    BY <1>6, <2>1, <2>3, <2>4, <2>5
  <2>7. \A k \in 1..0 : FALSE
    BY SMT
  <2>8. Laid(e, s, c, 0)
    BY <2>5, <2>6, <2>7, Zenon DEF Laid
  <2> QED
    BY <2>6, <2>8
<1>8. ASSUME NEW k \in K PROVE k + 1 \in K
  <2>1. CASE k + 1 <= n
    <3>1. k <= n /\ k + 1 \in 1..n /\ k + 1 \in 0..n /\ (k + 1) - 1 = k /\ k \in Nat
      BY <2>1, SMT
    <3>2. Laid(g[1..k], s, c, k)
      BY <3>1
    <3>3. /\ 1..(k + 1) \in SUBSET (1..n) /\ 1..(k + 1) # {}
          /\ Max(1..(k + 1)) = k + 1 /\ (1..(k + 1)) \ {k + 1} = 1..k
      <4>1. /\ 1..(k + 1) \in SUBSET (1..n) /\ 1..(k + 1) # {}
            /\ Max(1..(k + 1)) = k + 1 /\ (1..(k + 1)) \ {k + 1} = 1..((k + 1) - 1)
        BY <3>1, PrefixWithoutLast
      <4> QED
        BY <3>1, <4>1
    <3>4. PICK r : r = 1..(k + 1)
      OBVIOUS
    <3>5. g[r] = g[r \ {Max(r)}] \o escaped(s[Max(r)])
      BY <1>1, <1>4, <3>3, <3>4, Zenon DEF SendFold
    <3>6. g[1..(k + 1)] = g[1..k] \o escaped(s[k + 1])
      BY <3>3, <3>4, <3>5, Zenon
    <3>7. PICK e : e = g[1..k]
      OBVIOUS
    <3>8. e \in Seq(Byte) /\ Len(e) = c[k]
      BY <3>2, <3>7 DEF Laid
    <3>9. escaped(s[k + 1]) \in Seq(Byte)
      BY <1>2, <3>1, EscapedForms
    <3>10. c[k + 1] = c[k] + Len(escaped(s[k + 1]))
      <4>1. c[k + 1] = Len(e \o escaped(s[k + 1]))
        BY <1>6, <3>1, <3>6, <3>7, Zenon
      <4>2. Len(e \o escaped(s[k + 1])) = Len(e) + Len(escaped(s[k + 1]))
        BY <3>8, <3>9, ConcatProperties
      <4> QED
        BY <3>8, <4>1, <4>2
    <3>11. \A i \in 1..(k + 1) : s[i] \in Byte
      <4>1. \A i \in 1..(k + 1) : i \in 1..n
        BY <3>1, SMT
      <4> QED
        BY <1>2, <4>1
    <3>12. Laid(e \o escaped(s[k + 1]), s, c, k + 1)
      BY <3>1, <3>2, <3>7, <3>10, <3>11, LaidOneMore
    <3>13. Laid(g[1..(k + 1)], s, c, k + 1)
      BY <3>6, <3>7, <3>12, Zenon
    <3> QED
      BY <3>1, <3>13
  <2> QED
    BY <2>1
<1>9. K = Nat
  <2>1. K \in SUBSET Nat
    OBVIOUS
  <2> HIDE DEF K
  <2> QED
    BY <1>7, <1>8, <2>1, NatSetInduction
<1>10. Laid(g[1..n], s, c, n)
  BY <1>9
<1> QED
  BY <1>1, <1>5, <1>10, Zenon

(* What goes over the line for the k-th byte of a body. *)
OneByte(e, s, c, k) ==
    c[k] = c[k - 1] + 1 /\ e[c[k]] = s[k] /\ s[k] \notin {START_BYTE, ESCAPE}
TwoBytes(e, s, c, k) ==
    /\ c[k] = c[k - 1] + 2
    /\ e[c[k - 1] + 1] = ESCAPE /\ e[c[k]] = xor20(s[k]) /\ e[c[k]] \notin {START_BYTE, ESCAPE}

(* e is what send() writes for the body s, whose k-th byte ends at c[k]. *)
Walk(e, s, c) ==
    /\ e \in Seq(Byte) /\ s \in Seq(Byte)
    /\ c[0] = 1 /\ e[1] = START_BYTE /\ c[Len(s)] = Len(e)
    /\ \A k \in 1..Len(s) : /\ c[k - 1] \in Nat /\ c[k] \in Nat
                            /\ 1 <= c[k - 1] /\ c[k - 1] < c[k] /\ c[k] <= Len(e)
                            /\ OneByte(e, s, c, k) \/ TwoBytes(e, s, c, k)

(* The encoding, byte by byte. *)
LEMMA SendWalk ==
    ASSUME NEW s \in Seq(Byte)
    PROVE  \E c : Walk(FoldLeft(LAMBDA sent, b : sent \o escaped(b), <<START_BYTE>>, s), s, c)
<1>1. PICK e : e = FoldLeft(LAMBDA sent, b : sent \o escaped(b), <<START_BYTE>>, s)
  OBVIOUS
<1>2. PICK n \in Nat : n = Len(s)
  BY LenProperties
<1>3. PICK c : Laid(e, s, c, n)
  BY <1>1, <1>2, SendUnrolled
<1>4. e \in Seq(Byte) /\ Len(e) = c[n] /\ c[0] = 1 /\ e[1] = START_BYTE
  BY <1>3 DEF Laid
<1>5. ASSUME NEW k \in 1..n, c[k - 1] \in Nat
      PROVE  /\ c[k] \in Nat /\ c[k - 1] < c[k] /\ c[k] <= Len(e)
             /\ OneByte(e, s, c, k) \/ TwoBytes(e, s, c, k)
  <2>1. PICK x : x = escaped(s[k])
    OBVIOUS
  <2>2. s[k] \in Byte
    BY <1>2, LenProperties
  <2>3. x \in Seq(Byte) /\ (Plainly(x, s[k]) \/ InTwo(x, s[k]))
    BY <2>1, <2>2, EscapedForms
  <2>4. /\ c[k] \in Nat /\ c[k] <= Len(e) /\ c[k] = c[k - 1] + Len(x)
        /\ \A i \in 1..Len(x) : e[c[k - 1] + i] = x[i]
    BY <1>3, <1>4, <2>1, Zenon DEF Laid, Piece
  <2>5. CASE Plainly(x, s[k])
    <3>1. Len(x) = 1 /\ x[1] = s[k] /\ s[k] \notin {START_BYTE, ESCAPE}
      BY <2>5 DEF Plainly
    <3>2. 1 \in 1..1
      BY SMT
    <3>3. e[c[k - 1] + 1] = s[k] /\ c[k] = c[k - 1] + 1
      BY <2>4, <3>1, <3>2, Zenon
    <3>4. c[k - 1] < c[k]
      BY <1>5, <2>4, <3>3, SMT
    <3> QED
      BY <2>4, <3>1, <3>3, <3>4, Zenon DEF OneByte
  <2>6. CASE InTwo(x, s[k])
    <3>1. /\ Len(x) = 2 /\ x[1] = ESCAPE /\ x[2] = xor20(s[k])
          /\ x[2] \notin {START_BYTE, ESCAPE}
      BY <2>6 DEF InTwo
    <3>2. 1 \in 1..2 /\ 2 \in 1..2
      BY SMT
    <3>3. e[c[k - 1] + 1] = ESCAPE /\ e[c[k - 1] + 2] = x[2] /\ c[k] = c[k - 1] + 2
      BY <2>4, <3>1, <3>2, Zenon
    <3>4. c[k - 1] < c[k]
      BY <1>5, <2>4, <3>3, SMT
    <3>5. TwoBytes(e, s, c, k)
      BY <3>1, <3>3, Zenon DEF TwoBytes
    <3> QED
      BY <2>4, <3>4, <3>5
  <2> QED
    BY <2>3, <2>5, <2>6
<1> DEFINE K == {k \in Nat : k <= n => c[k] \in Nat /\ 1 <= c[k]}
<1>6. 0 \in K
  BY <1>4
<1>7. ASSUME NEW k \in K PROVE k + 1 \in K
  <2>1. CASE k + 1 <= n
    <3>1. k + 1 \in 1..n /\ k <= n /\ (k + 1) - 1 = k /\ k \in Nat
      BY <2>1, SMT
    <3>2. c[k] \in Nat /\ 1 <= c[k]
      BY <3>1
    <3>3. c[k + 1] \in Nat /\ c[k] < c[k + 1]
      BY <1>5, <3>1, <3>2
    <3> QED
      BY <3>1, <3>2, <3>3, SMT
  <2> QED
    BY <2>1
<1>8. K = Nat
  <2>1. K \in SUBSET Nat
    OBVIOUS
  <2> HIDE DEF K
  <2> QED
    BY <1>6, <1>7, <2>1, NatSetInduction
<1>9. ASSUME NEW k \in 1..n
      PROVE  /\ c[k - 1] \in Nat /\ c[k] \in Nat
             /\ 1 <= c[k - 1] /\ c[k - 1] < c[k] /\ c[k] <= Len(e)
             /\ OneByte(e, s, c, k) \/ TwoBytes(e, s, c, k)
  <2>1. k - 1 \in Nat /\ k - 1 <= n
    BY SMT
  <2>2. c[k - 1] \in Nat /\ 1 <= c[k - 1]
    BY <1>8, <2>1
  <2> QED
    BY <1>5, <2>2
<1>10. Walk(e, s, c)
  BY <1>2, <1>4, <1>9, Zenon DEF Walk
<1> QED
  BY <1>1, <1>10

(* The bytes of a frame before escaping, one by one. *)
LEMMA BodyType ==
    ASSUME NEW f \in Frame, Len(f.data) <= 254
    PROVE  /\ f.api \in Byte /\ f.data \in Seq(Byte) /\ Len(f.data) \in Nat
           /\ Body(f) \in Seq(Byte) /\ Len(Body(f)) = Len(f.data) + 4
           /\ Body(f)[2] = Len(f.data) + 1 /\ Body(f)[3] = f.api
           /\ \A k \in 1..Len(f.data) : Body(f)[k + 3] = f.data[k]
           /\ Body(f)[Len(f.data) + 4] = checksum(f)
           /\ ByteSum(f.data) \in Byte
           /\ checksum(f) \in Byte
<1>1. f.api \in Byte /\ f.data \in Seq(Byte)
  BY DEF Frame
<1>2. PICK m : m = Len(f.data)
  OBVIOUS
<1>3. m \in Nat /\ m <= 254
  BY <1>1, <1>2, LenProperties
<1>4. ByteSum(f.data) \in Byte
  BY <1>1, SumType
<1>5. checksum(f) \in Byte
  <2>1. PICK x : x = (f.api + ByteSum(f.data)) % 256
    OBVIOUS
  <2>2. f.api \in Nat /\ ByteSum(f.data) \in Nat
    BY <1>1, <1>4, ByteIsNat, Zenon
  <2>3. x \in Byte
    <3>1. f.api + ByteSum(f.data) \in Nat
      BY <2>2, SMT
    <3> QED
      BY <2>1, <3>1, ByteRemainder
  <2>4. \A y \in Byte : 255 - y \in Byte
    BY SMT DEF Byte
  <2> QED
    BY <2>1, <2>3, <2>4, Zenon DEF checksum
<1>6. (m + 1) \div 256 \in Byte /\ (m + 1) % 256 \in Byte /\ (m + 1) % 256 = m + 1
  BY <1>3, SMT DEF Byte
<1>7. PICK h : h = <<(m + 1) \div 256, (m + 1) % 256, f.api>>
  OBVIOUS
<1>8. h \in Seq(Byte) /\ Len(h) = 3 /\ h[2] = m + 1 /\ h[3] = f.api
  BY <1>1, <1>6, <1>7
<1>9. PICK x : x = h \o f.data
  OBVIOUS
<1>10. x \in Seq(Byte) /\ Len(x) = m + 3 /\ x[2] = m + 1 /\ x[3] = f.api
       /\ \A k \in 1..m : x[k + 3] = f.data[k]
  <2>1. /\ x \in Seq(Byte) /\ Len(x) = 3 + m
        /\ \A i \in 1..(3 + m) : x[i] = IF i <= 3 THEN h[i] ELSE f.data[i - 3]
    <3>1. PICK d : d = f.data
      OBVIOUS
    <3>2. d \in Seq(Byte) /\ m = Len(d) /\ 3 = Len(h) /\ h \in Seq(Byte)
      BY <1>1, <1>2, <1>8, <3>1
    <3>3. PICK l : l = 3
      OBVIOUS
    <3>4. /\ h \o d \in Seq(Byte) /\ Len(h \o d) = l + m
          /\ \A i \in 1..(l + m) : (h \o d)[i] = IF i <= l THEN h[i] ELSE d[i - l]
      <4>1. Joined(h \o d, h, l, d, m)
        BY <3>2, <3>3, ByteConcat
      <4> QED
        BY <4>1, Zenon DEF Joined
    <3> QED
      BY <1>9, <3>1, <3>3, <3>4, Zenon
  <2>2. /\ 2 \in 1..(3 + m) /\ 3 \in 1..(3 + m) /\ 3 + m = m + 3 /\ 2 <= 3 /\ 3 <= 3
        /\ \A k \in 1..m : k + 3 \in 1..(3 + m) /\ ~ (k + 3 <= 3) /\ (k + 3) - 3 = k
    BY <1>3, SMT
  <2>3. ASSUME NEW k \in 1..m PROVE x[k + 3] = f.data[k]
    <3>1. PICK i : i = k + 3
      OBVIOUS
    <3>2. i \in 1..(3 + m) /\ ~ (i <= 3) /\ i - 3 = k
      BY <2>2, <3>1
    <3>3. x[i] = f.data[i - 3]
      BY <2>1, <3>2, Zenon
    <3> QED
      BY <3>1, <3>2, <3>3
  <2> QED
    BY <1>8, <2>1, <2>2, <2>3, ZenonT(60)
<1>11. PICK y : y = <<checksum(f)>>
  OBVIOUS
<1>12. y \in Seq(Byte) /\ Len(y) = 1 /\ y[1] = checksum(f)
  BY <1>5, <1>11
<1>13. Body(f) = x \o y
  BY <1>2, <1>7, <1>9, <1>11, Zenon DEF Body
<1>14. PICK z : z = x \o y
  OBVIOUS
<1>15. /\ z \in Seq(Byte) /\ Len(z) = (m + 3) + 1
       /\ \A i \in 1..((m + 3) + 1) : z[i] = IF i <= m + 3 THEN x[i] ELSE y[i - (m + 3)]
  <2>1. PICK l : l = m + 3
    OBVIOUS
  <2>2. l = Len(x) /\ 1 = Len(y) /\ x \in Seq(Byte) /\ y \in Seq(Byte)
    BY <1>10, <1>12, <2>1
  <2>3. PICK o : o = 1
    OBVIOUS
  <2>4. /\ x \o y \in Seq(Byte) /\ Len(x \o y) = l + o
        /\ \A i \in 1..(l + o) : (x \o y)[i] = IF i <= l THEN x[i] ELSE y[i - l]
    <3>1. Joined(x \o y, x, l, y, o)
      BY <2>2, <2>3, ByteConcat
    <3> QED
      BY <3>1, Zenon DEF Joined
  <2> QED
    BY <1>14, <2>1, <2>3, <2>4, Zenon
<1>16. /\ (m + 3) + 1 = m + 4
       /\ 2 \in 1..((m + 3) + 1) /\ 3 \in 1..((m + 3) + 1) /\ m + 4 \in 1..((m + 3) + 1)
       /\ 2 <= m + 3 /\ 3 <= m + 3 /\ ~ (m + 4 <= m + 3) /\ (m + 4) - (m + 3) = 1
       /\ \A k \in 1..m : k + 3 \in 1..((m + 3) + 1) /\ k + 3 <= m + 3
  BY <1>3, SMT
<1>17. /\ z[2] = m + 1 /\ z[3] = f.api /\ z[m + 4] = checksum(f)
       /\ \A k \in 1..m : z[k + 3] = f.data[k]
  BY <1>10, <1>12, <1>15, <1>16, Zenon
<1> QED
  BY <1>1, <1>2, <1>3, <1>4, <1>5, <1>13, <1>14, <1>15, <1>16, <1>17, Zenon

(* What send() writes for a frame of the radio. *)
LEMMA FrameWalk ==
    ASSUME NEW f \in Frames
    PROVE  /\ f \in Frame /\ Len(f.data) <= 254
           /\ \E c : Walk(send(f), Body(f), c)
           /\ send(f) \in Seq(Byte)
<1>1. f \in Frame /\ Len(f.data) <= 254
  BY FramesAssumption
<1>2. Body(f) \in Seq(Byte)
  BY <1>1, BodyType
<1>3. PICK c : Walk(FoldLeft(LAMBDA sent, b : sent \o escaped(b), <<START_BYTE>>, Body(f)),
                    Body(f), c)
  BY <1>2, SendWalk
<1>4. Walk(send(f), Body(f), c)
  BY <1>3, Zenon DEF send
<1> QED
  BY <1>1, <1>4 DEF Walk

(* A sequence is its first element and the rest. *)
LEMMA HeadAndTail ==
    ASSUME NEW s \in Seq(Byte), s # <<>>
    PROVE  /\ Head(s) \in Byte /\ Head(s) = s[1] /\ Tail(s) \in Seq(Byte)
           /\ Len(s) \in Nat /\ 1 <= Len(s) /\ Len(Tail(s)) = Len(s) - 1
           /\ \A i \in 1..Len(Tail(s)) : Tail(s)[i] = s[i + 1]
<1>1. Len(s) \in Nat /\ Len(s) # 0
  BY EmptySeq, LenProperties
<1>2. 1 <= Len(s)
  BY <1>1, SMT
<1> QED
  BY <1>1, <1>2, HeadTailProperties

(* A longer one than its first element alone. *)
LEMMA TwoInSerial ==
    ASSUME NEW s \in Seq(Byte), s # <<>>, s # <<s[1]>>
    PROVE  /\ 2 <= Len(s) /\ s[2] \in Byte /\ Tail(s) # <<>>
           /\ Tail(Tail(s)) \in Seq(Byte) /\ Len(Tail(Tail(s))) = Len(s) - 2
           /\ \A i \in 1..Len(Tail(Tail(s))) : Tail(Tail(s))[i] = s[i + 2]
<1>1. PICK l \in Nat : l = Len(s)
  BY LenProperties
<1>2. 1 <= l /\ s[1] \in Byte
  BY <1>1, HeadAndTail
<1>3. l # 1
  <2> SUFFICES ASSUME l = 1 PROVE FALSE
    OBVIOUS
  <2>1. PICK b : b = s[1]
    OBVIOUS
  <2>2. PICK t : t = <<b>>
    OBVIOUS
  <2>3. t \in Seq(Byte) /\ Len(t) = 1 /\ t[1] = b
    BY <1>2, <2>1, <2>2
  <2>4. \A i \in 1..1 : i = 1
    BY SMT
  <2>5. \A i \in 1..Len(s) : s[i] = t[i]
    BY <1>1, <2>1, <2>3, <2>4, Zenon
  <2>6. s = t
    BY <1>1, <2>3, <2>5, SeqEqual, Zenon
  <2> QED
    BY <2>1, <2>2, <2>6
<1>4. 2 <= l
  BY <1>2, <1>3, SMT
<1>5. PICK t : t = Tail(s)
  OBVIOUS
<1>6. PICK m \in Nat : m = Len(t)
  BY <1>5, HeadAndTail, LenProperties
<1>7. t \in Seq(Byte) /\ m = l - 1 /\ \A i \in 1..m : t[i] = s[i + 1]
  BY <1>1, <1>5, <1>6, HeadAndTail
<1>8. t # <<>>
  <2>1. m # 0
    BY <1>4, <1>7, SMT
  <2>2. Len(<<>>) = 0
    OBVIOUS
  <2> QED
    BY <1>6, <2>1, <2>2, Zenon
<1>9. PICK u : u = Tail(t)
  OBVIOUS
<1>10. PICK k \in Nat : k = Len(u)
  BY <1>7, <1>8, <1>9, HeadAndTail, LenProperties
<1>11. u \in Seq(Byte) /\ k = m - 1 /\ \A i \in 1..k : u[i] = t[i + 1]
  BY <1>6, <1>7, <1>8, <1>9, <1>10, HeadAndTail
<1>12. \A i \in 1..k : u[i] = s[i + 2]
  <2> TAKE i \in 1..k
  <2>1. i + 1 \in 1..m /\ (i + 1) + 1 = i + 2
    BY <1>6, <1>10, <1>11, SMT
  <2>2. t[i + 1] = s[(i + 1) + 1]
    BY <1>7, <2>1
  <2> QED
    BY <1>11, <2>1, <2>2
<1>13. k = l - 2
  BY <1>6, <1>7, <1>10, <1>11, SMT
<1>14. s[2] \in Byte
  <2>1. 2 \in 1..l
    BY <1>4, SMT
  <2> QED
    BY <1>1, <2>1, ElementOfSeq
<1> QED
  BY <1>1, <1>4, <1>5, <1>8, <1>9, <1>10, <1>11, <1>12, <1>13, <1>14, Zenon

(* A byte read while a packet is parsed is a byte, the escape byte is read   *)
(* with its successor only.                                                  *)
LEMMA NextByteType ==
    ASSUME TypeOK, Parsable
    PROVE  /\ serial[1] = Head(serial) /\ serial[1] \in Byte
           /\ Escaping => 2 <= Len(serial) /\ serial[2] \in Byte
           /\ NextByte \in Byte /\ Total \in Byte /\ Rest \in Seq(Byte)
<1>1. serial \in Seq(Byte) /\ serial # <<>>
  BY DEF TypeOK, Parsable
<1>2. serial[1] = Head(serial) /\ serial[1] \in Byte /\ Tail(serial) \in Seq(Byte)
  BY <1>1, HeadAndTail
<1>3. ASSUME Escaping
      PROVE  2 <= Len(serial) /\ serial[2] \in Byte /\ Tail(Tail(serial)) \in Seq(Byte)
  <2>1. serial # <<serial[1]>>
    BY <1>2, <1>3 DEF Escaping, Parsable
  <2> QED
    BY <1>1, <2>1, TwoInSerial
<1>4. Rest \in Seq(Byte)
  BY <1>2, <1>3, Zenon DEF Rest
<1>5. NextByte \in Byte
  <2>1. PICK b : b = IF Escaping THEN xor20(serial[2]) ELSE Head(serial)
    OBVIOUS
  <2>2. b \in Byte
    BY <1>2, <1>3, <2>1, XorTwice
  <2>3. NextByte = IF escape THEN xor20(b) ELSE b
    BY <2>1, Zenon DEF NextByte
  <2> QED
    BY <2>2, <2>3, XorTwice
<1>6. Total \in Byte
  <2>1. checksumTotal \in Byte
    BY DEF TypeOK
  <2>2. checksumTotal \in Nat /\ NextByte \in Nat
    BY <1>5, <2>1, ByteIsNat, Zenon
  <2>3. checksumTotal + NextByte \in Nat
    BY <2>2, SMT
  <2>4. (checksumTotal + NextByte) % 256 \in Byte
    BY <2>3, ByteRemainder
  <2> QED
    BY <2>1, <2>4, Zenon DEF Total
<1> QED
  BY <1>2, <1>3, <1>4, <1>5, <1>6

-----------------------------------------------------------------------------
(* Types *)

(* resetResponse() keeps the types. *)
LEMMA ResetType == ASSUME TypeOK, resetResponse
    PROVE  /\ pos' \in 0..MAX_FRAME_DATA_SIZE + 1 /\ escape' \in BOOLEAN
           /\ lsbLength' \in Byte /\ apiId' \in Byte /\ frameData' \in Seq(Byte)
           /\ complete' \in BOOLEAN /\ errorCode' = "NO_ERROR"
<1>1. 0 \in Byte /\ 0 \in 0..MAX_FRAME_DATA_SIZE + 1
  BY SizeAssumption, SMT DEF Byte
<1>2. <<>> \in Seq(Byte) /\ FALSE \in BOOLEAN
  BY EmptySeq, Zenon
<1> QED
  BY <1>1, <1>2, Zenon DEF resetResponse

(* Every step keeps the types. *)
LEMMA TypeStep == ASSUME TypeOK, [Next]_vars PROVE TypeOK'
<1> USE SizeAssumption
<1>1. ASSUME NEW f \in Frames, StartFrame(f) PROVE TypeOK'
  <2>1. send(f) \in Seq(Byte)
    BY FrameWalk
  <2>2. Append(log, f) \in Seq(Frames)
    BY AppendProperties DEF TypeOK
  <2> QED
    BY <1>1, <2>1, <2>2 DEF StartFrame, TypeOK
<1>2. CASE Arrive
  <2>1. line \in Seq(Byte) /\ line # <<>> /\ serial \in Seq(Byte)
    BY <1>2 DEF Arrive, TypeOK
  <2>2. Head(line) \in Byte /\ Tail(line) \in Seq(Byte)
    BY <2>1, HeadAndTail
  <2>3. Append(serial, Head(line)) \in Seq(Byte)
    BY <2>1, <2>2, AppendProperties
  <2> QED
    BY <1>2, <2>2, <2>3 DEF Arrive, TypeOK
<1>3. CASE Overrun
  <2>1. line \in Seq(Byte) /\ line # <<>>
    BY <1>3 DEF Overrun, TypeOK
  <2>2. Tail(line) \in Seq(Byte)
    BY <2>1, HeadAndTail
  <2>3. lost + 1 \in 0..MaxLost
    BY <1>3 DEF Overrun, TypeOK
  <2> QED
    BY <1>3, <2>2, <2>3 DEF Overrun, TypeOK
<1>4. CASE CallReadPacket
  BY <1>4, ResetType DEF CallReadPacket, TypeOK
<1>5. CASE NothingAvailable
  BY <1>5 DEF NothingAvailable, TypeOK
<1>6. CASE UnexpectedStart
  <2>1. Tail(serial) \in Seq(Byte)
    BY <1>6, HeadAndTail DEF UnexpectedStart, TypeOK
  <2> QED
    BY <1>6, <2>1 DEF UnexpectedStart, TypeOK
<1>7. CASE EscapeAlone
  BY <1>7 DEF EscapeAlone, TypeOK
<1>8. CASE StartByte
  <2>1. Rest \in Seq(Byte)
    BY <1>8, NextByteType DEF StartByte
  <2>2. pos' \in 0..MAX_FRAME_DATA_SIZE + 1
    <3>1. 0 \in 0..MAX_FRAME_DATA_SIZE + 1 /\ 1 \in 0..MAX_FRAME_DATA_SIZE + 1
      BY SMT
    <3> QED
      BY <1>8, <3>1, Zenon DEF StartByte
  <2>3. /\ serial' = Rest /\ escape' = FALSE
        /\ UNCHANGED <<line, log, lost, reading, checksumTotal, lsbLength, apiId,
                       frameData, complete, errorCode, taken>>
    BY <1>8, Zenon DEF StartByte
  <2> QED
    BY <2>1, <2>2, <2>3 DEF TypeOK
<1>9. CASE HeaderByte
  <2>1. Rest \in Seq(Byte) /\ NextByte \in Byte /\ Total \in Byte
    BY <1>9, NextByteType DEF HeaderByte
  <2>2. pos + 1 \in 0..MAX_FRAME_DATA_SIZE + 1
    BY <1>9 DEF HeaderByte, API_ID_INDEX
  <2> QED
    BY <1>9, <2>1, <2>2 DEF HeaderByte, TypeOK
<1>10. CASE PacketExceeds
  <2>1. Rest \in Seq(Byte) /\ Total \in Byte
    BY <1>10, NextByteType DEF PacketExceeds
  <2> QED
    BY <1>10, <2>1 DEF PacketExceeds, TypeOK
<1>11. CASE DataByte
  <2>1. Rest \in Seq(Byte) /\ NextByte \in Byte /\ Total \in Byte
    BY <1>11, NextByteType DEF DataByte
  <2>2. pos + 1 \in 0..MAX_FRAME_DATA_SIZE + 1
    BY <1>11 DEF DataByte, TooLong, TypeOK
  <2>3. Append(frameData, NextByte) \in Seq(Byte)
    BY <2>1, AppendProperties DEF TypeOK
  <2> QED
    BY <1>11, <2>1, <2>2, <2>3 DEF DataByte, TypeOK
<1>12. CASE ChecksumByte
  <2>1. Rest \in Seq(Byte)
    BY <1>12, NextByteType DEF ChecksumByte
  <2>2. [api |-> apiId, data |-> frameData] \in Frame
    BY DEF TypeOK, Frame
  <2>3. Append(taken, [api |-> apiId, data |-> frameData]) \in Seq(Frame)
    BY <2>2, AppendProperties DEF TypeOK
  <2>4. 0 \in Byte /\ 0 \in 0..MAX_FRAME_DATA_SIZE + 1
    BY SMT DEF Byte
  <2> QED
    BY <1>12, <2>1, <2>3, <2>4 DEF ChecksumByte, TypeOK
<1>13. CASE UNCHANGED vars
  BY <1>13 DEF vars, TypeOK
<1> QED
  BY <1>1, <1>2, <1>3, <1>4, <1>5, <1>6, <1>7, <1>8, <1>9, <1>10, <1>11, <1>12, <1>13
  DEF Next, readPacket

(* They hold at first. *)
LEMMA TypeInit == ASSUME Init PROVE TypeOK
<1>1. 0 \in Byte /\ 0 \in 0..MAX_FRAME_DATA_SIZE + 1 /\ 0 \in 0..MaxLost
  BY SizeAssumption, SMT DEF Byte
<1>2. <<>> \in Seq(Byte) /\ <<>> \in Seq(Frames) /\ <<>> \in Seq(Frame)
  BY EmptySeq, Zenon
<1> QED
  BY <1>1, <1>2 DEF Init, TypeOK

(* Types: the parser's position stays within its limit, whatever length the  *)
(* bytes announce and whichever of them were lost.                           *)
THEOREM FramingTypes == Spec => []TypeOK
BY TypeInit, TypeStep, PTL DEF Spec

-----------------------------------------------------------------------------
(* What is left of the frames on the line *)

(* The first bytes of e are what arrived of frame i. *)
Holds(h, i, e) == \A m \in 1..(h.end[i] - h.end[i - 1]) : h.t[h.end[i - 1] + m] = e[m]

(* All of frame i came, all but its last byte, or some of it but not up to   *)
(* an escape byte.                                                           *)
Whole(h, i, e)    == h.end[i] = h.end[i - 1] + Len(e) /\ Holds(h, i, e)
LastLost(h, i, e) == h.end[i] + 1 = h.end[i - 1] + Len(e) /\ Holds(h, i, e)
GoodEnd(h, i)     == h.end[i - 1] < h.end[i] /\ h.t[h.end[i]] # ESCAPE

(* 1 for a frame that is too long. *)
Bigger(f) == IF Fits(f) THEN 0 ELSE 1

(* What arrives of frame i, f, with cum[i] - cum[i - 1] bytes lost. *)
Kept(h, i, f) ==
    /\ h.end[i - 1] <= h.end[i] /\ h.cum[i - 1] <= h.cum[i]
    /\ h.big[i] = h.big[i - 1] + Bigger(f)
    /\ \A m \in (h.end[i - 1] + 2)..h.end[i] : h.t[m] # START_BYTE
    /\ h.cum[i] = h.cum[i - 1] => Whole(h, i, send(f))
    /\ h.cum[i] = h.cum[i - 1] + 1 => LastLost(h, i, send(f)) \/ GoodEnd(h, i)

(* A history of the line: the bytes t that found room in the buffer or may   *)
(* still, numbered from 1, where each frame of the log ends among them, and  *)
(* how many bytes were lost and how many frames too long up to there.        *)
History(h, lg, lst) ==
    /\ h.end \in [0..Len(lg) -> Nat] /\ h.cum \in [0..Len(lg) -> Nat]
    /\ h.big \in [0..Len(lg) -> Nat]
    /\ h.end[0] = 0 /\ h.cum[0] = 0 /\ h.big[0] = 0
    /\ h.cum[Len(lg)] = lst
    /\ \A i \in 1..Len(lg) : Kept(h, i, lg[i])

(* With off bytes read, s in the buffer and l not emitted yet, all of the    *)
(* last frame.                                                               *)
Stream(h, off, n, s, l) ==
    /\ off \in Nat /\ off + Len(s) + Len(l) = h.end[n]
    /\ \A m \in 1..Len(s) : s[m] = h.t[off + m]
    /\ \A m \in 1..Len(l) : l[m] = h.t[off + Len(s) + m]
    /\ l # <<>> => n # 0 /\ h.end[n - 1] + Len(l) <= h.end[n]

(* The credit for the first j frames: a lost byte is worth three, a frame    *)
(* that is too long two, and each of the frames costs one.                   *)
Credit(h, j) == 3 * h.cum[j] + 2 * h.big[j] - j

(* What is left to read of the first j frames has no start byte. *)
Ahead(h, off, j) ==
    off <= h.end[j] /\ \A m \in (off + 1)..h.end[j] : h.t[m] # START_BYTE

(* The credit, less one if the escape byte that ends frame j is still to be  *)
(* read: it may swallow the start byte of the next frame.                    *)
Worth(h, off, j) ==
    IF off < h.end[j] /\ h.t[h.end[j]] = ESCAPE THEN Credit(h, j) - 1 ELSE Credit(h, j)

(* The numbers of a history. *)
LEMMA HistoryNumbers ==
    ASSUME NEW h, NEW lg \in Seq(Frames), NEW lst, History(h, lg, lst), NEW j \in 0..Len(lg)
    PROVE  /\ Len(lg) \in Nat /\ h.end[j] \in Nat /\ h.cum[j] \in Nat /\ h.big[j] \in Nat
           /\ Credit(h, j) \in Int
<1>1. Len(lg) \in Nat
  BY LenProperties
<1>2. h.end[j] \in Nat /\ h.cum[j] \in Nat /\ h.big[j] \in Nat
  BY DEF History
<1>3. PICK a \in Nat, b \in Nat : a = h.cum[j] /\ b = h.big[j]
  BY <1>2
<1>4. 3 * a + 2 * b - j \in Int
  BY <1>1, SMT
<1> QED
  BY <1>1, <1>2, <1>3, <1>4, Zenon DEF Credit

(* A frame on the line: what it costs, and how it begins and ends. *)
LEMMA FrameStep ==
    ASSUME NEW h, NEW lg \in Seq(Frames), NEW lst, History(h, lg, lst),
           NEW i \in 0..Len(lg), i # Len(lg)
    PROVE  /\ h.end[i] <= h.end[i + 1] /\ h.cum[i] <= h.cum[i + 1]
           /\ Credit(h, i + 1) >= Credit(h, i) - 1
           /\ ~ Fits(lg[i + 1]) => Credit(h, i + 1) >= Credit(h, i) + 1
           /\ h.cum[i] # h.cum[i + 1] => Credit(h, i + 1) >= Credit(h, i) + 2
           /\ h.cum[i] = h.cum[i + 1] => /\ h.end[i] < h.end[i + 1]
                                         /\ h.t[h.end[i] + 1] = START_BYTE
                                         /\ h.t[h.end[i + 1]] # ESCAPE
           /\ \A m \in (h.end[i] + 2)..h.end[i + 1] : h.t[m] # START_BYTE
<1>1. PICK n \in Nat : n = Len(lg)
  BY LenProperties
<1>2. i \in 0..n /\ i + 1 \in 0..n /\ i + 1 \in 1..n /\ (i + 1) - 1 = i /\ i \in Nat
  BY <1>1, SMT
<1>3. PICK k : k = i + 1
  OBVIOUS
<1>4. lg[k] \in Frames
  BY <1>1, <1>2, <1>3, ElementOfSeq
<1>5. Kept(h, k, lg[k]) /\ k - 1 = i
  BY <1>1, <1>2, <1>3 DEF History
<1>6. /\ h.end[i] <= h.end[k] /\ h.cum[i] <= h.cum[k]
      /\ h.big[k] = h.big[i] + Bigger(lg[k])
      /\ \A m \in (h.end[i] + 2)..h.end[k] : h.t[m] # START_BYTE
      /\ h.cum[k] = h.cum[i] => Whole(h, k, send(lg[k]))
  BY <1>5, Zenon DEF Kept
<1>7. PICK a \in Nat, b \in Nat, c \in Nat, d \in Nat :
          a = h.cum[i] /\ b = h.cum[k] /\ c = h.big[i] /\ d = h.big[k]
  BY <1>1, <1>2, <1>3, HistoryNumbers
<1>8. a <= b /\ d = c + Bigger(lg[k])
  BY <1>6, <1>7
<1>9. /\ Bigger(lg[k]) \in {0, 1}
      /\ ~ Fits(lg[k]) => Bigger(lg[k]) = 1
  BY DEF Bigger
<1>10. /\ c <= d
       /\ ~ Fits(lg[k]) => d = c + 1
  BY <1>8, <1>9, SMT
<1>11. Credit(h, i) = 3 * a + 2 * c - i /\ Credit(h, k) = 3 * b + 2 * d - k
  BY <1>7, Zenon DEF Credit
<1>12. /\ Credit(h, k) >= Credit(h, i) - 1
       /\ ~ Fits(lg[k]) => Credit(h, k) >= Credit(h, i) + 1
       /\ a # b => Credit(h, k) >= Credit(h, i) + 2
  <2>1. PICK x, y : x = 3 * a + 2 * c - i /\ y = 3 * b + 2 * d - k
    OBVIOUS
  <2>2. /\ a \in Nat /\ b \in Nat /\ c \in Nat /\ d \in Nat /\ i \in Nat
        /\ a <= b /\ c <= d /\ k = i + 1
    BY <1>2, <1>3, <1>7, <1>8, <1>10
  <2>3. /\ y >= x - 1
        /\ d = c + 1 => y >= x + 1
        /\ a # b => y >= x + 2
    BY <2>1, <2>2, SMTT(30)
  <2> QED
    BY <1>10, <1>11, <2>1, <2>3, Zenon
<1>13. ASSUME a = b
       PROVE  h.end[i] < h.end[k] /\ h.t[h.end[i] + 1] = START_BYTE /\ h.t[h.end[k]] # ESCAPE
  <2>1. PICK e : e = send(lg[k])
    OBVIOUS
  <2>2. PICK s : s = Body(lg[k])
    OBVIOUS
  <2>3. PICK w : Walk(e, s, w)
    BY <1>4, <2>1, <2>2, FrameWalk
  <2>4. e \in Seq(Byte) /\ e[1] = START_BYTE /\ w[Len(s)] = Len(e)
    BY <2>3 DEF Walk
  <2>5. PICK l \in Nat : l = Len(s)
    BY <2>3, LenProperties DEF Walk
  <2>6. l \in 1..l
    <3>1. lg[k] \in Frame /\ Len(lg[k].data) <= 254
      BY <1>4, FrameWalk
    <3>2. l = Len(lg[k].data) + 4 /\ Len(lg[k].data) \in Nat
      BY <2>2, <2>5, <3>1, BodyType
    <3> QED
      BY <3>2, SMT
  <2>7. /\ w[l - 1] \in Nat /\ w[l] \in Nat /\ 1 <= w[l - 1] /\ w[l - 1] < w[l]
        /\ OneByte(e, s, w, l) \/ TwoBytes(e, s, w, l)
    BY <2>3, <2>5, <2>6, Zenon DEF Walk
  <2>8. e[Len(e)] # ESCAPE
    <3>1. CASE OneByte(e, s, w, l)
      BY <2>4, <2>5, <3>1, Zenon DEF OneByte
    <3>2. CASE TwoBytes(e, s, w, l)
      BY <2>4, <2>5, <3>2, Zenon DEF TwoBytes
    <3> QED
      BY <2>7, <3>1, <3>2
  <2>9. PICK y \in Nat : y = Len(e)
    BY <2>4, LenProperties
  <2>10. 1 <= y
    BY <2>4, <2>5, <2>7, <2>9, SMT
  <2>11. PICK p \in Nat, q \in Nat : p = h.end[i] /\ q = h.end[k]
    BY <1>1, <1>2, <1>3, HistoryNumbers
  <2>12. Whole(h, k, e)
    BY <1>6, <1>7, <1>13, <2>1
  <2>13. q = p + y /\ \A m \in 1..(q - p) : h.t[p + m] = e[m]
    BY <1>5, <2>9, <2>11, <2>12, Zenon DEF Whole, Holds
  <2>14. p < q /\ 1 \in 1..(q - p) /\ y \in 1..(q - p)
    BY <2>10, <2>13, SMT
  <2>15. h.t[p + 1] = e[1] /\ h.t[q] = e[y]
    BY <2>13, <2>14, Zenon
  <2> QED
    BY <2>4, <2>8, <2>9, <2>11, <2>14, <2>15
<1> QED
  BY <1>3, <1>6, <1>7, <1>12, <1>13, Zenon

(* Later frames end later, and frames of which nothing arrived are worth     *)
(* more than they cost.                                                      *)
LEMMA LaterFrames ==
    ASSUME NEW h, NEW lg \in Seq(Frames), NEW lst, History(h, lg, lst),
           NEW i \in 0..Len(lg), NEW j \in i..Len(lg)
    PROVE  /\ h.end[i] <= h.end[j] /\ h.cum[i] <= h.cum[j]
           /\ h.end[i] = h.end[j] => Credit(h, j) >= Credit(h, i)
<1>1. PICK n \in Nat : n = Len(lg)
  BY LenProperties
<1> DEFINE P(k) == /\ h.end[i] <= h.end[k] /\ h.cum[i] <= h.cum[k]
                   /\ h.end[i] = h.end[k] => Credit(h, k) >= Credit(h, i)
           K == {k \in Nat : i <= k /\ k <= n => P(k)}
<1>2. h.end[i] \in Nat /\ h.cum[i] \in Nat /\ Credit(h, i) \in Int
  BY HistoryNumbers
<1>3. P(i)
  BY <1>2, SMT
<1>4. 0 \in K
  <2>1. i <= 0 => i = 0
    BY <1>1, SMT
  <2> HIDE DEF P
  <2> QED
    BY <1>3, <2>1
<1>5. ASSUME NEW k \in K PROVE k + 1 \in K
  <2>1. CASE k < i
    <3>1. i <= k + 1 => k + 1 = i
      BY <1>1, <2>1, SMT
    <3> HIDE DEF P
    <3> QED
      BY <1>3, <3>1
  <2>2. CASE i <= k /\ k + 1 <= n
    <3>1. k \in Nat /\ k <= n /\ k \in 0..n /\ k # n /\ k + 1 \in 0..n
      BY <1>1, <2>2, SMT
    <3>2. P(k)
      BY <2>2, <3>1
    <3>3. /\ h.end[k] <= h.end[k + 1] /\ h.cum[k] <= h.cum[k + 1]
          /\ h.cum[k] # h.cum[k + 1] => Credit(h, k + 1) >= Credit(h, k) + 2
          /\ h.cum[k] = h.cum[k + 1] => h.end[k] < h.end[k + 1]
      BY <1>1, <3>1, FrameStep
    <3>4. /\ h.end[k] \in Nat /\ h.end[k + 1] \in Nat /\ h.cum[k] \in Nat /\ h.cum[k + 1] \in Nat
          /\ Credit(h, k) \in Int /\ Credit(h, k + 1) \in Int
      BY <1>1, <3>1, HistoryNumbers
    <3>5. P(k + 1)
      <4>1. PICK ei, ek, em, ci, ck, cm, xi, xk, xm :
                /\ ei = h.end[i] /\ ek = h.end[k] /\ em = h.end[k + 1]
                /\ ci = h.cum[i] /\ ck = h.cum[k] /\ cm = h.cum[k + 1]
                /\ xi = Credit(h, i) /\ xk = Credit(h, k) /\ xm = Credit(h, k + 1)
        OBVIOUS
      <4>2. /\ ei \in Nat /\ ek \in Nat /\ em \in Nat /\ ci \in Nat /\ ck \in Nat /\ cm \in Nat
            /\ xi \in Int /\ xk \in Int /\ xm \in Int
        BY <1>2, <3>4, <4>1
      <4>3. /\ ei <= ek /\ ci <= ck /\ (ei = ek => xk >= xi)
            /\ ek <= em /\ ck <= cm /\ (ck # cm => xm >= xk + 2) /\ (ck = cm => ek < em)
        BY <3>2, <3>3, <4>1, Zenon
      <4>4. ei <= em /\ ci <= cm /\ (ei = em => xm >= xi)
        BY <4>2, <4>3, SMT
      <4> QED
        BY <4>1, <4>4, Zenon
    <3> HIDE DEF P
    <3> QED
      BY <3>1, <3>5
  <2>3. CASE i <= k /\ ~ (k + 1 <= n)
    BY <2>3
  <2> QED
    BY <1>1, <2>1, <2>2, <2>3, SMT
<1>6. K = Nat
  <2>1. K \in SUBSET Nat
    OBVIOUS
  <2> HIDE DEF K
  <2> QED
    BY <1>4, <1>5, <2>1, NatSetInduction
<1>7. j \in Nat /\ i <= j /\ j <= n
  BY <1>1, SMT
<1>8. P(j)
  <2> HIDE DEF P
  <2> QED
    BY <1>6, <1>7
<1> QED
  BY <1>8

(* The frame that the next byte is of. *)
LEMMA NextFrame ==
    ASSUME NEW h, NEW lg \in Seq(Frames), NEW lst, History(h, lg, lst),
           NEW j \in 0..Len(lg), h.end[j] < h.end[Len(lg)]
    PROVE  \E i \in j..Len(lg) : /\ i \in 0..Len(lg) /\ i # Len(lg) /\ h.end[i] = h.end[j]
                                 /\ h.end[i] < h.end[i + 1] /\ Credit(h, i) >= Credit(h, j)
<1>1. PICK n \in Nat : n = Len(lg)
  BY LenProperties
<1>2. h.end[j] \in Nat /\ j \in Nat
  BY <1>1, HistoryNumbers
<1>3. ASSUME \A i \in j..n : i # n => ~ (h.end[i] = h.end[j] /\ h.end[i] < h.end[i + 1])
      PROVE  FALSE
  <2> DEFINE K == {k \in Nat : j + k <= n => h.end[j + k] = h.end[j]}
  <2>1. 0 \in K
    BY <1>2
  <2>2. ASSUME NEW k \in K PROVE k + 1 \in K
    <3>1. CASE j + k + 1 <= n
      <4>1. k \in Nat /\ j + k <= n /\ j + k \in j..n /\ j + k # n /\ j + k \in 0..n
            /\ j + k + 1 \in 0..n /\ (j + k) + 1 = j + k + 1 /\ j + (k + 1) = (j + k) + 1
        BY <1>1, <1>2, <3>1, SMT
      <4>2. PICK i : i = j + k
        OBVIOUS
      <4>3. /\ h.end[i] = h.end[j] /\ ~ (h.end[i] < h.end[i + 1])
            /\ i \in 0..n /\ i # n /\ i + 1 \in 0..n
        BY <1>3, <4>1, <4>2
      <4>4. h.end[i] <= h.end[i + 1]
        BY <1>1, <4>3, FrameStep
      <4>5. h.end[i] \in Nat /\ h.end[i + 1] \in Nat
        BY <1>1, <4>3, HistoryNumbers
      <4>6. h.end[i + 1] = h.end[j]
        BY <4>3, <4>4, <4>5, SMT
      <4> QED
        BY <4>1, <4>2, <4>6
    <3>2. CASE ~ (j + k + 1 <= n)
      <4>1. ~ (j + (k + 1) <= n) /\ k + 1 \in Nat
        BY <1>2, <3>2, SMT
      <4> QED
        BY <4>1
    <3> QED
      BY <3>1, <3>2
  <2>3. K = Nat
    <3>1. K \in SUBSET Nat
      OBVIOUS
    <3> HIDE DEF K
    <3> QED
      BY <2>1, <2>2, <3>1, NatSetInduction
  <2>4. n - j \in Nat /\ j + (n - j) = n
    BY <1>1, <1>2, SMT
  <2>5. h.end[n] = h.end[j]
    <3>1. PICK k \in Nat : k = n - j
      BY <2>4
    <3>2. k \in K
      BY <2>3
    <3>3. j + k = n /\ n <= n
      BY <1>1, <2>4, <3>1, SMT
    <3> QED
      BY <3>2, <3>3, Zenon
  <2> QED
    BY <1>1, <1>2, <2>5, SMT
<1>4. PICK i \in j..n : i # n /\ h.end[i] = h.end[j] /\ h.end[i] < h.end[i + 1]
  BY <1>3
<1>5. i \in 0..n /\ i \in j..n
  BY <1>1, <1>2, SMT
<1>6. Credit(h, i) >= Credit(h, j)
  BY <1>1, <1>4, <1>5, LaterFrames
<1> QED
  BY <1>1, <1>4, <1>5, <1>6

(* What Worth() is. *)
LEMMA WorthType ==
    ASSUME NEW h, NEW lg \in Seq(Frames), NEW lst, History(h, lg, lst),
           NEW j \in 0..Len(lg), NEW off \in Nat
    PROVE  /\ Worth(h, off, j) \in Int /\ Credit(h, j) \in Int
           /\ Worth(h, off, j) <= Credit(h, j) /\ Worth(h, off, j) >= Credit(h, j) - 1
           /\ off >= h.end[j] => Worth(h, off, j) = Credit(h, j)
           /\ off + 1 <= h.end[j] => Worth(h, off + 1, j) >= Worth(h, off, j)
           /\ off + 1 = h.end[j] /\ h.t[off + 1] = ESCAPE => Worth(h, off, j) = Credit(h, j) - 1
<1>1. Credit(h, j) \in Int /\ h.end[j] \in Nat
  BY HistoryNumbers
<1>2. PICK c, e, w, v : /\ c = Credit(h, j) /\ e = h.end[j]
                        /\ w = Worth(h, off, j) /\ v = Worth(h, off + 1, j)
  OBVIOUS
<1>3. PICK b \in BOOLEAN : b = (h.t[e] = ESCAPE)
  OBVIOUS
<1>4. /\ w = IF off < e /\ b THEN c - 1 ELSE c
      /\ v = IF off + 1 < e /\ b THEN c - 1 ELSE c
  BY <1>2, <1>3, Zenon DEF Worth
<1>5. c \in Int /\ e \in Nat
  BY <1>1, <1>2
<1>6. /\ w \in Int /\ w <= c /\ w >= c - 1
      /\ off >= e => w = c
      /\ off + 1 <= e => v >= w
      /\ off + 1 = e /\ b => w = c - 1
  BY <1>4, <1>5, SMT
<1>7. off + 1 = e /\ h.t[off + 1] = ESCAPE => b
  BY <1>3, Zenon
<1> QED
  BY <1>1, <1>2, <1>6, <1>7, Zenon

(* A frame that lost bytes, if it is not only its last byte, is worth two    *)
(* more than it costs, even if it ends with an escape byte.                  *)
LEMMA DamagedFrame ==
    ASSUME NEW h, NEW lg \in Seq(Frames), NEW lst, History(h, lg, lst),
           NEW i \in 0..Len(lg), i # Len(lg), h.cum[i] # h.cum[i + 1], NEW off \in Nat,
           ~ (h.cum[i + 1] = h.cum[i] + 1 /\ LastLost(h, i + 1, send(lg[i + 1])))
    PROVE  Worth(h, off, i + 1) >= Credit(h, i) + 2
<1>1. PICK n \in Nat : n = Len(lg)
  BY LenProperties
<1>2. PICK k : k = i + 1
  OBVIOUS
<1>3. k \in 0..n /\ k \in 1..n /\ k - 1 = i /\ i \in Nat
  BY <1>1, <1>2, SMT
<1>4. Kept(h, k, lg[k])
  BY <1>1, <1>3 DEF History
<1>5. /\ h.big[k] = h.big[i] + Bigger(lg[k])
      /\ h.cum[k] = h.cum[i] + 1 => GoodEnd(h, k)
  BY <1>2, <1>3, <1>4, Zenon DEF Kept
<1>6. PICK a \in Nat, b \in Nat, c \in Nat, d \in Nat :
          a = h.cum[i] /\ b = h.cum[k] /\ c = h.big[i] /\ d = h.big[k]
  BY <1>1, <1>3, HistoryNumbers
<1>7. a <= b /\ a # b
  BY <1>1, <1>2, <1>6, FrameStep
<1>8. c <= d
  <2>1. Bigger(lg[k]) \in {0, 1}
    BY DEF Bigger
  <2> QED
    BY <1>5, <1>6, <2>1, SMT
<1>9. Credit(h, i) = 3 * a + 2 * c - i /\ Credit(h, k) = 3 * b + 2 * d - k
  BY <1>6, Zenon DEF Credit
<1>10. PICK x, y : x = 3 * a + 2 * c - i /\ y = 3 * b + 2 * d - k
  OBVIOUS
<1>11. x \in Int /\ y \in Int /\ y >= x + 2 /\ (b # a + 1 => y >= x + 5)
  BY <1>2, <1>3, <1>7, <1>8, <1>10, SMT
<1>12. PICK w : w = Worth(h, off, k)
  OBVIOUS
<1>13. w \in Int /\ w >= y - 1
  BY <1>1, <1>3, <1>9, <1>10, <1>12, WorthType
<1>14. CASE b = a + 1
  <2>1. h.t[h.end[k]] # ESCAPE
    BY <1>5, <1>6, <1>14 DEF GoodEnd
  <2>2. w = y
    BY <1>9, <1>10, <1>12, <2>1, Zenon DEF Worth
  <2> QED
    BY <1>2, <1>9, <1>10, <1>11, <1>12, <2>2, Zenon
<1>15. CASE b # a + 1
  <2>1. w >= x + 2
    BY <1>11, <1>13, <1>15, SMT
  <2> QED
    BY <1>2, <1>9, <1>10, <1>12, <2>1, Zenon
<1> QED
  BY <1>14, <1>15

(* A byte that is not a start byte is skipped. *)
LEMMA SkipByte ==
    ASSUME NEW h, NEW lg \in Seq(Frames), NEW lst, History(h, lg, lst),
           NEW j \in 0..Len(lg), NEW off \in Nat, Ahead(h, off, j),
           off < h.end[Len(lg)], h.t[off + 1] # START_BYTE
    PROVE  \E k \in 0..Len(lg) :
              /\ j <= k /\ Ahead(h, off + 1, k)
              /\ Credit(h, k) >= Credit(h, j) /\ Worth(h, off + 1, k) >= Worth(h, off, j)
              /\ h.t[off + 1] = ESCAPE /\ off + 1 = h.end[k]
                    => Credit(h, k) >= Worth(h, off, j) + 1
<1>1. PICK n \in Nat : n = Len(lg)
  BY LenProperties
<1>2. h.end[j] \in Nat /\ off <= h.end[j]
  BY HistoryNumbers DEF Ahead
<1>3. CASE off < h.end[j]
  <2>1. off + 1 <= h.end[j]
    BY <1>2, <1>3, SMT
  <2>2. \A m \in (off + 2)..h.end[j] : m \in (off + 1)..h.end[j]
    BY <1>2, SMT
  <2>3. (off + 1) + 1 = off + 2
    BY SMT
  <2>4. Ahead(h, off + 1, j)
    BY <2>1, <2>2, <2>3 DEF Ahead
  <2>5. /\ Worth(h, off, j) \in Int /\ Credit(h, j) \in Int
        /\ Worth(h, off + 1, j) >= Worth(h, off, j)
        /\ off + 1 = h.end[j] /\ h.t[off + 1] = ESCAPE => Worth(h, off, j) = Credit(h, j) - 1
    BY <2>1, WorthType
  <2>6. Credit(h, j) >= Credit(h, j) /\ j <= j
        /\ (Worth(h, off, j) = Credit(h, j) - 1 => Credit(h, j) >= Worth(h, off, j) + 1)
    BY <2>5, SMT
  <2> QED
    BY <2>4, <2>5, <2>6
<1>4. CASE off = h.end[j]
  <2>1. PICK i \in 0..n : /\ j <= i /\ i # n /\ h.end[i] = off
                          /\ h.end[i] < h.end[i + 1] /\ Credit(h, i) >= Credit(h, j)
    <3>1. \A i \in j..n : j <= i
      BY <1>1, SMT
    <3> QED
      BY <1>1, <1>4, <3>1, NextFrame
  <2>2. h.cum[i] # h.cum[i + 1]
    BY <1>1, <2>1, FrameStep
  <2>3. /\ Credit(h, i + 1) >= Credit(h, i) + 2
        /\ \A m \in (off + 2)..h.end[i + 1] : h.t[m] # START_BYTE
    BY <1>1, <2>1, <2>2, FrameStep
  <2>4. i + 1 \in 0..n
    BY <1>1, <2>1, SMT
  <2>5. PICK k \in 0..n : k = i + 1
    BY <2>4
  <2>6. h.end[k] \in Nat /\ Credit(h, k) \in Int /\ Credit(h, i) \in Int /\ Credit(h, j) \in Int
    BY <1>1, <2>1, HistoryNumbers
  <2>7. off + 1 <= h.end[k] /\ (off + 1) + 1 = off + 2
    BY <2>1, <2>5, <2>6, SMT
  <2>8. Ahead(h, off + 1, k)
    BY <2>3, <2>5, <2>7 DEF Ahead
  <2>9. Worth(h, off, j) \in Int /\ Worth(h, off, j) <= Credit(h, j)
        /\ Worth(h, off + 1, k) \in Int /\ Worth(h, off + 1, k) >= Credit(h, k) - 1
    <3>1. PICK p \in Nat : p = off + 1
      OBVIOUS
    <3>2. Worth(h, p, k) \in Int /\ Worth(h, p, k) >= Credit(h, k) - 1
      BY <1>1, WorthType
    <3> QED
      BY <3>1, <3>2, WorthType
  <2>10. PICK a, b, c, d, e : /\ a = Credit(h, j) /\ b = Credit(h, i) /\ c = Credit(h, k)
                              /\ d = Worth(h, off, j) /\ e = Worth(h, off + 1, k)
    OBVIOUS
  <2>11. c >= a /\ e >= d /\ c >= d + 1 /\ j <= k
    BY <1>1, <2>1, <2>3, <2>5, <2>6, <2>9, <2>10, SMTT(30)
  <2> QED
    BY <1>1, <2>8, <2>10, <2>11
<1> QED
  BY <1>2, <1>3, <1>4, SMT

(* The next byte is the first that came of frame i + 1. *)
Begins(h, off, i) == off = h.end[i] /\ off < h.end[i + 1]

(* A start byte is the beginning of a frame. *)
LEMMA StartRead ==
    ASSUME NEW h, NEW lg \in Seq(Frames), NEW lst, History(h, lg, lst),
           NEW j \in 0..Len(lg), NEW off \in Nat, Ahead(h, off, j),
           off < h.end[Len(lg)], h.t[off + 1] = START_BYTE
    PROVE  /\ off = h.end[j]
           /\ \E i \in 0..Len(lg) :
                /\ j <= i /\ i # Len(lg) /\ i + 1 \in 0..Len(lg) /\ Begins(h, off, i)
                /\ Credit(h, i) >= Credit(h, j)
                /\ Ahead(h, off + 1, i + 1) /\ Worth(h, off + 1, i + 1) >= Credit(h, i) - 1
<1>1. PICK n \in Nat : n = Len(lg)
  BY LenProperties
<1>2. h.end[j] \in Nat /\ off <= h.end[j]
  BY HistoryNumbers DEF Ahead
<1>3. ~ (off < h.end[j])
  <2> SUFFICES ASSUME off < h.end[j] PROVE FALSE
    OBVIOUS
  <2>1. off + 1 \in (off + 1)..h.end[j]
    BY <1>2, SMT
  <2> QED
    BY <2>1 DEF Ahead
<1>4. off = h.end[j]
  BY <1>2, <1>3, SMT
<1>5. PICK i \in 0..n : /\ j <= i /\ i # n /\ h.end[i] = off
                        /\ h.end[i] < h.end[i + 1] /\ Credit(h, i) >= Credit(h, j)
  <2>1. \A i \in j..n : j <= i
    BY <1>1, SMT
  <2> QED
    BY <1>1, <1>4, <2>1, NextFrame
<1>6. PICK k : k = i + 1
  OBVIOUS
<1>7. k \in 0..n
  BY <1>5, <1>6, SMT
<1>8. /\ Credit(h, k) >= Credit(h, i) - 1
      /\ h.cum[i] # h.cum[k] => Credit(h, k) >= Credit(h, i) + 2
      /\ h.cum[i] = h.cum[k] => h.t[h.end[k]] # ESCAPE
      /\ \A m \in (off + 2)..h.end[k] : h.t[m] # START_BYTE
  BY <1>1, <1>5, <1>6, FrameStep
<1>9. h.end[k] \in Nat /\ Credit(h, k) \in Int /\ Credit(h, i) \in Int
  BY <1>1, <1>5, <1>7, HistoryNumbers
<1>10. off + 1 <= h.end[k] /\ (off + 1) + 1 = off + 2
  BY <1>5, <1>6, <1>9, SMT
<1>11. Ahead(h, off + 1, k)
  BY <1>8, <1>10 DEF Ahead
<1>12. Worth(h, off + 1, k) >= Credit(h, i) - 1
  <2>1. CASE h.cum[i] = h.cum[k]
    <3>1. Worth(h, off + 1, k) = Credit(h, k)
      BY <1>8, <2>1, Zenon DEF Worth
    <3> QED
      BY <1>8, <3>1
  <2>2. CASE h.cum[i] # h.cum[k]
    <3>1. Worth(h, off + 1, k) \in Int /\ Worth(h, off + 1, k) >= Credit(h, k) - 1
      <4>1. off + 1 \in Nat
        OBVIOUS
      <4> QED
        BY <1>1, <1>7, <4>1, WorthType
    <3>2. Credit(h, k) >= Credit(h, i) + 2
      BY <1>8, <2>2
    <3>3. PICK a, b, c : a = Credit(h, i) /\ b = Credit(h, k) /\ c = Worth(h, off + 1, k)
      OBVIOUS
    <3>4. c >= a - 1
      BY <1>9, <3>1, <3>2, <3>3, SMT
    <3> QED
      BY <3>3, <3>4
  <2> QED
    BY <2>1, <2>2
<1>13. Begins(h, off, i)
  BY <1>5 DEF Begins
<1> QED
  BY <1>1, <1>4, <1>5, <1>6, <1>7, <1>11, <1>12, <1>13, Zenon

(* An escape byte takes the next byte with it, a start byte included: what   *)
(* that costs was set aside.                                                 *)
LEMMA PairRead ==
    ASSUME NEW h, NEW lg \in Seq(Frames), NEW lst, History(h, lg, lst),
           NEW j \in 0..Len(lg), NEW off \in Nat, Ahead(h, off, j),
           off + 2 <= h.end[Len(lg)], h.t[off + 1] = ESCAPE
    PROVE  \E k \in 0..Len(lg) : Ahead(h, off + 2, k) /\ Worth(h, off + 2, k) >= Worth(h, off, j)
<1>1. PICK n \in Nat : n = Len(lg)
  BY LenProperties
<1>2. h.end[n] \in Nat
  <2>1. n \in 0..n
    BY SMT
  <2> QED
    BY <1>1, <2>1, HistoryNumbers
<1>3. off < h.end[n] /\ off + 1 < h.end[n] /\ off + 1 \in Nat /\ (off + 1) + 1 = off + 2
  BY <1>1, <1>2, SMT
<1>4. h.t[off + 1] # START_BYTE
  BY ByteConstants
<1>5. PICK i \in 0..n :
          /\ Ahead(h, off + 1, i) /\ Worth(h, off + 1, i) >= Worth(h, off, j)
          /\ off + 1 = h.end[i] => Credit(h, i) >= Worth(h, off, j) + 1
  BY <1>1, <1>3, <1>4, SkipByte
<1>6. PICK p \in Nat : p = off + 1
  BY <1>3
<1>7. CASE h.t[p + 1] # START_BYTE
  <2>1. PICK k \in 0..n : Ahead(h, p + 1, k) /\ Worth(h, p + 1, k) >= Worth(h, p, i)
    BY <1>1, <1>3, <1>5, <1>6, <1>7, SkipByte
  <2>2. Worth(h, off, j) \in Int /\ Worth(h, p, i) \in Int /\ Worth(h, p + 1, k) \in Int
    <3>1. p + 1 \in Nat
      BY <1>6, SMT
    <3> QED
      BY <1>1, <1>5, <2>1, <3>1, WorthType
  <2>3. PICK a, b, c : a = Worth(h, off, j) /\ b = Worth(h, p, i) /\ c = Worth(h, p + 1, k)
    OBVIOUS
  <2>4. c >= a
    BY <1>5, <1>6, <2>1, <2>2, <2>3, SMT
  <2> QED
    BY <1>1, <1>3, <1>6, <2>1, <2>3, <2>4
<1>8. CASE h.t[p + 1] = START_BYTE
  <2>1. p = h.end[i]
    BY <1>1, <1>3, <1>5, <1>6, <1>8, StartRead
  <2>2. PICK m \in 0..n : /\ m + 1 \in 0..n /\ Credit(h, m) >= Credit(h, i)
                          /\ Ahead(h, p + 1, m + 1) /\ Worth(h, p + 1, m + 1) >= Credit(h, m) - 1
    BY <1>1, <1>3, <1>5, <1>6, <1>8, StartRead
  <2>3. Credit(h, i) >= Worth(h, off, j) + 1
    BY <1>5, <1>6, <2>1
  <2>4. /\ Worth(h, off, j) \in Int /\ Credit(h, i) \in Int /\ Credit(h, m) \in Int
        /\ Worth(h, p + 1, m + 1) \in Int
    <3>1. p + 1 \in Nat
      BY <1>6, SMT
    <3> QED
      BY <1>1, <1>5, <2>2, <3>1, WorthType
  <2>5. PICK a, b, c, d : /\ a = Worth(h, off, j) /\ b = Credit(h, i) /\ c = Credit(h, m)
                          /\ d = Worth(h, p + 1, m + 1)
    OBVIOUS
  <2>6. d >= a
    BY <2>2, <2>3, <2>4, <2>5, SMTT(30)
  <2> QED
    BY <1>1, <1>3, <1>6, <2>2, <2>5, <2>6
<1> QED
  BY <1>7, <1>8

(* Reading the first byte of the buffer. *)
LEMMA StreamRead ==
    ASSUME NEW h, NEW n, h.end[n] \in Nat, NEW off, NEW s \in Seq(Byte), NEW l \in Seq(Byte),
           Stream(h, off, n, s, l), s # <<>>
    PROVE  /\ off \in Nat /\ off < h.end[n] /\ s[1] = h.t[off + 1]
           /\ Stream(h, off + 1, n, Tail(s), l)
<1>1. PICK x, y : x = Len(s) /\ y = Len(l)
  OBVIOUS
<1>2. x \in Nat /\ y \in Nat /\ 1 <= x
  BY <1>1, HeadAndTail, LenProperties
<1>3. PICK e \in Nat : e = h.end[n]
  OBVIOUS
<1>4. /\ off \in Nat /\ off + x + y = e
      /\ \A m \in 1..x : s[m] = h.t[off + m]
      /\ \A m \in 1..y : l[m] = h.t[off + x + m]
      /\ l # <<>> => n # 0 /\ h.end[n - 1] + y <= e
  BY <1>1, <1>3, Zenon DEF Stream
<1>5. PICK t : t = Tail(s)
  OBVIOUS
<1>6. Len(t) = x - 1 /\ \A m \in 1..(x - 1) : t[m] = s[m + 1]
  BY <1>1, <1>5, HeadAndTail, Zenon
<1>7. /\ off < e /\ 1 \in 1..x /\ off + 1 \in Nat /\ (off + 1) + (x - 1) + y = e
      /\ \A m \in 1..(x - 1) : m + 1 \in 1..x /\ (off + 1) + m = off + (m + 1)
      /\ \A m \in 1..y : (off + 1) + (x - 1) + m = off + x + m
  BY <1>2, <1>3, <1>4, SMT
<1>8. ASSUME NEW m \in 1..(x - 1) PROVE t[m] = h.t[(off + 1) + m]
  <2>1. PICK i \in 1..x : i = m + 1 /\ (off + 1) + m = off + i
    BY <1>7
  <2>2. t[m] = s[i] /\ s[i] = h.t[off + i]
    BY <1>4, <1>6, <2>1
  <2> QED
    BY <2>1, <2>2
<1>9. \A m \in 1..y : l[m] = h.t[(off + 1) + (x - 1) + m]
  BY <1>4, <1>7, Zenon
<1>10. Stream(h, off + 1, n, t, l)
  BY <1>1, <1>3, <1>4, <1>6, <1>7, <1>8, <1>9, Zenon DEF Stream
<1> QED
  BY <1>3, <1>4, <1>5, <1>7, <1>10, Zenon

(* A byte coming in. *)
LEMMA StreamArrive ==
    ASSUME NEW h, NEW n, h.end[n] \in Nat, h.end[n - 1] \in Nat,
           NEW off, NEW s \in Seq(Byte), NEW l \in Seq(Byte),
           Stream(h, off, n, s, l), l # <<>>
    PROVE  Stream(h, off, n, Append(s, Head(l)), Tail(l))
<1>1. PICK x, y : x = Len(s) /\ y = Len(l)
  OBVIOUS
<1>2. x \in Nat /\ y \in Nat /\ 1 <= y /\ Head(l) = l[1] /\ Head(l) \in Byte
  BY <1>1, HeadAndTail, LenProperties
<1>3. PICK e \in Nat, d \in Nat : e = h.end[n] /\ d = h.end[n - 1]
  OBVIOUS
<1>4. /\ off \in Nat /\ off + x + y = e
      /\ \A m \in 1..x : s[m] = h.t[off + m]
      /\ \A m \in 1..y : l[m] = h.t[off + x + m]
      /\ n # 0 /\ d + y <= e
  BY <1>1, <1>3, Zenon DEF Stream
<1>5. PICK k : k = Tail(l)
  OBVIOUS
<1>6. Len(k) = y - 1 /\ \A m \in 1..(y - 1) : k[m] = l[m + 1]
  BY <1>1, <1>5, HeadAndTail, Zenon
<1>7. PICK a : a = Append(s, Head(l))
  OBVIOUS
<1>8. Len(a) = x + 1 /\ a[x + 1] = l[1] /\ \A m \in 1..x : a[m] = s[m]
  BY <1>1, <1>2, <1>7, AppendProperties
<1>9. /\ 1 \in 1..y /\ off + (x + 1) + (y - 1) = e /\ off + x + 1 = off + (x + 1)
      /\ \A m \in 1..(x + 1) : m \in 1..x \/ m = x + 1
      /\ \A m \in 1..(y - 1) : m + 1 \in 1..y /\ off + (x + 1) + m = off + x + (m + 1)
      /\ d + (y - 1) <= e
  BY <1>2, <1>3, <1>4, SMTT(30)
<1>10. ASSUME NEW m \in 1..(x + 1) PROVE a[m] = h.t[off + m]
  <2>1. CASE m \in 1..x
    BY <1>4, <1>8, <2>1
  <2>2. CASE m = x + 1
    <3>1. l[1] = h.t[off + x + 1]
      BY <1>4, <1>9
    <3> QED
      BY <1>8, <1>9, <2>2, <3>1
  <2> QED
    BY <1>9, <2>1, <2>2
<1>11. ASSUME NEW m \in 1..(y - 1) PROVE k[m] = h.t[off + (x + 1) + m]
  <2>1. PICK i \in 1..y : i = m + 1 /\ off + (x + 1) + m = off + x + i
    BY <1>9
  <2>2. k[m] = l[i] /\ l[i] = h.t[off + x + i]
    BY <1>4, <1>6, <2>1
  <2> QED
    BY <2>1, <2>2
<1>12. Stream(h, off, n, a, k)
  BY <1>3, <1>4, <1>6, <1>8, <1>9, <1>10, <1>11, Zenon DEF Stream
<1> QED
  BY <1>5, <1>7, <1>12

(* Where the parser stands on the line: off bytes read of the history h. *)
Line(h, off) == History(h, log, lost) /\ Stream(h, off, Len(log), serial, line)

(* What a line is made of. *)
LEMMA LineNumbers ==
    ASSUME TypeOK, NEW h, NEW off, Line(h, off)
    PROVE  /\ log \in Seq(Frames) /\ serial \in Seq(Byte) /\ line \in Seq(Byte)
           /\ History(h, log, lost) /\ Stream(h, off, Len(log), serial, line)
           /\ Len(log) \in Nat /\ Len(log) \in 0..Len(log)
           /\ h.end[Len(log)] \in Nat /\ off \in Nat /\ off <= h.end[Len(log)]
<1>1. log \in Seq(Frames) /\ serial \in Seq(Byte) /\ line \in Seq(Byte)
  BY DEF TypeOK
<1>2. PICK n \in Nat : n = Len(log)
  BY <1>1, LenProperties
<1>3. n \in 0..n
  BY SMT
<1>4. h.end[n] \in Nat
  BY <1>1, <1>2, <1>3, HistoryNumbers DEF Line
<1>5. off \in Nat /\ off + Len(serial) + Len(line) = h.end[n]
  BY <1>2 DEF Line, Stream
<1>6. Len(serial) \in Nat /\ Len(line) \in Nat
  BY <1>1, LenProperties
<1>7. off <= h.end[n]
  BY <1>4, <1>5, <1>6, SMT
<1> QED
  BY <1>1, <1>2, <1>3, <1>4, <1>5, <1>7 DEF Line

(* The next byte in the buffer. *)
LEMMA NextInBuffer ==
    ASSUME TypeOK, NEW h, NEW off, Line(h, off), serial # <<>>
    PROVE  /\ off < h.end[Len(log)] /\ Head(serial) = h.t[off + 1]
           /\ Stream(h, off + 1, Len(log), Tail(serial), line)
<1>1. serial[1] = Head(serial)
  BY HeadAndTail DEF TypeOK
<1> QED
  BY <1>1, LineNumbers, StreamRead

(* Two bytes for one: the escape byte and its successor. *)
LEMMA NextPair ==
    ASSUME TypeOK, NEW h, NEW off, Line(h, off), Parsable, Escaping
    PROVE  /\ h.t[off + 1] = ESCAPE /\ off + 2 <= h.end[Len(log)]
           /\ serial[2] = h.t[off + 2] /\ Rest = Tail(Tail(serial))
           /\ Stream(h, off + 2, Len(log), Rest, line)
<1>1. /\ serial \in Seq(Byte) /\ line \in Seq(Byte)
      /\ h.end[Len(log)] \in Nat /\ off \in Nat
  BY LineNumbers
<1>2. serial # <<>> /\ Head(serial) = ESCAPE /\ serial[1] = Head(serial)
  BY <1>1, HeadAndTail DEF Parsable, Escaping
<1>3. serial # <<serial[1]>>
  BY <1>2 DEF Parsable, Escaping
<1>4. PICK u : u = Tail(serial)
  OBVIOUS
<1>5. u \in Seq(Byte) /\ u # <<>> /\ u[1] = serial[2]
  <2>1. Len(u) = Len(serial) - 1 /\ \A i \in 1..Len(u) : u[i] = serial[i + 1]
    BY <1>1, <1>2, <1>4, HeadAndTail
  <2>2. 2 <= Len(serial) /\ Len(serial) \in Nat /\ u # <<>> /\ u \in Seq(Byte)
    BY <1>1, <1>2, <1>3, <1>4, TwoInSerial, HeadAndTail
  <2>3. 1 \in 1..Len(u) /\ 1 + 1 = 2
    BY <2>1, <2>2, SMT
  <2>4. u[1] = serial[1 + 1]
    BY <2>1, <2>3
  <2> QED
    BY <2>2, <2>3, <2>4
<1>6. PICK p : p = off + 1
  OBVIOUS
<1>7. h.t[p] = ESCAPE /\ Stream(h, p, Len(log), u, line)
  BY <1>2, <1>4, <1>6, NextInBuffer
<1>8. p < h.end[Len(log)] /\ u[1] = h.t[p + 1] /\ Stream(h, p + 1, Len(log), Tail(u), line)
  <2>1. PICK n, l : n = Len(log) /\ l = line
    OBVIOUS
  <2>2. h.end[n] \in Nat /\ l \in Seq(Byte) /\ Stream(h, p, n, u, l)
    BY <1>1, <1>7, <2>1
  <2>3. p < h.end[n] /\ u[1] = h.t[p + 1] /\ Stream(h, p + 1, n, Tail(u), l)
    BY <1>5, <2>2, StreamRead, ZenonT(60)
  <2> QED
    BY <2>1, <2>3
<1>9. p + 1 = off + 2 /\ off + 2 <= h.end[Len(log)]
  BY <1>1, <1>6, <1>8, SMT
<1>10. Rest = Tail(Tail(serial))
  BY DEF Rest
<1> QED
  BY <1>4, <1>5, <1>6, <1>7, <1>8, <1>9, <1>10, Zenon

(* Inside what the parser takes for a packet: the next byte, a pair of bytes *)
(* perhaps, costs nothing.                                                   *)
LEMMA ReadOn ==
    ASSUME TypeOK, NEW h, NEW off, Line(h, off), NEW j \in 0..Len(log), Ahead(h, off, j),
           Parsable, pos > 0
    PROVE  \E o \in Nat, k \in 0..Len(log) :
              /\ Stream(h, o, Len(log), Rest, line)
              /\ Ahead(h, o, k) /\ Worth(h, o, k) >= Worth(h, off, j)
<1>1. /\ log \in Seq(Frames) /\ History(h, log, lost) /\ off \in Nat
  BY LineNumbers
<1>2. CASE Escaping
  <2>1. PICK k \in 0..Len(log) : Ahead(h, off + 2, k) /\ Worth(h, off + 2, k) >= Worth(h, off, j)
    BY <1>1, <1>2, NextPair, PairRead
  <2>2. off + 2 \in Nat
    BY <1>1
  <2> QED
    BY <1>2, <2>1, <2>2, NextPair
<1>3. CASE ~ Escaping
  <2>1. serial # <<>> /\ Head(serial) # START_BYTE
    BY DEF Parsable
  <2>2. Rest = Tail(serial)
    BY <1>3 DEF Rest
  <2>3. /\ off < h.end[Len(log)] /\ h.t[off + 1] # START_BYTE
        /\ Stream(h, off + 1, Len(log), Rest, line)
    BY <2>1, <2>2, NextInBuffer
  <2>4. PICK k \in 0..Len(log) : Ahead(h, off + 1, k) /\ Worth(h, off + 1, k) >= Worth(h, off, j)
    BY <1>1, <2>3, SkipByte
  <2>5. off + 1 \in Nat
    BY <1>1
  <2> QED
    BY <2>3, <2>4, <2>5
<1> QED
  BY <1>2, <1>3

-----------------------------------------------------------------------------
(* What the radio adds to the line and an overrun takes from it *)

(* Two histories of the first n frames are the same. *)
Agree(h, g, n) ==
    /\ \A i \in 0..n : g.end[i] = h.end[i] /\ g.cum[i] = h.cum[i] /\ g.big[i] = h.big[i]
    /\ \A m \in 1..h.end[n] : g.t[m] = h.t[m]

(* Of what lies within the first n frames. *)
LEMMA AgreeKept ==
    ASSUME NEW h, NEW g, NEW n \in Nat, Agree(h, g, n), NEW i \in 1..n,
           h.end[i - 1] \in Nat, h.end[i] \in Nat, h.end[i] <= h.end[n], h.end[n] \in Nat,
           NEW f
    PROVE  /\ Kept(h, i, f) => Kept(g, i, f)
           /\ LastLost(h, i, send(f)) => LastLost(g, i, send(f))
<1>1. i \in 0..n /\ i - 1 \in 0..n
  BY SMT
<1>2. /\ g.end[i] = h.end[i] /\ g.cum[i] = h.cum[i] /\ g.big[i] = h.big[i]
      /\ g.end[i - 1] = h.end[i - 1] /\ g.cum[i - 1] = h.cum[i - 1] /\ g.big[i - 1] = h.big[i - 1]
  BY <1>1, Zenon DEF Agree
<1>3. PICK a, b, c : a = h.end[i - 1] /\ b = h.end[i] /\ c = h.end[n]
  OBVIOUS
<1>4. a \in Nat /\ b \in Nat /\ c \in Nat /\ b <= c
  BY <1>3
<1>5. \A m \in 1..c : g.t[m] = h.t[m]
  BY <1>3 DEF Agree
<1>6. \A m \in (a + 2)..b : g.t[m] = h.t[m]
  <2>1. \A m \in (a + 2)..b : m \in 1..c
    BY <1>4, SMT
  <2> QED
    BY <1>5, <2>1
<1>7. ASSUME NEW e, Holds(h, i, e) PROVE Holds(g, i, e)
  <2>1. ASSUME NEW m \in 1..(b - a) PROVE g.t[a + m] = h.t[a + m]
    <3>1. a + m \in 1..c
      BY <1>4, SMT
    <3> QED
      BY <1>5, <3>1
  <2>2. \A m \in 1..(b - a) : h.t[a + m] = e[m]
    BY <1>3, <1>7, Zenon DEF Holds
  <2>3. \A m \in 1..(b - a) : g.t[a + m] = e[m]
    BY <2>1, <2>2
  <2> QED
    BY <1>2, <1>3, <2>3, Zenon DEF Holds
<1>8. \A e : /\ Whole(h, i, e) => Whole(g, i, e)
             /\ LastLost(h, i, e) => LastLost(g, i, e)
  BY <1>2, <1>7, Zenon DEF Whole, LastLost
<1>9. GoodEnd(h, i) => GoodEnd(g, i)
  <2>1. a < b => b \in 1..c
    BY <1>4, SMT
  <2> QED
    BY <1>2, <1>3, <1>5, <2>1, Zenon DEF GoodEnd
<1>10. (\A m \in (a + 2)..b : h.t[m] # START_BYTE) => \A m \in (a + 2)..b : g.t[m] # START_BYTE
  BY <1>6
<1>11. Kept(h, i, f) => Kept(g, i, f)
  BY <1>2, <1>3, <1>8, <1>9, <1>10, Zenon DEF Kept
<1> QED
  BY <1>8, <1>11

(* What is ahead, and what it is worth, in histories that agree. *)
LEMMA AgreeAhead ==
    ASSUME NEW h, NEW g, NEW n \in Nat, Agree(h, g, n), NEW j \in 0..n, NEW off \in Nat,
           h.end[j] \in Nat, h.end[j] <= h.end[n], h.end[n] \in Nat
    PROVE  /\ Ahead(h, off, j) => Ahead(g, off, j)
           /\ Credit(g, j) = Credit(h, j) /\ Worth(g, off, j) = Worth(h, off, j)
<1>1. g.end[j] = h.end[j] /\ g.cum[j] = h.cum[j] /\ g.big[j] = h.big[j]
  BY DEF Agree
<1>2. PICK b, c : b = h.end[j] /\ c = h.end[n]
  OBVIOUS
<1>3. b \in Nat /\ c \in Nat /\ b <= c
  BY <1>2
<1>4. \A m \in 1..c : g.t[m] = h.t[m]
  BY <1>2 DEF Agree
<1>5. /\ \A m \in (off + 1)..b : m \in 1..c
      /\ off < b => b \in 1..c
  BY <1>3, SMT
<1>6. Ahead(h, off, j) => Ahead(g, off, j)
  BY <1>1, <1>2, <1>4, <1>5, Zenon DEF Ahead
<1>7. Credit(g, j) = Credit(h, j)
  BY <1>1, Zenon DEF Credit
<1>8. off < b => g.t[b] = h.t[b]
  BY <1>4, <1>5
<1>9. Worth(g, off, j) = Worth(h, off, j)
  <2>1. CASE off < b
    BY <1>1, <1>2, <1>7, <1>8, <2>1, Zenon DEF Worth
  <2>2. CASE ~ (off < b)
    BY <1>1, <1>2, <1>7, <2>2, Zenon DEF Worth
  <2> QED
    BY <2>1, <2>2
<1> QED
  BY <1>6, <1>7, <1>9

(* The radio begins frame f. *)
Extended(h, n, f) ==
    [t   |-> [m \in Nat |-> IF m <= h.end[n] THEN h.t[m] ELSE send(f)[m - h.end[n]]],
     end |-> [i \in 0..(n + 1) |-> IF i = n + 1 THEN h.end[n] + Len(send(f)) ELSE h.end[i]],
     cum |-> [i \in 0..(n + 1) |-> IF i = n + 1 THEN h.cum[n] ELSE h.cum[i]],
     big |-> [i \in 0..(n + 1) |-> IF i = n + 1 THEN h.big[n] + Bigger(f) ELSE h.big[i]]]

(* Escaping: a frame has no start byte but its first. *)
LEMMA NoStartInside ==
    ASSUME NEW f \in Frames, NEW m \in 2..Len(send(f))
    PROVE  send(f)[m] # START_BYTE
<1>1. PICK e : e = send(f)
  OBVIOUS
<1>2. PICK s : s = Body(f)
  OBVIOUS
<1>3. PICK c : Walk(e, s, c)
  BY <1>1, <1>2, FrameWalk
<1>4. e \in Seq(Byte) /\ s \in Seq(Byte) /\ c[0] = 1 /\ c[Len(s)] = Len(e)
  BY <1>3 DEF Walk
<1>5. PICK l \in Nat : l = Len(s)
  BY <1>4, LenProperties
<1> DEFINE K == {k \in Nat : k <= l => c[k] \in Nat /\ \A x \in 2..c[k] : e[x] # START_BYTE}
<1>6. 0 \in K
  <2>1. \A x \in 2..1 : FALSE
    BY SMT
  <2> QED
    BY <1>4, <2>1
<1>7. ASSUME NEW k \in K PROVE k + 1 \in K
  <2>1. CASE k + 1 <= l
    <3>1. k + 1 \in 1..l /\ k <= l /\ (k + 1) - 1 = k /\ k \in Nat
      BY <2>1, SMT
    <3>2. PICK a, b : a = c[k] /\ b = c[k + 1]
      OBVIOUS
    <3>3. /\ a \in Nat /\ b \in Nat /\ 1 <= a /\ a < b
          /\ OneByte(e, s, c, k + 1) \/ TwoBytes(e, s, c, k + 1)
      BY <1>3, <1>5, <3>1, <3>2, Zenon DEF Walk
    <3>4. \A x \in 2..a : e[x] # START_BYTE
      BY <3>1, <3>2
    <3>5. CASE OneByte(e, s, c, k + 1)
      <4>1. b = a + 1 /\ e[b] # START_BYTE
        BY <3>1, <3>2, <3>5 DEF OneByte
      <4>2. \A x \in 2..b : x \in 2..a \/ x = b
        BY <3>3, <4>1, SMT
      <4>3. \A x \in 2..b : e[x] # START_BYTE
        BY <3>4, <4>1, <4>2, Zenon
      <4> QED
        BY <3>1, <3>2, <3>3, <4>3
    <3>6. CASE TwoBytes(e, s, c, k + 1)
      <4>1. b = a + 2 /\ e[a + 1] # START_BYTE /\ e[b] # START_BYTE
        BY <3>1, <3>2, <3>6, ByteConstants DEF TwoBytes
      <4>2. \A x \in 2..b : x \in 2..a \/ x = a + 1 \/ x = b
        BY <3>3, <4>1, SMT
      <4>3. \A x \in 2..b : e[x] # START_BYTE
        BY <3>4, <4>1, <4>2, Zenon
      <4> QED
        BY <3>1, <3>2, <3>3, <4>3
    <3> QED
      BY <3>3, <3>5, <3>6
  <2>2. CASE ~ (k + 1 <= l)
    BY <2>2
  <2> QED
    BY <2>1, <2>2
<1>8. K = Nat
  <2>1. K \in SUBSET Nat
    OBVIOUS
  <2> HIDE DEF K
  <2> QED
    BY <1>6, <1>7, <2>1, NatSetInduction
<1>9. l \in K /\ l <= l
  BY <1>8, SMT
<1> QED
  BY <1>1, <1>4, <1>5, <1>9

(* The history with one more frame. *)
LEMMA ExtendedLine ==
    ASSUME NEW h, NEW lg \in Seq(Frames), NEW lst, History(h, lg, lst), NEW f \in Frames,
           NEW off, NEW s \in Seq(Byte), Stream(h, off, Len(lg), s, <<>>), NEW g,
           g = Extended(h, Len(lg), f)
    PROVE  /\ Agree(h, g, Len(lg))
           /\ History(g, Append(lg, f), lst)
           /\ Stream(g, off, Len(lg) + 1, s, send(f))
<1>1. PICK n \in Nat : n = Len(lg)
  BY LenProperties
<1>2. PICK w \in Seq(Byte) : w = send(f)
  BY FrameWalk
<1>3. PICK v \in Nat : v = Len(w)
  BY LenProperties
<1>4. /\ n \in 0..n /\ n + 1 \in 0..(n + 1) /\ n \in 0..(n + 1) /\ 0 \in 0..(n + 1)
      /\ 0 # n + 1 /\ n # n + 1
      /\ (n + 1) - 1 = n /\ n + 1 # 0
  BY SMT
<1>5. PICK e \in Nat : e = h.end[n] /\ h.cum[n] \in Nat /\ h.big[n] \in Nat
  BY <1>1, <1>4, HistoryNumbers
<1>6. /\ g.t   = [m \in Nat |-> IF m <= e THEN h.t[m] ELSE w[m - e]]
      /\ g.end = [i \in 0..(n + 1) |-> IF i = n + 1 THEN e + v ELSE h.end[i]]
      /\ g.cum = [i \in 0..(n + 1) |-> IF i = n + 1 THEN h.cum[n] ELSE h.cum[i]]
      /\ g.big = [i \in 0..(n + 1) |-> IF i = n + 1 THEN h.big[n] + Bigger(f) ELSE h.big[i]]
  <2>1. g = Extended(h, n, f)
    BY <1>1
  <2>2. PICK a, b, c, d :
          /\ a = [m \in Nat |-> IF m <= e THEN h.t[m] ELSE w[m - e]]
          /\ b = [i \in 0..(n + 1) |-> IF i = n + 1 THEN e + v ELSE h.end[i]]
          /\ c = [i \in 0..(n + 1) |-> IF i = n + 1 THEN h.cum[n] ELSE h.cum[i]]
          /\ d = [i \in 0..(n + 1) |-> IF i = n + 1 THEN h.big[n] + Bigger(f) ELSE h.big[i]]
    OBVIOUS
  <2>3. g = [t |-> a, end |-> b, cum |-> c, big |-> d]
    BY <1>2, <1>3, <1>5, <2>1, <2>2, Zenon DEF Extended
  <2>4. g.t = a /\ g.end = b /\ g.cum = c /\ g.big = d
    BY <2>3
  <2> QED
    BY <2>2, <2>4, Zenon
<1>7. ASSUME NEW i \in 0..n
      PROVE  g.end[i] = h.end[i] /\ g.cum[i] = h.cum[i] /\ g.big[i] = h.big[i]
  <2>1. i \in 0..(n + 1) /\ i # n + 1
    BY SMT
  <2> QED
    BY <1>6, <2>1
<1>8. \A m \in 1..e : g.t[m] = h.t[m]
  <2>1. \A m \in 1..e : m \in Nat /\ m <= e
    BY SMT
  <2> QED
    BY <1>6, <2>1
<1>9. Agree(h, g, n)
  BY <1>5, <1>7, <1>8 DEF Agree
<1>10. g.end[n + 1] = e + v /\ g.cum[n + 1] = h.cum[n] /\ g.big[n + 1] = h.big[n] + Bigger(f)
  BY <1>4, <1>6
<1>11. ASSUME NEW m \in 1..v PROVE g.t[e + m] = w[m]
  <2>1. e + m \in Nat /\ ~ (e + m <= e) /\ (e + m) - e = m
    BY SMT
  <2> QED
    BY <1>6, <2>1
<1>12. PICK lh : lh = Append(lg, f)
  OBVIOUS
<1>13. lh \in Seq(Frames) /\ Len(lh) = n + 1 /\ lh[n + 1] = f /\ \A i \in 1..n : lh[i] = lg[i]
  BY <1>1, <1>12, AppendProperties
<1>14. /\ g.end \in [0..(n + 1) -> Nat] /\ g.cum \in [0..(n + 1) -> Nat]
       /\ g.big \in [0..(n + 1) -> Nat]
  <2>1. Bigger(f) \in {0, 1}
    BY DEF Bigger
  <2>2. e + v \in Nat /\ h.big[n] + Bigger(f) \in Nat /\ h.cum[n] \in Nat
    BY <1>5, <2>1, SMTT(30)
  <2>3. \A i \in 0..(n + 1) : i # n + 1 => i \in 0..n
    BY SMT
  <2>4. \A i \in 0..n : h.end[i] \in Nat /\ h.cum[i] \in Nat /\ h.big[i] \in Nat
    BY <1>1, HistoryNumbers
  <2> QED
    BY <1>6, <2>2, <2>3, <2>4
<1>15. ASSUME NEW i \in 1..n PROVE Kept(g, i, lh[i])
  <2>1. Kept(h, i, lg[i])
    BY <1>1 DEF History
  <2>2. i \in 0..n /\ i - 1 \in 0..n /\ n \in i..n /\ n \in 0..n
    BY SMT
  <2>3. h.end[i] \in Nat /\ h.end[i - 1] \in Nat /\ h.end[n] \in Nat
    BY <1>1, <2>2, HistoryNumbers
  <2>4. h.end[i] <= h.end[n]
    BY <1>1, <2>2, LaterFrames
  <2> QED
    BY <1>9, <1>13, <2>1, <2>3, <2>4, AgreeKept
<1>16. Kept(g, n + 1, f)
  <2>1. g.end[n] = e /\ g.cum[n] = h.cum[n] /\ g.big[n] = h.big[n]
    BY <1>4, <1>5, <1>7
  <2>2. PICK k : k = n + 1
    OBVIOUS
  <2>3. /\ g.end[k] = e + v /\ g.cum[k] = h.cum[n] /\ g.big[k] = h.big[n] + Bigger(f)
        /\ g.end[k - 1] = e /\ g.cum[k - 1] = h.cum[n] /\ g.big[k - 1] = h.big[n]
    BY <1>4, <1>10, <2>1, <2>2
  <2>4. e <= e + v /\ h.cum[n] <= h.cum[n] /\ h.cum[n] # h.cum[n] + 1 /\ (e + v) - e = v
    BY <1>5, SMTT(30)
  <2>5. ASSUME NEW m \in (e + 2)..(e + v) PROVE g.t[m] # START_BYTE
    <3>1. PICK x \in 2..v : x = m - e /\ e + x = m /\ x \in 1..v
      BY SMT
    <3>2. g.t[m] = w[x]
      BY <1>11, <3>1
    <3> QED
      BY <1>2, <1>3, <3>2, NoStartInside
  <2>6. Whole(g, k, send(f))
    <3>1. Holds(g, k, w)
      BY <1>11, <2>3, <2>4, Zenon DEF Holds
    <3> QED
      BY <1>2, <1>3, <2>3, <3>1, Zenon DEF Whole
  <2>7. Kept(g, k, f)
    BY <2>3, <2>4, <2>5, <2>6, Zenon DEF Kept
  <2> QED
    BY <2>2, <2>7
<1>17. History(g, lh, lst)
  <2>1. g.end[0] = 0 /\ g.cum[0] = 0 /\ g.big[0] = 0
    <3>1. 0 \in 0..n
      BY SMT
    <3> QED
      BY <1>7, <3>1 DEF History
  <2>2. g.cum[n + 1] = lst
    BY <1>1, <1>10 DEF History
  <2>3. \A i \in 1..(n + 1) : i \in 1..n \/ i = n + 1
    BY SMT
  <2>4. \A i \in 1..(n + 1) : Kept(g, i, lh[i])
    BY <1>13, <1>15, <1>16, <2>3
  <2> QED
    BY <1>13, <1>14, <2>1, <2>2, <2>4 DEF History
<1>18. Stream(g, off, n + 1, s, w)
  <2>1. PICK x \in Nat : x = Len(s)
    BY LenProperties
  <2>2. Len(<<>>) = 0
    OBVIOUS
  <2>3. off \in Nat /\ off + x + 0 = e /\ \A m \in 1..x : s[m] = h.t[off + m]
    BY <1>1, <1>5, <2>1, <2>2, Zenon DEF Stream
  <2>4. off + x = e /\ off + x + v = e + v /\ e + v <= e + v
    BY <2>3, SMT
  <2>5. ASSUME NEW m \in 1..x PROVE s[m] = g.t[off + m]
    <3>1. off + m \in 1..e
      BY <2>3, SMT
    <3> QED
      BY <1>8, <2>3, <3>1
  <2>6. \A m \in 1..v : w[m] = g.t[off + x + m]
    BY <1>11, <2>4
  <2>7. g.end[(n + 1) - 1] = e
    BY <1>4, <1>5, <1>7
  <2> QED
    BY <1>3, <1>4, <1>10, <2>1, <2>3, <2>4, <2>5, <2>6, <2>7, Zenon DEF Stream
<1> QED
  BY <1>1, <1>2, <1>9, <1>12, <1>17, <1>18, Zenon

(* The byte at place p, of the last frame, is lost. *)
Reduced(h, n, p) ==
    [t   |-> [m \in Nat |-> IF m < p THEN h.t[m] ELSE h.t[m + 1]],
     end |-> [h.end EXCEPT ![n] = h.end[n] - 1],
     cum |-> [h.cum EXCEPT ![n] = h.cum[n] + 1],
     big |-> h.big]

(* A byte lost of frame n is worth three. *)
Costly(h, g, n) == Credit(g, n) = Credit(h, n) + 3 /\ g.cum[n] # g.cum[n - 1]

(* The history with the next byte of the line lost. *)
LEMMA ReducedLine ==
    ASSUME NEW h, NEW lg \in Seq(Frames), NEW lst, History(h, lg, lst),
           NEW off, NEW s \in Seq(Byte), NEW l \in Seq(Byte), Stream(h, off, Len(lg), s, l),
           l # <<>>
    PROVE  /\ Len(lg) # 0 /\ Len(lg) - 1 \in 0..Len(lg)
           /\ \E g : /\ Agree(h, g, Len(lg) - 1)
                     /\ History(g, lg, lst + 1)
                     /\ Stream(g, off, Len(lg), s, Tail(l))
                     /\ Costly(h, g, Len(lg))
                     /\ Ahead(h, off, Len(lg)) => Ahead(g, off, Len(lg))
<1> PICK g : g = Reduced(h, Len(lg), (h.end[Len(lg)] - Len(l)) + 1)
  OBVIOUS
<1>1. PICK n \in Nat : n = Len(lg)
  BY LenProperties
<1>2. PICK x, y : x = Len(s) /\ y = Len(l)
  OBVIOUS
<1>3. x \in Nat /\ y \in Nat /\ 1 <= y
  BY <1>2, HeadAndTail, LenProperties
<1>4. PICK e : e = h.end[n]
  OBVIOUS
<1>5. /\ off \in Nat /\ off + x + y = e /\ n # 0 /\ h.end[n - 1] + y <= e
      /\ \A m \in 1..x : s[m] = h.t[off + m]
      /\ \A m \in 1..y : l[m] = h.t[off + x + m]
  BY <1>1, <1>2, <1>4, Zenon DEF Stream
<1>6. n \in 0..n /\ n - 1 \in 0..n /\ n \in 1..n /\ n - 1 # n /\ n - 1 \in Nat /\ n - 1 # n
  BY <1>5, SMT
<1>7. PICK d \in Nat, cd \in Nat, ce \in Nat, be \in Nat :
          d = h.end[n - 1] /\ cd = h.cum[n - 1] /\ ce = h.cum[n] /\ be = h.big[n]
  BY <1>1, <1>6, HistoryNumbers
<1>8. e \in Nat
  BY <1>1, <1>4, <1>6, HistoryNumbers
<1>9. PICK p : p = (e - y) + 1
  OBVIOUS
<1>10. /\ p \in Nat /\ p = off + x + 1 /\ d < p /\ p <= e /\ d + 1 <= e
       /\ e - 1 \in Nat /\ d <= e - 1
  <2>1. off \in Nat /\ off + x + y = e /\ d + y <= e /\ d \in Nat
    BY <1>5, <1>7, Zenon
  <2>2. x \in Nat /\ y \in Nat /\ 1 <= y /\ e \in Nat
    BY <1>3, <1>8
  <2> QED
    BY <1>9, <2>1, <2>2, SMT
<1>11. /\ g.t   = [m \in Nat |-> IF m < p THEN h.t[m] ELSE h.t[m + 1]]
       /\ g.end = [h.end EXCEPT ![n] = e - 1]
       /\ g.cum = [h.cum EXCEPT ![n] = ce + 1]
       /\ g.big = h.big
  <2>1. g = Reduced(h, n, p)
    BY <1>1, <1>2, <1>4, <1>9
  <2>2. PICK a, b, c : /\ a = [m \in Nat |-> IF m < p THEN h.t[m] ELSE h.t[m + 1]]
                       /\ b = [h.end EXCEPT ![n] = e - 1] /\ c = [h.cum EXCEPT ![n] = ce + 1]
    OBVIOUS
  <2>3. g = [t |-> a, end |-> b, cum |-> c, big |-> h.big]
    BY <1>4, <1>7, <2>1, <2>2, Zenon DEF Reduced
  <2>4. g.t = a /\ g.end = b /\ g.cum = c /\ g.big = h.big
    BY <2>3
  <2> QED
    BY <2>2, <2>4, Zenon
<1>12. h.end \in [0..n -> Nat] /\ h.cum \in [0..n -> Nat] /\ h.big \in [0..n -> Nat]
  BY <1>1 DEF History
<1>13. g.end \in [0..n -> Nat] /\ g.cum \in [0..n -> Nat] /\ g.big \in [0..n -> Nat]
  <2>1. ce + 1 \in Nat
    BY <1>7, SMT
  <2>2. [h.end EXCEPT ![n] = e - 1] \in [0..n -> Nat]
    BY <1>10, <1>12
  <2>3. [h.cum EXCEPT ![n] = ce + 1] \in [0..n -> Nat]
    BY <1>12, <2>1
  <2> QED
    BY <1>11, <1>12, <2>2, <2>3, Zenon
<1>14. g.end[n] = e - 1 /\ g.cum[n] = ce + 1 /\ g.big[n] = be
  BY <1>6, <1>7, <1>11, <1>12
<1>15. ASSUME NEW i \in 0..n, i # n
       PROVE  g.end[i] = h.end[i] /\ g.cum[i] = h.cum[i] /\ g.big[i] = h.big[i]
  BY <1>11, <1>12, <1>15
<1>16. \A m \in Nat : /\ m < p => g.t[m] = h.t[m]
                      /\ ~ (m < p) => g.t[m] = h.t[m + 1]
  BY <1>11
<1>17. Agree(h, g, n - 1)
  <2>1. \A i \in 0..(n - 1) : i \in 0..n /\ i # n
    BY <1>6, SMT
  <2>2. \A m \in 1..d : m \in Nat /\ m < p
    BY <1>10, SMT
  <2>3. \A m \in 1..d : g.t[m] = h.t[m]
    BY <1>16, <2>2
  <2> QED
    BY <1>7, <1>15, <2>1, <2>3, Zenon DEF Agree
<1>18. Kept(h, n, lg[n])
  BY <1>1, <1>6 DEF History
<1>19. /\ cd <= ce /\ be = h.big[n - 1] + Bigger(lg[n])
       /\ \A m \in (d + 2)..e : h.t[m] # START_BYTE
       /\ ce = cd => Whole(h, n, send(lg[n]))
  BY <1>4, <1>7, <1>18, Zenon DEF Kept
<1>20. g.end[n - 1] = d /\ g.cum[n - 1] = cd /\ g.big[n - 1] = h.big[n - 1]
  BY <1>6, <1>7, <1>15
<1>21. \A m \in (d + 2)..(e - 1) : g.t[m] # START_BYTE
  <2> TAKE m \in (d + 2)..(e - 1)
  <2>1. m \in Nat /\ m \in (d + 2)..e /\ m + 1 \in (d + 2)..e
    <3>1. d \in Nat /\ e \in Nat /\ e - 1 \in Nat
      BY <1>7, <1>8, <1>10
    <3> QED
      BY <3>1, SMT
  <2> QED
    BY <1>16, <1>19, <2>1
<1>22. ASSUME ce = cd PROVE LastLost(g, n, send(lg[n])) \/ GoodEnd(g, n)
  <2>1. PICK w : w = send(lg[n])
    OBVIOUS
  <2>2. lg[n] \in Frames
    BY <1>1, <1>6, ElementOfSeq
  <2>3. PICK v \in Nat : v = Len(w)
    BY <2>1, <2>2, FrameWalk, LenProperties
  <2>4. e = d + v /\ \A m \in 1..(e - d) : h.t[d + m] = w[m]
    BY <1>4, <1>7, <1>19, <1>22, <2>1, <2>3, Zenon DEF Whole, Holds
  <2>5. CASE y = 1
    <3>1. p = e /\ (e - 1) + 1 = d + v
      BY <1>8, <1>9, <2>4, <2>5, SMT
    <3>2. ASSUME NEW m \in 1..((e - 1) - d) PROVE g.t[d + m] = w[m]
      <4>1. m \in 1..(e - d) /\ d + m \in Nat /\ d + m < p
        BY <1>8, <1>10, <3>1, SMT
      <4> QED
        BY <1>16, <2>4, <4>1
    <3>3. Holds(g, n, w)
      BY <1>14, <1>20, <3>2, Zenon DEF Holds
    <3>4. LastLost(g, n, w)
      BY <1>14, <1>20, <2>3, <3>1, <3>3, Zenon DEF LastLost
    <3> QED
      BY <2>1, <3>4
  <2>6. CASE y # 1
    <3>1. d < e - 1 /\ ~ (e - 1 < p) /\ (e - 1) + 1 = e
      BY <1>3, <1>5, <1>7, <1>8, <1>9, <2>6, SMTT(30)
    <3>2. h.t[e] # ESCAPE
      <4>1. PICK i : i = n - 1
        OBVIOUS
      <4>2. i \in 0..n /\ i # n /\ i + 1 = n
        BY <1>6, <4>1, SMT
      <4>3. h.cum[i] = h.cum[i + 1]
        BY <1>7, <1>22, <4>1, <4>2
      <4>4. h.t[h.end[i + 1]] # ESCAPE
        BY <1>1, <4>2, <4>3, FrameStep
      <4> QED
        BY <1>4, <4>2, <4>4
    <3>3. g.t[e - 1] = h.t[e]
      BY <1>10, <1>16, <3>1
    <3>4. GoodEnd(g, n)
      BY <1>14, <1>20, <3>1, <3>2, <3>3, Zenon DEF GoodEnd
    <3> QED
      BY <3>4
  <2> QED
    BY <2>5, <2>6
<1>23. Kept(g, n, lg[n])
  <2>1. cd <= ce + 1 /\ ce + 1 # cd /\ (ce + 1 = cd + 1 => ce = cd)
    BY <1>19, SMT
  <2> QED
    BY <1>10, <1>14, <1>19, <1>20, <1>21, <1>22, <2>1, Zenon DEF Kept
<1>24. ASSUME NEW i \in 1..n, i # n PROVE Kept(g, i, lg[i])
  <2>1. i \in 1..(n - 1) /\ i \in 0..n /\ i - 1 \in 0..n /\ n - 1 \in i..n
    BY <1>6, <1>24, SMT
  <2>2. h.end[i] \in Nat /\ h.end[i - 1] \in Nat /\ h.end[i] <= h.end[n - 1]
    BY <1>1, <2>1, HistoryNumbers, LaterFrames
  <2>3. Kept(h, i, lg[i])
    BY <1>1 DEF History
  <2>4. PICK k \in Nat : k = n - 1
    BY <1>6
  <2> QED
    BY <1>7, <1>17, <2>1, <2>2, <2>3, <2>4, AgreeKept
<1>25. History(g, lg, lst + 1)
  <2>1. 0 \in 0..n /\ 0 # n
    BY <1>5, SMT
  <2>2. g.end[0] = 0 /\ g.cum[0] = 0 /\ g.big[0] = 0
    BY <1>15, <2>1 DEF History
  <2>3. g.cum[n] = lst + 1
    BY <1>1, <1>7, <1>14 DEF History
  <2>4. \A i \in 1..n : Kept(g, i, lg[i])
    BY <1>23, <1>24
  <2> QED
    BY <1>1, <1>13, <2>2, <2>3, <2>4 DEF History
<1>26. \A m \in Nat : m <= off + x => g.t[m] = h.t[m]
  <2>1. \A m \in Nat : m <= off + x => m < p
    BY <1>3, <1>5, <1>10, SMT
  <2> QED
    BY <1>16, <2>1
<1>27. Stream(g, off, n, s, Tail(l))
  <2>1. PICK k : k = Tail(l)
    OBVIOUS
  <2>2. Len(k) = y - 1 /\ \A m \in 1..(y - 1) : k[m] = l[m + 1]
    BY <1>2, <2>1, HeadAndTail, Zenon
  <2>3. ASSUME NEW m \in 1..x PROVE s[m] = g.t[off + m]
    <3>1. off + m \in Nat /\ off + m <= off + x
      BY <1>3, <1>5, SMT
    <3> QED
      BY <1>5, <1>26, <3>1
  <2>4. ASSUME NEW m \in 1..(y - 1) PROVE k[m] = g.t[off + x + m]
    <3>1. PICK i \in 1..y : i = m + 1
      BY <1>3, SMT
    <3>2. off + x + m \in Nat /\ ~ (off + x + m < p) /\ (off + x + m) + 1 = off + x + i
      BY <1>3, <1>5, <1>10, <3>1, SMT
    <3>3. g.t[off + x + m] = h.t[off + x + i]
      BY <1>16, <3>2
    <3> QED
      BY <1>5, <2>2, <3>1, <3>3
  <2>5. off + x + (y - 1) = e - 1 /\ d + (y - 1) <= e - 1
    <3>1. off \in Nat /\ off + x + y = e /\ d + y <= e /\ d \in Nat
      BY <1>5, <1>7, Zenon
    <3> QED
      BY <1>3, <1>8, <3>1, SMT
  <2>6. Stream(g, off, n, s, k)
    BY <1>2, <1>5, <1>14, <1>20, <2>2, <2>3, <2>4, <2>5, Zenon DEF Stream
  <2> QED
    BY <2>1, <2>6
<1>28. Credit(g, n) = Credit(h, n) + 3
  <2>1. Credit(g, n) = 3 * (ce + 1) + 2 * be - n /\ Credit(h, n) = 3 * ce + 2 * be - n
    BY <1>7, <1>14, Zenon DEF Credit
  <2>2. 3 * (ce + 1) + 2 * be - n = (3 * ce + 2 * be - n) + 3
    BY SMT
  <2> QED
    BY <2>1, <2>2
<1>29. ASSUME Ahead(h, off, n) PROVE Ahead(g, off, n)
  <2>1. off <= e - 1
    BY <1>3, <1>5, <1>8, SMT
  <2>2. \A m \in (off + 1)..e : h.t[m] # START_BYTE
    BY <1>4, <1>29 DEF Ahead
  <2>3. ASSUME NEW m \in (off + 1)..(e - 1) PROVE g.t[m] # START_BYTE
    <3>1. m \in Nat /\ m \in (off + 1)..e /\ m + 1 \in (off + 1)..e
      BY <1>5, <1>8, SMT
    <3> QED
      BY <1>16, <2>2, <3>1
  <2> QED
    BY <1>14, <2>1, <2>3 DEF Ahead
<1>30. g.cum[n] # g.cum[n - 1]
  BY <1>14, <1>19, <1>20, SMT
<1>31. Costly(h, g, n)
  BY <1>28, <1>30, Zenon DEF Costly
<1> QED
  BY <1>1, <1>5, <1>6, <1>17, <1>25, <1>27, <1>29, <1>31, Zenon

-----------------------------------------------------------------------------
(* Where the parser is *)

(* It starts over, it has returned a packet or an error, or a start byte was *)
(* read and what follows is parsed.                                          *)
Reset   == /\ pos = 0 /\ escape = FALSE /\ frameData = <<>>
           /\ complete = FALSE /\ errorCode = "NO_ERROR"
Stopped == (complete = TRUE \/ errorCode # "NO_ERROR") /\ ~ reading
Going   == pos >= 1 /\ complete = FALSE /\ errorCode = "NO_ERROR"

(* What a sum of earlier bytes costs: the next checksum fails. *)
Due(r) == IF r = 0 THEN 0 ELSE 1

(* It waits for a start byte. *)
Skip(h, off, j) ==
    /\ Stopped \/ Reset
    /\ Ahead(h, off, j)
    /\ Credit(h, j) + Len(taken) >= Due(checksumTotal)

(* Bytes were lost and it parses the rest of frame j, or of some before it, *)
(* for a packet.                                                             *)
Garbage(h, off, j) ==
    /\ Going /\ lost # 0
    /\ Ahead(h, off, j)
    /\ Worth(h, off, j) + Len(taken) >= 2

(* Of the last byte of frame j, its checksum, only the escape byte came, and *)
(* the byte it is read with ends the packet.                                 *)
Cut(h, off, j) ==
    /\ Going /\ lost # 0
    /\ pos > API_ID_INDEX /\ (TooLong \/ AtChecksum) /\ escape = FALSE
    /\ off + 1 = h.end[j] /\ h.t[off + 1] = ESCAPE
    /\ Credit(h, j) + Len(taken) >= 2

(* It is inside frame j + 1, f, of which all came, or all but the last byte. *)
Intact(h, j, f) ==
    \/ h.cum[j + 1] = h.cum[j]
    \/ h.cum[j + 1] = h.cum[j] + 1 /\ LastLost(h, j + 1, send(f))

(* The place in the frame, an escape byte already read or not. *)
Within(h, off, j, f, c) ==
    /\ Walk(send(f), Body(f), c)
    /\ off = h.end[j] + c[pos - 1] + (IF escape THEN 1 ELSE 0)
    /\ escape => c[pos] = c[pos - 1] + 2

(* The response holds what came of the frame. *)
Parsed(f) ==
    /\ pos <= Len(f.data) + 4
    /\ pos > 2 => lsbLength = Len(f.data) + 1
    /\ pos > API_ID_INDEX => apiId = f.api
    /\ frameData = SubSeq(f.data, 1, pos - 4)

(* The sum began with r, what was left of the packets before. *)
Summed(f, r) ==
    checksumTotal = IF pos <= API_ID_INDEX THEN r
                    ELSE (r + ((f.api + ByteSum(frameData)) % 256)) % 256

(* It parses frame j + 1, and what else it was given is paid for. *)
Exact(h, off, j) ==
    /\ Going /\ j # Len(log)
    /\ Intact(h, j, log[j + 1])
    /\ Parsed(log[j + 1])
    /\ \E c : Within(h, off, j, log[j + 1], c)
    /\ \E r \in Byte : Summed(log[j + 1], r) /\ Credit(h, j) + Len(taken) >= Due(r)

(* The next byte of the frame came whole. *)
Ready(h, j) == h.cum[j + 1] = h.cum[j] \/ pos <= Len(log[j + 1].data) + 3

(* What was taken is among the first j frames, in order. *)
InOrder(j) ==
    \E index \in [DOMAIN taken -> 1..j] :
        /\ \A i \in DOMAIN taken : taken[i] = log[index[i]]
        /\ \A i, k \in DOMAIN taken : i < k => index[i] < index[k]

(* With j frames behind it, the parser is in one of these. *)
Mode(h, off, j) ==
    \/ Skip(h, off, j)
    \/ Garbage(h, off, j)
    \/ Cut(h, off, j)
    \/ Exact(h, off, j)

(* The history h accounts for what was sent, and the parser for it. *)
Followed(h, off, j) ==
    /\ Line(h, off) /\ j \in 0..Len(log)
    /\ Mode(h, off, j)
    /\ lost = 0 => InOrder(j)

(* The inductive invariant: there is such a history of the line. *)
FramingInv == TypeOK /\ \E h, off, j : Followed(h, off, j)

(* Frame j + 1, where the parser is. *)
LEMMA ExactFrame ==
    ASSUME TypeOK, NEW j \in 0..Len(log), j # Len(log)
    PROVE  /\ log[j + 1] \in Frames /\ log[j + 1] \in Frame /\ Len(log[j + 1].data) <= 254
           /\ Len(log[j + 1].data) \in Nat
           /\ send(log[j + 1]) \in Seq(Byte) /\ Body(log[j + 1]) \in Seq(Byte)
           /\ Len(Body(log[j + 1])) = Len(log[j + 1].data) + 4
           /\ j + 1 \in 1..Len(log) /\ j + 1 \in 0..Len(log) /\ (j + 1) - 1 = j
<1>1. log \in Seq(Frames)
  BY DEF TypeOK
<1>2. PICK n \in Nat : n = Len(log)
  BY <1>1, LenProperties
<1>3. j + 1 \in 1..n /\ j + 1 \in 0..n /\ (j + 1) - 1 = j
  BY <1>2, SMT
<1>4. PICK f : f = log[j + 1]
  OBVIOUS
<1>5. f \in Frames
  BY <1>1, <1>2, <1>3, <1>4, ElementOfSeq
<1>6. f \in Frame /\ Len(f.data) <= 254 /\ send(f) \in Seq(Byte)
  BY <1>5, FrameWalk
<1> QED
  BY <1>2, <1>3, <1>4, <1>5, <1>6, BodyType

(* The bytes of the frame up to the one the parser is at. *)
LEMMA ExactBytes ==
    ASSUME TypeOK, NEW h, NEW off, Line(h, off), NEW j \in 0..Len(log), j # Len(log), Going,
           Intact(h, j, log[j + 1]), Parsed(log[j + 1]), Ready(h, j),
           NEW c, Within(h, off, j, log[j + 1], c)
    PROVE  /\ c[pos] \in Nat /\ h.end[j] + c[pos] <= h.end[j + 1]
           /\ \A m \in 1..c[pos] : h.t[h.end[j] + m] = send(log[j + 1])[m]
<1>1. PICK f : f = log[j + 1]
  OBVIOUS
<1>2. PICK e : e = send(f)
  OBVIOUS
<1>3. PICK N \in Nat : N = Len(f.data) + 4 /\ N = Len(Body(f))
  <2>1. Len(f.data) \in Nat /\ Len(Body(f)) = Len(f.data) + 4
    BY <1>1, ExactFrame
  <2>2. Len(f.data) + 4 \in Nat
    BY <2>1, SMT
  <2> QED
    BY <2>1, <2>2
<1>4. e \in Seq(Byte) /\ Walk(e, Body(f), c)
  BY <1>1, <1>2, ExactFrame DEF Within
<1>5. pos \in 1..N /\ pos \in Nat
  BY <1>1, <1>3, SMT DEF Going, Parsed, TypeOK
<1>6. /\ c[pos] \in Nat /\ c[pos] <= Len(e) /\ c[N] = Len(e)
      /\ \A k \in 1..N : c[k - 1] \in Nat /\ c[k] \in Nat /\ c[k - 1] < c[k] /\ c[k] <= Len(e)
  BY <1>3, <1>4, <1>5, Zenon DEF Walk
<1>7. PICK k : k = j + 1
  OBVIOUS
<1>8. k \in 0..Len(log) /\ k - 1 = j /\ k \in 1..Len(log)
  BY <1>7, ExactFrame
<1>9. PICK a \in Nat, b \in Nat : a = h.end[j] /\ b = h.end[k]
  BY <1>8, LineNumbers, HistoryNumbers
<1>10. PICK v \in Nat : v = Len(e)
  BY <1>4, LenProperties
<1>11. Kept(h, k, f)
  BY <1>1, <1>7, <1>8 DEF Line, History
<1>12. CASE h.cum[k] = h.cum[j]
  <2>1. b = a + v /\ \A m \in 1..(b - a) : h.t[a + m] = e[m]
    BY <1>2, <1>8, <1>9, <1>10, <1>11, <1>12, Zenon DEF Kept, Whole, Holds
  <2>2. a + c[pos] <= b /\ \A m \in 1..c[pos] : m \in 1..(b - a)
    BY <1>6, <1>10, <2>1, SMTT(30)
  <2> QED
    BY <1>1, <1>2, <1>6, <1>7, <1>9, <2>1, <2>2
<1>13. CASE h.cum[k] # h.cum[j]
  <2>1. LastLost(h, k, e)
    BY <1>1, <1>2, <1>7, <1>13 DEF Intact
  <2>2. b + 1 = a + v /\ \A m \in 1..(b - a) : h.t[a + m] = e[m]
    BY <1>2, <1>8, <1>9, <1>10, <2>1, Zenon DEF LastLost, Holds
  <2>3. pos <= N - 1
    <3>1. pos <= Len(f.data) + 3
      BY <1>1, <1>7, <1>13 DEF Ready
    <3>2. Len(f.data) \in Nat
      BY <1>1, ExactFrame
    <3> QED
      BY <1>3, <1>5, <3>1, <3>2, SMT
  <2>4. c[pos] < v
    <3>1. pos + 1 \in 1..N /\ (pos + 1) - 1 = pos
      BY <1>5, <2>3, SMT
    <3>2. c[(pos + 1) - 1] < c[pos + 1] /\ c[pos + 1] <= Len(e) /\ c[pos + 1] \in Nat
      BY <1>6, <3>1
    <3> QED
      BY <1>6, <1>10, <3>1, <3>2, SMT
  <2>5. a + c[pos] <= b /\ \A m \in 1..c[pos] : m \in 1..(b - a)
    BY <1>6, <1>10, <2>2, <2>4, SMT
  <2> QED
    BY <1>1, <1>2, <1>6, <1>7, <1>9, <2>2, <2>5
<1> QED
  BY <1>12, <1>13

(* The next byte of the frame it is in: it is not a start byte, and parsed,  *)
(* it is the byte of the body at pos.                                        *)
LEMMA ExactRead ==
    ASSUME TypeOK, NEW h, NEW off, Line(h, off), NEW j \in 0..Len(log), j # Len(log), Going,
           Intact(h, j, log[j + 1]), Parsed(log[j + 1]), Ready(h, j),
           NEW c, Within(h, off, j, log[j + 1], c), serial # <<>>
    PROVE  /\ Head(serial) # START_BYTE
           /\ serial = <<ESCAPE>> => escape = FALSE /\ c[pos] = c[pos - 1] + 2
           /\ Parsable => /\ NextByte = Body(log[j + 1])[pos]
                          /\ Stream(h, h.end[j] + c[pos], Len(log), Rest, line)
<1>1. PICK f : f = log[j + 1]
  OBVIOUS
<1>2. PICK e, s : e = send(f) /\ s = Body(f)
  OBVIOUS
<1>3. PICK N \in Nat : N = Len(f.data) + 4 /\ N = Len(s)
  <2>1. Len(f.data) \in Nat /\ Len(s) = Len(f.data) + 4
    BY <1>1, <1>2, ExactFrame
  <2>2. Len(f.data) + 4 \in Nat
    BY <2>1, SMT
  <2> QED
    BY <2>1, <2>2
<1>4. Walk(e, s, c) /\ s \in Seq(Byte)
  BY <1>1, <1>2, ExactFrame DEF Within
<1>5. PICK p \in Nat : p = pos /\ p \in 1..N
  BY <1>1, <1>3, SMT DEF Going, Parsed, TypeOK
<1>6. /\ c[p - 1] \in Nat /\ c[p] \in Nat /\ c[p - 1] < c[p]
      /\ OneByte(e, s, c, p) \/ TwoBytes(e, s, c, p)
  BY <1>3, <1>4, <1>5, Zenon DEF Walk
<1>7. PICK a \in Nat : a = h.end[j]
  BY LineNumbers, HistoryNumbers
<1>8. PICK u, v : u = c[p - 1] /\ v = c[p]
  OBVIOUS
<1>9. u \in Nat /\ v \in Nat /\ u < v
  BY <1>6, <1>8
<1>10. \A m \in 1..v : h.t[a + m] = e[m]
  <2>1. \A m \in 1..c[pos] : h.t[h.end[j] + m] = send(log[j + 1])[m]
    BY ExactBytes
  <2> QED
    BY <1>1, <1>2, <1>5, <1>7, <1>8, <2>1, Zenon
<1>11. /\ off = a + u + (IF escape THEN 1 ELSE 0)
       /\ escape => v = u + 2
  BY <1>1, <1>5, <1>7, <1>8, Zenon DEF Within
<1>12. /\ escape => off + 1 = a + u + 2 /\ v = u + 2
       /\ ~ escape => off = a + u
  <2>1. ASSUME escape PROVE off + 1 = a + u + 2 /\ v = u + 2
    <3>1. off = a + u + 1
      BY <1>11, <2>1, Zenon
    <3> QED
      BY <1>9, <1>11, <2>1, <3>1, SMT
  <2>2. ASSUME ~ escape PROVE off = a + u
    <3>1. off = a + u + 0
      BY <1>11, <2>2, Zenon
    <3> QED
      BY <1>9, <3>1, SMT
  <2> QED
    BY <2>1, <2>2
<1>13. escape \in BOOLEAN /\ pos > 0
  BY SMT DEF TypeOK, Going
<1>14. s[p] \in Byte
  BY <1>3, <1>4, <1>5, LenProperties
<1>15. /\ off < h.end[Len(log)] /\ Head(serial) = h.t[off + 1]
       /\ Stream(h, off + 1, Len(log), Tail(serial), line)
  BY NextInBuffer
<1> DEFINE Goal ==
      /\ Head(serial) # START_BYTE
      /\ serial = <<ESCAPE>> => escape = FALSE /\ v = u + 2
      /\ Parsable => NextByte = s[p] /\ Stream(h, a + v, Len(log), Rest, line)
<1>16. serial = <<ESCAPE>> => Head(serial) = ESCAPE
  OBVIOUS
(* The last byte of the escaped form. *)
<1>17. ASSUME off + 1 = a + v, e[v] \notin {START_BYTE, ESCAPE},
              s[p] = IF escape THEN xor20(e[v]) ELSE e[v]
       PROVE  Goal
  <2>1. v \in 1..v
    BY <1>9, SMT
  <2>2. Head(serial) = e[v]
    BY <1>10, <1>15, <1>17, <2>1
  <2>3. Head(serial) # ESCAPE /\ Head(serial) # START_BYTE /\ serial # <<ESCAPE>>
    BY <1>16, <1>17, <2>2
  <2>4. ~ Escaping
    BY <2>3 DEF Escaping
  <2>5. NextByte = s[p] /\ Rest = Tail(serial)
    BY <1>17, <2>2, <2>4, Zenon DEF NextByte, Rest
  <2> QED
    BY <1>15, <1>17, <2>3, <2>5
<1>18. CASE OneByte(e, s, c, p)
  <2>1. v = u + 1 /\ e[v] = s[p] /\ s[p] \notin {START_BYTE, ESCAPE}
    BY <1>8, <1>18, Zenon DEF OneByte
  <2>2. escape = FALSE /\ off + 1 = a + v
    <3>1. v # u + 2
      BY <1>9, <2>1, SMT
    <3>2. escape = FALSE /\ off = a + u
      BY <1>12, <1>13, <3>1
    <3> QED
      BY <1>9, <2>1, <3>2, SMT
  <2>3. Goal
    BY <1>17, <2>1, <2>2, Zenon
  <2> QED
    BY <1>1, <1>2, <1>5, <1>7, <1>8, <2>3, Zenon
<1>19. CASE TwoBytes(e, s, c, p) /\ escape
  <2>1. v = u + 2 /\ e[v] = xor20(s[p]) /\ e[v] \notin {START_BYTE, ESCAPE}
    BY <1>8, <1>19, Zenon DEF TwoBytes
  <2>2. off + 1 = a + v
    <3>1. off + 1 = a + u + 2
      BY <1>12, <1>19
    <3> QED
      BY <1>9, <2>1, <3>1, SMT
  <2>3. s[p] = xor20(e[v])
    BY <1>14, <2>1, XorTwice
  <2>4. Goal
    BY <1>17, <1>19, <2>1, <2>2, <2>3, Zenon
  <2> QED
    BY <1>1, <1>2, <1>5, <1>7, <1>8, <2>4, Zenon
<1>20. CASE TwoBytes(e, s, c, p) /\ ~ escape
  <2>1. v = u + 2 /\ e[u + 1] = ESCAPE /\ e[v] = xor20(s[p])
    BY <1>8, <1>20, Zenon DEF TwoBytes
  <2>2. /\ off + 1 = a + (u + 1) /\ off + 2 = a + v
        /\ u + 1 \in 1..v /\ v \in 1..v
    <3>1. off = a + u
      BY <1>12, <1>20
    <3> QED
      BY <1>9, <2>1, <3>1, SMT
  <2>3. h.t[off + 1] = ESCAPE /\ h.t[off + 2] = xor20(s[p])
    BY <1>10, <2>1, <2>2
  <2>4. Head(serial) = ESCAPE /\ Head(serial) # START_BYTE
    BY <1>15, <2>3, ByteConstants
  <2>5. Escaping
    BY <1>13, <2>4 DEF Escaping
  <2>6. ASSUME Parsable PROVE NextByte = s[p] /\ Stream(h, a + v, Len(log), Rest, line)
    <3>1. serial[2] = h.t[off + 2] /\ Stream(h, off + 2, Len(log), Rest, line)
      BY <2>5, <2>6, NextPair
    <3>2. xor20(serial[2]) = s[p]
      BY <1>14, <2>3, <3>1, XorTwice
    <3>3. NextByte = s[p]
      BY <1>20, <2>5, <3>2, Zenon DEF NextByte
    <3> QED
      BY <2>2, <3>1, <3>3
  <2>7. escape = FALSE
    BY <1>13, <1>20
  <2>8. Goal
    BY <2>1, <2>4, <2>6, <2>7
  <2> QED
    BY <1>1, <1>2, <1>5, <1>7, <1>8, <2>8, Zenon
<1> QED
  BY <1>6, <1>18, <1>19, <1>20

(* If its last byte is lost and all others were parsed, the parser reads     *)
(* over its end.                                                             *)
LEMMA OverTheEnd ==
    ASSUME TypeOK, NEW h, NEW off, Line(h, off), NEW j \in 0..Len(log),
           Exact(h, off, j), ~ Ready(h, j)
    PROVE  /\ j + 1 \in 0..Len(log)
           /\ Garbage(h, off, j + 1) \/ Cut(h, off, j + 1)
<1>1. PICK f : f = log[j + 1]
  OBVIOUS
<1>2. PICK e, s : e = send(f) /\ s = Body(f)
  OBVIOUS
<1>3. j # Len(log) /\ Going /\ Intact(h, j, f) /\ Parsed(f)
  BY <1>1 DEF Exact
<1>4. PICK N \in Nat : N = Len(f.data) + 4 /\ N = Len(s) /\ Len(f.data) \in Nat
  <2>1. Len(f.data) \in Nat /\ Len(s) = Len(f.data) + 4
    BY <1>1, <1>2, <1>3, ExactFrame
  <2>2. Len(f.data) + 4 \in Nat
    BY <2>1, SMT
  <2> QED
    BY <2>1, <2>2
<1>5. pos = N /\ pos > 3
  <2>1. pos \in Nat /\ ~ (pos <= Len(f.data) + 3) /\ pos <= Len(f.data) + 4
    BY <1>1, <1>3 DEF Ready, Parsed, TypeOK
  <2> QED
    BY <1>4, <2>1, SMT
<1>6. PICK c : Within(h, off, j, f, c)
  BY <1>1 DEF Exact
<1>7. Walk(e, s, c)
  BY <1>2, <1>6 DEF Within
<1>8. N \in 1..N
  BY <1>4, SMT
<1>9. /\ c[N - 1] \in Nat /\ c[N] \in Nat /\ c[N - 1] < c[N] /\ c[N] = Len(e)
      /\ OneByte(e, s, c, N) \/ TwoBytes(e, s, c, N)
  BY <1>4, <1>7, <1>8, Zenon DEF Walk
<1>10. PICK u \in Nat, v \in Nat : u = c[N - 1] /\ v = c[N]
  BY <1>9
<1>11. PICK k : k = j + 1
  OBVIOUS
<1>12. k \in 0..Len(log) /\ k - 1 = j /\ k \in 1..Len(log)
  BY <1>3, <1>11, ExactFrame
<1>13. PICK a \in Nat, b \in Nat : a = h.end[j] /\ b = h.end[k]
  BY <1>12, LineNumbers, HistoryNumbers
<1>14. h.cum[k] = h.cum[j] + 1 /\ LastLost(h, k, e)
  BY <1>1, <1>2, <1>3, <1>11 DEF Ready, Intact
<1>15. b + 1 = a + v /\ \A m \in 1..(b - a) : h.t[a + m] = e[m]
  BY <1>9, <1>10, <1>12, <1>13, <1>14, Zenon DEF LastLost, Holds
<1>16. /\ off = a + u + (IF escape THEN 1 ELSE 0)
       /\ escape => v = u + 2
  BY <1>5, <1>6, <1>10, <1>13, Zenon DEF Within
<1>17. escape \in BOOLEAN /\ off \in Nat
  BY LineNumbers DEF TypeOK
<1>18. Credit(h, k) + Len(taken) >= 2
  <2>1. PICK r \in Byte : Credit(h, j) + Len(taken) >= Due(r)
    BY DEF Exact
  <2>2. Due(r) \in {0, 1}
    BY DEF Due
  <2>3. h.cum[j] # h.cum[k]
    <3>1. h.cum[j] \in Nat
      BY LineNumbers, HistoryNumbers
    <3> QED
      BY <1>14, <3>1, SMT
  <2>4. Credit(h, k) >= Credit(h, j) + 2
    BY <1>3, <1>11, <2>3, LineNumbers, FrameStep
  <2>5. Credit(h, k) \in Int /\ Credit(h, j) \in Int
    BY <1>12, LineNumbers, HistoryNumbers
  <2>6. Len(taken) \in Nat
    BY LenProperties DEF TypeOK
  <2>7. PICK x, y, z, w : x = Credit(h, j) /\ y = Credit(h, k) /\ z = Len(taken) /\ w = Due(r)
    OBVIOUS
  <2>8. y + z >= 2
    BY <2>1, <2>2, <2>4, <2>5, <2>6, <2>7, SMT
  <2> QED
    BY <2>7, <2>8
<1>19. lost # 0
  <2>1. h.cum[j] \in Nat /\ h.cum[k] \in Nat /\ lost \in Nat
    <3>1. h.cum[j] \in Nat /\ h.cum[k] \in Nat
      BY <1>12, LineNumbers, HistoryNumbers
    <3>2. lost \in Nat
      BY SizeAssumption, SMT DEF TypeOK
    <3> QED
      BY <3>1, <3>2
  <2>2. h.cum[k] <= lost
    <3>1. PICK n \in Nat : n = Len(log)
      BY LineNumbers
    <3>2. n \in k..n /\ k \in 0..n
      BY <1>12, <3>1, SMT
    <3>3. h.cum[k] <= h.cum[n]
      BY <3>1, <3>2, LineNumbers, LaterFrames
    <3>4. h.cum[n] = lost
      BY <3>1 DEF Line, History
    <3> QED
      BY <3>3, <3>4
  <2> QED
    BY <1>14, <2>1, <2>2, SMT
<1>20. CASE off = b
  <2>1. \A m \in (off + 1)..b : FALSE
    BY <1>17, <1>20, SMT
  <2>2. Ahead(h, off, k)
    BY <1>13, <1>17, <1>20, <2>1 DEF Ahead
  <2>3. Worth(h, off, k) = Credit(h, k)
    <3>1. off >= h.end[k]
      BY <1>13, <1>17, <1>20, SMT
    <3> QED
      BY <1>12, <1>17, <3>1, LineNumbers, WorthType
  <2> QED
    BY <1>3, <1>11, <1>12, <1>18, <1>19, <2>2, <2>3 DEF Garbage
<1>21. CASE off # b
  <2>1. escape = FALSE /\ v = u + 2
    <3>1. CASE OneByte(e, s, c, N)
      <4>1. v = u + 1
        BY <1>10, <3>1, Zenon DEF OneByte
      <4> QED
        BY <1>15, <1>16, <1>17, <1>21, <4>1, SMT
    <3>2. CASE TwoBytes(e, s, c, N)
      <4>1. v = u + 2
        BY <1>10, <3>2, Zenon DEF TwoBytes
      <4> QED
        BY <1>15, <1>16, <1>17, <1>21, <4>1, SMT
    <3> QED
      BY <1>9, <3>1, <3>2
  <2>2. e[u + 1] = ESCAPE
    <3>1. ~ OneByte(e, s, c, N)
      BY <1>10, <2>1, SMT DEF OneByte
    <3> QED
      BY <1>9, <1>10, <3>1, Zenon DEF TwoBytes
  <2>3. off + 1 = b /\ off + 1 = a + (u + 1) /\ u + 1 \in 1..(b - a)
    BY <1>15, <1>16, <1>17, <2>1, SMT
  <2>4. h.t[off + 1] = ESCAPE
    BY <1>15, <2>2, <2>3
  <2>5. AtChecksum
    <3>1. lsbLength = Len(f.data) + 1
      BY <1>3, <1>5, SMT DEF Parsed
    <3> QED
      BY <1>4, <1>5, <3>1, SMT DEF AtChecksum
  <2> QED
    BY <1>3, <1>5, <1>11, <1>12, <1>13, <1>18, <1>19, <2>1, <2>3, <2>4, <2>5 DEF Cut, API_ID_INDEX
<1> QED
  BY <1>20, <1>21

-----------------------------------------------------------------------------
(* Steps of the line *)

(* The mode speaks of the first j frames, or j + 1 inside a frame, only. *)
LEMMA AgreeMode ==
    ASSUME TypeOK, NEW h, NEW off, Line(h, off), NEW m \in 0..Len(log), NEW j \in 0..m,
           NEW g, Agree(h, g, m)
    PROVE  /\ Skip(h, off, j) => Skip(g, off, j)
           /\ Garbage(h, off, j) => Garbage(g, off, j)
           /\ Cut(h, off, j) => Cut(g, off, j)
           /\ Exact(h, off, j) /\ j # m => Exact(g, off, j)
<1>1. PICK n \in Nat : n = Len(log)
  BY LineNumbers
<1>2. m \in Nat /\ j \in 0..n /\ m \in 0..n /\ m \in j..n
  BY <1>1, SMT
<1>3. /\ h.end[j] \in Nat /\ h.end[m] \in Nat /\ h.end[j] <= h.end[m] /\ off \in Nat
      /\ log \in Seq(Frames) /\ History(h, log, lost)
  BY <1>1, <1>2, LineNumbers, HistoryNumbers, LaterFrames
<1>4. /\ Ahead(h, off, j) => Ahead(g, off, j)
      /\ Credit(g, j) = Credit(h, j) /\ Worth(g, off, j) = Worth(h, off, j)
  BY <1>2, <1>3, AgreeAhead
<1>5. g.end[j] = h.end[j] /\ g.cum[j] = h.cum[j]
  BY DEF Agree
<1>6. ASSUME Cut(h, off, j) PROVE Cut(g, off, j)
  <2>1. off + 1 = h.end[j] /\ h.t[off + 1] = ESCAPE
    BY <1>6 DEF Cut
  <2>2. off + 1 \in 1..h.end[m]
    BY <1>3, <2>1, SMT
  <2>3. g.t[off + 1] = ESCAPE
    BY <2>1, <2>2 DEF Agree
  <2> QED
    BY <1>4, <1>5, <1>6, <2>3, Zenon DEF Cut
<1>7. ASSUME Exact(h, off, j), j # m PROVE Exact(g, off, j)
  <2>1. PICK k : k = j + 1
    OBVIOUS
  <2>2. k \in 1..m /\ k \in 0..m /\ k - 1 = j /\ m \in k..n /\ k \in 0..n
    BY <1>2, <1>7, <2>1, SMT
  <2>3. h.end[k] \in Nat /\ h.end[k] <= h.end[m] /\ h.end[k - 1] \in Nat
    BY <1>1, <1>2, <1>3, <2>2, HistoryNumbers, LaterFrames
  <2>4. PICK f : f = log[k]
    OBVIOUS
  <2>5. LastLost(h, k, send(f)) => LastLost(g, k, send(f))
    BY <1>2, <1>3, <2>2, <2>3, AgreeKept
  <2>6. g.cum[k] = h.cum[k]
    BY <2>2 DEF Agree
  <2>7. Intact(h, j, f) => Intact(g, j, f)
    BY <1>5, <2>1, <2>5, <2>6 DEF Intact
  <2>8. \A c : Within(h, off, j, f, c) => Within(g, off, j, f, c)
    BY <1>5 DEF Within
  <2> QED
    BY <1>4, <1>7, <2>1, <2>4, <2>7, <2>8, Zenon DEF Exact
<1> QED
  BY <1>4, <1>6, <1>7, Zenon DEF Skip, Garbage

(* It changes with what readPacket() changes only. *)
ParserIdle ==
    /\ UNCHANGED <<pos, escape, checksumTotal, lsbLength, apiId, frameData,
                   complete, errorCode, taken>>
    /\ Stopped => ~ reading'

(* A step that leaves the parser alone keeps its mode. *)
LEMMA ModeFrame ==
    ASSUME ParserIdle, NEW g, NEW off, NEW j, lost # 0 => lost' # 0
    PROVE  /\ Skip(g, off, j) => Skip(g, off, j)'
           /\ Garbage(g, off, j) => Garbage(g, off, j)'
           /\ Cut(g, off, j) => Cut(g, off, j)'
           /\ Exact(g, off, j) /\ j # Len(log') /\ log'[j + 1] = log[j + 1] => Exact(g, off, j)'
<1>1. Going => Going'
  BY DEF ParserIdle, Going
<1>2. Stopped \/ Reset => Stopped' \/ Reset'
  BY DEF ParserIdle, Stopped, Reset
<1>3. Skip(g, off, j) => Skip(g, off, j)'
  BY <1>2 DEF ParserIdle, Skip
<1>4. Garbage(g, off, j) => Garbage(g, off, j)'
  BY <1>1 DEF ParserIdle, Garbage
<1>5. Cut(g, off, j) => Cut(g, off, j)'
  BY <1>1 DEF ParserIdle, Cut, TooLong, AtChecksum
<1>6. ASSUME Exact(g, off, j), j # Len(log'), log'[j + 1] = log[j + 1]
      PROVE  Exact(g, off, j)'
  <2>1. PICK f : f = log[j + 1]
    OBVIOUS
  <2>2. /\ Going /\ Intact(g, j, f) /\ Parsed(f)
        /\ \E c : Within(g, off, j, f, c)
        /\ \E r \in Byte : Summed(f, r) /\ Credit(g, j) + Len(taken) >= Due(r)
    BY <1>6, <2>1 DEF Exact
  <2>3. Parsed(f)'
    BY <2>2 DEF Parsed, ParserIdle
  <2>4. \E c : Within(g, off, j, f, c)'
    BY <2>2 DEF Within, ParserIdle
  <2>5. \E r \in Byte : Summed(f, r)' /\ Credit(g, j) + Len(taken') >= Due(r)
    BY <2>2 DEF Summed, ParserIdle
  <2>6. f = log'[j + 1]
    BY <1>6, <2>1
  <2> QED
    BY <1>1, <1>6, <2>2, <2>3, <2>4, <2>5, <2>6, Zenon DEF Exact
<1> QED
  BY <1>3, <1>4, <1>5, <1>6

(* What is among the first frames is among more of them. *)
LEMMA InOrderLater ==
    ASSUME NEW j \in Nat, NEW k \in Nat, j <= k, InOrder(j)
    PROVE  InOrder(k)
<1>1. \A i \in 1..j : i \in 1..k
  BY SMT
<1>2. PICK index \in [DOMAIN taken -> 1..j] :
          /\ \A i \in DOMAIN taken : taken[i] = log[index[i]]
          /\ \A x, y \in DOMAIN taken : x < y => index[x] < index[y]
  BY DEF InOrder
<1>3. index \in [DOMAIN taken -> 1..k]
  BY <1>1
<1> QED
  BY <1>2, <1>3, Zenon DEF InOrder

(* The radio begins a frame: the history is extended. *)
LEMMA StartFrameFollowed ==
    ASSUME TypeOK, NEW f \in Frames, StartFrame(f), NEW h, NEW off, NEW j, Followed(h, off, j)
    PROVE  \E g : Followed(g, off, j)'
<1>1. PICK n \in Nat : n = Len(log)
  BY LineNumbers DEF Followed
<1>2. Line(h, off) /\ j \in 0..n
  BY <1>1 DEF Followed
<1>3. /\ log \in Seq(Frames) /\ serial \in Seq(Byte) /\ line = <<>>
      /\ log' = Append(log, f) /\ line' = send(f) /\ serial' = serial /\ lost' = lost
  BY DEF TypeOK, StartFrame
<1>4. Len(log') = n + 1 /\ \A i \in 1..n : log'[i] = log[i]
  BY <1>1, <1>3, AppendProperties
<1>5. PICK g : g = Extended(h, Len(log), f)
  OBVIOUS
<1>6. /\ Agree(h, g, n) /\ History(g, log', lost')
      /\ Stream(g, off, n + 1, serial', line')
  BY <1>1, <1>2, <1>3, <1>5, LineNumbers, ExtendedLine
<1>7. n \in 0..n /\ j \in 0..(n + 1) /\ j # n + 1 /\ (j # n => j + 1 \in 1..n)
  BY <1>1, <1>2, SMT
<1>8. Line(g, off)'
  BY <1>4, <1>6 DEF Line
<1>9. ParserIdle
  BY DEF StartFrame, ParserIdle, Stopped
<1>10. /\ Skip(h, off, j) => Skip(g, off, j)
       /\ Garbage(h, off, j) => Garbage(g, off, j)
       /\ Cut(h, off, j) => Cut(g, off, j)
       /\ Exact(h, off, j) /\ j # n => Exact(g, off, j)
  BY <1>1, <1>2, <1>6, <1>7, AgreeMode
<1>11. Exact(h, off, j) => j # n
  BY <1>1 DEF Exact
<1>12. Mode(g, off, j)'
  <2>1. /\ Skip(g, off, j) => Skip(g, off, j)'
        /\ Garbage(g, off, j) => Garbage(g, off, j)'
        /\ Cut(g, off, j) => Cut(g, off, j)'
        /\ Exact(g, off, j) /\ j # Len(log') /\ log'[j + 1] = log[j + 1] => Exact(g, off, j)'
    BY <1>3, <1>9, ModeFrame
  <2>2. Mode(h, off, j)
    BY DEF Followed
  <2> QED
    BY <1>4, <1>7, <1>10, <1>11, <2>1, <2>2, Zenon DEF Mode
<1>13. lost' = 0 => InOrder(j)'
  <2> SUFFICES ASSUME lost' = 0 PROVE InOrder(j)'
    OBVIOUS
  <2>1. PICK index \in [DOMAIN taken -> 1..j] :
            /\ \A i \in DOMAIN taken : taken[i] = log[index[i]]
            /\ \A x, y \in DOMAIN taken : x < y => index[x] < index[y]
    BY <1>3 DEF Followed, InOrder
  <2>2. \A i \in 1..j : i \in 1..n
    BY <1>2, SMT
  <2>3. taken' = taken
    BY DEF StartFrame
  <2>4. \A i \in DOMAIN taken : log[index[i]] = log'[index[i]]
    BY <1>4, <2>1, <2>2
  <2> QED
    BY <2>1, <2>3, <2>4 DEF InOrder
<1>14. j \in 0..Len(log')
  BY <1>4, <1>7
<1>15. Followed(g, off, j)'
  BY <1>8, <1>12, <1>13, <1>14 DEF Followed
<1> QED
  BY <1>15

(* A byte finds room in the buffer. *)
LEMMA ArriveFollowed ==
    ASSUME TypeOK, Arrive, NEW h, NEW off, NEW j, Followed(h, off, j)
    PROVE  Followed(h, off, j)'
<1>1. PICK n \in Nat : n = Len(log)
  BY LineNumbers DEF Followed
<1>2. Line(h, off) /\ j \in 0..n /\ Mode(h, off, j)
  BY <1>1 DEF Followed
<1>3. /\ line # <<>> /\ serial' = Append(serial, Head(line)) /\ line' = Tail(line)
      /\ log' = log /\ lost' = lost /\ taken' = taken
  BY DEF Arrive
<1>4. Stream(h, off, n, serial', line')
  <2>1. PICK s, l : s = serial /\ l = line
    OBVIOUS
  <2>2. s \in Seq(Byte) /\ l \in Seq(Byte) /\ l # <<>> /\ Stream(h, off, n, s, l)
        /\ History(h, log, lost) /\ log \in Seq(Frames)
    BY <1>1, <1>2, <1>3, <2>1, LineNumbers
  <2>3. n # 0
    BY <2>2 DEF Stream
  <2>4. n \in 0..n /\ n - 1 \in 0..n
    BY <2>3, SMT
  <2>5. h.end[n] \in Nat /\ h.end[n - 1] \in Nat
    BY <1>1, <2>2, <2>4, HistoryNumbers
  <2>6. Stream(h, off, n, Append(s, Head(l)), Tail(l))
    BY <2>2, <2>5, StreamArrive
  <2> QED
    BY <1>3, <2>1, <2>6
<1>5. Line(h, off)'
  BY <1>1, <1>2, <1>3, <1>4 DEF Line
<1>6. ParserIdle
  BY DEF Arrive, ParserIdle, Stopped
<1>7. Mode(h, off, j)'
  <2>1. /\ Skip(h, off, j) => Skip(h, off, j)'
        /\ Garbage(h, off, j) => Garbage(h, off, j)'
        /\ Cut(h, off, j) => Cut(h, off, j)'
        /\ Exact(h, off, j) /\ j # Len(log') /\ log'[j + 1] = log[j + 1] => Exact(h, off, j)'
    BY <1>3, <1>6, ModeFrame
  <2>2. Exact(h, off, j) => j # Len(log') /\ log'[j + 1] = log[j + 1]
    BY <1>3 DEF Exact
  <2> QED
    BY <1>2, <2>1, <2>2, Zenon DEF Mode
<1>8. lost' = 0 => InOrder(j)'
  BY <1>3 DEF Followed, InOrder
<1> QED
  BY <1>1, <1>2, <1>3, <1>5, <1>7, <1>8 DEF Followed

(* A call goes on where the last one stopped. *)
LEMMA IdleFollowed ==
    ASSUME ParserIdle, UNCHANGED <<line, log, serial, lost>>, NEW h, NEW off, NEW j,
           Followed(h, off, j)
    PROVE  Followed(h, off, j)'
<1>1. UNCHANGED <<line, log, serial, lost, taken>>
  BY DEF ParserIdle
<1>2. Mode(h, off, j)'
  <2>1. /\ Skip(h, off, j) => Skip(h, off, j)'
        /\ Garbage(h, off, j) => Garbage(h, off, j)'
        /\ Cut(h, off, j) => Cut(h, off, j)'
        /\ Exact(h, off, j) /\ j # Len(log') /\ log'[j + 1] = log[j + 1] => Exact(h, off, j)'
    BY <1>1, ModeFrame
  <2>2. Exact(h, off, j) => j # Len(log') /\ log'[j + 1] = log[j + 1]
    BY <1>1 DEF Exact
  <2> QED
    BY <2>1, <2>2, Zenon DEF Followed, Mode
<1> QED
  BY <1>1, <1>2 DEF Followed, Line, InOrder

(* A call after a complete packet or an error starts over. *)
LEMMA CallFollowed ==
    ASSUME TypeOK, CallReadPacket, NEW h, NEW off, NEW j, Followed(h, off, j)
    PROVE  Followed(h, off, j)'
<1>1. UNCHANGED <<line, log, serial, lost, checksumTotal, taken>>
  BY DEF CallReadPacket
<1>2. CASE complete \/ errorCode # "NO_ERROR"
  <2>1. Reset'
    BY <1>2 DEF CallReadPacket, resetResponse, Reset
  <2>2. Skip(h, off, j)
    <3>1. ~ Going
      BY <1>2 DEF Going
    <3> QED
      BY <3>1 DEF Followed, Mode, Garbage, Cut, Exact
  <2>3. Skip(h, off, j)'
    BY <1>1, <2>1, <2>2 DEF Skip
  <2> QED
    BY <1>1, <2>3 DEF Followed, Mode, Line, InOrder
<1>3. CASE ~ (complete \/ errorCode # "NO_ERROR")
  <2>1. ParserIdle
    BY <1>1, <1>3 DEF CallReadPacket, ParserIdle, Stopped
  <2>2. /\ Skip(h, off, j) => Skip(h, off, j)'
        /\ Garbage(h, off, j) => Garbage(h, off, j)'
        /\ Cut(h, off, j) => Cut(h, off, j)'
        /\ Exact(h, off, j) /\ j # Len(log') /\ log'[j + 1] = log[j + 1] => Exact(h, off, j)'
    BY <1>1, <2>1, ModeFrame
  <2>3. Exact(h, off, j) => j # Len(log') /\ log'[j + 1] = log[j + 1]
    BY <1>1 DEF Exact
  <2>4. Mode(h, off, j)'
    BY <2>2, <2>3, Zenon DEF Followed, Mode
  <2> QED
    BY <1>1, <2>4 DEF Followed, Line, InOrder
<1> QED
  BY <1>2, <1>3

(* An overrun: the frame it hits is worth three more. *)
LEMMA OverrunFollowed ==
    ASSUME TypeOK, Overrun, NEW h, NEW off, NEW j, Followed(h, off, j)
    PROVE  \E g, k : Followed(g, off, k)'
<1>1. PICK n \in Nat : n = Len(log)
  BY LineNumbers DEF Followed
<1>2. Line(h, off) /\ j \in 0..n /\ Mode(h, off, j)
  BY <1>1 DEF Followed
<1>3. /\ line # <<>> /\ line' = Tail(line) /\ lost' = lost + 1
      /\ log' = log /\ serial' = serial /\ taken' = taken
  BY DEF Overrun
<1>4. lost \in Nat /\ lost' # 0
  <2>1. lost \in Nat
    BY SizeAssumption, SMT DEF TypeOK
  <2>2. lost + 1 # 0
    BY <2>1, SMT
  <2> QED
    BY <1>3, <2>1, <2>2
<1>5. /\ log \in Seq(Frames) /\ serial \in Seq(Byte) /\ line \in Seq(Byte)
      /\ History(h, log, lost) /\ Stream(h, off, n, serial, line) /\ off \in Nat
  BY <1>1, <1>2, LineNumbers
<1>6. /\ n # 0 /\ n - 1 \in 0..n
      /\ \E g : /\ Agree(h, g, n - 1) /\ History(g, log, lost + 1)
                /\ Stream(g, off, n, serial, Tail(line))
                /\ Costly(h, g, n)
                /\ Ahead(h, off, n) => Ahead(g, off, n)
  BY <1>1, <1>3, <1>5, ReducedLine, Zenon
<1>7. PICK g : /\ n # 0 /\ n - 1 \in 0..n /\ Agree(h, g, n - 1) /\ History(g, log, lost + 1)
               /\ Stream(g, off, n, serial, Tail(line))
               /\ Credit(g, n) = Credit(h, n) + 3
               /\ Ahead(h, off, n) => Ahead(g, off, n)
               /\ g.cum[n] # g.cum[n - 1]
  BY <1>6, Zenon DEF Costly
<1>8. Line(g, off)'
  BY <1>1, <1>3, <1>7 DEF Line
<1>9. ParserIdle
  BY DEF Overrun, ParserIdle, Stopped
<1>10. ASSUME NEW k \in 0..n, Mode(g, off, k) \/ Mode(g, off, k)'
       PROVE  Followed(g, off, k)'
  <2>1. /\ Skip(g, off, k) => Skip(g, off, k)'
        /\ Garbage(g, off, k) => Garbage(g, off, k)'
        /\ Cut(g, off, k) => Cut(g, off, k)'
        /\ Exact(g, off, k) /\ k # Len(log') /\ log'[k + 1] = log[k + 1] => Exact(g, off, k)'
    BY <1>4, <1>9, ModeFrame
  <2>2. Exact(g, off, k) => k # Len(log') /\ log'[k + 1] = log[k + 1]
    BY <1>3 DEF Exact
  <2>3. Mode(g, off, k)'
    BY <1>10, <2>1, <2>2, Zenon DEF Mode
  <2> QED
    BY <1>1, <1>3, <1>4, <1>8, <2>3 DEF Followed
<1>11. CASE j # n /\ ~ (j = n - 1 /\ Exact(h, off, j))
  <2>1. n - 1 \in 0..n /\ j \in 0..(n - 1)
    BY <1>2, <1>7, <1>11, SMT
  <2>2. /\ Skip(h, off, j) => Skip(g, off, j)
        /\ Garbage(h, off, j) => Garbage(g, off, j)
        /\ Cut(h, off, j) => Cut(g, off, j)
        /\ Exact(h, off, j) /\ j # n - 1 => Exact(g, off, j)
    BY <1>1, <1>2, <1>7, <2>1, AgreeMode
  <2>3. Mode(g, off, j)
    BY <1>2, <1>11, <2>2, Zenon DEF Mode
  <2> QED
    BY <1>2, <1>10, <2>3
<1>12. Len(taken) \in Nat
  BY LenProperties DEF TypeOK
<1>13. n \in 0..n /\ Credit(h, n) \in Int /\ Credit(g, n) \in Int
  <2>1. n \in 0..n
    BY SMT
  <2> QED
    BY <1>1, <1>5, <1>7, <2>1, HistoryNumbers
<1>14. /\ Worth(h, off, n) \in Int /\ Worth(h, off, n) <= Credit(h, n)
       /\ Worth(g, off, n) \in Int /\ Worth(g, off, n) >= Credit(g, n) - 1
  BY <1>1, <1>5, <1>7, <1>13, WorthType
(* Whatever it took for a packet at the end of the line is garbage. *)
<1>15. ASSUME Going, Ahead(g, off, n), Credit(h, n) + Len(taken) >= 2
       PROVE  Garbage(g, off, n)'
  <2>1. Worth(g, off, n) + Len(taken) >= 2
    <3>1. PICK a, b, c, d : /\ a = Credit(h, n) /\ b = Credit(g, n) /\ c = Worth(g, off, n)
                            /\ d = Len(taken)
      OBVIOUS
    <3>2. c + d >= 2
      BY <1>7, <1>12, <1>13, <1>14, <1>15, <3>1, SMTT(30)
    <3> QED
      BY <3>1, <3>2
  <2>2. Going'
    BY <1>9, <1>15 DEF ParserIdle, Going
  <2> QED
    BY <1>3, <1>4, <1>15, <2>1, <2>2 DEF Garbage
<1>16. CASE j = n
  <2>1. CASE Skip(h, off, j)
    <3>1. Credit(h, n) + Len(taken) >= Due(checksumTotal) /\ Due(checksumTotal) \in {0, 1}
      BY <1>16, <2>1 DEF Skip, Due
    <3>2. Credit(g, n) + Len(taken) >= Due(checksumTotal)
      <4>1. PICK a, b, c, d : /\ a = Credit(h, n) /\ b = Credit(g, n) /\ c = Due(checksumTotal)
                              /\ d = Len(taken)
        OBVIOUS
      <4>2. b + d >= c
        BY <1>7, <1>12, <1>13, <3>1, <4>1, SMT
      <4> QED
        BY <4>1, <4>2
    <3>3. Skip(g, off, n)
      BY <1>7, <1>16, <2>1, <3>2 DEF Skip
    <3> QED
      BY <1>10, <1>13, <3>3 DEF Mode
  <2>2. CASE Garbage(h, off, j)
    <3>1. Worth(h, off, n) + Len(taken) >= 2 /\ Going /\ Ahead(g, off, n)
      BY <1>7, <1>16, <2>2 DEF Garbage
    <3>2. Credit(h, n) + Len(taken) >= 2
      <4>1. PICK a, b, d : a = Credit(h, n) /\ b = Worth(h, off, n) /\ d = Len(taken)
        OBVIOUS
      <4>2. a + d >= 2
        BY <1>12, <1>13, <1>14, <3>1, <4>1, SMT
      <4> QED
        BY <4>1, <4>2
    <3> QED
      BY <1>10, <1>13, <1>15, <3>1, <3>2 DEF Mode
  <2>3. CASE Cut(h, off, j)
    <3>1. off + 1 = h.end[n] /\ h.t[off + 1] = ESCAPE /\ Credit(h, n) + Len(taken) >= 2 /\ Going
      BY <1>16, <2>3 DEF Cut
    <3>2. h.end[n] \in Nat
      BY <1>1, <1>5, <1>13, HistoryNumbers
    <3>3. off <= h.end[n] /\ \A m \in (off + 1)..h.end[n] : m = off + 1
      BY <1>5, <3>1, <3>2, SMT
    <3>4. Ahead(h, off, n)
      BY <3>1, <3>3, ByteConstants DEF Ahead
    <3> QED
      BY <1>7, <1>10, <1>13, <1>15, <3>1, <3>4 DEF Mode
  <2>4. ~ Exact(h, off, j)
    BY <1>1, <1>16 DEF Exact
  <2> QED
    BY <1>2, <2>1, <2>2, <2>3, <2>4 DEF Mode
<1>17. CASE j = n - 1 /\ Exact(h, off, j)
  <2>1. n = j + 1 /\ j # n /\ j \in 0..n
    BY <1>2, <1>17, SMT
  <2>2. PICK f : f = log[j + 1]
    OBVIOUS
  <2>3. g.end[j] = h.end[j] /\ g.cum[j] = h.cum[j] /\ Credit(g, j) = Credit(h, j)
    <3>1. j \in 0..(n - 1)
      BY <1>2, <1>17, SMT
    <3> QED
      BY <1>7, <3>1, Zenon DEF Agree, Credit
  <2>4. CASE g.cum[n] = g.cum[j] + 1 /\ LastLost(g, n, send(f))
    <3>1. Intact(g, j, f)
      BY <2>1, <2>4 DEF Intact
    <3>2. \A c : Within(h, off, j, f, c) => Within(g, off, j, f, c)
      BY <2>3 DEF Within
    <3>3. Exact(g, off, j)
      BY <1>17, <2>2, <2>3, <3>1, <3>2, Zenon DEF Exact
    <3> QED
      BY <1>2, <1>10, <3>3 DEF Mode
  <2>5. CASE ~ (g.cum[n] = g.cum[j] + 1 /\ LastLost(g, n, send(f)))
    <3>1. Worth(g, off, n) >= Credit(g, j) + 2
      BY <1>1, <1>3, <1>5, <1>7, <1>17, <2>1, <2>2, <2>5, DamagedFrame
    <3>2. PICK r \in Byte : Credit(h, j) + Len(taken) >= Due(r)
      BY <1>17 DEF Exact
    <3>3. Due(r) \in {0, 1}
      BY DEF Due
    <3>4. Credit(h, j) \in Int
      BY <1>1, <1>5, <2>1, HistoryNumbers
    <3>5. Worth(g, off, n) + Len(taken) >= 2
      <4>1. PICK a, b, d, e : /\ a = Credit(h, j) /\ b = Worth(g, off, n) /\ d = Len(taken)
                              /\ e = Due(r)
        OBVIOUS
      <4>2. b + d >= 2
        BY <1>12, <1>14, <2>3, <3>1, <3>2, <3>3, <3>4, <4>1, SMT
      <4> QED
        BY <4>1, <4>2
    <3>6. Ahead(g, off, n)
      <4>1. PICK c : Within(h, off, j, f, c)
        BY <1>17, <2>2 DEF Exact
      <4>2. off > g.end[j]
        <5>1. pos \in 1..Len(Body(f))
          <6>1. Len(Body(f)) = Len(f.data) + 4 /\ Len(f.data) \in Nat
            BY <1>1, <2>1, <2>2, ExactFrame
          <6>2. pos \in Nat /\ pos >= 1 /\ pos <= Len(f.data) + 4
            BY <1>17, <2>2, SMT DEF Exact, Going, Parsed, TypeOK
          <6> QED
            BY <6>1, <6>2, SMT
        <5>2. c[pos - 1] \in Nat /\ 1 <= c[pos - 1]
          BY <4>1, <5>1, Zenon DEF Within, Walk
        <5>3. PICK a, b, d : /\ a = h.end[j] /\ b = c[pos - 1]
                             /\ d = IF escape THEN 1 ELSE 0
          OBVIOUS
        <5>4. off = a + b + d /\ d \in {0, 1}
          BY <4>1, <5>3, Zenon DEF Within
        <5>5. a \in Nat
          BY <1>1, <1>5, <2>1, <5>3, HistoryNumbers
        <5> QED
          BY <2>3, <5>2, <5>3, <5>4, <5>5, SMT
      <4>3. /\ off <= g.end[n] /\ g.end[n] \in Nat /\ g.end[j] \in Nat
        <5>1. g.end[n] \in Nat /\ g.end[j] \in Nat
          BY <1>1, <1>5, <1>7, <1>13, <2>1, HistoryNumbers
        <5>2. off + Len(serial) + Len(Tail(line)) = g.end[n]
          BY <1>7 DEF Stream
        <5>3. Len(serial) \in Nat /\ Len(Tail(line)) \in Nat
          BY <1>3, <1>5, HeadAndTail, LenProperties
        <5>4. off <= g.end[n]
          <6>1. PICK a \in Nat, b \in Nat, d \in Nat :
                    a = Len(serial) /\ b = Len(Tail(line)) /\ d = g.end[n]
            BY <5>1, <5>3
          <6>2. off + a + b = d
            BY <5>2, <6>1
          <6>3. off \in Nat
            BY <1>5
          <6>4. off <= d
            BY <6>1, <6>2, <6>3, SMT
          <6> QED
            BY <6>1, <6>4
        <5> QED
          BY <5>1, <5>4
      <4>4. \A m \in (g.end[j] + 2)..g.end[n] : g.t[m] # START_BYTE
        BY <1>1, <1>3, <1>5, <1>7, <2>1, FrameStep
      <4>5. \A m \in (off + 1)..g.end[n] : m \in (g.end[j] + 2)..g.end[n]
        BY <1>5, <4>2, <4>3, SMTT(30)
      <4> QED
        BY <4>3, <4>4, <4>5 DEF Ahead
    <3>7. Garbage(g, off, n)'
      <4>1. Going'
        BY <1>9, <1>17 DEF ParserIdle, Going, Exact
      <4> QED
        BY <1>3, <1>4, <3>5, <3>6, <4>1 DEF Garbage
    <3> QED
      BY <1>10, <1>13, <3>7 DEF Mode
  <2> QED
    BY <2>4, <2>5
<1> QED
  BY <1>11, <1>16, <1>17

-----------------------------------------------------------------------------
(* What the parser reads *)

(* Whoever follows a frame beyond its end is in garbage. *)
Placed(h, off, j) ==
    /\ Line(h, off) /\ j \in 0..Len(log)
    /\ lost = 0 => InOrder(j)
    /\ Skip(h, off, j) \/ Garbage(h, off, j) \/ Cut(h, off, j) \/ (Exact(h, off, j) /\ Ready(h, j))

(* The parser can always be placed. *)
LEMMA FollowedPlaced ==
    ASSUME TypeOK, NEW h, NEW off, NEW j, Followed(h, off, j)
    PROVE  \E k : Placed(h, off, k)
<1>1. CASE Exact(h, off, j) /\ ~ Ready(h, j)
  <2>1. /\ j + 1 \in 0..Len(log)
        /\ Garbage(h, off, j + 1) \/ Cut(h, off, j + 1)
    BY <1>1, OverTheEnd DEF Followed
  <2>2. lost # 0
    BY <2>1 DEF Garbage, Cut
  <2>3. Placed(h, off, j + 1)
    BY <2>1, <2>2 DEF Followed, Placed
  <2> QED
    BY <2>3
<1>2. CASE ~ (Exact(h, off, j) /\ ~ Ready(h, j))
  <2>1. Placed(h, off, j)
    BY <1>2 DEF Followed, Placed, Mode
  <2> QED
    BY <2>1
<1> QED
  BY <1>1, <1>2

(* The reading steps leave the history of the line alone. *)
LEMMA NowFollowed ==
    ASSUME NEW h, NEW off, Line(h, off), UNCHANGED <<line, log, lost>>,
           NEW o, NEW k \in 0..Len(log), Stream(h, o, Len(log), serial', line),
           Mode(h, o, k)', lost = 0 => InOrder(k)'
    PROVE  Followed(h, o, k)'
<1>1. Line(h, o)'
  <2>1. PICK n : n = Len(log)
    OBVIOUS
  <2>2. n = Len(log)' /\ line' = line /\ log' = log /\ lost' = lost
    BY <2>1
  <2>3. History(h, log', lost') /\ Stream(h, o, n, serial', line')
    BY <2>1, <2>2 DEF Line
  <2> QED
    BY <2>2, <2>3 DEF Line
<1> QED
  BY <1>1 DEF Followed

(* A start byte where none is expected. *)
LEMMA UnexpectedFollowed ==
    ASSUME TypeOK, UnexpectedStart, NEW h, NEW off, NEW j, Placed(h, off, j)
    PROVE  \E o, k : Followed(h, o, k)'
<1>1. PICK n \in Nat : n = Len(log)
  BY LineNumbers DEF Placed
<1>2. /\ Line(h, off) /\ j \in 0..n /\ log \in Seq(Frames) /\ History(h, log, lost)
      /\ off \in Nat
  BY <1>1, LineNumbers DEF Placed
<1>3. /\ reading /\ serial # <<>> /\ Head(serial) = START_BYTE /\ pos > 0
      /\ serial' = Tail(serial) /\ errorCode' = "UNEXPECTED_START_BYTE" /\ reading' = FALSE
      /\ UNCHANGED <<line, log, lost, checksumTotal, taken>>
  BY DEF UnexpectedStart
<1>4. /\ off < h.end[n] /\ h.t[off + 1] = START_BYTE
      /\ Stream(h, off + 1, n, serial', line)
  BY <1>1, <1>2, <1>3, NextInBuffer
<1>5. Garbage(h, off, j)
  <2>1. ~ Skip(h, off, j)
    <3>1. pos # 0
      BY <1>3, SMT
    <3> QED
      BY <1>3, <3>1 DEF Skip, Stopped, Reset
  <2>2. ~ Cut(h, off, j)
    BY <1>4, ByteConstants DEF Cut
  <2>3. ~ (Exact(h, off, j) /\ Ready(h, j))
    <3>1. SUFFICES ASSUME Exact(h, off, j), Ready(h, j) PROVE FALSE
      OBVIOUS
    <3>2. PICK c : Within(h, off, j, log[j + 1], c)
      BY <3>1 DEF Exact
    <3>3. Head(serial) # START_BYTE
      BY <1>1, <1>2, <1>3, <3>1, <3>2, ExactRead DEF Exact
    <3> QED
      BY <1>3, <3>3
  <2> QED
    BY <2>1, <2>2, <2>3 DEF Placed
<1>6. PICK i \in 0..n :
          /\ i # n /\ i + 1 \in 0..n /\ Credit(h, i) >= Credit(h, j)
          /\ Ahead(h, off + 1, i + 1) /\ Worth(h, off + 1, i + 1) >= Credit(h, i) - 1
  <2>1. Ahead(h, off, j)
    BY <1>5 DEF Garbage
  <2> QED
    BY <1>1, <1>2, <1>4, <2>1, StartRead
<1>7. Credit(h, i + 1) + Len(taken) >= Due(checksumTotal)
  <2>1. /\ Credit(h, i) \in Int /\ Credit(h, j) \in Int
        /\ Worth(h, off + 1, i + 1) \in Int /\ Credit(h, i + 1) \in Int
        /\ Worth(h, off + 1, i + 1) <= Credit(h, i + 1)
        /\ Worth(h, off, j) \in Int /\ Worth(h, off, j) <= Credit(h, j)
    <3>1. off + 1 \in Nat
      BY <1>2, SMT
    <3> QED
      BY <1>1, <1>2, <1>6, <3>1, HistoryNumbers, WorthType
  <2>2. Len(taken) \in Nat
    BY LenProperties DEF TypeOK
  <2>3. Worth(h, off, j) + Len(taken) >= 2
    BY <1>5 DEF Garbage
  <2>4. Due(checksumTotal) \in {0, 1}
    BY DEF Due
  <2>5. PICK a, b, c, d, e, t, u : /\ a = Credit(h, i) /\ b = Credit(h, j)
                                   /\ c = Worth(h, off + 1, i + 1) /\ d = Credit(h, i + 1)
                                   /\ e = Worth(h, off, j) /\ t = Len(taken)
                                   /\ u = Due(checksumTotal)
    OBVIOUS
  <2>6. /\ a \in Int /\ b \in Int /\ c \in Int /\ d \in Int /\ c <= d /\ e \in Int /\ e <= b
        /\ t \in Nat /\ e + t >= 2 /\ u \in {0, 1} /\ a >= b /\ c >= a - 1
    BY <1>6, <2>1, <2>2, <2>3, <2>4, <2>5, Zenon
  <2>7. d + t >= u
    BY <2>6, SMT
  <2> QED
    BY <2>5, <2>7, Zenon
<1>8. Skip(h, off + 1, i + 1)'
  <2>1. Stopped'
    BY <1>3 DEF Stopped
  <2> QED
    BY <1>3, <1>6, <1>7, <2>1 DEF Skip
<1>9. lost # 0
  BY <1>5 DEF Garbage
<1>10. Followed(h, off + 1, i + 1)'
  BY <1>1, <1>2, <1>3, <1>4, <1>6, <1>8, <1>9, NowFollowed DEF Mode
<1> QED
  BY <1>10

(* An escape byte whose successor has not come. *)
LEMMA EscapeFollowed ==
    ASSUME TypeOK, EscapeAlone, NEW h, NEW off, NEW j, Placed(h, off, j)
    PROVE  \E o, k : Followed(h, o, k)'
<1>1. PICK n \in Nat : n = Len(log)
  BY LineNumbers DEF Placed
<1>2. /\ Line(h, off) /\ j \in 0..n /\ log \in Seq(Frames) /\ History(h, log, lost)
      /\ off \in Nat
  BY <1>1, LineNumbers DEF Placed
<1>3. /\ reading /\ serial = <<ESCAPE>> /\ serial # <<>> /\ pos > 0
      /\ serial' = <<>> /\ escape' = TRUE
      /\ UNCHANGED <<line, log, lost, pos, checksumTotal, lsbLength, apiId, frameData,
                     complete, errorCode, taken>>
  BY DEF EscapeAlone
<1>4. /\ off < h.end[n] /\ h.t[off + 1] = ESCAPE
      /\ Stream(h, off + 1, n, serial', line)
  <2>1. Head(serial) = ESCAPE /\ Tail(serial) = <<>>
    BY <1>3
  <2> QED
    BY <1>1, <1>2, <1>3, <2>1, NextInBuffer
<1>5. CASE Skip(h, off, j)
  <2>1. pos # 0
    BY <1>3, SMT
  <2> QED
    BY <1>3, <1>5, <2>1 DEF Skip, Stopped, Reset
<1>6. CASE Garbage(h, off, j)
  <2>1. Ahead(h, off, j) /\ Going /\ lost # 0 /\ Worth(h, off, j) + Len(taken) >= 2
    BY <1>6 DEF Garbage
  <2>2. PICK k \in 0..n : Ahead(h, off + 1, k) /\ Worth(h, off + 1, k) >= Worth(h, off, j)
    BY <1>1, <1>2, <1>4, <2>1, SkipByte, ByteConstants
  <2>3. Worth(h, off + 1, k) + Len(taken) >= 2
    <3>1. Worth(h, off + 1, k) \in Int /\ Worth(h, off, j) \in Int
      <4>1. off + 1 \in Nat
        BY <1>2, SMT
      <4> QED
        BY <1>1, <1>2, <2>2, <4>1, WorthType
    <3>2. Len(taken) \in Nat
      BY LenProperties DEF TypeOK
    <3>3. PICK a, b, t : a = Worth(h, off + 1, k) /\ b = Worth(h, off, j) /\ t = Len(taken)
      OBVIOUS
    <3>4. a \in Int /\ b \in Int /\ t \in Nat /\ a >= b /\ b + t >= 2
      BY <2>1, <2>2, <3>1, <3>2, <3>3, Zenon
    <3>5. a + t >= 2
      BY <3>4, SMT
    <3> QED
      BY <3>3, <3>5, Zenon
  <2>4. Garbage(h, off + 1, k)'
    BY <1>3, <2>1, <2>2, <2>3 DEF Garbage, Going
  <2>5. Followed(h, off + 1, k)'
    BY <1>1, <1>2, <1>3, <1>4, <2>1, <2>2, <2>4, NowFollowed DEF Mode
  <2> QED
    BY <2>5
<1>7. CASE Cut(h, off, j)
  <2>1. /\ Going /\ lost # 0 /\ off + 1 = h.end[j] /\ Credit(h, j) + Len(taken) >= 2
    BY <1>7 DEF Cut
  <2>2. Ahead(h, off + 1, j) /\ Worth(h, off + 1, j) = Credit(h, j)
    <3>1. h.end[j] \in Nat
      BY <1>1, <1>2, HistoryNumbers
    <3>2. off + 1 <= h.end[j] /\ ~ (off + 1 < h.end[j]) /\ (off + 1) + 1 > h.end[j]
      BY <2>1, <3>1, SMT
    <3>3. \A m \in ((off + 1) + 1)..h.end[j] : FALSE
      BY <1>2, <2>1, <3>1, SMT
    <3> QED
      BY <3>2, <3>3, Zenon DEF Ahead, Worth
  <2>3. Garbage(h, off + 1, j)'
    BY <1>3, <2>1, <2>2 DEF Garbage, Going
  <2>4. Followed(h, off + 1, j)'
    BY <1>1, <1>2, <1>3, <1>4, <2>1, <2>3, NowFollowed DEF Mode
  <2> QED
    BY <2>4
<1>8. CASE Exact(h, off, j) /\ Ready(h, j)
  <2>1. /\ Going /\ j # Len(log) /\ Intact(h, j, log[j + 1]) /\ Parsed(log[j + 1])
        /\ \E r \in Byte : Summed(log[j + 1], r) /\ Credit(h, j) + Len(taken) >= Due(r)
    BY <1>8 DEF Exact
  <2>2. PICK c : Within(h, off, j, log[j + 1], c)
    BY <1>8 DEF Exact
  <2>3. escape = FALSE /\ c[pos] = c[pos - 1] + 2
    BY <1>1, <1>2, <1>3, <1>8, <2>1, <2>2, ExactRead
  <2>4. PICK f : f = log[j + 1]
    OBVIOUS
  <2>5. f = log'[j + 1]
    BY <1>3, <2>4
  <2>6. off + 1 = h.end[j] + c[pos - 1] + 1
    <3>1. PICK a, b : a = h.end[j] /\ b = c[pos - 1]
      OBVIOUS
    <3>2. off = a + b + 0
      BY <2>2, <2>3, <3>1, Zenon DEF Within
    <3>3. a \in Nat
      BY <1>1, <1>2, <3>1, HistoryNumbers
    <3>4. b \in Nat
      <4>1. pos \in 1..Len(Body(f))
        <5>1. Len(Body(f)) = Len(f.data) + 4 /\ Len(f.data) \in Nat
          BY <1>1, <1>2, <2>1, <2>4, ExactFrame
        <5>2. pos \in Nat /\ pos >= 1 /\ pos <= Len(f.data) + 4
          BY <2>1, <2>4, SMT DEF Going, Parsed, TypeOK
        <5> QED
          BY <5>1, <5>2, SMT
      <4> QED
        BY <2>2, <2>4, <3>1, <4>1, Zenon DEF Within, Walk
    <3>5. off + 1 = a + b + 1
      BY <3>2, <3>3, <3>4, SMT
    <3> QED
      BY <3>1, <3>5, Zenon
  <2>7. Within(h, off + 1, j, f, c)'
    <3>1. pos' = pos /\ escape' = TRUE /\ Walk(send(f), Body(f), c)
      BY <1>3, <2>2, <2>4 DEF Within
    <3> QED
      BY <2>3, <2>6, <3>1, Zenon DEF Within
  <2>8. Parsed(f)' /\ Going'
    BY <1>3, <2>1, <2>4 DEF Parsed, Going
  <2>9. \E r \in Byte : Summed(f, r)' /\ Credit(h, j) + Len(taken') >= Due(r)
    BY <1>3, <2>1, <2>4 DEF Summed
  <2>10. Exact(h, off + 1, j)'
    BY <1>3, <2>1, <2>4, <2>5, <2>7, <2>8, <2>9 DEF Exact
  <2>11. lost = 0 => InOrder(j)'
    BY <1>3 DEF Placed, InOrder
  <2>12. Followed(h, off + 1, j)'
    BY <1>1, <1>2, <1>3, <1>4, <2>10, <2>11, NowFollowed DEF Mode
  <2> QED
    BY <2>12
<1> QED
  BY <1>5, <1>6, <1>7, <1>8 DEF Placed

(* The start byte of a frame that came whole, or but for its last byte. *)
LEMMA FrameBegun ==
    ASSUME TypeOK, StartByte, Reset, NEW h, NEW off, Line(h, off), NEW i \in 0..Len(log),
           i # Len(log), off = h.end[i], Intact(h, i, log[i + 1]), NextByte = START_BYTE,
           Credit(h, i) + Len(taken) >= Due(checksumTotal)
    PROVE  Exact(h, off + 1, i)'
<1>1. /\ pos' = 1 /\ escape' = FALSE /\ frameData' = <<>> /\ complete' = FALSE
      /\ errorCode' = "NO_ERROR" /\ taken' = taken /\ checksumTotal' = checksumTotal /\ log' = log
  BY DEF StartByte, Reset
<1>2. PICK f : f = log[i + 1]
  OBVIOUS
<1>3. f \in Frames /\ Len(f.data) \in Nat /\ f.data \in Seq(Byte) /\ Len(f.data) <= 254
  BY <1>2, ExactFrame, BodyType
<1>4. PICK c : Walk(send(f), Body(f), c)
  BY <1>3, FrameWalk
<1>5. Within(h, off + 1, i, f, c)'
  <2>1. PICK a : a = h.end[i]
    OBVIOUS
  <2>2. a \in Nat
    BY <2>1, LineNumbers, HistoryNumbers
  <2>3. off + 1 = a + 1 + 0
    BY <2>1, <2>2, SMT
  <2>4. c[0] = 1
    BY <1>4, Zenon DEF Walk
  <2>5. pos' - 1 = 0
    BY <1>1, SMT
  <2>6. off + 1 = h.end[i] + c[pos' - 1] + (IF escape' THEN 1 ELSE 0)
    BY <1>1, <2>1, <2>3, <2>4, <2>5, Zenon
  <2> QED
    BY <1>1, <1>4, <2>6 DEF Within
<1>6. Parsed(f)'
  <2>1. 1 <= Len(f.data) + 4
    BY <1>3, SMT
  <2>2. SubSeq(f.data, 1, 1 - 4) = <<>>
    BY <1>3, SMT
  <2>3. ~ (1 > 2) /\ ~ (1 > API_ID_INDEX)
    BY SMT DEF API_ID_INDEX
  <2> QED
    BY <1>1, <2>1, <2>2, <2>3 DEF Parsed
<1>7. Summed(f, checksumTotal)'
  <2>1. 1 <= API_ID_INDEX
    BY SMT DEF API_ID_INDEX
  <2>2. PICK z : z = checksumTotal
    OBVIOUS
  <2>3. Summed(f, z)'
    BY <1>1, <2>1, <2>2 DEF Summed
  <2> QED
    BY <1>1, <2>2, <2>3
<1>8. PICK z \in Byte : z = checksumTotal
  BY DEF TypeOK
<1>9. Summed(f, z)' /\ Credit(h, i) + Len(taken') >= Due(z)
  BY <1>1, <1>7, <1>8
<1>10. Going'
  BY <1>1, SMT DEF Going
<1> QED
  BY <1>1, <1>2, <1>5, <1>6, <1>8, <1>9, <1>10 DEF Exact

(* Bytes are skipped up to a start byte, which begins a packet. *)
LEMMA StartFollowed ==
    ASSUME TypeOK, StartByte, NEW h, NEW off, NEW j, Placed(h, off, j)
    PROVE  \E o, k : Followed(h, o, k)'
<1>1. PICK n \in Nat : n = Len(log)
  BY LineNumbers DEF Placed
<1>2. /\ Line(h, off) /\ j \in 0..n /\ log \in Seq(Frames) /\ History(h, log, lost)
      /\ off \in Nat /\ n \in 0..n
  BY <1>1, LineNumbers DEF Placed
<1>3. /\ reading /\ serial # <<>> /\ pos = 0
      /\ pos' = (IF NextByte = START_BYTE THEN 1 ELSE 0) /\ serial' = Rest /\ escape' = FALSE
      /\ UNCHANGED <<line, log, lost, reading, checksumTotal, lsbLength, apiId, frameData,
                     complete, errorCode, taken>>
  BY DEF StartByte, Parsable
<1>4. Skip(h, off, j) /\ Reset
  <2>1. ~ Going
    BY <1>3, SMT DEF Going
  <2>2. Skip(h, off, j)
    BY <2>1 DEF Placed, Garbage, Cut, Exact
  <2> QED
    BY <1>3, <2>2 DEF Skip, Stopped
<1>5. NextByte = Head(serial) /\ Rest = Tail(serial)
  <2>1. ~ (pos > 0)
    BY <1>3, SMT
  <2> QED
    BY <1>4, <2>1 DEF NextByte, Rest, Escaping, Reset
<1>6. /\ off < h.end[n] /\ NextByte = h.t[off + 1]
      /\ Stream(h, off + 1, n, serial', line)
  BY <1>1, <1>2, <1>3, <1>5, NextInBuffer
<1>7. Ahead(h, off, j) /\ Credit(h, j) + Len(taken) >= Due(checksumTotal)
  BY <1>4 DEF Skip
<1>8. Due(checksumTotal) \in {0, 1} /\ Len(taken) \in Nat /\ Credit(h, j) \in Int
  BY <1>1, <1>2, HistoryNumbers, LenProperties DEF Due, TypeOK
<1>9. ASSUME NEW k \in 0..n, Credit(h, k) >= Credit(h, j)
      PROVE  Credit(h, k) + Len(taken) >= Due(checksumTotal)
  <2>1. Credit(h, k) \in Int
    BY <1>1, <1>2, HistoryNumbers
  <2>2. PICK a, b, t, u : /\ a = Credit(h, k) /\ b = Credit(h, j) /\ t = Len(taken)
                          /\ u = Due(checksumTotal)
    OBVIOUS
  <2>3. a \in Int /\ b \in Int /\ t \in Nat /\ u \in {0, 1} /\ b + t >= u /\ a >= b
    BY <1>7, <1>8, <1>9, <2>1, <2>2, Zenon
  <2>4. a + t >= u
    BY <2>3, SMT
  <2> QED
    BY <2>2, <2>4, Zenon
<1>10. ASSUME NEW k \in 0..n, j <= k
       PROVE  lost = 0 => InOrder(k)'
  <2>1. k \in Nat /\ j \in Nat
    BY <1>1, <1>2, SMT
  <2>2. lost = 0 => InOrder(k)
    BY <1>10, <2>1, InOrderLater DEF Placed
  <2> QED
    BY <1>3, <2>2 DEF InOrder
<1>11. CASE NextByte # START_BYTE
  <2>1. PICK k \in 0..n : j <= k /\ Ahead(h, off + 1, k) /\ Credit(h, k) >= Credit(h, j)
    BY <1>1, <1>2, <1>6, <1>7, <1>11, SkipByte
  <2>2. Reset'
    BY <1>3, <1>4, <1>11 DEF Reset
  <2>3. Skip(h, off + 1, k)'
    BY <1>3, <1>9, <2>1, <2>2 DEF Skip
  <2>4. Followed(h, off + 1, k)'
    BY <1>1, <1>2, <1>3, <1>6, <1>10, <2>1, <2>3, NowFollowed DEF Mode
  <2> QED
    BY <2>4
<1>12. CASE NextByte = START_BYTE
  <2>1. PICK i \in 0..n :
            /\ j <= i /\ i # n /\ i + 1 \in 0..n /\ off = h.end[i]
            /\ Credit(h, i) >= Credit(h, j) /\ Ahead(h, off + 1, i + 1)
    <3>1. \E i \in 0..n :
              /\ j <= i /\ i # n /\ i + 1 \in 0..n /\ Begins(h, off, i)
              /\ Credit(h, i) >= Credit(h, j) /\ Ahead(h, off + 1, i + 1)
      BY <1>1, <1>2, <1>6, <1>7, <1>12, StartRead
    <3> QED
      BY <3>1, Zenon DEF Begins
  <2>2. PICK f : f = log[i + 1]
    OBVIOUS
  <2>3. CASE Intact(h, i, f)
    <3>1. Exact(h, off + 1, i)'
      BY <1>1, <1>2, <1>4, <1>9, <1>12, <2>1, <2>2, <2>3, FrameBegun
    <3>2. Followed(h, off + 1, i)'
      BY <1>1, <1>2, <1>3, <1>6, <1>10, <2>1, <3>1, NowFollowed DEF Mode
    <3> QED
      BY <3>2
  <2>4. CASE ~ Intact(h, i, f)
    <3>1. h.cum[i] # h.cum[i + 1]
      BY <2>4 DEF Intact
    <3>2. ~ (h.cum[i + 1] = h.cum[i] + 1 /\ LastLost(h, i + 1, send(log[i + 1])))
      BY <2>2, <2>4 DEF Intact
    <3>3. off + 1 \in Nat
      BY <1>2, SMT
    <3>4. Worth(h, off + 1, i + 1) >= Credit(h, i) + 2
      BY <1>1, <1>2, <2>1, <3>1, <3>2, <3>3, DamagedFrame
    <3>5. Worth(h, off + 1, i + 1) + Len(taken) >= 2
      <4>1. Worth(h, off + 1, i + 1) \in Int /\ Credit(h, i) \in Int
        BY <1>1, <1>2, <2>1, <3>3, WorthType
      <4>2. Credit(h, i) + Len(taken) >= Due(checksumTotal)
        BY <1>9, <2>1
      <4>3. PICK a, b, t, u : /\ a = Credit(h, i) /\ b = Worth(h, off + 1, i + 1) /\ t = Len(taken)
                              /\ u = Due(checksumTotal)
        OBVIOUS
      <4>4. a \in Int /\ b \in Int /\ t \in Nat /\ u \in {0, 1} /\ a + t >= u /\ b >= a + 2
        BY <1>8, <3>4, <4>1, <4>2, <4>3, Zenon
      <4>5. b + t >= 2
        BY <4>4, SMT
      <4> QED
        BY <4>3, <4>5, Zenon
    <3>6. lost # 0
      <4>1. n \in (i + 1)..n
        BY <2>1, SMT
      <4>2. h.cum[i + 1] <= h.cum[n]
        BY <1>1, <1>2, <2>1, <4>1, LaterFrames
      <4>3. h.cum[i] <= h.cum[i + 1]
        BY <1>1, <1>2, <2>1, FrameStep
      <4>4. h.cum[n] = lost
        BY <1>1, <1>2 DEF History
      <4>5. PICK a \in Nat, b \in Nat : a = h.cum[i] /\ b = h.cum[i + 1]
        BY <1>1, <1>2, <2>1, HistoryNumbers
      <4>6. a # b /\ a <= b /\ b <= lost
        BY <3>1, <4>2, <4>3, <4>4, <4>5, Zenon
      <4> QED
        BY <4>5, <4>6, SMT
    <3>7. Going'
      BY <1>3, <1>4, <1>12, SMT DEF Going, Reset
    <3>8. Garbage(h, off + 1, i + 1)'
      BY <1>3, <2>1, <3>5, <3>6, <3>7 DEF Garbage
    <3>9. Followed(h, off + 1, i + 1)'
      BY <1>1, <1>2, <1>3, <1>6, <2>1, <3>6, <3>8, NowFollowed DEF Mode
    <3> QED
      BY <3>9
  <2> QED
    BY <2>3, <2>4
<1> QED
  BY <1>11, <1>12

(* The next byte of what is parsed as a packet, though it is not one. *)
LEMMA GarbageRead ==
    ASSUME TypeOK, Parsable, pos > 0, NEW h, NEW off, Line(h, off), NEW j \in 0..Len(log),
           Garbage(h, off, j) \/ Cut(h, off, j)
    PROVE  /\ lost # 0
           /\ \E o : \E k \in 0..Len(log) :
                 /\ Stream(h, o, Len(log), Rest, line) /\ Ahead(h, o, k)
                 /\ Garbage(h, off, j) => Worth(h, o, k) + Len(taken) >= 2
                 /\ Credit(h, k) + Len(taken) >= 1
<1>1. PICK n \in Nat : n = Len(log)
  BY LineNumbers
<1>2. log \in Seq(Frames) /\ History(h, log, lost) /\ off \in Nat /\ j \in 0..n
  BY <1>1, LineNumbers
<1>3. lost # 0
  BY DEF Garbage, Cut
<1>4. h.end[j] \in Nat
  BY <1>1, <1>2, HistoryNumbers
<1>5. Ahead(h, off, j)
  <2>1. CASE Cut(h, off, j)
    <3>1. off + 1 = h.end[j] /\ h.t[off + 1] = ESCAPE
      BY <2>1 DEF Cut
    <3>2. off <= h.end[j] /\ \A m \in (off + 1)..h.end[j] : m = off + 1
      BY <1>2, <1>4, <3>1, SMT
    <3> QED
      BY <3>1, <3>2, ByteConstants DEF Ahead
  <2> QED
    BY <2>1 DEF Garbage
<1>6. /\ Worth(h, off, j) + Len(taken) >= 1
      /\ Garbage(h, off, j) => Worth(h, off, j) + Len(taken) >= 2
  <2>1. Len(taken) \in Nat /\ Worth(h, off, j) \in Int /\ Worth(h, off, j) >= Credit(h, j) - 1
        /\ Credit(h, j) \in Int
    BY <1>1, <1>2, WorthType, LenProperties DEF TypeOK
  <2>2. CASE Garbage(h, off, j)
    <3>1. Worth(h, off, j) + Len(taken) >= 2
      BY <2>2 DEF Garbage
    <3>2. PICK a, t : a = Worth(h, off, j) /\ t = Len(taken)
      OBVIOUS
    <3>3. a \in Int /\ t \in Nat /\ a + t >= 2
      BY <2>1, <3>1, <3>2, Zenon
    <3>4. a + t >= 1
      BY <3>3, SMT
    <3> QED
      BY <3>1, <3>2, <3>4, Zenon
  <2>3. CASE ~ Garbage(h, off, j)
    <3>1. Credit(h, j) + Len(taken) >= 2
      BY <2>3 DEF Cut
    <3>2. PICK a, b, t : a = Worth(h, off, j) /\ b = Credit(h, j) /\ t = Len(taken)
      OBVIOUS
    <3>3. a \in Int /\ b \in Int /\ t \in Nat /\ b + t >= 2 /\ a >= b - 1
      BY <2>1, <3>1, <3>2, Zenon
    <3>4. a + t >= 1
      BY <3>3, SMT
    <3> QED
      BY <2>3, <3>2, <3>4, Zenon
  <2> QED
    BY <2>2, <2>3
<1>7. PICK o \in Nat, k \in 0..n :
          Stream(h, o, n, Rest, line) /\ Ahead(h, o, k) /\ Worth(h, o, k) >= Worth(h, off, j)
  BY <1>1, <1>2, <1>5, ReadOn
<1>8. /\ Credit(h, k) + Len(taken) >= 1
      /\ Garbage(h, off, j) => Worth(h, o, k) + Len(taken) >= 2
  <2>1. /\ Len(taken) \in Nat /\ Worth(h, off, j) \in Int /\ Worth(h, o, k) \in Int
        /\ Worth(h, o, k) <= Credit(h, k) /\ Credit(h, k) \in Int
    BY <1>1, <1>2, <1>7, WorthType, LenProperties DEF TypeOK
  <2>2. PICK a, b, c, t : /\ a = Worth(h, off, j) /\ b = Worth(h, o, k) /\ c = Credit(h, k)
                          /\ t = Len(taken)
    OBVIOUS
  <2>3. a \in Int /\ b \in Int /\ c \in Int /\ t \in Nat /\ b <= c /\ b >= a /\ a + t >= 1
    BY <1>6, <1>7, <2>1, <2>2, Zenon
  <2>4. c + t >= 1 /\ (a + t >= 2 => b + t >= 2)
    BY <2>3, SMT
  <2> QED
    BY <1>6, <2>2, <2>4, Zenon
<1> QED
  BY <1>1, <1>3, <1>7, <1>8

(* The sum over one more byte. *)
LEMMA SumStep ==
    ASSUME NEW r \in Nat, NEW a \in Nat, NEW s \in Nat, NEW b \in Nat
    PROVE  (((r + ((a + s) % 256)) % 256) + b) % 256 = (r + ((a + ((s + b) % 256)) % 256)) % 256
<1>1. PICK p, q, u, v, w, x :
          /\ p = (a + s) % 256 /\ q = (a + s) \div 256
          /\ u = (r + p) % 256 /\ v = (r + p) \div 256
          /\ w = (s + b) % 256 /\ x = (s + b) \div 256
  OBVIOUS
<1>2. /\ p \in Nat /\ q \in Nat /\ a + s = 256 * q + p
      /\ w \in Nat /\ x \in Nat /\ s + b = 256 * x + w
  BY <1>1, SMT
<1>3. u \in Nat /\ v \in Nat /\ r + p = 256 * v + u
  BY <1>1, <1>2, SMT
<1>4. PICK y, z : y = (a + w) % 256 /\ z = (a + w) \div 256
  OBVIOUS
<1>5. y \in Nat /\ z \in Nat /\ a + w = 256 * z + y
  BY <1>2, <1>4, SMT
<1>6. u + b + 256 * v + 256 * q = r + y + 256 * z + 256 * x
  BY <1>2, <1>3, <1>5, SMT
<1>7. (u + b) % 256 = (r + y) % 256
  BY <1>2, <1>3, <1>5, <1>6, SMT
<1> QED
  BY <1>1, <1>4, <1>7, Zenon

(* The sum that the checksum byte completes, with what was left before it. *)
LEMMA SumComplete ==
    ASSUME NEW r \in Byte, NEW x \in Byte
    PROVE  (((r + x) % 256) + (255 - x)) % 256 = 255 <=> r = 0
<1>1. r \in 0..255 /\ x \in 0..255
  BY DEF Byte
<1>2. CASE r + x < 256
  BY <1>1, <1>2, SMT
<1>3. CASE r + x >= 256
  <2>1. (r + x) % 256 = r + x - 256
    BY <1>1, <1>3, SMT
  <2> QED
    BY <1>1, <1>3, <2>1, SMT
<1> QED
  BY <1>1, <1>2, <1>3, SMT

(* A byte that ends no packet. *)
LEMMA GarbageGoesOn ==
    ASSUME TypeOK, Parsable, pos > 0, NEW h, NEW off, Line(h, off), NEW j \in 0..Len(log),
           Garbage(h, off, j), Going', serial' = Rest, UNCHANGED <<line, log, lost, taken>>
    PROVE  \E o, k : Followed(h, o, k)'
<1>1. PICK n : n = Len(log)
  OBVIOUS
<1>2. lost # 0 /\ \E x : \E y \in 0..n : /\ Stream(h, x, n, Rest, line) /\ Ahead(h, x, y)
                                         /\ Worth(h, x, y) + Len(taken) >= 2
  BY <1>1, GarbageRead
<1>3. PICK x : \E y \in 0..n : /\ Stream(h, x, n, Rest, line) /\ Ahead(h, x, y)
                               /\ Worth(h, x, y) + Len(taken) >= 2
  BY <1>2
<1>4. PICK y \in 0..n : /\ Stream(h, x, n, Rest, line) /\ Ahead(h, x, y)
                        /\ Worth(h, x, y) + Len(taken) >= 2
  BY <1>3
<1>5. Garbage(h, x, y)'
  BY <1>2, <1>4 DEF Garbage
<1>6. Followed(h, x, y)'
  BY <1>1, <1>2, <1>4, <1>5, NowFollowed DEF Mode
<1> QED
  BY <1>6

(* The next byte of a frame, but for its last. *)
LEMMA ExactGoesOn ==
    ASSUME TypeOK, Parsable, NEW h, NEW off, NEW j, Placed(h, off, j),
           Exact(h, off, j), Ready(h, j),
           Going', pos' = pos + 1, escape' = FALSE, serial' = Rest,
           UNCHANGED <<line, log, lost, taken>>,
           Parsed(log[j + 1])',
           \A r \in Byte : Summed(log[j + 1], r) => Summed(log[j + 1], r)'
    PROVE  \E o, k : Followed(h, o, k)'
<1>1. PICK n \in Nat : n = Len(log)
  BY LineNumbers DEF Placed
<1>2. /\ Line(h, off) /\ j \in 0..n /\ log \in Seq(Frames) /\ History(h, log, lost)
  BY <1>1, LineNumbers DEF Placed
<1>3. /\ Going /\ j # Len(log) /\ Intact(h, j, log[j + 1]) /\ Parsed(log[j + 1]) /\ serial # <<>>
      /\ \E r \in Byte : Summed(log[j + 1], r) /\ Credit(h, j) + Len(taken) >= Due(r)
  BY DEF Exact, Parsable
<1>4. PICK c : Within(h, off, j, log[j + 1], c)
  BY DEF Exact
<1>5. Stream(h, h.end[j] + c[pos], n, serial', line)
  BY <1>1, <1>2, <1>3, <1>4, ExactRead
<1>6. PICK f : f = log[j + 1]
  OBVIOUS
<1>7. Walk(send(f), Body(f), c)
  BY <1>4, <1>6 DEF Within
<1>8. PICK o : o = h.end[j] + c[pos]
  OBVIOUS
<1>9. o = h.end[j] + c[pos' - 1] + (IF escape' THEN 1 ELSE 0)
  <2>1. pos' - 1 = pos
    BY SMT DEF TypeOK
  <2>2. c[pos] \in Nat
    BY <1>1, <1>2, <1>3, <1>4, ExactBytes
  <2>3. h.end[j] \in Nat
    BY <1>1, <1>2, HistoryNumbers
  <2>4. PICK a, b : a = h.end[j] /\ b = c[pos]
    OBVIOUS
  <2>5. a + b = a + b + 0
    BY <2>2, <2>3, <2>4, SMT
  <2> QED
    BY <1>8, <2>1, <2>4, <2>5, Zenon
<1>10. Within(h, o, j, f, c)'
  BY <1>7, <1>9 DEF Within
<1>11. \E r \in Byte : Summed(f, r)' /\ Credit(h, j) + Len(taken') >= Due(r)
  BY <1>3, <1>6
<1>12. Exact(h, o, j)'
  <2>1. f = log'[j + 1] /\ j # Len(log') /\ Intact(h, j, f) /\ Parsed(f)'
    BY <1>3, <1>6
  <2> QED
    BY <1>10, <1>11, <2>1 DEF Exact
<1>13. lost = 0 => InOrder(j)'
  BY DEF Placed, InOrder
<1>14. Followed(h, o, j)'
  BY <1>1, <1>2, <1>5, <1>8, <1>12, <1>13, NowFollowed DEF Mode
<1> QED
  BY <1>14

(* The data bytes parsed so far, and one more. *)
LEMMA OneMoreByte ==
    ASSUME NEW s \in Seq(Byte), NEW k \in 4..(Len(s) + 3)
    PROVE  Append(SubSeq(s, 1, k - 4), s[k - 3]) = SubSeq(s, 1, (k + 1) - 4)
<1>1. PICK n \in Nat : n = Len(s)
  BY LenProperties
<1>2. PICK m \in Nat : m = k - 4
  BY <1>1, SMT
<1>3. m + 1 \in 1..n /\ k - 3 = m + 1 /\ (k + 1) - 4 = m + 1 /\ m \in 0..n
  BY <1>1, <1>2, SMT
<1>4. PICK u, v : u = SubSeq(s, 1, m) /\ v = SubSeq(s, 1, m + 1)
  OBVIOUS
<1>5. /\ u \in Seq(Byte) /\ Len(u) = m /\ \A i \in 1..m : u[i] = s[i]
      /\ v \in Seq(Byte) /\ Len(v) = m + 1 /\ \A i \in 1..(m + 1) : v[i] = s[i]
  BY <1>1, <1>3, <1>4, SMT
<1>6. s[m + 1] \in Byte
  BY <1>1, <1>3, ElementOfSeq
<1>7. PICK w : w = Append(u, s[m + 1])
  OBVIOUS
<1>8. /\ w \in Seq(Byte) /\ Len(w) = m + 1 /\ w[m + 1] = s[m + 1]
      /\ \A i \in 1..m : w[i] = u[i]
  BY <1>5, <1>6, <1>7, AppendProperties
<1>9. \A i \in 1..(m + 1) : w[i] = v[i]
  BY <1>5, <1>8, SMTT(30)
<1>10. w = v
  BY <1>5, <1>8, <1>9, SeqEqual
<1> QED
  BY <1>2, <1>3, <1>4, <1>7, <1>10, Zenon

(* Inside a packet the parser is not skipping. *)
LEMMA NotSkipping ==
    ASSUME NEW h, NEW off, NEW j, Placed(h, off, j), reading, pos \in Nat, pos > 0
    PROVE  Garbage(h, off, j) \/ Cut(h, off, j) \/ (Exact(h, off, j) /\ Ready(h, j))
<1>1. pos # 0
  BY SMT
<1> QED
  BY <1>1 DEF Placed, Skip, Stopped, Reset

(* The frame and the place in it. *)
LEMMA InFrame ==
    ASSUME TypeOK, NEW h, NEW off, NEW j, Placed(h, off, j), Exact(h, off, j), Ready(h, j), Parsable
    PROVE  /\ NextByte = Body(log[j + 1])[pos]
           /\ log[j + 1] \in Frames /\ log[j + 1] \in Frame /\ Len(log[j + 1].data) <= 254
           /\ Len(log[j + 1].data) \in Nat /\ log[j + 1].data \in Seq(Byte)
           /\ log[j + 1].api \in Byte
           /\ ByteSum(log[j + 1].data) \in Byte
           /\ Body(log[j + 1])[2] = Len(log[j + 1].data) + 1
           /\ Body(log[j + 1])[3] = log[j + 1].api
           /\ \A k \in 1..Len(log[j + 1].data) : Body(log[j + 1])[k + 3] = log[j + 1].data[k]
           /\ Body(log[j + 1])[Len(log[j + 1].data) + 4] = checksum(log[j + 1])
           /\ Parsed(log[j + 1])
<1>1. /\ Line(h, off) /\ j \in 0..Len(log) /\ Going /\ j # Len(log)
      /\ Intact(h, j, log[j + 1]) /\ Parsed(log[j + 1]) /\ serial # <<>>
  BY DEF Placed, Exact, Parsable
<1>2. PICK c : Within(h, off, j, log[j + 1], c)
  BY DEF Exact
<1>3. NextByte = Body(log[j + 1])[pos]
  BY <1>1, <1>2, ExactRead
<1>4. PICK f : f = log[j + 1]
  OBVIOUS
<1>5. f \in Frames /\ f \in Frame /\ Len(f.data) <= 254
  BY <1>1, <1>4, ExactFrame
<1>6. /\ Len(f.data) \in Nat /\ f.data \in Seq(Byte) /\ f.api \in Byte
      /\ ByteSum(f.data) \in Byte
      /\ Body(f)[2] = Len(f.data) + 1 /\ Body(f)[3] = f.api
      /\ \A k \in 1..Len(f.data) : Body(f)[k + 3] = f.data[k]
      /\ Body(f)[Len(f.data) + 4] = checksum(f)
  BY <1>5, BodyType
<1> QED
  BY <1>1, <1>3, <1>4, <1>5, <1>6

(* The length and the API id. *)
LEMMA HeaderFollowed ==
    ASSUME TypeOK, HeaderByte, NEW h, NEW off, NEW j, Placed(h, off, j)
    PROVE  \E o, k : Followed(h, o, k)'
<1>1. /\ Parsable /\ reading /\ pos \in 1..3 /\ pos \in Nat /\ pos > 0 /\ pos' = pos + 1
      /\ serial' = Rest /\ escape' = FALSE
      /\ lsbLength' = (IF pos = 2 THEN NextByte ELSE lsbLength)
      /\ apiId' = (IF pos = 3 THEN NextByte ELSE apiId) /\ checksumTotal' = Total
      /\ UNCHANGED <<line, log, lost, taken, frameData, complete, errorCode>>
  BY SMT DEF HeaderByte, Parsable, API_ID_INDEX
<1>2. Line(h, off) /\ j \in 0..Len(log)
  BY DEF Placed
<1>3. Going => Going'
  BY <1>1, SMT DEF Going
<1>4. CASE Garbage(h, off, j)
  <2>1. Going'
    BY <1>3, <1>4 DEF Garbage
  <2> QED
    BY <1>1, <1>2, <1>4, <2>1, GarbageGoesOn
<1>5. CASE Cut(h, off, j)
  <2>1. pos > API_ID_INDEX
    BY <1>5 DEF Cut
  <2> QED
    BY <1>1, <2>1, SMT DEF API_ID_INDEX
<1>6. CASE Exact(h, off, j) /\ Ready(h, j)
  <2>1. PICK f : f = log[j + 1]
    OBVIOUS
  <2>2. /\ NextByte = Body(f)[pos] /\ Len(f.data) \in Nat /\ f.data \in Seq(Byte)
        /\ f.api \in Byte /\ Body(f)[2] = Len(f.data) + 1 /\ Body(f)[3] = f.api /\ Parsed(f)
    BY <1>1, <1>6, <2>1, InFrame
  <2>3. frameData = <<>>
    <3>1. SubSeq(f.data, 1, pos - 4) = <<>>
      BY <1>1, <2>2, SMT
    <3> QED
      BY <2>2, <3>1 DEF Parsed
  <2>4. Parsed(f)'
    <3>1. pos + 1 <= Len(f.data) + 4
      BY <1>1, <2>2, SMT
    <3>2. SubSeq(f.data, 1, (pos + 1) - 4) = <<>>
      BY <1>1, <2>2, SMT
    <3>3. pos + 1 > 2 => lsbLength' = Len(f.data) + 1
      <4>1. CASE pos = 2
        BY <1>1, <2>2, <4>1
      <4>2. CASE pos # 2
        <5>1. pos + 1 > 2 => pos > 2
          BY <1>1, <4>2, SMT
        <5> QED
          BY <1>1, <2>2, <4>2, <5>1 DEF Parsed
      <4> QED
        BY <4>1, <4>2
    <3>4. pos + 1 > API_ID_INDEX => apiId' = f.api
      <4>1. pos + 1 > API_ID_INDEX => pos = 3
        BY <1>1, SMT DEF API_ID_INDEX
      <4> QED
        BY <1>1, <2>2, <4>1
    <3> QED
      BY <1>1, <2>3, <3>1, <3>2, <3>3, <3>4 DEF Parsed
  <2>5. ASSUME NEW r \in Byte, Summed(f, r)
        PROVE  Summed(f, r)'
    <3>1. checksumTotal = r
      <4>1. pos <= API_ID_INDEX
        BY <1>1, SMT DEF API_ID_INDEX
      <4> QED
        BY <2>5, <4>1 DEF Summed
    <3>2. CASE pos = 3
      <4>1. pos >= API_ID_INDEX /\ ~ (pos' <= API_ID_INDEX)
        BY <1>1, <3>2, SMT DEF API_ID_INDEX
      <4>2. checksumTotal' = (r + f.api) % 256
        BY <1>1, <2>2, <3>1, <3>2, <4>1 DEF Total
      <4>3. (f.api + 0) % 256 = f.api
        <5>1. PICK a : a = f.api
          OBVIOUS
        <5>2. a \in Nat /\ a <= 255
          BY <2>2, <5>1, ByteIsNat, Zenon
        <5>3. (a + 0) % 256 = a
          BY <5>2, SMT
        <5> QED
          BY <5>1, <5>3, Zenon
      <4>4. (f.api + ByteSum(frameData')) % 256 = f.api
        BY <1>1, <2>3, <4>3, SumNone
      <4> QED
        BY <4>1, <4>2, <4>4 DEF Summed
    <3>3. CASE pos # 3
      <4>1. ~ (pos >= API_ID_INDEX) /\ pos' <= API_ID_INDEX
        BY <1>1, <3>3, SMT DEF API_ID_INDEX
      <4>2. checksumTotal' = r
        BY <1>1, <3>1, <4>1 DEF Total
      <4> QED
        BY <4>1, <4>2 DEF Summed
    <3> QED
      BY <3>2, <3>3
  <2>6. Going'
    BY <1>3, <1>6 DEF Exact
  <2> QED
    BY <1>1, <1>6, <2>1, <2>4, <2>5, <2>6, ExactGoesOn
<1> QED
  BY <1>1, <1>4, <1>5, <1>6, NotSkipping

(* A data byte. *)
LEMMA DataFollowed ==
    ASSUME TypeOK, DataByte, NEW h, NEW off, NEW j, Placed(h, off, j)
    PROVE  \E o, k : Followed(h, o, k)'
<1>1. /\ Parsable /\ reading /\ pos > 3 /\ pos \in Nat /\ pos > 0 /\ pos' = pos + 1
      /\ ~ TooLong /\ ~ AtChecksum /\ pos > API_ID_INDEX
      /\ serial' = Rest /\ escape' = FALSE
      /\ frameData' = Append(frameData, NextByte) /\ checksumTotal' = Total
      /\ UNCHANGED <<line, log, lost, taken, lsbLength, apiId, complete, errorCode>>
  <2>1. pos \in Nat
    BY SizeAssumption, SMT DEF TypeOK
  <2> QED
    BY <2>1, SMT DEF DataByte, Parsable, API_ID_INDEX
<1>2. Line(h, off) /\ j \in 0..Len(log)
  BY DEF Placed
<1>3. Going => Going'
  BY <1>1, SMT DEF Going
<1>4. CASE Garbage(h, off, j)
  <2>1. Going'
    BY <1>3, <1>4 DEF Garbage
  <2> QED
    BY <1>1, <1>2, <1>4, <2>1, GarbageGoesOn
<1>5. CASE Cut(h, off, j)
  BY <1>1, <1>5 DEF Cut
<1>6. CASE Exact(h, off, j) /\ Ready(h, j)
  <2>1. PICK f : f = log[j + 1]
    OBVIOUS
  <2>2. /\ NextByte = Body(f)[pos] /\ Len(f.data) \in Nat /\ f.data \in Seq(Byte)
        /\ f.api \in Byte /\ \A k \in 1..Len(f.data) : Body(f)[k + 3] = f.data[k] /\ Parsed(f)
    BY <1>1, <1>6, <2>1, InFrame
  <2>3. Parsed(f)
    BY <1>1, <1>6, <2>1, InFrame
  <2>4. pos \in 4..(Len(f.data) + 3) /\ pos - 3 \in 1..Len(f.data) /\ (pos - 3) + 3 = pos
    <3>1. pos <= Len(f.data) + 4 /\ pos # Len(f.data) + 4
      <4>1. lsbLength = Len(f.data) + 1
        <5>1. pos > 2
          BY <1>1, SMT
        <5> QED
          BY <2>3, <5>1 DEF Parsed
      <4>2. pos # (Len(f.data) + 1) + 3
        BY <1>1, <4>1 DEF AtChecksum
      <4>3. pos <= Len(f.data) + 4
        BY <2>3 DEF Parsed
      <4> QED
        BY <2>2, <4>2, <4>3, SMT
    <3> QED
      BY <1>1, <2>2, <3>1, SMT
  <2>5. NextByte = f.data[pos - 3]
    <3>1. Body(f)[(pos - 3) + 3] = f.data[pos - 3]
      BY <2>2, <2>4
    <3> QED
      BY <2>2, <2>4, <3>1
  <2>6. NextByte \in Byte
    BY <1>1, NextByteType
  <2>7. frameData' = SubSeq(f.data, 1, (pos + 1) - 4)
    <3>1. frameData = SubSeq(f.data, 1, pos - 4)
      BY <2>3 DEF Parsed
    <3> QED
      BY <1>1, <2>2, <2>4, <2>5, <3>1, OneMoreByte
  <2>8. Parsed(f)'
    <3>1. pos + 1 <= Len(f.data) + 4
      BY <2>2, <2>4, SMT
    <3>2. pos > 2
      BY <1>1, SMT
    <3> QED
      BY <1>1, <2>3, <2>7, <3>1, <3>2 DEF Parsed
  <2>9. ASSUME NEW r \in Byte, Summed(f, r)
        PROVE  Summed(f, r)'
    <3>1. ~ (pos <= API_ID_INDEX) /\ pos >= API_ID_INDEX /\ ~ (pos' <= API_ID_INDEX)
      BY <1>1, SMT DEF API_ID_INDEX
    <3>2. PICK a, s, b : a = f.api /\ s = ByteSum(frameData) /\ b = NextByte
      OBVIOUS
    <3>3. checksumTotal = (r + ((a + s) % 256)) % 256
      BY <2>9, <3>1, <3>2 DEF Summed
    <3>4. checksumTotal' = (checksumTotal + b) % 256
      BY <1>1, <3>1, <3>2 DEF Total
    <3>5. ByteSum(frameData') = (s + b) % 256
      BY <1>1, <2>6, <3>2, SumAppend DEF TypeOK
    <3>6. a \in Nat /\ s \in Nat /\ b \in Nat /\ r \in Nat
      <4>1. s \in Byte
        BY <3>2, SumType DEF TypeOK
      <4> QED
        BY <2>2, <2>6, <3>2, <4>1, ByteIsNat, Zenon
    <3>7. checksumTotal' = (r + ((a + ((s + b) % 256)) % 256)) % 256
      BY <3>3, <3>4, <3>6, SumStep
    <3> QED
      BY <3>1, <3>2, <3>5, <3>7 DEF Summed
  <2>10. Going'
    BY <1>3, <1>6 DEF Exact
  <2> QED
    BY <1>1, <1>6, <2>1, <2>8, <2>9, <2>10, ExactGoesOn
<1> QED
  BY <1>1, <1>4, <1>5, <1>6, NotSkipping

(* A packet that is not one ends: with a frame to spare it did no harm. *)
LEMMA GarbageEnds ==
    ASSUME TypeOK, Parsable, pos > 0, NEW h, NEW off, Line(h, off), NEW j \in 0..Len(log),
           Garbage(h, off, j) \/ Cut(h, off, j), Stopped', serial' = Rest,
           UNCHANGED <<line, log, lost>>, Len(taken') \in Nat, Len(taken) <= Len(taken')
    PROVE  \E o, k : Followed(h, o, k)'
<1>1. PICK n \in Nat : n = Len(log)
  BY LineNumbers
<1>2. lost # 0 /\ \E x : \E y \in 0..n : /\ Stream(h, x, n, Rest, line) /\ Ahead(h, x, y)
                                         /\ Credit(h, y) + Len(taken) >= 1
  BY <1>1, GarbageRead
<1>3. PICK x : \E y \in 0..n : /\ Stream(h, x, n, Rest, line) /\ Ahead(h, x, y)
                               /\ Credit(h, y) + Len(taken) >= 1
  BY <1>2
<1>4. PICK y \in 0..n : /\ Stream(h, x, n, Rest, line) /\ Ahead(h, x, y)
                        /\ Credit(h, y) + Len(taken) >= 1
  BY <1>3
<1>5. Credit(h, y) + Len(taken') >= Due(checksumTotal')
  <2>1. Credit(h, y) \in Int /\ Len(taken) \in Nat
    BY <1>1, <1>4, LineNumbers, HistoryNumbers, LenProperties DEF TypeOK
  <2>2. Due(checksumTotal') \in {0, 1}
    BY DEF Due
  <2>3. PICK a, t, v, u : /\ a = Credit(h, y) /\ t = Len(taken) /\ v = Len(taken')
                          /\ u = Due(checksumTotal')
    OBVIOUS
  <2>4. a \in Int /\ t \in Nat /\ v \in Nat /\ t <= v /\ u \in {0, 1} /\ a + t >= 1
    BY <1>4, <2>1, <2>2, <2>3, Zenon
  <2>5. a + v >= u
    BY <2>4, SMT
  <2> QED
    BY <2>3, <2>5, Zenon
<1>6. Skip(h, x, y)'
  BY <1>4, <1>5 DEF Skip
<1>7. Followed(h, x, y)'
  BY <1>1, <1>2, <1>4, <1>6, NowFollowed DEF Mode
<1> QED
  BY <1>7

(* The parser is done with a frame: the rest of it has no start byte. *)
LEMMA FrameLeft ==
    ASSUME TypeOK, Parsable, NEW h, NEW off, NEW j, Placed(h, off, j),
           Exact(h, off, j), Ready(h, j)
    PROVE  /\ j + 1 \in 0..Len(log)
           /\ \E o : Stream(h, o, Len(log), Rest, line) /\ Ahead(h, o, j + 1)
<1>1. PICK n \in Nat : n = Len(log)
  BY LineNumbers DEF Placed
<1>2. /\ Line(h, off) /\ j \in 0..n /\ log \in Seq(Frames) /\ History(h, log, lost)
      /\ Going /\ j # n /\ Intact(h, j, log[j + 1]) /\ Parsed(log[j + 1]) /\ serial # <<>>
  BY <1>1, LineNumbers DEF Placed, Exact, Parsable
<1>3. PICK c : Within(h, off, j, log[j + 1], c)
  BY DEF Exact
<1>4. Stream(h, h.end[j] + c[pos], n, Rest, line)
  BY <1>1, <1>2, <1>3, ExactRead
<1>5. c[pos] \in Nat /\ h.end[j] + c[pos] <= h.end[j + 1]
  BY <1>1, <1>2, <1>3, ExactBytes
<1>6. PICK f : f = log[j + 1]
  OBVIOUS
<1>7. j + 1 \in 0..n /\ Len(f.data) \in Nat /\ Len(Body(f)) = Len(f.data) + 4
  BY <1>1, <1>2, <1>6, ExactFrame
<1>8. c[pos] >= 2
  <2>1. pos \in 1..Len(Body(f))
    <3>1. pos \in Nat /\ pos >= 1 /\ pos <= Len(f.data) + 4
      BY <1>2, <1>6, SMT DEF Going, Parsed, TypeOK
    <3> QED
      BY <1>7, <3>1, SMT
  <2>2. c[pos - 1] \in Nat /\ 1 <= c[pos - 1] /\ c[pos - 1] < c[pos]
    BY <1>3, <1>6, <2>1, Zenon DEF Within, Walk
  <2>3. PICK a, b : a = c[pos - 1] /\ b = c[pos]
    OBVIOUS
  <2>4. a \in Nat /\ b \in Nat /\ 1 <= a /\ a < b
    BY <1>5, <2>2, <2>3, Zenon
  <2>5. b >= 2
    BY <2>4, SMT
  <2> QED
    BY <2>3, <2>5, Zenon
<1>9. \A m \in (h.end[j] + 2)..h.end[j + 1] : h.t[m] # START_BYTE
  BY <1>1, <1>2, FrameStep
<1>10. PICK o, d, e, b : o = h.end[j] + c[pos] /\ d = h.end[j] /\ e = h.end[j + 1] /\ b = c[pos]
  OBVIOUS
<1>11. d \in Nat /\ e \in Nat
  BY <1>1, <1>2, <1>7, <1>10, HistoryNumbers
<1>12. o = d + b /\ b \in Nat /\ b >= 2 /\ o <= e
  BY <1>5, <1>8, <1>10, Zenon
<1>13. \A m \in (o + 1)..e : m \in (d + 2)..e
  BY <1>11, <1>12, SMT
<1>14. Ahead(h, o, j + 1)
  BY <1>9, <1>10, <1>12, <1>13, Zenon DEF Ahead
<1>15. Stream(h, o, n, Rest, line)
  BY <1>4, <1>10
<1> QED
  BY <1>1, <1>7, <1>14, <1>15

(* A frame that ends the packet parsed from it, whatever the outcome. *)
LEMMA ExactEnds ==
    ASSUME TypeOK, Parsable, NEW h, NEW off, NEW j, Placed(h, off, j),
           Exact(h, off, j), Ready(h, j), Stopped', serial' = Rest, UNCHANGED <<line, log, lost>>,
           Credit(h, j + 1) + Len(taken') >= Due(checksumTotal'), lost = 0 => InOrder(j + 1)'
    PROVE  \E o, k : Followed(h, o, k)'
<1>1. Line(h, off)
  BY DEF Placed
<1>2. j + 1 \in 0..Len(log)
  BY FrameLeft
<1>3. PICK o : Stream(h, o, Len(log), Rest, line) /\ Ahead(h, o, j + 1)
  BY FrameLeft
<1>4. Skip(h, o, j + 1)'
  BY <1>3 DEF Skip
<1>5. Followed(h, o, j + 1)'
  BY <1>1, <1>2, <1>3, <1>4, NowFollowed DEF Mode
<1> QED
  BY <1>5

(* The packet is too long. *)
LEMMA ExceedsFollowed ==
    ASSUME TypeOK, PacketExceeds, NEW h, NEW off, NEW j, Placed(h, off, j)
    PROVE  \E o, k : Followed(h, o, k)'
<1>1. /\ Parsable /\ reading /\ pos \in Nat /\ pos > 0 /\ TooLong /\ serial' = Rest
      /\ errorCode' = "PACKET_EXCEEDS_BYTE_ARRAY_LENGTH" /\ reading' = FALSE
      /\ UNCHANGED <<line, log, lost, taken>>
  <2>1. pos \in Nat
    BY SizeAssumption, SMT DEF TypeOK
  <2> QED
    BY <2>1, SMT DEF PacketExceeds, Parsable, API_ID_INDEX
<1>2. Stopped' /\ Len(taken) \in Nat /\ taken' = taken
  BY <1>1, LenProperties DEF Stopped, TypeOK
<1>3. Line(h, off) /\ j \in 0..Len(log)
  BY DEF Placed
<1>4. CASE Garbage(h, off, j) \/ Cut(h, off, j)
  <2>1. Len(taken') \in Nat /\ Len(taken) <= Len(taken')
    BY <1>2, SMT
  <2> QED
    BY <1>1, <1>2, <1>3, <1>4, <2>1, GarbageEnds
<1>5. CASE Exact(h, off, j) /\ Ready(h, j)
  <2>1. PICK n \in Nat : n = Len(log)
    BY <1>3, LineNumbers
  <2>2. PICK f : f = log[j + 1]
    OBVIOUS
  <2>3. Len(f.data) \in Nat /\ Parsed(f)
    BY <1>1, <1>5, <2>2, InFrame
  <2>4. ~ Fits(f)
    <3>1. pos > MAX_FRAME_DATA_SIZE /\ pos <= Len(f.data) + 4
      BY <1>1, <2>3 DEF TooLong, Parsed
    <3>2. ~ (Len(f.data) + 4 <= MAX_FRAME_DATA_SIZE)
      BY <1>1, <2>3, <3>1, SizeAssumption, SMT
    <3> QED
      BY <3>2 DEF Fits
  <2>5. j \in 0..n /\ j # n /\ log \in Seq(Frames) /\ History(h, log, lost) /\ j + 1 \in 0..n
    BY <1>1, <1>3, <1>5, <2>1, FrameLeft, LineNumbers DEF Exact
  <2>6. Credit(h, j + 1) >= Credit(h, j) + 1
    BY <2>1, <2>2, <2>4, <2>5, FrameStep
  <2>7. Credit(h, j + 1) + Len(taken') >= Due(checksumTotal')
    <3>1. PICK r \in Byte : Credit(h, j) + Len(taken) >= Due(r)
      BY <1>5 DEF Exact
    <3>2. Due(r) \in {0, 1} /\ Due(checksumTotal') \in {0, 1}
      BY DEF Due
    <3>3. Credit(h, j) \in Int /\ Credit(h, j + 1) \in Int
      BY <2>1, <2>5, HistoryNumbers
    <3>4. PICK a, b, t, u, v : /\ a = Credit(h, j) /\ b = Credit(h, j + 1) /\ t = Len(taken)
                               /\ u = Due(r) /\ v = Due(checksumTotal')
      OBVIOUS
    <3>5. /\ a \in Int /\ b \in Int /\ t \in Nat /\ u \in {0, 1} /\ v \in {0, 1}
          /\ a + t >= u /\ b >= a + 1
      BY <1>2, <2>6, <3>1, <3>2, <3>3, <3>4, Zenon
    <3>6. b + t >= v
      BY <3>5, SMT
    <3> QED
      BY <1>2, <3>4, <3>6, Zenon
  <2>8. lost = 0 => InOrder(j + 1)'
    <3>1. j \in Nat /\ j + 1 \in Nat /\ j <= j + 1
      BY <2>1, <2>5, SMT
    <3>2. lost = 0 => InOrder(j + 1)
      BY <3>1, InOrderLater DEF Placed
    <3> QED
      BY <1>2, <1>1, <3>2 DEF InOrder
  <2> QED
    BY <1>1, <1>2, <1>5, <2>7, <2>8, ExactEnds
<1> QED
  BY <1>1, <1>4, <1>5, NotSkipping

(* The sum that the checksum byte of a frame completes. *)
LEMMA ChecksumTotal ==
    ASSUME TypeOK, NEW f \in Frame, Len(f.data) <= 254, NEW r \in Byte, Summed(f, r),
           pos > API_ID_INDEX, frameData = f.data, NextByte = checksum(f), pos \in Nat
    PROVE  Total = 255 <=> r = 0
<1>1. f.api \in Byte /\ ByteSum(f.data) \in Byte
  BY BodyType
<1>2. PICK x : x = (f.api + ByteSum(f.data)) % 256
  OBVIOUS
<1>3. x \in Byte
  <2>1. f.api \in Nat /\ ByteSum(f.data) \in Nat
    BY <1>1, ByteIsNat
  <2>2. f.api + ByteSum(f.data) \in Nat
    BY <2>1, SMT
  <2> QED
    BY <1>2, <2>2, ByteRemainder
<1>4. ~ (pos <= API_ID_INDEX) /\ pos >= API_ID_INDEX
  BY SMT DEF API_ID_INDEX
<1>5. checksumTotal = (r + x) % 256
  BY <1>2, <1>4 DEF Summed
<1>6. NextByte = 255 - x
  BY <1>2 DEF checksum
<1>7. Total = (((r + x) % 256) + (255 - x)) % 256
  BY <1>4, <1>5, <1>6 DEF Total
<1> QED
  BY <1>3, <1>7, SumComplete

(* One more frame taken, later than those before. *)
LEMMA InOrderTaken ==
    ASSUME TypeOK, NEW j \in Nat, InOrder(j), log' = log, taken' = Append(taken, log[j + 1])
    PROVE  InOrder(j + 1)'
<1>1. PICK t \in Nat : t = Len(taken)
  BY LenProperties DEF TypeOK
<1>2. DOMAIN taken = 1..t
  BY <1>1, LenProperties DEF TypeOK
<1>3. PICK index \in [1..t -> 1..j] :
          /\ \A i \in 1..t : taken[i] = log[index[i]]
          /\ \A i, k \in 1..t : i < k => index[i] < index[k]
  BY <1>2 DEF InOrder
<1>4. PICK f : f = log[j + 1]
  OBVIOUS
<1>5. /\ DOMAIN taken' = 1..(t + 1) /\ \A i \in 1..t : taken'[i] = taken[i]
      /\ taken'[t + 1] = f
  BY <1>1, <1>4, SMT DEF TypeOK
<1>6. PICK later : later = [i \in 1..(t + 1) |-> IF i = t + 1 THEN j + 1 ELSE index[i]]
  OBVIOUS
<1>7. t + 1 \in 1..(t + 1) /\ \A i \in 1..t : i \in 1..(t + 1) /\ i # t + 1
  BY SMT
<1>8. \A i \in 1..(t + 1) : i \in 1..t \/ i = t + 1
  BY SMT
<1>9. later[t + 1] = j + 1 /\ \A i \in 1..t : later[i] = index[i]
  BY <1>6, <1>7
<1>10. \A m \in 1..j : m \in 1..(j + 1) /\ m < j + 1
  BY SMT
<1>11. j + 1 \in 1..(j + 1)
  BY SMT
<1>12. later \in [1..(t + 1) -> 1..(j + 1)]
  <2>1. \A i \in 1..(t + 1) : later[i] \in 1..(j + 1)
    BY <1>3, <1>8, <1>9, <1>10, <1>11
  <2> QED
    BY <1>6, <2>1
<1>13. \A i \in 1..(t + 1) : taken'[i] = log[later[i]]
  BY <1>3, <1>4, <1>5, <1>8, <1>9
<1>14. ASSUME NEW i \in 1..(t + 1), NEW k \in 1..(t + 1), i < k
       PROVE  later[i] < later[k]
  <2>1. i \in 1..t
    BY <1>14, SMT
  <2>2. index[i] \in 1..j /\ index[i] < j + 1
    BY <1>3, <1>10, <2>1
  <2>3. CASE k = t + 1
    BY <1>9, <2>1, <2>2, <2>3
  <2>4. CASE k \in 1..t
    BY <1>3, <1>9, <1>14, <2>1, <2>4
  <2> QED
    BY <1>8, <2>3, <2>4
<1>15. PICK D : D = DOMAIN taken'
  OBVIOUS
<1>16. /\ later \in [D -> 1..(j + 1)]
       /\ \A i \in D : taken'[i] = log'[later[i]]
       /\ \A i, k \in D : i < k => later[i] < later[k]
  BY <1>5, <1>12, <1>13, <1>14, <1>15
<1> QED
  BY <1>15, <1>16, Zenon DEF InOrder

(* The checksum of a frame ends it: the frame is taken unless a sum was left *)
(* from the packets before.                                                  *)
LEMMA ChecksumFollowed ==
    ASSUME TypeOK, ChecksumByte, NEW h, NEW off, NEW j, Placed(h, off, j)
    PROVE  \E o, k : Followed(h, o, k)'
<1>1. /\ Parsable /\ reading /\ pos \in Nat /\ pos > 0 /\ AtChecksum /\ serial' = Rest
      /\ pos > API_ID_INDEX /\ checksumTotal' = 0 /\ reading' = FALSE
      /\ UNCHANGED <<line, log, lost>>
  <2>1. pos \in Nat
    BY SizeAssumption, SMT DEF TypeOK
  <2> QED
    BY <2>1, SMT DEF ChecksumByte, Parsable, API_ID_INDEX
<1>2. \/ /\ Total = 255 /\ complete' = TRUE
         /\ taken' = Append(taken, [api |-> apiId, data |-> frameData])
      \/ /\ Total # 255 /\ errorCode' = "CHECKSUM_FAILURE" /\ taken' = taken
  BY DEF ChecksumByte, ChecksumOK
<1>3. Stopped'
  BY <1>1, <1>2 DEF Stopped
<1>4. PICK t \in Nat : t = Len(taken)
  BY LenProperties DEF TypeOK
<1>5. Len(taken') = IF Total = 255 THEN t + 1 ELSE t
  <2>1. apiId \in Byte /\ frameData \in Seq(Byte) /\ taken \in Seq(Frame)
    BY DEF TypeOK
  <2>2. [api |-> apiId, data |-> frameData] \in Frame
    BY <2>1 DEF Frame
  <2> QED
    BY <1>2, <1>4, <2>1, <2>2, AppendProperties
<1>6. Len(taken') \in Nat /\ t <= Len(taken')
  <2>1. t + 1 \in Nat /\ t <= t + 1 /\ t <= t
    BY SMT
  <2> QED
    BY <1>5, <2>1
<1>7. Line(h, off) /\ j \in 0..Len(log)
  BY DEF Placed
<1>8. CASE Garbage(h, off, j) \/ Cut(h, off, j)
  BY <1>1, <1>3, <1>4, <1>6, <1>7, <1>8, GarbageEnds
<1>9. CASE Exact(h, off, j) /\ Ready(h, j)
  <2>1. PICK n \in Nat : n = Len(log)
    BY <1>7, LineNumbers
  <2>2. /\ j \in 0..n /\ j # n /\ log \in Seq(Frames) /\ History(h, log, lost) /\ j + 1 \in 0..n
    BY <1>1, <1>7, <1>9, <2>1, FrameLeft, LineNumbers DEF Exact
  <2>3. PICK f : f = log[j + 1]
    OBVIOUS
  <2>4. /\ NextByte = Body(f)[pos] /\ f \in Frame /\ Len(f.data) <= 254
        /\ Len(f.data) \in Nat /\ f.data \in Seq(Byte)
        /\ Body(f)[Len(f.data) + 4] = checksum(f) /\ Parsed(f)
    BY <1>1, <1>9, <2>3, InFrame
  <2>5. pos = Len(f.data) + 4
    <3>1. pos > 2
      BY <1>1, SMT DEF API_ID_INDEX
    <3>2. lsbLength = Len(f.data) + 1
      BY <2>4, <3>1 DEF Parsed
    <3>3. pos = (Len(f.data) + 1) + 3
      BY <1>1, <3>2 DEF AtChecksum
    <3> QED
      BY <2>4, <3>3, SMT
  <2>6. NextByte = checksum(f)
    BY <2>4, <2>5
  <2>7. frameData = f.data /\ apiId = f.api
    <3>1. pos - 4 = Len(f.data)
      BY <2>4, <2>5, SMT
    <3>2. SubSeq(f.data, 1, Len(f.data)) = f.data
      BY <2>4, SMT
    <3> QED
      BY <1>1, <2>4, <3>1, <3>2 DEF Parsed
  <2>8. [api |-> apiId, data |-> frameData] = f
    BY <2>4, <2>7 DEF Frame
  <2>9. PICK r \in Byte : Summed(f, r) /\ Credit(h, j) + Len(taken) >= Due(r)
    BY <1>9, <2>3 DEF Exact
  <2>10. Total = 255 <=> r = 0
    BY <1>1, <2>4, <2>6, <2>7, <2>9, ChecksumTotal
  <2>11. Credit(h, j + 1) >= Credit(h, j) - 1
    BY <2>1, <2>2, FrameStep
  <2>12. Credit(h, j + 1) + Len(taken') >= Due(checksumTotal')
    <3>1. Due(r) = (IF Total = 255 THEN 0 ELSE 1) /\ Due(checksumTotal') = 0
      BY <1>1, <2>10 DEF Due
    <3>2. Credit(h, j) \in Int /\ Credit(h, j + 1) \in Int
      BY <2>1, <2>2, HistoryNumbers
    <3>3. PICK a, b, v, u : /\ a = Credit(h, j) /\ b = Credit(h, j + 1) /\ v = Len(taken')
                            /\ u = Due(r)
      OBVIOUS
    <3>4. CASE Total = 255
      <4>1. a \in Int /\ b \in Int /\ v = t + 1 /\ a + t >= 0 /\ b >= a - 1
        BY <1>4, <1>5, <2>9, <2>11, <3>1, <3>2, <3>3, <3>4, Zenon
      <4>2. b + v >= 0
        BY <4>1, SMT
      <4> QED
        BY <3>1, <3>3, <4>2, Zenon
    <3>5. CASE Total # 255
      <4>1. a \in Int /\ b \in Int /\ v = t /\ a + t >= 1 /\ b >= a - 1
        BY <1>4, <1>5, <2>9, <2>11, <3>1, <3>2, <3>3, <3>5, Zenon
      <4>2. b + v >= 0
        BY <4>1, SMT
      <4> QED
        BY <3>1, <3>3, <4>2, Zenon
    <3> QED
      BY <3>4, <3>5
  <2>13. lost = 0 => InOrder(j + 1)'
    <3>1. SUFFICES ASSUME lost = 0 PROVE InOrder(j + 1)'
      OBVIOUS
    <3>2. InOrder(j) /\ j \in Nat /\ j + 1 \in Nat /\ j <= j + 1
      <4>1. j \in Nat /\ j + 1 \in Nat /\ j <= j + 1
        BY <2>1, <2>2, SMT
      <4> QED
        BY <3>1, <4>1 DEF Placed
    <3>3. CASE Total = 255
      BY <1>1, <1>2, <2>3, <2>8, <3>2, <3>3, InOrderTaken
    <3>4. CASE Total # 255
      <4>1. InOrder(j + 1)
        BY <3>2, InOrderLater
      <4> QED
        BY <1>1, <1>2, <3>4, <4>1 DEF InOrder
    <3> QED
      BY <3>3, <3>4
  <2> QED
    BY <1>1, <1>3, <1>9, <2>12, <2>13, ExactEnds
<1> QED
  BY <1>1, <1>8, <1>9, NotSkipping

(* At first nothing was sent. *)
LEMMA FramingInit == ASSUME Init PROVE FramingInv
<1>1. TypeOK
  BY TypeInit
<1>2. PICK z : z = [i \in 0..0 |-> 0]
  OBVIOUS
<1>3. z \in [0..0 -> Nat] /\ z[0] = 0
  BY <1>2, SMT
<1>4. PICK h : h = [t |-> z, end |-> z, cum |-> z, big |-> z]
  OBVIOUS
<1>5. h.end = z /\ h.cum = z /\ h.big = z
  BY <1>4
<1>6. /\ line = <<>> /\ log = <<>> /\ serial = <<>> /\ lost = 0 /\ taken = <<>>
      /\ checksumTotal = 0
  BY DEF Init
<1>7. Len(log) = 0 /\ Len(line) = 0 /\ Len(serial) = 0 /\ Len(taken) = 0
  BY <1>6
<1>8. History(h, log, lost)
  <2>1. \A i \in 1..0 : FALSE
    BY SMT
  <2> QED
    BY <1>3, <1>5, <1>6, <1>7, <2>1 DEF History
<1>9. Stream(h, 0, 0, serial, line)
  <2>1. 0 \in Nat /\ 0 + 0 + 0 = 0 /\ \A i \in 1..0 : FALSE
    BY SMT
  <2> QED
    BY <1>3, <1>5, <1>6, <1>7, <2>1 DEF Stream
<1>10. Line(h, 0) /\ 0 \in 0..Len(log)
  <2>1. 0 \in 0..0
    BY SMT
  <2> QED
    BY <1>7, <1>8, <1>9, <2>1 DEF Line
<1>11. Ahead(h, 0, 0)
  <2>1. \A i \in (0 + 1)..0 : FALSE
    BY SMT
  <2> QED
    BY <1>3, <1>5, <2>1 DEF Ahead
<1>12. Credit(h, 0) + Len(taken) >= Due(checksumTotal)
  <2>1. Credit(h, 0) = 0
    <3>1. 3 * 0 + 2 * 0 - 0 = 0
      BY SMT
    <3> QED
      BY <1>3, <1>5, <3>1, Zenon DEF Credit
  <2>2. Due(checksumTotal) = 0
    BY <1>6 DEF Due
  <2>3. 0 + 0 >= 0
    BY SMT
  <2> QED
    BY <1>7, <2>1, <2>2, <2>3
<1>13. Skip(h, 0, 0)
  <2>1. Reset
    BY DEF Init, Reset
  <2> QED
    BY <1>11, <1>12, <2>1 DEF Skip
<1>14. InOrder(0)
  <2>1. DOMAIN taken = {}
    BY <1>6
  <2>2. PICK index : index = [i \in {} |-> 0]
    OBVIOUS
  <2>3. index \in [{} -> 1..0]
    BY <2>2
  <2> QED
    BY <2>1, <2>3 DEF InOrder
<1>15. Followed(h, 0, 0)
  BY <1>10, <1>13, <1>14 DEF Followed, Mode
<1> QED
  BY <1>1, <1>15 DEF FramingInv

(* Every step of the radio, the serial port and the parser. *)
LEMMA FramingStep == ASSUME FramingInv, [Next]_vars PROVE FramingInv'
<1>1. TypeOK /\ TypeOK'
  BY TypeStep DEF FramingInv
<1>2. PICK h, off, j : Followed(h, off, j)
  BY DEF FramingInv
<1>3. PICK k : Placed(h, off, k)
  BY <1>1, <1>2, FollowedPlaced
<1>4. ASSUME NEW f \in Frames, StartFrame(f) PROVE \E g, o, i : Followed(g, o, i)'
  BY <1>1, <1>2, <1>4, StartFrameFollowed
<1>5. ASSUME Arrive PROVE \E g, o, i : Followed(g, o, i)'
  BY <1>1, <1>2, <1>5, ArriveFollowed
<1>6. ASSUME Overrun PROVE \E g, o, i : Followed(g, o, i)'
  BY <1>1, <1>2, <1>6, OverrunFollowed
<1>7. ASSUME CallReadPacket PROVE \E g, o, i : Followed(g, o, i)'
  BY <1>1, <1>2, <1>7, CallFollowed
<1>8. ASSUME NothingAvailable PROVE \E g, o, i : Followed(g, o, i)'
  <2>1. ParserIdle /\ UNCHANGED <<line, log, serial, lost>>
    BY <1>8 DEF NothingAvailable, ParserIdle
  <2> QED
    BY <1>2, <2>1, IdleFollowed
<1>9. ASSUME UnexpectedStart PROVE \E g, o, i : Followed(g, o, i)'
  BY <1>1, <1>3, <1>9, UnexpectedFollowed
<1>10. ASSUME EscapeAlone PROVE \E g, o, i : Followed(g, o, i)'
  BY <1>1, <1>3, <1>10, EscapeFollowed
<1>11. ASSUME StartByte PROVE \E g, o, i : Followed(g, o, i)'
  BY <1>1, <1>3, <1>11, StartFollowed
<1>12. ASSUME HeaderByte PROVE \E g, o, i : Followed(g, o, i)'
  BY <1>1, <1>3, <1>12, HeaderFollowed
<1>13. ASSUME PacketExceeds PROVE \E g, o, i : Followed(g, o, i)'
  BY <1>1, <1>3, <1>13, ExceedsFollowed
<1>14. ASSUME DataByte PROVE \E g, o, i : Followed(g, o, i)'
  BY <1>1, <1>3, <1>14, DataFollowed
<1>15. ASSUME ChecksumByte PROVE \E g, o, i : Followed(g, o, i)'
  BY <1>1, <1>3, <1>15, ChecksumFollowed
<1>16. ASSUME UNCHANGED vars PROVE \E g, o, i : Followed(g, o, i)'
  <2>1. ParserIdle /\ UNCHANGED <<line, log, serial, lost>>
    BY <1>16 DEF vars, ParserIdle, Stopped
  <2> QED
    BY <1>2, <2>1, IdleFollowed
<1>17. \E g, o, i : Followed(g, o, i)'
  BY <1>4, <1>5, <1>6, <1>7, <1>8, <1>9, <1>10, <1>11, <1>12, <1>13, <1>14, <1>15, <1>16
     DEF Next, readPacket
<1> QED
  BY <1>1, <1>17 DEF FramingInv

(* The history counts the frames that are too long. *)
LEMMA OversizeCounted ==
    ASSUME NEW h, NEW lg \in Seq(Frames), NEW lst, History(h, lg, lst)
    PROVE  Cardinality({i \in DOMAIN lg : ~ Fits(lg[i])}) = h.big[Len(lg)]
<1>1. PICK n \in Nat : n = Len(lg)
  BY LenProperties
<1> DEFINE B(k) == {i \in 1..k : ~ Fits(lg[i])}
           K == {k \in Nat : k <= n => IsFiniteSet(B(k)) /\ Cardinality(B(k)) = h.big[k]}
<1>2. 0 \in K
  <2>1. B(0) = {}
    BY SMT
  <2>2. IsFiniteSet(B(0)) /\ Cardinality(B(0)) = 0
    BY <2>1, FS_EmptySet
  <2>3. h.big[0] = 0
    BY DEF History
  <2> QED
    BY <2>2, <2>3
<1>3. ASSUME NEW k \in K PROVE k + 1 \in K
  <2>1. k \in Nat /\ k + 1 \in Nat
    BY SMT
  <2>2. SUFFICES ASSUME k + 1 <= n
                 PROVE  IsFiniteSet(B(k + 1)) /\ Cardinality(B(k + 1)) = h.big[k + 1]
    BY <2>1
  <2>3. k <= n /\ k \in 0..n /\ k + 1 \in 1..n /\ (k + 1) - 1 = k
    BY <2>1, <2>2, SMT
  <2>4. IsFiniteSet(B(k)) /\ Cardinality(B(k)) = h.big[k]
    BY <2>3
  <2>5. h.big[k + 1] = h.big[k] + Bigger(lg[k + 1])
    BY <1>1, <2>3 DEF History, Kept
  <2>6. h.big[k] \in Nat
    BY <1>1, <2>3, HistoryNumbers
  <2>7. k + 1 \notin B(k)
    BY <2>1, SMT
  <2>8. \A i : i \in 1..(k + 1) <=> i \in 1..k \/ i = k + 1
    BY <2>1, SMT
  <2>9. CASE Fits(lg[k + 1])
    <3>1. B(k + 1) = B(k)
      BY <2>8, <2>9
    <3>2. h.big[k] + 0 = h.big[k]
      BY <2>6, SMT
    <3> QED
      BY <2>4, <2>5, <2>9, <3>1, <3>2 DEF Bigger
  <2>10. CASE ~ Fits(lg[k + 1])
    <3>1. B(k + 1) = B(k) \cup {k + 1}
      BY <2>8, <2>10
    <3>2. IsFiniteSet(B(k) \cup {k + 1}) /\ Cardinality(B(k) \cup {k + 1}) = Cardinality(B(k)) + 1
      BY <2>4, <2>7, FS_AddElement
    <3> QED
      BY <2>4, <2>5, <2>10, <3>1, <3>2 DEF Bigger
  <2> QED
    BY <2>9, <2>10
<1>4. K = Nat
  <2>1. K \subseteq Nat
    OBVIOUS
  <2> HIDE DEF K
  <2> QED
    BY <1>2, <1>3, <2>1, NatSetInduction
<1>5. Cardinality(B(n)) = h.big[n]
  <2>1. n <= n
    BY SMT
  <2> QED
    BY <1>4, <2>1
<1>6. DOMAIN lg = 1..n
  BY <1>1, LenProperties
<1> QED
  BY <1>1, <1>5, <1>6

(* A byte that the parser waits for is still to come: with everything read,  *)
(* it is not inside a frame that came whole.                                 *)
LEMMA ExactIsBehind ==
    ASSUME TypeOK, NEW h, NEW off, NEW j, Placed(h, off, j), Exact(h, off, j), Ready(h, j)
    PROVE  off < h.end[Len(log)]
<1>1. PICK n \in Nat : n = Len(log)
  BY LineNumbers DEF Placed
<1>2. /\ Line(h, off) /\ j \in 0..n /\ log \in Seq(Frames) /\ History(h, log, lost)
      /\ Going /\ j # n /\ Intact(h, j, log[j + 1]) /\ Parsed(log[j + 1])
      /\ off \in Nat /\ n \in 0..n
  BY <1>1, LineNumbers DEF Placed, Exact
<1>3. PICK c : Within(h, off, j, log[j + 1], c)
  BY DEF Exact
<1>4. c[pos] \in Nat /\ h.end[j] + c[pos] <= h.end[j + 1]
  BY <1>1, <1>2, <1>3, ExactBytes
<1>5. PICK f : f = log[j + 1]
  OBVIOUS
<1>6. j + 1 \in 0..n /\ Len(f.data) \in Nat /\ Len(Body(f)) = Len(f.data) + 4
  BY <1>1, <1>2, <1>5, ExactFrame
<1>7. h.end[j + 1] <= h.end[n]
  <2>1. n \in (j + 1)..n
    BY <1>6, SMT
  <2> QED
    BY <1>1, <1>2, <1>6, <2>1, LaterFrames
<1>8. c[pos - 1] \in Nat /\ c[pos - 1] < c[pos]
  <2>1. pos \in 1..Len(Body(f))
    <3>1. pos \in Nat /\ pos >= 1 /\ pos <= Len(f.data) + 4
      BY <1>2, <1>5, SMT DEF Going, Parsed, TypeOK
    <3> QED
      BY <1>6, <3>1, SMT
  <2> QED
    BY <1>3, <1>5, <2>1, Zenon DEF Within, Walk
<1>9. PICK a, b, d, e, v, w : /\ a = h.end[j] /\ b = c[pos - 1] /\ d = c[pos] /\ e = h.end[j + 1]
                              /\ v = h.end[n] /\ w = IF escape THEN 1 ELSE 0
  OBVIOUS
<1>10. off = a + b + w
  BY <1>3, <1>9, Zenon DEF Within
<1>11. w \in {0, 1} /\ (w = 1 => d = b + 2)
  <2>1. escape => d = b + 2
    BY <1>3, <1>9, Zenon DEF Within
  <2>2. CASE escape
    BY <1>9, <2>1, <2>2
  <2>3. CASE ~ escape
    BY <1>9, <2>3
  <2> QED
    BY <2>2, <2>3
<1>12. /\ a \in Nat /\ e \in Nat /\ v \in Nat /\ b \in Nat /\ d \in Nat
       /\ b < d /\ a + d <= e /\ e <= v
  <2>1. a \in Nat /\ e \in Nat /\ v \in Nat
    BY <1>1, <1>2, <1>6, <1>9, HistoryNumbers
  <2> QED
    BY <1>4, <1>7, <1>8, <1>9, <2>1, Zenon
<1>13. off < v
  BY <1>10, <1>11, <1>12, SMT
<1> QED
  BY <1>1, <1>9, <1>13, Zenon

(* With everything read, the frames that were not taken are paid for. *)
LEMMA QuietCredit ==
    ASSUME TypeOK, NEW h, NEW off, NEW j, Placed(h, off, j), Quiet
    PROVE  Credit(h, Len(log)) + Len(taken) >= 0
<1>1. PICK n \in Nat : n = Len(log)
  BY LineNumbers DEF Placed
<1>2. /\ Line(h, off) /\ j \in 0..n /\ log \in Seq(Frames) /\ History(h, log, lost)
      /\ off \in Nat /\ n \in 0..n /\ n \in j..n
  <2>1. Line(h, off) /\ j \in 0..n
    BY <1>1 DEF Placed
  <2>2. n \in j..n /\ n \in 0..n
    BY <2>1, SMT
  <2> QED
    BY <1>1, <2>1, <2>2, LineNumbers
<1>3. h.end[j] \in Nat /\ h.end[n] \in Nat /\ Credit(h, j) \in Int /\ Credit(h, n) \in Int
  BY <1>1, <1>2, HistoryNumbers
<1>4. off = h.end[n]
  <2>1. off + Len(serial) + Len(line) = h.end[n]
    BY <1>1, <1>2 DEF Line, Stream
  <2>2. Len(serial) = 0 /\ Len(line) = 0
    BY DEF Quiet
  <2>3. PICK e : e = h.end[n]
    OBVIOUS
  <2>4. off + 0 + 0 = e
    BY <2>1, <2>2, <2>3
  <2>5. off = e
    BY <1>2, <2>4, SMT
  <2> QED
    BY <2>3, <2>5
<1>5. h.end[j] <= h.end[n] /\ (h.end[j] = h.end[n] => Credit(h, n) >= Credit(h, j))
  BY <1>1, <1>2, LaterFrames
<1>6. PICK d, e : d = h.end[j] /\ e = h.end[n]
  OBVIOUS
<1>7. d \in Nat /\ e \in Nat /\ d <= e /\ off = e
  BY <1>3, <1>4, <1>5, <1>6, Zenon
<1>8. ~ (Exact(h, off, j) /\ Ready(h, j))
  <2> SUFFICES ASSUME Exact(h, off, j), Ready(h, j) PROVE FALSE
    OBVIOUS
  <2>1. off < e
    BY <1>1, <1>6, ExactIsBehind
  <2> QED
    BY <1>7, <2>1, SMT
<1>9. ~ Cut(h, off, j)
  <2> SUFFICES ASSUME Cut(h, off, j) PROVE FALSE
    OBVIOUS
  <2>1. off + 1 = d
    BY <1>6 DEF Cut
  <2> QED
    BY <1>7, <2>1, SMT
<1>10. Len(taken) \in Nat
  BY LenProperties DEF TypeOK
<1>11. Ahead(h, off, j) /\ Credit(h, j) + Len(taken) >= 0
  <2>1. CASE Skip(h, off, j)
    <3>1. Ahead(h, off, j) /\ Credit(h, j) + Len(taken) >= Due(checksumTotal)
      BY <2>1 DEF Skip
    <3>2. Due(checksumTotal) \in {0, 1}
      BY DEF Due
    <3>3. PICK a, t, u : a = Credit(h, j) /\ t = Len(taken) /\ u = Due(checksumTotal)
      OBVIOUS
    <3>4. a \in Int /\ t \in Nat /\ u \in {0, 1} /\ a + t >= u
      BY <1>3, <1>10, <3>1, <3>2, <3>3, Zenon
    <3>5. a + t >= 0
      BY <3>4, SMT
    <3> QED
      BY <3>1, <3>3, <3>5, Zenon
  <2>2. CASE Garbage(h, off, j)
    <3>1. Ahead(h, off, j) /\ Worth(h, off, j) + Len(taken) >= 2
      BY <2>2 DEF Garbage
    <3>2. Worth(h, off, j) \in Int /\ Worth(h, off, j) <= Credit(h, j)
      BY <1>1, <1>2, WorthType
    <3>3. PICK a, b, t : a = Credit(h, j) /\ b = Worth(h, off, j) /\ t = Len(taken)
      OBVIOUS
    <3>4. a \in Int /\ b \in Int /\ t \in Nat /\ b <= a /\ b + t >= 2
      BY <1>3, <1>10, <3>1, <3>2, <3>3, Zenon
    <3>5. a + t >= 0
      BY <3>4, SMT
    <3> QED
      BY <3>1, <3>3, <3>5, Zenon
  <2> QED
    BY <1>8, <1>9, <2>1, <2>2 DEF Placed
<1>12. Credit(h, n) >= Credit(h, j)
  <2>1. off <= d
    BY <1>6, <1>11 DEF Ahead
  <2>2. d = e
    BY <1>7, <2>1, SMT
  <2> QED
    BY <1>5, <1>6, <2>2
<1>13. PICK a, b, t : a = Credit(h, j) /\ b = Credit(h, n) /\ t = Len(taken)
  OBVIOUS
<1>14. a \in Int /\ b \in Int /\ t \in Nat /\ b >= a /\ a + t >= 0
  BY <1>3, <1>10, <1>11, <1>12, <1>13, Zenon
<1>15. b + t >= 0
  BY <1>14, SMT
<1> QED
  BY <1>1, <1>13, <1>15, Zenon

(* The credit bounds what was missed. *)
LEMMA FramingBounded == ASSUME FramingInv PROVE LossIsBounded
<1> SUFFICES ASSUME Quiet PROVE Missed <= 3 * lost + 2 * Oversize
  BY DEF LossIsBounded
<1>1. TypeOK
  BY DEF FramingInv
<1>2. PICK h, off, j : Placed(h, off, j)
  BY <1>1, FollowedPlaced DEF FramingInv
<1>3. PICK n \in Nat : n = Len(log)
  BY <1>1, <1>2, LineNumbers DEF Placed
<1>4. /\ log \in Seq(Frames) /\ History(h, log, lost) /\ n \in 0..n
  BY <1>1, <1>2, <1>3, LineNumbers DEF Placed
<1>5. Credit(h, n) + Len(taken) >= 0
  BY <1>1, <1>2, <1>3, QuietCredit
<1>6. h.cum[n] = lost /\ h.big[n] = Oversize
  BY <1>3, <1>4, OversizeCounted DEF History, Oversize
<1>7. PICK a \in Nat, b \in Nat : a = h.cum[n] /\ b = h.big[n]
  BY <1>3, <1>4, HistoryNumbers
<1>8. PICK t \in Nat : t = Len(taken)
  BY <1>1, LenProperties DEF TypeOK
<1>9. Credit(h, n) = 3 * a + 2 * b - n
  BY <1>7, Zenon DEF Credit
<1>10. n - t <= 3 * a + 2 * b
  <2>1. PICK x : x = Credit(h, n)
    OBVIOUS
  <2>2. x = 3 * a + 2 * b - n /\ x + t >= 0
    BY <1>5, <1>8, <1>9, <2>1, Zenon
  <2>3. a \in Nat /\ b \in Nat /\ n \in Nat /\ t \in Nat
    BY <1>3, <1>7, <1>8
  <2> QED
    BY <2>2, <2>3, SMT
<1> QED
  BY <1>3, <1>6, <1>7, <1>8, <1>10, Zenon DEF Missed

(* Without a loss, what was taken is among the frames, in order. *)
LEMMA FramingInOrder == ASSUME FramingInv PROVE lost = 0 => DeliveredInOrder
<1> SUFFICES ASSUME lost = 0 PROVE DeliveredInOrder
  OBVIOUS
<1>1. TypeOK
  BY DEF FramingInv
<1>2. PICK h, off, j : Followed(h, off, j)
  BY DEF FramingInv
<1>3. PICK n \in Nat : n = Len(log)
  BY <1>1, LenProperties DEF TypeOK
<1>4. j \in 0..n /\ InOrder(j)
  BY <1>2, <1>3 DEF Followed
<1>5. DOMAIN log = 1..n
  BY <1>1, <1>3, LenProperties DEF TypeOK
<1>6. \A i \in 1..j : i \in 1..n
  BY <1>4, SMT
<1>7. PICK D : D = DOMAIN taken
  OBVIOUS
<1>8. PICK index \in [D -> 1..j] :
          /\ \A i \in D : taken[i] = log[index[i]]
          /\ \A i, k \in D : i < k => index[i] < index[k]
  BY <1>4, <1>7, Zenon DEF InOrder
<1>9. index \in [D -> DOMAIN log]
  BY <1>5, <1>6, <1>8
<1> QED
  BY <1>7, <1>8, <1>9, Zenon DEF DeliveredInOrder

(* When everything sent was read, however many bytes were lost, the frames   *)
(* the caller missed are no more than three for every lost byte and two for  *)
(* every frame too long.                                                     *)
THEOREM BoundedLoss == Spec => []LossIsBounded
<1>1. Init => FramingInv
  BY FramingInit
<1>2. FramingInv /\ [Next]_vars => FramingInv'
  BY FramingStep
<1>3. FramingInv => LossIsBounded
  BY FramingBounded
<1> QED
  BY <1>1, <1>2, <1>3, PTL DEF Spec

(* As long as no byte is lost, the caller is given frames of the radio, each *)
(* once at most and in the order they were sent.                             *)
THEOREM InOrderUnlessLost == Spec => [](lost = 0 => DeliveredInOrder)
<1>1. Init => FramingInv
  BY FramingInit
<1>2. FramingInv /\ [Next]_vars => FramingInv'
  BY FramingStep
<1>3. FramingInv => (lost = 0 => DeliveredInOrder)
  BY FramingInOrder
<1> QED
  BY <1>1, <1>2, <1>3, PTL DEF Spec

=============================================================================
