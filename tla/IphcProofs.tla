----------------------------- MODULE IphcProofs -----------------------------
(* What uncompress_hdr_hc06() reads is what compress_hdr_hc06() wrote, for   *)
(* every packet, address, port and context; and how long a compressed header *)
(* can be.                                                                   *)
EXTENDS Iphc, Induction, SequenceTheorems

-----------------------------------------------------------------------------
(* Rows of inline fields.                                                    *)

(* The row x is the field r and then the row y.                              *)
IsRow(x, r, y) ==
    /\ Head(x) = r /\ Tail(x) = y /\ x[1] = r /\ From(x, 2) = y
    /\ Len(y) >= 1 => x[2] = y[1] /\ From(x, 3) = From(y, 2)
    /\ Len(y) >= 2 => x[3] = y[2] /\ From(x, 4) = From(y, 3)

(* A row that starts with a field is read field by field: the indices behind *)
(* it are those of the rest, one further.                                    *)
LEMMA RowStart ==
    ASSUME NEW S, NEW r \in S, NEW y \in Seq(S)
    PROVE  <<r>> \o y \in Seq(S) /\ Len(<<r>> \o y) = Len(y) + 1 /\ IsRow(<<r>> \o y, r, y)
<1> DEFINE x == <<r>> \o y
<1>1. <<r>> \in Seq(S) /\ Len(<<r>>) = 1
  OBVIOUS
<1>2. /\ x \in Seq(S) /\ Len(x) = Len(y) + 1 /\ x[1] = r
      /\ \A i \in 1..Len(y) : x[i + 1] = y[i]
      /\ Len(y) \in Nat
  BY <1>1, ConcatProperties, LenProperties
<1>3. Tail(x) = y
  <2>1. Tail(x) \in Seq(S) /\ Len(Tail(x)) = Len(y) /\ \A i \in 1..Len(y) : Tail(x)[i] = x[i + 1]
    BY <1>2, HeadTailProperties, EmptySeq
  <2> QED
    BY <1>2, <2>1, SeqEqual
<1>4. From(x, 2) = Tail(x)
  BY <1>2, TailIsSubSeq, EmptySeq DEF From
<1>5. Head(x) = x[1]
  BY <1>2
<1>6. ASSUME NEW i \in 1..Len(y) PROVE From(x, i + 2) = From(y, i + 1)
  <2> HIDE DEF x
  <2>1. y = SubSeq(x, 2, Len(x))
    BY <1>3, <1>4 DEF From
  <2>2. CASE i = Len(y)
    BY <2>2, <1>2, SubSeqEmpty DEF From
  <2>3. CASE i # Len(y)
    <3>1. SubSeq(SubSeq(x, 2, Len(x)), i + 1, Len(y)) = SubSeq(x, 2 + (i + 1) - 1, 2 + Len(y) - 1)
      BY <2>3, <1>2, SubSeqOfSubSeq
    <3> QED
      BY <2>1, <3>1, <1>2 DEF From
  <2> QED
    BY <2>2, <2>3
<1> HIDE DEF x
<1>7. Len(y) >= 1 => x[2] = y[1] /\ From(x, 3) = From(y, 2)
  <2> SUFFICES ASSUME Len(y) >= 1 PROVE x[1 + 1] = y[1] /\ From(x, 1 + 2) = From(y, 1 + 1)
    OBVIOUS
  <2> QED
    BY <1>2, <1>6
<1>8. Len(y) >= 2 => x[3] = y[2] /\ From(x, 4) = From(y, 3)
  <2> SUFFICES ASSUME Len(y) >= 2 PROVE x[2 + 1] = y[2] /\ From(x, 2 + 2) = From(y, 2 + 1)
    OBVIOUS
  <2> QED
    BY <1>2, <1>6
<1>9. IsRow(x, r, y)
  BY <1>2, <1>3, <1>4, <1>5, <1>7, <1>8 DEF IsRow
<1> QED
  BY <1>2, <1>9 DEF x

(* The row x is the fields r and q (r, q and s), and then the row y.         *)
IsRow2(x, r, q, y) ==
    /\ Head(x) = r /\ x[1] = r /\ x[2] = q
    /\ From(x, 2) = <<q>> \o y /\ From(x, 3) = y
IsRow3(x, r, q, s, y) ==
    /\ Head(x) = r /\ x[1] = r /\ x[2] = q /\ x[3] = s
    /\ From(x, 2) = (<<q>> \o <<s>>) \o y /\ From(x, 4) = y

(* A row that starts with two fields, and                                    *)
LEMMA TwoFields ==
    ASSUME NEW S, NEW r \in S, NEW q \in S, NEW y \in Seq(S)
    PROVE  /\ (<<r>> \o <<q>>) \o y \in Seq(S)
           /\ Len((<<r>> \o <<q>>) \o y) = Len(y) + 2
           /\ IsRow2((<<r>> \o <<q>>) \o y, r, q, y)
<1>1. (<<r>> \o <<q>>) \o y = <<r>> \o (<<q>> \o y)
  BY ConcatAssociative
<1>2. PICK z : z = <<q>> \o y
  OBVIOUS
<1>3. z \in Seq(S) /\ Len(z) = Len(y) + 1 /\ Len(y) \in Nat /\ IsRow(z, q, y)
  BY <1>2, RowStart, LenProperties
<1>4. PICK x : x = <<r>> \o z
  OBVIOUS
<1>5. x \in Seq(S) /\ Len(x) = Len(z) + 1 /\ IsRow(x, r, z)
  BY <1>3, <1>4, RowStart
<1>6. Head(x) = r /\ x[1] = r /\ From(x, 2) = z
  BY <1>5 DEF IsRow
<1>7. x[2] = z[1] /\ From(x, 3) = From(z, 2)
  BY <1>3, <1>5 DEF IsRow
<1>8. z[1] = q /\ From(z, 2) = y
  BY <1>3 DEF IsRow
<1>9. IsRow2(x, r, q, y)
  BY <1>2, <1>6, <1>7, <1>8, Zenon DEF IsRow2
<1>10. (<<r>> \o <<q>>) \o y = x /\ Len(x) = Len(y) + 2
  BY <1>1, <1>2, <1>3, <1>4, <1>5
<1> QED
  BY <1>5, <1>9, <1>10, Zenon

(* a row that starts with three.                                             *)
LEMMA ThreeFields ==
    ASSUME NEW S, NEW r \in S, NEW q \in S, NEW s \in S, NEW y \in Seq(S)
    PROVE  IsRow3((<<r>> \o <<q>> \o <<s>>) \o y, r, q, s, y)
<1>1. (<<r>> \o <<q>> \o <<s>>) \o y = <<r>> \o ((<<q>> \o <<s>>) \o y)
  <2>1. <<r>> \in Seq(S) /\ <<q>> \in Seq(S) /\ <<s>> \in Seq(S) /\ <<q>> \o <<s>> \in Seq(S)
    BY ConcatProperties
  <2>2. (<<r>> \o <<q>>) \o <<s>> = <<r>> \o (<<q>> \o <<s>>)
    BY <2>1, ConcatAssociative
  <2>3. (<<r>> \o (<<q>> \o <<s>>)) \o y = <<r>> \o ((<<q>> \o <<s>>) \o y)
    BY <2>1, ConcatAssociative
  <2> QED
    BY <2>2, <2>3
<1>2. PICK z : z = (<<q>> \o <<s>>) \o y
  OBVIOUS
<1>3. z \in Seq(S) /\ Len(z) = Len(y) + 2 /\ Len(y) \in Nat /\ IsRow2(z, q, s, y)
  BY <1>2, TwoFields, LenProperties, ZenonT(60)
<1>4. PICK x : x = <<r>> \o z
  OBVIOUS
<1>5. IsRow(x, r, z)
  BY <1>3, <1>4, RowStart
<1>6. Head(x) = r /\ x[1] = r /\ From(x, 2) = z
  BY <1>5 DEF IsRow
<1>7. x[2] = z[1] /\ x[3] = z[2] /\ From(x, 4) = From(z, 3)
  BY <1>3, <1>5 DEF IsRow
<1>8. z[1] = q /\ z[2] = s /\ From(z, 3) = y
  BY <1>3 DEF IsRow2
<1>9. IsRow3(x, r, q, s, y)
  BY <1>2, <1>6, <1>7, <1>8 DEF IsRow3
<1> QED
  BY <1>1, <1>2, <1>4, <1>9

(* The row x, the fields h and the row y in either order of putting together.*)
Shift(x, h, y) == (x \o h) \o y = x \o (h \o y)

(* Concatenation of rows is associative and gives rows.                      *)
LEMMA Shifted ==
    ASSUME NEW S, NEW x \in Seq(S), NEW h \in Seq(S), NEW y \in Seq(S)
    PROVE  Shift(x, h, y) /\ h \o y \in Seq(S) /\ x \o h \in Seq(S)
<1>1. (x \o h) \o y = x \o (h \o y)
  BY ConcatAssociative
<1>2. h \o y \in Seq(S) /\ x \o h \in Seq(S)
  BY ConcatProperties
<1> QED
  BY <1>1, <1>2 DEF Shift

(* Six rows in one, taken apart from the left.                               *)
Parts(Rows, t, n, h, s, d, u) ==
    \E y1, y2, y3, y4 \in Rows :
        /\ ((((t \o n) \o h) \o s) \o d) \o u = t \o y1
        /\ y1 = n \o y2 /\ y2 = h \o y3 /\ y3 = s \o y4 /\ y4 = d \o u

(* Such rows exist.                                                          *)
LEMMA SixRows ==
    ASSUME NEW S, NEW t \in Seq(S), NEW n \in Seq(S), NEW h \in Seq(S), NEW s \in Seq(S),
           NEW d \in Seq(S), NEW u \in Seq(S)
    PROVE  Parts(Seq(S), t, n, h, s, d, u)
<1>1. PICK x1 \in Seq(S) : x1 = t \o n
  BY Shifted
<1>2. PICK x2 \in Seq(S) : x2 = x1 \o h
  BY Shifted
<1>3. PICK x3 \in Seq(S) : x3 = x2 \o s
  BY Shifted
<1>4. PICK y4 \in Seq(S) : y4 = d \o u
  BY Shifted
<1>5. PICK y3 \in Seq(S) : y3 = s \o y4
  BY Shifted
<1>6. PICK y2 \in Seq(S) : y2 = h \o y3
  BY Shifted
<1>7. PICK y1 \in Seq(S) : y1 = n \o y2
  BY Shifted
<1>8. Shift(x3, d, u) /\ Shift(x2, s, y4) /\ Shift(x1, h, y3) /\ Shift(t, n, y2)
  BY Shifted
<1>9. ((((t \o n) \o h) \o s) \o d) \o u = t \o y1
  BY <1>1, <1>2, <1>3, <1>4, <1>5, <1>6, <1>7, <1>8, Zenon DEF Shift
<1> QED
  BY <1>4, <1>5, <1>6, <1>7, <1>9 DEF Parts

-----------------------------------------------------------------------------
(* Inline fields and their values: numbers, parts of addresses, the two      *)
(* addresses in full and the checksum.                                       *)

Values(p) == Nat \cup STRING \cup {p.src, p.dest, p.sum}
Fields(p) == [n : 0..16, v : Values(p)]

(* What Inline() writes is a row of one field.                               *)
LEMMA InlineType ==
    ASSUME NEW p, NEW n \in 0..16, NEW v \in Values(p)
    PROVE  [n |-> n, v |-> v] \in Fields(p) /\ Inline(n, v) \in Seq(Fields(p))
  BY DEF Fields, Inline

(* What a reader finds in a row that starts with the given values.           *)
Reads(x, v, y) == Head(x).v = v /\ x[1].v = v /\ Tail(x) = y /\ From(x, 2) = y
Reads2(x, v, w, y, z) ==
    /\ Head(x).v = v /\ x[1].v = v /\ x[2].v = w
    /\ From(x, 2) = z /\ From(x, 3) = y
Reads3(x, v, w, u, y, z) ==
    /\ Head(x).v = v /\ x[1].v = v /\ x[2].v = w /\ x[3].v = u
    /\ From(x, 2) = z /\ From(x, 4) = y

(* The reader of a row that one, two or three inline fields start finds      *)
(* their values and what is behind them.                                     *)
LEMMA ReadOne ==
    ASSUME NEW p, NEW n \in 0..16, NEW v \in Values(p), NEW y \in Seq(Fields(p))
    PROVE  Reads(Inline(n, v) \o y, v, y)
<1>1. PICK r : r = [n |-> n, v |-> v]
  OBVIOUS
<1>2. PICK x : x = <<r>> \o y
  OBVIOUS
<1>3. IsRow(x, r, y)
  BY <1>1, <1>2, InlineType, RowStart
<1>4. r.v = v
  BY <1>1
<1>5. Reads(x, v, y)
  BY <1>3, <1>4 DEF IsRow, Reads
<1> QED
  BY <1>1, <1>2, <1>5 DEF Inline

(* The same for two fields.                                                  *)
LEMMA ReadTwo ==
    ASSUME NEW p, NEW n \in 0..16, NEW v \in Values(p), NEW m \in 0..16, NEW w \in Values(p),
           NEW y \in Seq(Fields(p))
    PROVE  Reads2((Inline(n, v) \o Inline(m, w)) \o y, v, w, y, Inline(m, w) \o y)
<1>1. PICK r, q : r = [n |-> n, v |-> v] /\ q = [n |-> m, v |-> w]
  OBVIOUS
<1>2. PICK x : x = (<<r>> \o <<q>>) \o y
  OBVIOUS
<1>3. IsRow2(x, r, q, y)
  BY <1>1, <1>2, InlineType, TwoFields
<1>4. r.v = v /\ q.v = w
  BY <1>1
<1>5. Reads2(x, v, w, y, <<q>> \o y)
  BY <1>3, <1>4, Zenon DEF IsRow2, Reads2
<1> QED
  BY <1>1, <1>2, <1>5, Zenon DEF Inline

(* The same for three fields.                                                *)
LEMMA ReadThree ==
    ASSUME NEW p, NEW n \in 0..16, NEW v \in Values(p), NEW m \in 0..16, NEW w \in Values(p),
           NEW k \in 0..16, NEW u \in Values(p), NEW y \in Seq(Fields(p))
    PROVE  Reads3((Inline(n, v) \o Inline(m, w) \o Inline(k, u)) \o y, v, w, u, y,
                  (Inline(m, w) \o Inline(k, u)) \o y)
<1>1. PICK r, q, s : r = [n |-> n, v |-> v] /\ q = [n |-> m, v |-> w] /\ s = [n |-> k, v |-> u]
  OBVIOUS
<1>2. PICK x : x = (<<r>> \o <<q>> \o <<s>>) \o y
  OBVIOUS
<1>3. IsRow3(x, r, q, s, y)
  BY <1>1, <1>2, InlineType, ThreeFields
<1>4. r.v = v /\ q.v = w /\ s.v = u
  BY <1>1
<1>5. Reads3(x, v, w, u, y, (<<q>> \o <<s>>) \o y)
  BY <1>3, <1>4, Zenon DEF IsRow3, Reads3
<1> QED
  BY <1>1, <1>2, <1>5, Zenon DEF Inline

Pair(x, v, w) == x[1].v = v /\ x[2].v = w
Triple(x, v, w, u) == x[1].v = v /\ x[2].v = w /\ x[3].v = u

(* Two fields and no more are read as they were written, and                 *)
LEMMA ReadPair ==
    ASSUME NEW p, NEW n \in 0..16, NEW v \in Values(p), NEW m \in 0..16, NEW w \in Values(p)
    PROVE  Pair(Inline(n, v) \o Inline(m, w), v, w)
<1>1. Inline(n, v) \o Inline(m, w) \in Seq(Fields(p)) /\ <<>> \in Seq(Fields(p))
  BY InlineType, ConcatProperties, EmptySeq
<1>2. PICK x : x = Inline(n, v) \o Inline(m, w)
  OBVIOUS
<1>3. x = (Inline(n, v) \o Inline(m, w)) \o <<>>
  BY <1>1, <1>2, ConcatEmptySeq
<1>4. Reads2((Inline(n, v) \o Inline(m, w)) \o <<>>, v, w, <<>>, Inline(m, w) \o <<>>)
  BY <1>1, ReadTwo
<1>5. Reads2(x, v, w, <<>>, Inline(m, w) \o <<>>)
  BY <1>3, <1>4
<1>6. Pair(x, v, w)
  BY <1>5, Zenon DEF Reads2, Pair
<1> QED
  BY <1>2, <1>6

(* three fields and no more.                                                 *)
LEMMA ReadTriple ==
    ASSUME NEW p, NEW n \in 0..16, NEW v \in Values(p), NEW m \in 0..16, NEW w \in Values(p),
           NEW k \in 0..16, NEW u \in Values(p)
    PROVE  Triple((Inline(n, v) \o Inline(m, w)) \o Inline(k, u), v, w, u)
<1>1. Inline(n, v) \o Inline(m, w) \in Seq(Fields(p)) /\ <<>> \in Seq(Fields(p))
  BY InlineType, ConcatProperties, EmptySeq
<1>2. PICK x : x = (Inline(n, v) \o Inline(m, w)) \o Inline(k, u)
  OBVIOUS
<1>3. (Inline(n, v) \o Inline(m, w)) \o Inline(k, u) \in Seq(Fields(p))
  BY <1>1, InlineType, ConcatProperties
<1>4. x = (Inline(n, v) \o Inline(m, w) \o Inline(k, u)) \o <<>>
  BY <1>2, <1>3, ConcatEmptySeq
<1>5. Reads3((Inline(n, v) \o Inline(m, w) \o Inline(k, u)) \o <<>>, v, w, u, <<>>,
             (Inline(m, w) \o Inline(k, u)) \o <<>>)
  BY <1>1, ReadThree
<1>6. Reads3(x, v, w, u, <<>>, (Inline(m, w) \o Inline(k, u)) \o <<>>)
  BY <1>4, <1>5
<1>7. Triple(x, v, w, u)
  BY <1>6, Zenon DEF Reads3, Triple
<1> QED
  BY <1>2, <1>7

(* A byte is a number up to 255.                                             *)
LEMMA ByteIsNat == \A w \in Byte : w \in Nat /\ w \in 0..255
  BY DEF Byte

(* A word is a number up to 65535.                                           *)
LEMMA WordIsNat == \A w \in Word : w \in Nat /\ w <= 65535
  BY DEF Word

(* The types of what the compressor reads in a packet.                       *)
LEMMA PacketFields ==
    ASSUME NEW sum, NEW p \in Packet(sum)
    PROVE  /\ p.proto \in {UIP_PROTO_UDP, UIP_PROTO_ICMP6} /\ p.ttl \in 0..255
           /\ p.srcport \in Nat /\ p.srcport <= 65535
           /\ p.destport \in Nat /\ p.destport <= 65535
           /\ p.src \in Address /\ p.dest \in Address /\ p.sum = sum
<1>1. /\ p.proto \in {UIP_PROTO_UDP, UIP_PROTO_ICMP6} /\ p.ttl \in Byte
      /\ p.srcport \in Word /\ p.destport \in Word
      /\ p.src \in Address /\ p.dest \in Address /\ p.sum = sum
  BY DEF Packet
<1> QED
  BY <1>1, ByteIsNat, WordIsNat

(* The values that are written to the row are such that a field can have.    *)
LEMMA ValuesOf ==
    ASSUME NEW sum, NEW p \in Packet(sum)
    PROVE  /\ p.proto \in Values(p) /\ p.ttl \in Values(p)
           /\ p.srcport \in Values(p) /\ p.destport \in Values(p)
           /\ p.src \in Values(p) /\ p.dest \in Values(p) /\ p.sum \in Values(p)
           /\ p.src.mid \in Values(p) /\ p.src.iid \in Values(p)
           /\ p.dest.mid \in Values(p) /\ p.dest.iid \in Values(p)
<1>1. p.src.mid \in STRING /\ p.src.iid \in STRING /\ p.dest.mid \in STRING /\ p.dest.iid \in STRING
  BY PacketFields DEF Address
<1>2. p.proto \in Nat /\ p.ttl \in Nat /\ p.srcport \in Nat /\ p.destport \in Nat
  BY PacketFields DEF UIP_PROTO_UDP, UIP_PROTO_ICMP6
<1> QED
  BY <1>1, <1>2 DEF Values

(* The widths of all inline fields.                                          *)
LEMMA Widths == \A n \in {0, 1, 2, 3, 4, 5, 8, 16} : n \in 0..16
  OBVIOUS

-----------------------------------------------------------------------------
(* Arithmetic of the fields that are sent in another form: traffic class and *)
(* ports.                                                                    *)

(* What the four ways to read the traffic class give back.                   *)
ClassKept(vtc, tcflow, class, tmp) ==
    /\ class \in Nat /\ tmp \in Nat
    /\ 96 + ((tmp \div 4) % 16) = vtc
    /\ (tmp \div 64) * 16 + (tmp % 4) * 64 + (tcflow % 16) = tcflow
    /\ tcflow % 16 = 0 => (tmp % 4) * 64 + (tmp \div 64) * 16 = tcflow
    /\ class = 0 => /\ vtc = 96
                    /\ (tmp \div 64) * 64 + (tcflow % 16) = tcflow
                    /\ (tcflow % 16) + (tcflow \div 64) * 16 = tcflow
                    /\ tcflow % 16 = 0 => tcflow = 0

(* The rotation of the traffic class loses nothing.                          *)
LEMMA ClassBits ==
    ASSUME NEW vtc \in 96..111, NEW tcflow \in 0..255, NEW class, NEW tmp,
           class = (vtc % 16) * 16 + tcflow \div 16,
           tmp = (class % 4) * 64 + class \div 4
    PROVE  ClassKept(vtc, tcflow, class, tmp)
<1>0. /\ (tcflow \div 16) \in 0..15 /\ (tcflow % 16) \in 0..15
      /\ tcflow = 16 * (tcflow \div 16) + (tcflow % 16)
  BY SMT
<1>1. PICK q \in 0..15, r \in 0..15 : tcflow = 16 * q + r /\ q = tcflow \div 16 /\ r = tcflow % 16
  BY <1>0
<1>2. PICK s \in 0..15 : vtc = 96 + s /\ s = vtc % 16
  BY SMT
<1>3. PICK h \in 0..3, l \in 0..3 : q = 4 * h + l
  BY <1>1, SMT
<1>4. class = 16 * s + 4 * h + l
  BY <1>1, <1>2, <1>3
<1>5. class % 4 = l /\ class \div 4 = 4 * s + h
  BY <1>4, SMT
<1>6. tmp = 64 * l + 4 * s + h
  BY <1>5
<1>7. tmp \div 64 = l /\ tmp % 4 = h /\ tmp \div 4 = 16 * l + s
  BY <1>6, SMT
<1>8. (16 * l + s) % 16 = s
  BY SMT
<1>9. class \in Nat /\ tmp \in Nat
  BY <1>4, <1>6
<1>10. 96 + ((tmp \div 4) % 16) = vtc
  BY <1>2, <1>7, <1>8
<1>11. (tmp \div 64) * 16 + (tmp % 4) * 64 + (tcflow % 16) = tcflow
  BY <1>1, <1>3, <1>7
<1>12. tcflow % 16 = 0 => (tmp % 4) * 64 + (tmp \div 64) * 16 = tcflow
  BY <1>1, <1>3, <1>7
<1>13. ASSUME class = 0
       PROVE  /\ vtc = 96
              /\ (tmp \div 64) * 64 + (tcflow % 16) = tcflow
              /\ (tcflow % 16) + (tcflow \div 64) * 16 = tcflow
              /\ tcflow % 16 = 0 => tcflow = 0
  <2>1. s = 0 /\ h = 0 /\ l = 0 /\ q = 0
    BY <1>3, <1>4, <1>13
  <2>2. tcflow = r /\ r < 16 /\ tmp = 0
    BY <1>1, <1>6, <2>1
  <2>3. tcflow \div 64 = 0 /\ tmp \div 64 = 0
    BY <2>2, SMT
  <2> QED
    BY <1>1, <1>2, <2>1, <2>2, <2>3
<1> QED
  BY <1>9, <1>10, <1>11, <1>12, <1>13 DEF ClassKept

(* Ports of the 4-bit and of the 8-bit range are that range's start and what *)
(* is sent.                                                                  *)
LEMMA PortBits ==
    ASSUME NEW port \in Nat, port <= 65535
    PROVE  /\ In4(port) => port - SICSLOWPAN_UDP_4_BIT_PORT_MIN \in 0..15
           /\ In8(port) => port - SICSLOWPAN_UDP_8_BIT_PORT_MIN \in Nat
           /\ In4(port) => In8(port)
  BY SMT DEF In4, In8, SICSLOWPAN_UDP_4_BIT_PORT_MIN, SICSLOWPAN_UDP_8_BIT_PORT_MIN

(* The two ports of 4 bits that share a byte can be told apart.              *)
LEMMA TwoNibbles ==
    ASSUME NEW s \in 0..15, NEW d \in 0..15, NEW v, v = s * 16 + d
    PROVE  v \in Nat /\ v \div 16 = s /\ v % 16 = d
  BY SMT

-----------------------------------------------------------------------------
(* How long a compressed header is.                                          *)

(* f sums up the fields of x from the left; k is the sum of all.             *)
IsCount(f, x) == f = [i \in 0..Len(x) |-> IF i = 0 THEN 0 ELSE f[i - 1] + x[i].n]
HasBytes(x, k) == \E f : IsCount(f, x) /\ f[Len(x)] = k

(* Bytes() is defined by recursion; two solutions of it are the same.        *)
LEMMA CountUnique ==
    ASSUME NEW S, NEW x \in Seq(S), NEW f, IsCount(f, x), NEW g, IsCount(g, x)
    PROVE  f[Len(x)] = g[Len(x)]
<1>1. Len(x) \in Nat
  OBVIOUS
<1>2. /\ \A i \in 0..Len(x) : f[i] = IF i = 0 THEN 0 ELSE f[i - 1] + x[i].n
      /\ \A i \in 0..Len(x) : g[i] = IF i = 0 THEN 0 ELSE g[i - 1] + x[i].n
  BY DEF IsCount
<1>3. PICK K : K = {k \in Nat : k <= Len(x) => f[k] = g[k]}
  OBVIOUS
<1>4. K \in SUBSET Nat /\ 0 \in K
  BY <1>1, <1>2, <1>3
<1>5. ASSUME NEW k \in K PROVE k + 1 \in K
  <2>1. k \in Nat /\ (k <= Len(x) => f[k] = g[k])
    BY <1>3
  <2> SUFFICES ASSUME k + 1 <= Len(x) PROVE f[k + 1] = g[k + 1]
    BY <1>3, <2>1
  <2>2. k + 1 \in 0..Len(x) /\ k + 1 # 0 /\ (k + 1) - 1 = k /\ k <= Len(x)
    BY <1>1, <2>1
  <2>3. f[k + 1] = f[k] + x[k + 1].n
    BY <1>2, <2>2
  <2>4. g[k + 1] = g[k] + x[k + 1].n
    BY <1>2, <2>2
  <2> QED
    BY <2>1, <2>2, <2>3, <2>4
<1>6. K = Nat
  BY <1>4, <1>5, NatSetInduction
<1> QED
  BY <1>1, <1>3, <1>6

(* Bytes() is what counting gives.                                           *)
LEMMA BytesAre ==
    ASSUME NEW S, NEW x \in Seq(S), NEW k, HasBytes(x, k)
    PROVE  Bytes(x) = k
<1>1. PICK f : IsCount(f, x) /\ f[Len(x)] = k
  BY DEF HasBytes
<1>2. PICK g : g = CHOOSE h : IsCount(h, x)
  OBVIOUS
<1>3. IsCount(g, x)
  BY <1>1, <1>2
<1>4. Bytes(x) = g[Len(x)]
  BY <1>2 DEF Bytes, IsCount
<1> QED
  BY <1>1, <1>3, <1>4, CountUnique

(* An empty row has no bytes.                                                *)
LEMMA NoBytes == HasBytes(<<>>, 0)
<1>1. PICK f : f = [i \in 0..Len(<<>>) |-> 0]
  OBVIOUS
<1>2. Len(<<>>) = 0 /\ f[0] = 0
  BY <1>1
<1>3. f = [i \in 0..Len(<<>>) |-> IF i = 0 THEN 0 ELSE f[i - 1] + <<>>[i].n]
  BY <1>1, <1>2
<1> QED
  BY <1>2, <1>3 DEF HasBytes, IsCount

(* One more field adds its width.                                            *)
LEMMA OneMore ==
    ASSUME NEW S, NEW x \in Seq(S), NEW r \in S, NEW k, HasBytes(x, k)
    PROVE  HasBytes(x \o <<r>>, k + r.n)
<1>1. PICK f : IsCount(f, x) /\ f[Len(x)] = k
  BY DEF HasBytes
<1>2. PICK z : z = x \o <<r>>
  OBVIOUS
<1>3. /\ Len(x) \in Nat /\ Len(z) = Len(x) + 1 /\ z[Len(x) + 1] = r
      /\ \A i \in 1..Len(x) : z[i] = x[i]
  BY <1>2
<1>4. \A i \in 0..Len(x) : f[i] = IF i = 0 THEN 0 ELSE f[i - 1] + x[i].n
  BY <1>1 DEF IsCount
<1>5. PICK g : g = [i \in 0..Len(z) |-> IF i = Len(x) + 1 THEN k + r.n ELSE f[i]]
  OBVIOUS
<1>6. ASSUME NEW i \in 0..Len(z)
      PROVE  g[i] = IF i = 0 THEN 0 ELSE g[i - 1] + z[i].n
  <2>1. CASE i = 0
    BY <1>3, <1>4, <1>5, <2>1
  <2>2. CASE i # 0 /\ i # Len(x) + 1
    <3>1. i \in 1..Len(x) /\ i - 1 \in 0..Len(z) /\ i - 1 # Len(x) + 1
      BY <1>3, <2>2
    <3>2. g[i] = f[i] /\ g[i - 1] = f[i - 1] /\ z[i] = x[i]
      BY <1>3, <1>5, <3>1
    <3>3. f[i] = f[i - 1] + x[i].n
      BY <1>4, <3>1
    <3> QED
      BY <2>2, <3>2, <3>3
  <2>3. CASE i = Len(x) + 1
    <3>1. i # 0 /\ i - 1 = Len(x) /\ Len(x) \in 0..Len(z) /\ Len(x) # Len(x) + 1
      BY <1>3, <2>3
    <3>2. g[i] = k + r.n /\ g[i - 1] = k /\ z[i] = r
      BY <1>1, <1>3, <1>5, <2>3, <3>1
    <3> QED
      BY <3>1, <3>2
  <2> QED
    BY <2>1, <2>2, <2>3
<1>7. g = [i \in 0..Len(z) |-> IF i = 0 THEN 0 ELSE g[i - 1] + z[i].n]
  BY <1>5, <1>6
<1>8. g[Len(z)] = k + r.n
  BY <1>3, <1>5
<1> QED
  BY <1>2, <1>7, <1>8 DEF HasBytes, IsCount

(* The fields y take at most k bytes, wherever in a row they are.            *)
AtMost(S, y, k) ==
    /\ y \in Seq(S)
    /\ \A x \in Seq(S) : \A j \in Nat :
           HasBytes(x, j) => \E i \in Nat : i <= j + k /\ HasBytes(x \o y, i)

(* No field, no byte.                                                        *)
LEMMA NoField ==
    ASSUME NEW S
    PROVE  AtMost(S, <<>>, 0)
<1>1. \A x \in Seq(S) : x \o <<>> = x
  BY ConcatEmptySeq
<1>2. <<>> \in Seq(S)
  BY EmptySeq
<1>3. ASSUME NEW x \in Seq(S), NEW j \in Nat, HasBytes(x, j)
      PROVE  \E i \in Nat : i <= j + 0 /\ HasBytes(x \o <<>>, i)
  BY <1>1, <1>3
<1> QED
  BY <1>2, <1>3 DEF AtMost

(* An inline field takes as many bytes as it is wide.                        *)
LEMMA OneField ==
    ASSUME NEW p, NEW n \in 0..16, NEW v \in Values(p)
    PROVE  AtMost(Fields(p), Inline(n, v), n)
<1>1. PICK r \in Fields(p) : r = [n |-> n, v |-> v]
  BY InlineType
<1>2. Inline(n, v) = <<r>> /\ r.n = n /\ <<r>> \in Seq(Fields(p))
  BY <1>1 DEF Inline
<1>3. ASSUME NEW x \in Seq(Fields(p)), NEW j \in Nat, HasBytes(x, j)
      PROVE  \E i \in Nat : i <= j + n /\ HasBytes(x \o <<r>>, i)
  <2>1. HasBytes(x \o <<r>>, j + r.n)
    BY <1>3, OneMore
  <2>2. j + n \in Nat
    OBVIOUS
  <2> QED
    BY <1>2, <2>1, <2>2
<1> QED
  BY <1>2, <1>3 DEF AtMost

(* The fields y and then the fields z take at most the bytes of both.        *)
LEMMA Together ==
    ASSUME NEW S, NEW y, NEW j \in Nat, AtMost(S, y, j), NEW z, NEW k \in Nat, AtMost(S, z, k)
    PROVE  AtMost(S, y \o z, j + k)
<1>1. y \in Seq(S) /\ z \in Seq(S)
  BY DEF AtMost
<1>2. y \o z \in Seq(S)
  BY <1>1, Shifted
<1>3. ASSUME NEW x \in Seq(S), NEW l \in Nat, HasBytes(x, l)
      PROVE  \E i \in Nat : i <= l + (j + k) /\ HasBytes(x \o (y \o z), i)
  <2>1. PICK m \in Nat : m <= l + j /\ HasBytes(x \o y, m)
    BY <1>3 DEF AtMost
  <2>2. x \o y \in Seq(S) /\ (x \o y) \o z = x \o (y \o z)
    BY <1>1, Shifted DEF Shift
  <2>3. PICK i \in Nat : i <= m + k /\ HasBytes((x \o y) \o z, i)
    BY <2>1, <2>2 DEF AtMost
  <2>4. i <= l + (j + k)
    BY <2>1, <2>3
  <2> QED
    BY <2>2, <2>3, <2>4
<1> QED
  BY <1>2, <1>3 DEF AtMost

(* A bound may be raised.                                                    *)
LEMMA Fewer ==
    ASSUME NEW S, NEW y, NEW j \in Nat, AtMost(S, y, j), NEW k \in Nat, j <= k
    PROVE  AtMost(S, y, k)
<1>1. ASSUME NEW x \in Seq(S), NEW l \in Nat, HasBytes(x, l)
      PROVE  \E i \in Nat : i <= l + k /\ HasBytes(x \o y, i)
  <2>1. PICK m \in Nat : m <= l + j /\ HasBytes(x \o y, m)
    BY <1>1 DEF AtMost
  <2>2. m <= l + k
    BY <2>1
  <2> QED
    BY <2>1, <2>2
<1> QED
  BY <1>1 DEF AtMost

(* The widths that occur.                                                    *)
LEMMA InlineBytes ==
    ASSUME NEW p, NEW v \in Values(p)
    PROVE  /\ AtMost(Fields(p), Inline(1, v), 1) /\ AtMost(Fields(p), Inline(2, v), 2)
           /\ AtMost(Fields(p), Inline(3, v), 3) /\ AtMost(Fields(p), Inline(5, v), 5)
           /\ AtMost(Fields(p), Inline(8, v), 8) /\ AtMost(Fields(p), Inline(16, v), 16)
<1>1. \A n \in 0..16 : AtMost(Fields(p), Inline(n, v), n)
  BY OneField
<1> QED
  BY <1>1

NextHeader(p) == IF p.proto = UIP_PROTO_UDP THEN <<>> ELSE Inline(1, p.proto)

(* Traffic class and flow label are a row of at most 4 bytes,                *)
LEMMA ClassAndLabelBytes ==
    ASSUME NEW sum, NEW p \in Packet(sum)
    PROVE  AtMost(Fields(p), ClassAndLabel(p).in, 4)
<1>1. p.vtc \in 96..111 /\ p.tcflow \in 0..255 /\ p.flow \in Nat
  <2>1. p.vtc \in 96..111 /\ p.tcflow \in Byte /\ p.flow \in Word
    BY DEF Packet
  <2> QED
    BY <2>1, ByteIsNat, WordIsNat
<1>2. PICK class : class = TrafficClass(p)
  OBVIOUS
<1>3. PICK tmp : tmp = (class % 4) * 64 + class \div 4
  OBVIOUS
<1>4. PICK low : low = (tmp \div 64) * 64 + (p.tcflow % 16)
  OBVIOUS
<1>5. ClassKept(p.vtc, p.tcflow, class, tmp)
  BY <1>1, <1>2, <1>3, ClassBits DEF TrafficClass
<1>6. tmp \in Nat /\ p.tcflow \in Nat
  <2>1. tmp \in Nat
    BY <1>5 DEF ClassKept
  <2> QED
    BY <1>1, <2>1
<1>7. low \in Nat
  BY <1>4, <1>6, SMT
<1>8. tmp \in Values(p) /\ low \in Values(p) /\ p.tcflow \in Values(p) /\ p.flow \in Values(p)
  BY <1>1, <1>6, <1>7 DEF Values
<1>9. /\ AtMost(Fields(p), Inline(1, tmp), 1) /\ AtMost(Fields(p), Inline(1, low), 1)
      /\ AtMost(Fields(p), Inline(1, p.tcflow), 1) /\ AtMost(Fields(p), Inline(2, p.flow), 2)
  BY <1>8, InlineBytes
<1>10. AtMost(Fields(p), <<>>, 4)
  BY NoField, Fewer
<1>11. AtMost(Fields(p), Inline(1, tmp), 4)
  BY <1>9, Fewer
<1>12. AtMost(Fields(p), Inline(1, low) \o Inline(2, p.flow), 4)
  <2>1. AtMost(Fields(p), Inline(1, low) \o Inline(2, p.flow), 1 + 2)
    BY <1>9, Together
  <2> QED
    BY <2>1, Fewer
<1>13. AtMost(Fields(p), (Inline(1, tmp) \o Inline(1, p.tcflow)) \o Inline(2, p.flow), 4)
  <2>1. AtMost(Fields(p), Inline(1, tmp) \o Inline(1, p.tcflow), 1 + 1)
    BY <1>9, Together
  <2>2. AtMost(Fields(p), (Inline(1, tmp) \o Inline(1, p.tcflow)) \o Inline(2, p.flow), (1 + 1) + 2)
    BY <1>9, <2>1, Together
  <2> QED
    BY <2>2
<1>14. \/ ClassAndLabel(p).in = <<>>
       \/ ClassAndLabel(p).in = Inline(1, tmp)
       \/ ClassAndLabel(p).in = Inline(1, low) \o Inline(2, p.flow)
       \/ ClassAndLabel(p).in = (Inline(1, tmp) \o Inline(1, p.tcflow)) \o Inline(2, p.flow)
  BY <1>2, <1>3, <1>4 DEF ClassAndLabel
<1> QED
  BY <1>10, <1>11, <1>12, <1>13, <1>14

(* next header and hop limit of at most one byte each,                       *)
LEMMA NextHeaderBytes ==
    ASSUME NEW sum, NEW p \in Packet(sum)
    PROVE  AtMost(Fields(p), NextHeader(p), 1) /\ AtMost(Fields(p), HopLimit(p).in, 1)
<1>1. /\ AtMost(Fields(p), <<>>, 1)
      /\ AtMost(Fields(p), Inline(1, p.proto), 1) /\ AtMost(Fields(p), Inline(1, p.ttl), 1)
  BY ValuesOf, InlineBytes, NoField, Fewer
<1>2. NextHeader(p) \in {<<>>, Inline(1, p.proto)}
  BY DEF NextHeader
<1>3. HopLimit(p).in \in {<<>>, Inline(1, p.ttl)}
  BY DEF HopLimit
<1> QED
  BY <1>1, <1>2, <1>3

(* an identifier, here with room for an address in full,                     *)
LEMMA IidBytes ==
    ASSUME NEW p, NEW a, a.iid \in Values(p), NEW l
    PROVE  AtMost(Fields(p), compress_addr_64(a, l).in, 16)
<1>1. compress_addr_64(a, l).in \in {<<>>, Inline(2, a.iid), Inline(8, a.iid)}
  BY DEF compress_addr_64
<1>2. /\ AtMost(Fields(p), <<>>, 16)
      /\ AtMost(Fields(p), Inline(2, a.iid), 16) /\ AtMost(Fields(p), Inline(8, a.iid), 16)
  BY InlineBytes, NoField, Fewer
<1> QED
  BY <1>1, <1>2

(* the source address of at most 16 bytes,                                   *)
LEMMA SourceBytes ==
    ASSUME NEW sum, NEW p \in Packet(sum), NEW contexts
    PROVE  AtMost(Fields(p), Source(p, contexts).in, 16)
<1>1. /\ AtMost(Fields(p), <<>>, 16) /\ AtMost(Fields(p), Inline(16, p.src), 16)
      /\ AtMost(Fields(p), compress_addr_64(p.src, AtPointer).in, 16)
  <2>1. p.src \in Values(p) /\ p.src.iid \in Values(p)
    BY ValuesOf
  <2>2. AtMost(Fields(p), <<>>, 16)
    BY NoField, Fewer
  <2> QED
    BY <2>1, <2>2, InlineBytes, IidBytes
<1>2. Source(p, contexts).in \in {<<>>, Inline(16, p.src), compress_addr_64(p.src, AtPointer).in}
  BY DEF Source, Compressed, InFull, Unspecified, IsLinkLocal
<1> QED
  BY <1>1, <1>2

(* so is the destination,                                                    *)
LEMMA DestinationBytes ==
    ASSUME NEW sum, NEW p \in Packet(sum), NEW l, NEW contexts
    PROVE  AtMost(Fields(p), Destination(p, l, contexts).in, 16)
<1> DEFINE a == p.dest
<1>1. /\ AtMost(Fields(p), Inline(16, a), 16) /\ AtMost(Fields(p), compress_addr_64(a, l).in, 16)
      /\ AtMost(Fields(p), Inline(1, a.iid), 1) /\ AtMost(Fields(p), Inline(1, a.mid), 1)
      /\ AtMost(Fields(p), Inline(3, a.iid), 3) /\ AtMost(Fields(p), Inline(5, a.iid), 5)
  BY ValuesOf, InlineBytes, IidBytes
<1>2. /\ AtMost(Fields(p), Inline(1, a.mid) \o Inline(3, a.iid), 1 + 3)
      /\ AtMost(Fields(p), Inline(1, a.mid) \o Inline(5, a.iid), 1 + 5)
  BY <1>1, Together
<1>3. Unicast(a, l, contexts).in \in {compress_addr_64(a, l).in, Inline(16, a)}
  BY DEF Unicast, Compressed, InFull
<1>4. Multicast(a).in \in {Inline(1, a.iid), Inline(1, a.mid) \o Inline(3, a.iid),
                           Inline(1, a.mid) \o Inline(5, a.iid), Inline(16, a)}
  BY GroupAssumption DEF Multicast, InFull
<1>5. /\ AtMost(Fields(p), Inline(1, a.iid), 16)
      /\ AtMost(Fields(p), Inline(1, a.mid) \o Inline(3, a.iid), 16)
      /\ AtMost(Fields(p), Inline(1, a.mid) \o Inline(5, a.iid), 16)
  BY <1>1, <1>2, Fewer
<1>6. /\ AtMost(Fields(p), Unicast(a, l, contexts).in, 16)
      /\ AtMost(Fields(p), Multicast(a).in, 16)
  BY <1>1, <1>3, <1>4, <1>5
<1> QED
  BY <1>6 DEF Destination

(* and the UDP header is a row of at most 7 bytes.                           *)
LEMMA UdpHeaderBytes ==
    ASSUME NEW sum, NEW p \in Packet(sum)
    PROVE  AtMost(Fields(p), UdpHeader(p), 7)
<1>1. AtMost(Fields(p), <<>>, 7)
  BY NoField, Fewer
<1>2. ASSUME p.proto = UIP_PROTO_UDP PROVE AtMost(Fields(p), UdpHeader(p), 7)
  <2>1. PICK s4, d4, s8, d8 : /\ s4 = p.srcport - SICSLOWPAN_UDP_4_BIT_PORT_MIN
                              /\ d4 = p.destport - SICSLOWPAN_UDP_4_BIT_PORT_MIN
                              /\ s8 = p.srcport - SICSLOWPAN_UDP_8_BIT_PORT_MIN
                              /\ d8 = p.destport - SICSLOWPAN_UDP_8_BIT_PORT_MIN
    OBVIOUS
  <2>2. PICK v : v = s4 * 16 + d4
    OBVIOUS
  <2>3. /\ In4(p.srcport) => s4 \in 0..15 /\ In8(p.srcport)
        /\ In4(p.destport) => d4 \in 0..15 /\ In8(p.destport)
        /\ In8(p.srcport) => s8 \in Nat
        /\ In8(p.destport) => d8 \in Nat
    BY <2>1, PacketFields, PortBits
  <2>4. In4(p.srcport) /\ In4(p.destport) => v \in Nat
    BY <2>2, <2>3, TwoNibbles
  <2>5. /\ In8(p.srcport) => s8 \in Values(p)
        /\ In8(p.destport) => d8 \in Values(p)
        /\ In4(p.srcport) /\ In4(p.destport) => v \in Values(p)
        /\ p.srcport \in Values(p) /\ p.destport \in Values(p) /\ p.sum \in Values(p)
        /\ 0 \in Values(p) /\ 1 \in Values(p) /\ 2 \in Values(p) /\ 3 \in Values(p)
    BY <2>3, <2>4, ValuesOf DEF Values
  <2>6. /\ AtMost(Fields(p), Inline(1, 0), 1) /\ AtMost(Fields(p), Inline(1, 1), 1)
        /\ AtMost(Fields(p), Inline(1, 2), 1) /\ AtMost(Fields(p), Inline(1, 3), 1)
        /\ AtMost(Fields(p), Inline(2, p.srcport), 2)
        /\ AtMost(Fields(p), Inline(2, p.destport), 2)
        /\ AtMost(Fields(p), Inline(2, p.sum), 2)
    BY <2>5, InlineBytes
  <2>7. PICK ports : UdpHeader(p) = ports \o Inline(2, p.sum) /\ AtMost(Fields(p), ports, 5)
    <3>1. CASE In4(p.srcport) /\ In4(p.destport)
      <4>1. UdpHeader(p) = (Inline(1, 3) \o Inline(1, v)) \o Inline(2, p.sum)
        BY <1>2, <2>1, <2>2, <2>3, <3>1 DEF UdpHeader
      <4>2. AtMost(Fields(p), Inline(1, v), 1)
        BY <3>1, <2>5, InlineBytes
      <4>3. AtMost(Fields(p), Inline(1, 3) \o Inline(1, v), 1 + 1)
        BY <2>6, <4>2, Together
      <4>4. AtMost(Fields(p), Inline(1, 3) \o Inline(1, v), 5)
        BY <4>3, Fewer
      <4> QED
        BY <4>1, <4>4
    <3>2. CASE ~(In4(p.srcport) /\ In4(p.destport)) /\ In8(p.destport)
      <4>1. UdpHeader(p) = (Inline(1, 1) \o Inline(2, p.srcport) \o Inline(1, d8)) \o Inline(2, p.sum)
        BY <1>2, <2>1, <3>2 DEF UdpHeader
      <4>2. AtMost(Fields(p), Inline(1, d8), 1)
        BY <3>2, <2>5, InlineBytes
      <4>3. AtMost(Fields(p), Inline(1, 1) \o Inline(2, p.srcport), 1 + 2)
        BY <2>6, Together
      <4>4. AtMost(Fields(p), (Inline(1, 1) \o Inline(2, p.srcport)) \o Inline(1, d8), 3 + 1)
        BY <4>2, <4>3, Together
      <4>5. AtMost(Fields(p), (Inline(1, 1) \o Inline(2, p.srcport)) \o Inline(1, d8), 5)
        BY <4>4, Fewer
      <4> QED
        BY <4>1, <4>5
    <3>3. CASE ~(In4(p.srcport) /\ In4(p.destport)) /\ ~In8(p.destport) /\ In8(p.srcport)
      <4>1. UdpHeader(p) = (Inline(1, 2) \o Inline(1, s8) \o Inline(2, p.destport)) \o Inline(2, p.sum)
        BY <1>2, <2>1, <3>3 DEF UdpHeader
      <4>2. AtMost(Fields(p), Inline(1, s8), 1)
        BY <3>3, <2>5, InlineBytes
      <4>3. AtMost(Fields(p), Inline(1, 2) \o Inline(1, s8), 1 + 1)
        BY <2>6, <4>2, Together
      <4>4. AtMost(Fields(p), (Inline(1, 2) \o Inline(1, s8)) \o Inline(2, p.destport), 2 + 2)
        BY <2>6, <4>3, Together
      <4>5. AtMost(Fields(p), (Inline(1, 2) \o Inline(1, s8)) \o Inline(2, p.destport), 5)
        BY <4>4, Fewer
      <4> QED
        BY <4>1, <4>5
    <3>4. CASE ~(In4(p.srcport) /\ In4(p.destport)) /\ ~In8(p.destport) /\ ~In8(p.srcport)
      <4>1. UdpHeader(p) = (Inline(1, 0) \o Inline(2, p.srcport) \o Inline(2, p.destport)) \o Inline(2, p.sum)
        BY <1>2, <3>4 DEF UdpHeader
      <4>2. AtMost(Fields(p), Inline(1, 0) \o Inline(2, p.srcport), 1 + 2)
        BY <2>6, Together
      <4>3. AtMost(Fields(p), (Inline(1, 0) \o Inline(2, p.srcport)) \o Inline(2, p.destport), 3 + 2)
        BY <2>6, <4>2, Together
      <4>4. AtMost(Fields(p), (Inline(1, 0) \o Inline(2, p.srcport)) \o Inline(2, p.destport), 5)
        BY <4>3, Fewer
      <4> QED
        BY <4>1, <4>4
    <3> QED
      BY <3>1, <3>2, <3>3, <3>4
  <2>8. AtMost(Fields(p), ports \o Inline(2, p.sum), 5 + 2)
    BY <2>6, <2>7, Together
  <2> QED
    BY <2>7, <2>8
<1>3. p.proto # UIP_PROTO_UDP => UdpHeader(p) = <<>>
  BY DEF UdpHeader
<1> QED
  BY <1>1, <1>2, <1>3

(* A compressed header is not longer than 48 bytes.                          *)
THEOREM HeaderBytes ==
    ASSUME NEW sum, NEW p \in Packet(sum), NEW l, NEW own
    PROVE  HeaderLength(compress_hdr_hc06(p, l, own)) \in 2..48
<1>1. PICK t, n, h, s, d, u :
          /\ t = ClassAndLabel(p).in /\ n = NextHeader(p) /\ h = HopLimit(p).in
          /\ s = Source(p, own).in /\ d = Destination(p, l, own).in /\ u = UdpHeader(p)
  OBVIOUS
<1>2. /\ AtMost(Fields(p), t, 4) /\ AtMost(Fields(p), n, 1) /\ AtMost(Fields(p), h, 1)
      /\ AtMost(Fields(p), s, 16) /\ AtMost(Fields(p), d, 16) /\ AtMost(Fields(p), u, 7)
  BY <1>1, ClassAndLabelBytes, NextHeaderBytes, SourceBytes, DestinationBytes, UdpHeaderBytes
<1>3. PICK e : e = compress_hdr_hc06(p, l, own)
  OBVIOUS
<1>4. e.in = ((((t \o n) \o h) \o s) \o d) \o u
  BY <1>1, <1>3, Zenon DEF compress_hdr_hc06, NextHeader
<1>5. AtMost(Fields(p), t \o n, 4 + 1)
  BY <1>2, Together
<1>6. AtMost(Fields(p), (t \o n) \o h, 5 + 1)
  BY <1>2, <1>5, Together
<1>7. AtMost(Fields(p), ((t \o n) \o h) \o s, 6 + 16)
  BY <1>2, <1>6, Together
<1>8. AtMost(Fields(p), (((t \o n) \o h) \o s) \o d, 22 + 16)
  BY <1>2, <1>7, Together
<1>9. AtMost(Fields(p), ((((t \o n) \o h) \o s) \o d) \o u, 38 + 7)
  BY <1>2, <1>8, Together
<1>10. AtMost(Fields(p), e.in, 45)
  BY <1>4, <1>9
<1>11. PICK i \in Nat : i <= 45 /\ HasBytes(<<>> \o e.in, i)
  <2>1. <<>> \in Seq(Fields(p)) /\ 0 \in Nat
    BY EmptySeq
  <2>2. \E i \in Nat : i <= 0 + 45 /\ HasBytes(<<>> \o e.in, i)
    BY <1>10, <2>1, NoBytes DEF AtMost
  <2> QED
    BY <2>2
<1>12. e.in \in Seq(Fields(p)) /\ <<>> \o e.in = e.in
  BY <1>10, ConcatEmptySeq DEF AtMost
<1>13. Bytes(e.in) = i
  BY <1>11, <1>12, BytesAre
<1> QED
  BY <1>3, <1>11, <1>13 DEF HeaderLength

-----------------------------------------------------------------------------
(* Each field is read as it was written.                                     *)

(* ReadClassAndLabel() gives back traffic class and flow label in each of    *)
(* the four forms, and leaves what is behind them.                           *)
LEMMA ClassAndLabelIsRead ==
    ASSUME NEW sum, NEW p \in Packet(sum), NEW y \in Seq(Fields(p)), NEW e,
           e.fl = ClassAndLabel(p).fl, e.tc = ClassAndLabel(p).tc,
           e.in = ClassAndLabel(p).in \o y
    PROVE  ReadClassAndLabel(e) =
               [vtc |-> p.vtc, tcflow |-> p.tcflow, flow |-> p.flow, rest |-> y]
<1>1. p.vtc \in 96..111 /\ p.tcflow \in 0..255 /\ p.tcflow \in Nat /\ p.flow \in Nat
  <2>1. p.vtc \in 96..111 /\ p.tcflow \in Byte /\ p.flow \in Word
    BY DEF Packet
  <2> QED
    BY <2>1, ByteIsNat, WordIsNat
<1>2. PICK class : class = TrafficClass(p)
  OBVIOUS
<1>3. PICK tmp : tmp = (class % 4) * 64 + class \div 4
  OBVIOUS
<1>4. ClassKept(p.vtc, p.tcflow, class, tmp)
  BY <1>1, <1>2, <1>3, ClassBits, ZenonT(60) DEF TrafficClass
<1>5. tmp \in Values(p) /\ p.tcflow \in Values(p) /\ p.flow \in Values(p)
  BY <1>1, <1>4 DEF ClassKept, Values
<1>11. 1 \in 0..16 /\ 2 \in 0..16
  OBVIOUS
<1>6. CASE ~e.fl /\ ~e.tc
  <2>1. e.in = (Inline(1, tmp) \o Inline(1, p.tcflow) \o Inline(2, p.flow)) \o y
    BY <1>2, <1>3, <1>6 DEF ClassAndLabel
  <2>2. Reads3(e.in, tmp, p.tcflow, p.flow, y,
              (Inline(1, p.tcflow) \o Inline(2, p.flow)) \o y)
    BY <1>5, <1>11, <2>1, ReadThree, ZenonT(60)
  <2>3. ReadClassAndLabel(e) =
            [vtc |-> 96 + ((Head(e.in).v \div 4) % 16),
             tcflow |-> (Head(e.in).v \div 64) * 16 + (Head(e.in).v % 4) * 64
                           + (e.in[2].v % 16),
             flow |-> e.in[3].v, rest |-> From(e.in, 4)]
    BY <1>6 DEF ReadClassAndLabel
  <2>4. /\ Head(e.in).v = tmp /\ e.in[2].v = p.tcflow /\ e.in[3].v = p.flow
        /\ From(e.in, 4) = y
    BY <2>2 DEF Reads3
  <2>5. /\ 96 + ((tmp \div 4) % 16) = p.vtc
        /\ (tmp \div 64) * 16 + (tmp % 4) * 64 + (p.tcflow % 16) = p.tcflow
    BY <1>4 DEF ClassKept
  <2> QED
    BY <2>3, <2>4, <2>5, Zenon
<1>7. CASE ~e.fl /\ e.tc
  <2>1. class = 0
    BY <1>2, <1>7 DEF ClassAndLabel
  <2>2. e.in = (Inline(1, p.tcflow) \o Inline(2, p.flow)) \o y
    BY <1>2, <1>3, <1>4, <1>7, <2>1, ZenonT(60) DEF ClassAndLabel, ClassKept
  <2>3. Reads2(e.in, p.tcflow, p.flow, y, Inline(2, p.flow) \o y)
    BY <1>5, <2>2, ReadTwo, SMTT(30)
  <2> QED
    BY <1>4, <1>7, <2>1, <2>3 DEF ReadClassAndLabel, ClassKept, Reads2
<1>8. CASE e.fl /\ ~e.tc
  <2>1. p.tcflow % 16 = 0 /\ p.flow = 0
    BY <1>8 DEF ClassAndLabel
  <2>2. e.in = Inline(1, tmp) \o y
    BY <1>2, <1>3, <1>8 DEF ClassAndLabel
  <2>3. Reads(e.in, tmp, y)
    BY <1>5, <2>2, ReadOne
  <2>4. ReadClassAndLabel(e) =
            [vtc |-> 96 + ((Head(e.in).v \div 4) % 16),
             tcflow |-> (Head(e.in).v % 4) * 64 + (Head(e.in).v \div 64) * 16,
             flow |-> 0, rest |-> From(e.in, 2)]
    BY <1>8 DEF ReadClassAndLabel
  <2>5. Head(e.in).v = tmp /\ From(e.in, 2) = y
    BY <2>3 DEF Reads
  <2>6. /\ 96 + ((tmp \div 4) % 16) = p.vtc
        /\ (tmp % 4) * 64 + (tmp \div 64) * 16 = p.tcflow
    BY <1>4, <2>1 DEF ClassKept
  <2> QED
    BY <2>1, <2>4, <2>5, <2>6, Zenon
<1>9. CASE e.fl /\ e.tc
  <2>1. p.tcflow % 16 = 0 /\ p.flow = 0 /\ class = 0
    BY <1>2, <1>9 DEF ClassAndLabel
  <2>2. e.in = y
    BY <1>9, ConcatEmptySeq DEF ClassAndLabel
  <2> QED
    BY <1>4, <1>9, <2>1, <2>2 DEF ReadClassAndLabel, ClassKept
<1>10. e.fl \in BOOLEAN /\ e.tc \in BOOLEAN
  BY DEF ClassAndLabel
<1> QED
  BY <1>6, <1>7, <1>8, <1>9, <1>10

(* The next header is given back, from the NH flag or from the row.          *)
LEMMA NextHeaderIsRead ==
    ASSUME NEW sum, NEW p \in Packet(sum), NEW y \in Seq(Fields(p)), NEW e,
           e.nh = (p.proto = UIP_PROTO_UDP)
    PROVE  ReadNextHeader(e, NextHeader(p) \o y) = [proto |-> p.proto, rest |-> y]
<1>1. CASE p.proto = UIP_PROTO_UDP
  <2>1. NextHeader(p) \o y = y
    BY <1>1, ConcatEmptySeq DEF NextHeader
  <2> QED
    BY <1>1, <2>1 DEF ReadNextHeader
<1>2. CASE p.proto # UIP_PROTO_UDP
  <2>1. NextHeader(p) = Inline(1, p.proto)
    BY <1>2 DEF NextHeader
  <2>2. Reads(NextHeader(p) \o y, p.proto, y)
    BY <2>1, ReadOne, ValuesOf, Widths
  <2> QED
    BY <1>2, <2>2 DEF ReadNextHeader, Reads
<1> QED
  BY <1>1, <1>2

(* The hop limit is given back, from the HLIM bits or from the row.          *)
LEMMA HopLimitIsRead ==
    ASSUME NEW sum, NEW p \in Packet(sum), NEW y \in Seq(Fields(p)), NEW e,
           e.hl = HopLimit(p).hl
    PROVE  ReadHopLimit(e, HopLimit(p).in \o y) = [ttl |-> p.ttl, rest |-> y]
<1>1. CASE p.ttl \in {1, 64, 255}
  <2>1. HopLimit(p).in = <<>> /\ e.hl \in {1, 2, 3} /\ ttl_values[e.hl] = p.ttl
    BY <1>1 DEF HopLimit, ttl_values
  <2>2. HopLimit(p).in \o y = y
    BY <2>1, ConcatEmptySeq
  <2> QED
    BY <2>1, <2>2 DEF ReadHopLimit
<1>2. CASE p.ttl \notin {1, 64, 255}
  <2>1. HopLimit(p).in = Inline(1, p.ttl) /\ e.hl = 0
    BY <1>2 DEF HopLimit
  <2>2. Reads(HopLimit(p).in \o y, p.ttl, y)
    BY <2>1, ReadOne, ValuesOf, Widths
  <2> QED
    BY <2>1, <2>2 DEF ReadHopLimit, Reads
<1> QED
  BY <1>1, <1>2

(* The prefix that uncompress_addr() puts in front of an identifier.         *)
Prefix(byContext, prefix) ==
    IF byContext THEN CHOOSE c \in prefix : TRUE ELSE LinkLocalPrefix
Joined(start, iid) == [pfx |-> start.pfx, mid |-> start.mid, iid |-> iid]

(* u is the address a, and rest is left of the row.                          *)
Gives(u, a, rest) == u.a = a /\ u.rest = rest

(* An address in full is taken from the row.                                 *)
LEMMA AddressAhead ==
    ASSUME NEW prefix, NEW lladdr, NEW x, NEW v, Head(x).v = v
    PROVE  Gives(uncompress_addr(FALSE, prefix, 0, lladdr, x), v, Tail(x))
  BY DEF uncompress_addr, Gives

(* An identifier that was left out is the one that follows from the link-    *)
(* layer address.                                                            *)
LEMMA IidElided ==
    ASSUME NEW byContext, NEW prefix, NEW lladdr, NEW x
    PROVE  Gives(uncompress_addr(byContext, prefix, 3, lladdr, x),
                 Joined(Prefix(byContext, prefix), lladdr), x)
  BY DEF uncompress_addr, Prefix, Joined, Gives

(* An identifier of 16 or 64 bits is taken from the row.                     *)
LEMMA IidAhead ==
    ASSUME NEW byContext, NEW prefix, NEW mode \in {1, 2}, NEW lladdr, NEW x,
           NEW v, Head(x).v = v
    PROVE  Gives(uncompress_addr(byContext, prefix, mode, lladdr, x),
                 Joined(Prefix(byContext, prefix), v), Tail(x))
  BY DEF uncompress_addr, Prefix, Joined, Gives

IidRead(u, y, r, l, lladdr, start, iid) ==
    u.rest = y /\ ((r.mode = 3 => lladdr = l) => u.a = Joined(start, iid))

(* What compress_addr_64() writes, uncompress_addr() reads: the identifier   *)
(* is the one that was sent, when one that was left out follows from the     *)
(* same link-layer address at the receiver.                                  *)
LEMMA IidIsRead ==
    ASSUME NEW p, NEW y \in Seq(Fields(p)), NEW a, a.iid \in Values(p), NEW l,
           NEW byContext, NEW prefix, NEW lladdr, NEW r, r = compress_addr_64(a, l),
           NEW u, u = uncompress_addr(byContext, prefix, r.mode, lladdr, r.in \o y)
    PROVE  IidRead(u, y, r, l, lladdr, Prefix(byContext, prefix), a.iid)
<1>1. CASE a.iid = l
  <2>1. r = [mode |-> 3, in |-> <<>>]
    BY <1>1 DEF compress_addr_64
  <2>2. r.in \o y = y
    BY <2>1, ConcatEmptySeq
  <2>3. Gives(u, Joined(Prefix(byContext, prefix), lladdr), y)
    BY <2>1, <2>2, IidElided
  <2> QED
    BY <1>1, <2>1, <2>3 DEF IidRead, Gives
<1>2. CASE a.iid # l
  <2>1. PICK n \in {2, 8} : r.in = Inline(n, a.iid) /\ r.mode \in {1, 2}
    BY <1>2 DEF compress_addr_64
  <2>2. Reads(r.in \o y, a.iid, y)
    BY <2>1, ReadOne, Widths
  <2>3. PICK x : x = r.in \o y
    OBVIOUS
  <2>4. Head(x).v = a.iid /\ Tail(x) = y
    BY <2>2, <2>3 DEF Reads
  <2>5. PICK mode \in {1, 2} : mode = r.mode
    BY <2>1
  <2>6. u = uncompress_addr(byContext, prefix, mode, lladdr, x)
    BY <2>3, <2>5
  <2>7. Gives(u, Joined(Prefix(byContext, prefix), a.iid), Tail(x))
    BY <2>4, <2>5, <2>6, IidAhead
  <2> QED
    BY <2>4, <2>7 DEF IidRead, Gives
<1> QED
  BY <1>1, <1>2

(* An address sent in full is given back.                                    *)
LEMMA InFullIsRead ==
    ASSUME NEW p, NEW y \in Seq(Fields(p)), NEW a \in Values(p), NEW prefix, NEW lladdr
    PROVE  Gives(uncompress_addr(FALSE, prefix, 0, lladdr, Inline(16, a) \o y), a, y)
<1>1. Reads(Inline(16, a) \o y, a, y)
  BY ReadOne, Widths
<1>2. PICK x : x = Inline(16, a) \o y
  OBVIOUS
<1>3. Head(x).v = a /\ Tail(x) = y
  BY <1>1, <1>2 DEF Reads
<1> QED
  BY <1>2, <1>3, AddressAhead

(* A source address as a node builds it: the 54 bits after fe80::/10 are     *)
(* zero, and its identifier is not what is stored at the global pointer.     *)
SourceForm(a) == a.iid # AtPointer /\ (IsLinkLocal(a) => a.mid = "0")

(* The context, if any, that an address is expanded with is one of its       *)
(* prefix.                                                                   *)
SamePrefix(c, a) == c.pfx = a.pfx /\ c.mid = a.mid

(* Prefix and identifier of an address make the address.                     *)
LEMMA JoinedIs ==
    ASSUME NEW a \in Address, NEW c, SamePrefix(c, a)
    PROVE  Joined(c, a.iid) = a
  BY DEF Address, Joined, SamePrefix

(* u is what uncompress_addr() makes of the source or the unicast            *)
(* destination of p, given a context of its prefix where one is needed.      *)
SourceRead(u, y, s, p, prefix) ==
    /\ u.rest = y
    /\ (s.ctx /\ s.mode # 0 => SamePrefix(Prefix(TRUE, prefix), p.src)) => u.a = p.src
UnicastRead(u, y, d, p, l, receiver, prefix) ==
    /\ u.rest = y
    /\ receiver = l /\ (d.ctx => SamePrefix(Prefix(TRUE, prefix), p.dest)) => u.a = p.dest

(* The source address is given back, whatever its form.                      *)
LEMMA SourceIsRead ==
    ASSUME NEW sum, NEW p \in Packet(sum), NEW y \in Seq(Fields(p)), SourceForm(p.src),
           NEW contexts, NEW s, s = Source(p, contexts),
           NEW prefix, NEW sender,
           NEW u, u = uncompress_addr(s.ctx, prefix, s.mode, sender, s.in \o y)
    PROVE  SourceRead(u, y, s, p, prefix)
<1>1. CASE p.src = Unspecified
  <2>1. s = [ctx |-> TRUE, mode |-> 0, in |-> <<>>]
    BY <1>1 DEF Source, Unspecified, IsLinkLocal
  <2>2. s.in \o y = y
    BY <2>1, ConcatEmptySeq
  <2>3. u = [a |-> Unspecified, rest |-> y]
    BY <2>1, <2>2 DEF uncompress_addr
  <2>4. u.rest = y /\ u.a = p.src
    BY <1>1, <2>3
  <2> QED
    BY <2>4, Zenon DEF SourceRead
<1>2. ASSUME NEW b \in BOOLEAN, NEW r, r = compress_addr_64(p.src, AtPointer),
             s = Compressed(b, r), ~b => SamePrefix(LinkLocalPrefix, p.src)
      PROVE  SourceRead(u, y, s, p, prefix)
  <2>1. s.ctx = b /\ s.mode = r.mode /\ s.in = r.in
    BY <1>2 DEF Compressed
  <2>2. u = uncompress_addr(b, prefix, r.mode, sender, r.in \o y)
    BY <2>1
  <2>3. p.src.iid \in Values(p) /\ r.mode # 3 /\ r.mode # 0
    BY <1>2, ValuesOf DEF SourceForm, compress_addr_64
  <2>4. IidRead(u, y, r, AtPointer, sender, Prefix(b, prefix), p.src.iid)
    BY <1>2, <2>2, <2>3, IidIsRead
  <2>7. u.rest = y /\ u.a = Joined(Prefix(b, prefix), p.src.iid)
    BY <2>3, <2>4 DEF IidRead
  <2>8. ASSUME SamePrefix(Prefix(b, prefix), p.src)
        PROVE  Joined(Prefix(b, prefix), p.src.iid) = p.src
    BY <2>8, JoinedIs, PacketFields
  <2>5. CASE ~b
    <3>1. SamePrefix(Prefix(b, prefix), p.src)
      BY <1>2, <2>5 DEF Prefix
    <3> QED
      BY <3>1, <2>7, <2>8 DEF SourceRead
  <2>6. CASE b
    <3> SUFFICES ASSUME SamePrefix(Prefix(b, prefix), p.src) PROVE u.a = p.src
      BY <2>1, <2>3, <2>6, <2>7 DEF SourceRead
    <3> QED
      BY <2>7, <2>8
  <2> QED
    BY <2>5, <2>6
<1>3. CASE p.src # Unspecified /\ ByPrefix(contexts, p.src) # {}
  <2>1. s = Compressed(TRUE, compress_addr_64(p.src, AtPointer))
    BY <1>3 DEF Source
  <2> QED
    BY <2>1, <1>2
<1>4. CASE /\ p.src # Unspecified /\ ByPrefix(contexts, p.src) = {}
           /\ IsLinkLocal(p.src) /\ NoSubnet(p.dest)
  <2>1. s = Compressed(FALSE, compress_addr_64(p.src, AtPointer))
    BY <1>4 DEF Source
  <2>2. SamePrefix(LinkLocalPrefix, p.src)
    BY <1>4 DEF SourceForm, LinkLocalPrefix, SamePrefix, IsLinkLocal
  <2> QED
    BY <2>1, <2>2, <1>2
<1>5. CASE /\ p.src # Unspecified /\ ByPrefix(contexts, p.src) = {}
           /\ ~(IsLinkLocal(p.src) /\ NoSubnet(p.dest))
  <2>1. s = InFull(p.src)
    BY <1>5 DEF Source
  <2>2. u = uncompress_addr(FALSE, prefix, 0, sender, Inline(16, p.src) \o y)
    BY <2>1 DEF InFull
  <2>3. p.src \in Values(p)
    BY ValuesOf
  <2>4. Gives(u, p.src, y)
    BY <2>2, <2>3, InFullIsRead
  <2> QED
    BY <2>4 DEF Gives, SourceRead
<1> QED
  BY <1>1, <1>3, <1>4, <1>5

(* The same for a unicast destination.                                       *)
LEMMA UnicastIsRead ==
    ASSUME NEW sum, NEW p \in Packet(sum), NEW y \in Seq(Fields(p)),
           NEW contexts, NEW l, NEW d, d = Unicast(p.dest, l, contexts), ~IsMcast(p.dest),
           NEW prefix, NEW receiver,
           NEW u, u = uncompress_addr(d.ctx, prefix, d.mode, receiver, d.in \o y)
    PROVE  UnicastRead(u, y, d, p, l, receiver, prefix)
<1>1. ASSUME NEW b \in BOOLEAN, NEW r, r = compress_addr_64(p.dest, l),
             d = Compressed(b, r), ~b => SamePrefix(LinkLocalPrefix, p.dest)
      PROVE  UnicastRead(u, y, d, p, l, receiver, prefix)
  <2>1. d.ctx = b /\ d.mode = r.mode /\ d.in = r.in
    BY <1>1 DEF Compressed
  <2>2. u = uncompress_addr(b, prefix, r.mode, receiver, r.in \o y)
    BY <2>1
  <2>3. p.dest.iid \in Values(p)
    BY ValuesOf
  <2>4. IidRead(u, y, r, l, receiver, Prefix(b, prefix), p.dest.iid)
    BY <1>1, <2>2, <2>3, IidIsRead
  <2>7. u.rest = y /\ (receiver = l => u.a = Joined(Prefix(b, prefix), p.dest.iid))
    BY <2>4 DEF IidRead
  <2>8. ASSUME SamePrefix(Prefix(b, prefix), p.dest)
        PROVE  Joined(Prefix(b, prefix), p.dest.iid) = p.dest
    BY <2>8, JoinedIs, PacketFields
  <2>5. CASE ~b
    <3>1. SamePrefix(Prefix(b, prefix), p.dest)
      BY <1>1, <2>5 DEF Prefix
    <3> QED
      BY <3>1, <2>7, <2>8 DEF UnicastRead
  <2>6. CASE b
    <3> SUFFICES ASSUME SamePrefix(Prefix(b, prefix), p.dest), receiver = l PROVE u.a = p.dest
      BY <2>1, <2>6, <2>7 DEF UnicastRead
    <3> QED
      BY <2>7, <2>8
  <2> QED
    BY <2>5, <2>6
<1>2. CASE ByPrefix(contexts, p.dest) # {}
  <2>1. d = Compressed(TRUE, compress_addr_64(p.dest, l))
    BY <1>2 DEF Unicast
  <2> QED
    BY <2>1, <1>1
<1>3. CASE ByPrefix(contexts, p.dest) = {} /\ IsLinkLocal(p.dest) /\ NoSubnet(p.dest)
  <2>1. d = Compressed(FALSE, compress_addr_64(p.dest, l))
    BY <1>3 DEF Unicast
  <2>2. SamePrefix(LinkLocalPrefix, p.dest)
    BY <1>3 DEF NoSubnet, LinkLocalPrefix, SamePrefix, IsLinkLocal
  <2> QED
    BY <2>1, <2>2, <1>1
<1>4. CASE ByPrefix(contexts, p.dest) = {} /\ ~(IsLinkLocal(p.dest) /\ NoSubnet(p.dest))
  <2>1. d = InFull(p.dest)
    BY <1>4 DEF Unicast
  <2>2. u = uncompress_addr(FALSE, prefix, 0, receiver, Inline(16, p.dest) \o y)
    BY <2>1 DEF InFull
  <2>3. p.dest \in Values(p)
    BY ValuesOf
  <2>4. Gives(u, p.dest, y)
    BY <2>2, <2>3, InFullIsRead
  <2> QED
    BY <2>4 DEF Gives, UnicastRead
<1> QED
  BY <1>2, <1>3, <1>4

(* A multicast address in full and one of 8 bits, and                        *)
LEMMA GroupAhead ==
    ASSUME NEW x, NEW v, Head(x).v = v
    PROVE  /\ Gives(ReadMulticast(0, x), v, Tail(x))
           /\ Gives(ReadMulticast(3, x), [pfx |-> "ff", mid |-> "02", iid |-> v], Tail(x))
  BY DEF ReadMulticast, Gives

(* one of 32 or 48 bits, are taken from the row.                             *)
LEMMA ScopeAhead ==
    ASSUME NEW x, NEW v, NEW w, x[1].v = v, x[2].v = w, NEW mode \in {1, 2}
    PROVE  Gives(ReadMulticast(mode, x), [pfx |-> "ff", mid |-> v, iid |-> w], From(x, 3))
  BY DEF ReadMulticast, Gives

(* A multicast destination is given back, whatever its form.                 *)
LEMMA MulticastIsRead ==
    ASSUME NEW sum, NEW p \in Packet(sum), NEW y \in Seq(Fields(p)), IsMcast(p.dest),
           NEW d, d = Multicast(p.dest)
    PROVE  Gives(ReadMulticast(d.mode, d.in \o y), p.dest, y)
<1>1. /\ p.dest \in Values(p) /\ p.dest.mid \in Values(p) /\ p.dest.iid \in Values(p)
      /\ p.dest = [pfx |-> "ff", mid |-> p.dest.mid, iid |-> p.dest.iid]
  <2>1. p.dest \in Address
    BY PacketFields
  <2>2. p.dest = [pfx |-> "ff", mid |-> p.dest.mid, iid |-> p.dest.iid]
    BY <2>1 DEF Address, IsMcast
  <2> QED
    BY <2>2, ValuesOf
<1>2. PICK x : x = d.in \o y
  OBVIOUS
<1>3. CASE p.dest.iid \in Group8 /\ p.dest.mid = "02"
  <2>1. d.mode = 3 /\ d.in = Inline(1, p.dest.iid)
    BY <1>3, GroupAssumption DEF Multicast
  <2>2. Reads(x, p.dest.iid, y)
    BY <1>1, <1>2, <2>1, ReadOne, Widths
  <2>3. Head(x).v = p.dest.iid /\ Tail(x) = y
    BY <2>2 DEF Reads
  <2>4. Gives(ReadMulticast(3, x), [pfx |-> "ff", mid |-> "02", iid |-> p.dest.iid], y)
    BY <2>3, GroupAhead
  <2> QED
    BY <1>1, <1>2, <1>3, <2>1, <2>4
<1>4. CASE /\ ~(p.dest.iid \in Group8 /\ p.dest.mid = "02")
           /\ p.dest.iid \in Group8 \cup Group32 \cup Group48
  <2>1. PICK k \in {3, 5} : /\ d.mode \in {1, 2}
                            /\ d.in = Inline(1, p.dest.mid) \o Inline(k, p.dest.iid)
    BY <1>4, GroupAssumption DEF Multicast
  <2>2. Reads2(x, p.dest.mid, p.dest.iid, y, Inline(k, p.dest.iid) \o y)
    BY <1>1, <1>2, <2>1, ReadTwo, Widths
  <2>3. x[1].v = p.dest.mid /\ x[2].v = p.dest.iid /\ From(x, 3) = y
    BY <2>2 DEF Reads2
  <2>4. PICK mode \in {1, 2} : mode = d.mode
    BY <2>1
  <2>5. Gives(ReadMulticast(mode, x), [pfx |-> "ff", mid |-> p.dest.mid, iid |-> p.dest.iid], y)
    BY <2>3, ScopeAhead
  <2> QED
    BY <1>1, <1>2, <2>4, <2>5
<1>5. CASE p.dest.iid \notin Group8 \cup Group32 \cup Group48
  <2>1. d.mode = 0 /\ d.in = Inline(16, p.dest)
    BY <1>5 DEF Multicast, InFull
  <2>2. Reads(x, p.dest, y)
    BY <1>1, <1>2, <2>1, ReadOne, Widths
  <2>3. Head(x).v = p.dest /\ Tail(x) = y
    BY <2>2 DEF Reads
  <2>4. Gives(ReadMulticast(0, x), p.dest, y)
    BY <2>3, GroupAhead
  <2> QED
    BY <1>2, <2>1, <2>4
<1> QED
  BY <1>3, <1>4, <1>5

(* The fields of a transport header: the first, which says how long the      *)
(* ports are, and those behind it.                                           *)
Behind2(x, k, v, w) ==
    Head(x).v = k /\ From(x, 2)[1].v = v /\ From(x, 2)[2].v = w
Behind3(x, k, v, w, u) ==
    /\ Head(x).v = k
    /\ From(x, 2)[1].v = v /\ From(x, 2)[2].v = w /\ From(x, 2)[3].v = u

(* What ReadUdpHeader() finds behind the first field of the shortest form of *)
(* the UDP header, and                                                       *)
LEMMA ReadBehind2 ==
    ASSUME NEW p, NEW k \in Values(p), NEW i \in 0..16, NEW n \in 0..16, NEW v \in Values(p),
           NEW m \in 0..16, NEW w \in Values(p)
    PROVE  Behind2((Inline(i, k) \o Inline(n, v)) \o Inline(m, w), k, v, w)
<1>1. Inline(m, w) \in Seq(Fields(p))
  BY InlineType
<1>2. PICK x : x = (Inline(i, k) \o Inline(n, v)) \o Inline(m, w)
  OBVIOUS
<1>3. PICK at : at = Inline(n, v) \o Inline(m, w)
  OBVIOUS
<1>4. Reads2((Inline(i, k) \o Inline(n, v)) \o Inline(m, w), k, v, Inline(m, w),
             Inline(n, v) \o Inline(m, w))
  BY <1>1, ReadTwo
<1>5. Reads2(x, k, v, Inline(m, w), at)
  BY <1>2, <1>3, <1>4
<1>6. Head(x).v = k /\ From(x, 2) = at
  BY <1>5, Zenon DEF Reads2
<1>7. at[1].v = v /\ at[2].v = w
  <2>1. Pair(Inline(n, v) \o Inline(m, w), v, w)
    BY ReadPair
  <2>2. Pair(at, v, w)
    BY <1>3, <2>1
  <2> QED
    BY <2>2 DEF Pair
<1>8. Behind2(x, k, v, w)
  BY <1>6, <1>7, Zenon DEF Behind2
<1> QED
  BY <1>2, <1>8

(* of the three other forms.                                                 *)
LEMMA ReadBehind3 ==
    ASSUME NEW p, NEW k \in Values(p), NEW i \in 0..16, NEW n \in 0..16, NEW v \in Values(p),
           NEW m \in 0..16, NEW w \in Values(p), NEW j \in 0..16, NEW u \in Values(p)
    PROVE  Behind3((Inline(i, k) \o Inline(n, v) \o Inline(m, w)) \o Inline(j, u), k, v, w, u)
<1>1. Inline(j, u) \in Seq(Fields(p))
  BY InlineType
<1>2. PICK x : x = (Inline(i, k) \o Inline(n, v) \o Inline(m, w)) \o Inline(j, u)
  OBVIOUS
<1>3. PICK at : at = (Inline(n, v) \o Inline(m, w)) \o Inline(j, u)
  OBVIOUS
<1>4. Reads3((Inline(i, k) \o Inline(n, v) \o Inline(m, w)) \o Inline(j, u), k, v, w,
             Inline(j, u), (Inline(n, v) \o Inline(m, w)) \o Inline(j, u))
  BY <1>1, ReadThree
<1>5. Reads3(x, k, v, w, Inline(j, u), at)
  BY <1>2, <1>3, <1>4
<1>6. Head(x).v = k /\ From(x, 2) = at
  BY <1>5, Zenon DEF Reads3
<1>7. at[1].v = v /\ at[2].v = w /\ at[3].v = u
  <2>1. Triple((Inline(n, v) \o Inline(m, w)) \o Inline(j, u), v, w, u)
    BY ReadTriple
  <2>2. Triple(at, v, w, u)
    BY <1>3, <2>1
  <2> QED
    BY <2>2 DEF Triple
<1>8. Behind3(x, k, v, w, u)
  BY <1>6, <1>7, Zenon DEF Behind3
<1> QED
  BY <1>2, <1>8

(* u is what ReadUdpHeader() gives back.                                     *)
UdpGives(u, srcport, destport, sum) == u.ports = <<srcport, destport>> /\ u.sum = sum

(* ReadUdpHeader() on the three forms that send one port or none short.      *)
LEMMA LongPorts ==
    ASSUME NEW e, e.nh = TRUE, NEW x, NEW inPayload, NEW v, NEW w, NEW sum
    PROVE  /\ Behind3(x, 0, v, w, sum) =>
                UdpGives(ReadUdpHeader(e, x, inPayload), v, w, sum)
           /\ Behind3(x, 1, v, w, sum) =>
                UdpGives(ReadUdpHeader(e, x, inPayload),
                         v, SICSLOWPAN_UDP_8_BIT_PORT_MIN + w, sum)
           /\ Behind3(x, 2, v, w, sum) =>
                UdpGives(ReadUdpHeader(e, x, inPayload),
                         SICSLOWPAN_UDP_8_BIT_PORT_MIN + v, w, sum)
<1>1. Behind3(x, 0, v, w, sum) => UdpGives(ReadUdpHeader(e, x, inPayload), v, w, sum)
  BY DEF ReadUdpHeader, Behind3, UdpGives
<1>2. Behind3(x, 1, v, w, sum) =>
        UdpGives(ReadUdpHeader(e, x, inPayload), v, SICSLOWPAN_UDP_8_BIT_PORT_MIN + w, sum)
  BY DEF ReadUdpHeader, Behind3, UdpGives
<1>3. Behind3(x, 2, v, w, sum) =>
        UdpGives(ReadUdpHeader(e, x, inPayload), SICSLOWPAN_UDP_8_BIT_PORT_MIN + v, w, sum)
  BY DEF ReadUdpHeader, Behind3, UdpGives
<1> QED
  BY <1>1, <1>2, <1>3

(* ReadUdpHeader() on the form that sends both ports in one byte.            *)
LEMMA ShortPorts ==
    ASSUME NEW e, e.nh = TRUE, NEW x, NEW inPayload,
           NEW v, NEW s, NEW d, v \div 16 = s, v % 16 = d, NEW sum, Behind2(x, 3, v, sum)
    PROVE  UdpGives(ReadUdpHeader(e, x, inPayload),
                    SICSLOWPAN_UDP_4_BIT_PORT_MIN + s, SICSLOWPAN_UDP_4_BIT_PORT_MIN + d, sum)
  BY DEF ReadUdpHeader, Behind2, UdpGives

UdpRead(u, p, inPayload) ==
    IF p.proto = UIP_PROTO_UDP THEN UdpGives(u, p.srcport, p.destport, p.sum)
                               ELSE UdpGives(u, 0, 0, inPayload)

(* Ports and checksum are given back in each of the four forms; without a    *)
(* UDP header the checksum is that of the payload.                           *)
LEMMA UdpHeaderIsRead ==
    ASSUME NEW sum, NEW p \in Packet(sum), NEW e, e.nh = (p.proto = UIP_PROTO_UDP),
           NEW inPayload, NEW u, u = ReadUdpHeader(e, UdpHeader(p), inPayload)
    PROVE  UdpRead(u, p, inPayload)
<1>1. CASE p.proto # UIP_PROTO_UDP
  BY <1>1 DEF ReadUdpHeader, UdpRead, UdpGives
<1>2. ASSUME p.proto = UIP_PROTO_UDP PROVE UdpGives(u, p.srcport, p.destport, p.sum)
  <2>1. /\ p.srcport \in Nat /\ p.destport \in Nat
        /\ p.srcport \in Values(p) /\ p.destport \in Values(p) /\ p.sum \in Values(p)
        /\ 0 \in Values(p) /\ 1 \in Values(p) /\ 2 \in Values(p)
    BY PacketFields, ValuesOf DEF Values
  <2>2. e.nh = TRUE
    BY <1>2
  <2>10. 1 \in 0..16 /\ 2 \in 0..16
    OBVIOUS
  <2>3. PICK s4, d4, s8, d8 : /\ s4 = p.srcport - SICSLOWPAN_UDP_4_BIT_PORT_MIN
                              /\ d4 = p.destport - SICSLOWPAN_UDP_4_BIT_PORT_MIN
                              /\ s8 = p.srcport - SICSLOWPAN_UDP_8_BIT_PORT_MIN
                              /\ d8 = p.destport - SICSLOWPAN_UDP_8_BIT_PORT_MIN
    OBVIOUS
  <2>4. /\ SICSLOWPAN_UDP_4_BIT_PORT_MIN + s4 = p.srcport
        /\ SICSLOWPAN_UDP_4_BIT_PORT_MIN + d4 = p.destport
        /\ SICSLOWPAN_UDP_8_BIT_PORT_MIN + s8 = p.srcport
        /\ SICSLOWPAN_UDP_8_BIT_PORT_MIN + d8 = p.destport
    BY <2>1, <2>3, SMT DEF SICSLOWPAN_UDP_4_BIT_PORT_MIN, SICSLOWPAN_UDP_8_BIT_PORT_MIN
  <2>5. /\ In4(p.srcport) => s4 \in 0..15 /\ In8(p.srcport)
        /\ In4(p.destport) => d4 \in 0..15 /\ In8(p.destport)
        /\ In8(p.srcport) => s8 \in Nat
        /\ In8(p.destport) => d8 \in Nat
    BY <2>3, PacketFields, PortBits
  <2>6. CASE In4(p.srcport) /\ In4(p.destport)
    <3>1. PICK v : v = s4 * 16 + d4
      OBVIOUS
    <3>2. UdpHeader(p) = (Inline(1, 3) \o Inline(1, v)) \o Inline(2, p.sum)
      BY <1>2, <2>3, <2>5, <2>6, <3>1 DEF UdpHeader
    <3>3. v \in Nat /\ v \div 16 = s4 /\ v % 16 = d4
      BY <2>5, <2>6, <3>1, TwoNibbles
    <3>4. v \in Values(p) /\ 3 \in Values(p)
      BY <3>3 DEF Values
    <3>6. Behind2((Inline(1, 3) \o Inline(1, v)) \o Inline(2, p.sum), 3, v, p.sum)
      BY <2>1, <2>10, <3>4, ReadBehind2
    <3>5. Behind2(UdpHeader(p), 3, v, p.sum)
      BY <3>2, <3>6
    <3>7. UdpGives(ReadUdpHeader(e, UdpHeader(p), inPayload),
                   SICSLOWPAN_UDP_4_BIT_PORT_MIN + s4, SICSLOWPAN_UDP_4_BIT_PORT_MIN + d4, p.sum)
      BY <2>2, <3>3, <3>5, ShortPorts
    <3> QED
      BY <2>4, <3>7
  <2>7. CASE ~(In4(p.srcport) /\ In4(p.destport)) /\ In8(p.destport)
    <3>1. UdpHeader(p) = (Inline(1, 1) \o Inline(2, p.srcport) \o Inline(1, d8)) \o Inline(2, p.sum)
      BY <1>2, <2>3, <2>7 DEF UdpHeader
    <3>2. d8 \in Values(p)
      BY <2>5, <2>7 DEF Values
    <3>4. Behind3((Inline(1, 1) \o Inline(2, p.srcport) \o Inline(1, d8)) \o Inline(2, p.sum), 1, p.srcport, d8, p.sum)
      BY <2>1, <2>10, <3>2, ReadBehind3
    <3>3. Behind3(UdpHeader(p), 1, p.srcport, d8, p.sum)
      BY <3>1, <3>4
    <3>5. UdpGives(ReadUdpHeader(e, UdpHeader(p), inPayload),
                   p.srcport, SICSLOWPAN_UDP_8_BIT_PORT_MIN + d8, p.sum)
      BY <2>2, <3>3, LongPorts
    <3> QED
      BY <2>4, <3>5
  <2>8. CASE ~(In4(p.srcport) /\ In4(p.destport)) /\ ~In8(p.destport) /\ In8(p.srcport)
    <3>1. UdpHeader(p) = (Inline(1, 2) \o Inline(1, s8) \o Inline(2, p.destport)) \o Inline(2, p.sum)
      BY <1>2, <2>3, <2>8 DEF UdpHeader
    <3>2. s8 \in Values(p)
      BY <2>5, <2>8 DEF Values
    <3>4. Behind3((Inline(1, 2) \o Inline(1, s8) \o Inline(2, p.destport)) \o Inline(2, p.sum), 2, s8, p.destport, p.sum)
      BY <2>1, <2>10, <3>2, ReadBehind3
    <3>3. Behind3(UdpHeader(p), 2, s8, p.destport, p.sum)
      BY <3>1, <3>4
    <3>5. UdpGives(ReadUdpHeader(e, UdpHeader(p), inPayload),
                   SICSLOWPAN_UDP_8_BIT_PORT_MIN + s8, p.destport, p.sum)
      BY <2>2, <3>3, LongPorts
    <3> QED
      BY <2>4, <3>5
  <2>9. CASE ~(In4(p.srcport) /\ In4(p.destport)) /\ ~In8(p.destport) /\ ~In8(p.srcport)
    <3>1. UdpHeader(p) = (Inline(1, 0) \o Inline(2, p.srcport) \o Inline(2, p.destport)) \o Inline(2, p.sum)
      BY <1>2, <2>9 DEF UdpHeader
    <3>3. Behind3((Inline(1, 0) \o Inline(2, p.srcport) \o Inline(2, p.destport)) \o Inline(2, p.sum), 0, p.srcport, p.destport, p.sum)
      BY <2>1, <2>10, ReadBehind3
    <3>2. Behind3(UdpHeader(p), 0, p.srcport, p.destport, p.sum)
      BY <3>1, <3>3
    <3> QED
      BY <2>2, <3>2, LongPorts
  <2> QED
    BY <2>6, <2>7, <2>8, <2>9
<1> QED
  BY <1>1, <1>2 DEF UdpRead

-----------------------------------------------------------------------------
(* The whole header.                                                         *)

(* e is what compress_hdr_hc06() makes of p for the link-layer address l.    *)
HeaderOf(e, p, l, own) ==
    /\ e.fl = ClassAndLabel(p).fl /\ e.tc = ClassAndLabel(p).tc
    /\ e.nh = (p.proto = UIP_PROTO_UDP) /\ e.hl = HopLimit(p).hl
    /\ e.sac = Source(p, own).ctx /\ e.sam = Source(p, own).mode
    /\ e.m = IsMcast(p.dest)
    /\ e.dac = Destination(p, l, own).ctx /\ e.dam = Destination(p, l, own).mode
    /\ e.cid = (ByPrefix(own, p.dest) \cup ByPrefix(own, p.src) # {})
    /\ e.sci = ContextNumber(own, p.src) /\ e.dci = ContextNumber(own, p.dest)

(* The flags of a compressed header are those its parts chose.               *)
LEMMA HeaderIs ==
    ASSUME NEW p, NEW l, NEW own
    PROVE  HeaderOf(compress_hdr_hc06(p, l, own), p, l, own)
  BY DEF compress_hdr_hc06, HeaderOf

(* The row of inline fields e.in, from each part of it on.                   *)
Row(e, p, l, own, y1, y2, y3, y4) ==
    /\ e.in = ClassAndLabel(p).in \o y1
    /\ y1 = NextHeader(p) \o y2 /\ y2 = HopLimit(p).in \o y3
    /\ y3 = Source(p, own).in \o y4 /\ y4 = Destination(p, l, own).in \o UdpHeader(p)

(* The row of a compressed header can be taken apart from the left.          *)
LEMMA RowOf ==
    ASSUME NEW sum, NEW p \in Packet(sum), NEW l, NEW own
    PROVE  \E y1, y2, y3, y4 \in Seq(Fields(p)) :
               Row(compress_hdr_hc06(p, l, own), p, l, own, y1, y2, y3, y4)
<1>1. /\ ClassAndLabel(p).in \in Seq(Fields(p)) /\ NextHeader(p) \in Seq(Fields(p))
      /\ HopLimit(p).in \in Seq(Fields(p)) /\ Source(p, own).in \in Seq(Fields(p))
      /\ Destination(p, l, own).in \in Seq(Fields(p)) /\ UdpHeader(p) \in Seq(Fields(p))
  BY ClassAndLabelBytes, NextHeaderBytes, SourceBytes, DestinationBytes, UdpHeaderBytes DEF AtMost
<1>2. PICK t, n, h, s, d, u \in Seq(Fields(p)) :
          /\ t = ClassAndLabel(p).in /\ n = NextHeader(p) /\ h = HopLimit(p).in
          /\ s = Source(p, own).in /\ d = Destination(p, l, own).in /\ u = UdpHeader(p)
  BY <1>1
<1>6. Parts(Seq(Fields(p)), t, n, h, s, d, u)
  BY SixRows
<1>3. PICK y1, y2, y3, y4 \in Seq(Fields(p)) :
          /\ ((((t \o n) \o h) \o s) \o d) \o u = t \o y1
          /\ y1 = n \o y2 /\ y2 = h \o y3 /\ y3 = s \o y4 /\ y4 = d \o u
  BY <1>6, Zenon DEF Parts
<1>4. compress_hdr_hc06(p, l, own).in = ((((t \o n) \o h) \o s) \o d) \o u
  BY <1>2, Zenon DEF compress_hdr_hc06, NextHeader
<1>5. Row(compress_hdr_hc06(p, l, own), p, l, own, y1, y2, y3, y4)
  BY <1>2, <1>3, <1>4, Zenon DEF Row
<1> QED
  BY <1>5

(* The steps of uncompress_hdr_hc06() and the packet q they give.            *)
Steps(e, sender, receiver, contexts, payload, t, n, h, s, d, u, q) ==
    /\ t = ReadClassAndLabel(e)
    /\ n = ReadNextHeader(e, t.rest)
    /\ h = ReadHopLimit(e, n.rest)
    /\ s = uncompress_addr(e.sac, SourceContext(e, contexts), e.sam, sender, h.rest)
    /\ d = ReadDestination(e, receiver, contexts, s.rest)
    /\ u = ReadUdpHeader(e, d.rest, payload.sum)
    /\ q.vtc = t.vtc /\ q.tcflow = t.tcflow /\ q.flow = t.flow
    /\ q.proto = n.proto /\ q.ttl = h.ttl /\ q.src = s.a /\ q.dest = d.a
    /\ q.len = (payload.n + Transport(n.proto)) % 256
    /\ q.srcport = u.ports[1] /\ q.destport = u.ports[2] /\ q.sum = u.sum
    /\ q.udplen = IF e.nh THEN q.len ELSE 0
    /\ q.data = [is |-> payload.is, n |-> payload.n]

(* uncompress_hdr_hc06() is these steps.                                     *)
LEMMA StepsOf ==
    ASSUME NEW e, NEW sender, NEW receiver, NEW contexts, NEW payload
    PROVE  \E t, n, h, s, d, u :
               Steps(e, sender, receiver, contexts, payload, t, n, h, s, d, u,
                     uncompress_hdr_hc06(e, sender, receiver, contexts, payload))
<1>1. PICK t : t = ReadClassAndLabel(e)
  OBVIOUS
<1>2. PICK n : n = ReadNextHeader(e, t.rest)
  OBVIOUS
<1>3. PICK h : h = ReadHopLimit(e, n.rest)
  OBVIOUS
<1>4. PICK s : s = uncompress_addr(e.sac, SourceContext(e, contexts), e.sam, sender, h.rest)
  OBVIOUS
<1>5. PICK d : d = ReadDestination(e, receiver, contexts, s.rest)
  OBVIOUS
<1>6. PICK u : u = ReadUdpHeader(e, d.rest, payload.sum)
  OBVIOUS
<1>7. PICK len : len = (payload.n + Transport(n.proto)) % 256
  OBVIOUS
<1>8. PICK q : q = uncompress_hdr_hc06(e, sender, receiver, contexts, payload)
  OBVIOUS
<1>9. q = [vtc |-> t.vtc, tcflow |-> t.tcflow, flow |-> t.flow, len |-> len,
           proto |-> n.proto, ttl |-> h.ttl, src |-> s.a, dest |-> d.a,
           srcport |-> u.ports[1], destport |-> u.ports[2],
           udplen |-> IF e.nh THEN len ELSE 0, sum |-> u.sum,
           data |-> [is |-> payload.is, n |-> payload.n]]
  BY <1>1, <1>2, <1>3, <1>4, <1>5, <1>6, <1>7, <1>8, ZenonT(60) DEF uncompress_hdr_hc06
<1>10. Steps(e, sender, receiver, contexts, payload, t, n, h, s, d, u, q)
  BY <1>1, <1>2, <1>3, <1>4, <1>5, <1>6, <1>7, <1>9 DEF Steps
<1> QED
  BY <1>8, <1>10

(* The fields of q that do not depend on the contexts are those of p.        *)
Kept(q, p, payload) ==
    /\ q.vtc = p.vtc /\ q.tcflow = p.tcflow /\ q.flow = p.flow
    /\ q.proto = p.proto /\ q.ttl = p.ttl
    /\ q.len = (payload.n + Transport(p.proto)) % 256
    /\ q.data = [is |-> payload.is, n |-> payload.n]
    /\ p.proto = UIP_PROTO_UDP =>
           q.srcport = p.srcport /\ q.destport = p.destport /\ q.sum = p.sum /\ q.udplen = q.len
    /\ p.proto # UIP_PROTO_UDP =>
           q.srcport = 0 /\ q.destport = 0 /\ q.sum = payload.sum /\ q.udplen = 0

(* The receiver's prefix for an address that is sent with a context is the   *)
(* sender's, and a unicast packet reaches the node it was sent to.           *)
SameSource(e, p, contexts) ==
    e.sac /\ e.sam # 0 => SamePrefix(Prefix(TRUE, SourceContext(e, contexts)), p.src)
SameDest(e, p, l, receiver, contexts) ==
    ~IsMcast(p.dest) => /\ receiver = l
                        /\ e.dac => SamePrefix(Prefix(TRUE, DestContext(e, contexts)), p.dest)

DestinationRead(d, y, e, p, l, receiver, contexts) ==
    d.rest = y /\ (SameDest(e, p, l, receiver, contexts) => d.a = p.dest)

(* The destination, unicast or multicast, is given back.                     *)
LEMMA DestinationIsRead ==
    ASSUME NEW sum, NEW p \in Packet(sum), NEW y \in Seq(Fields(p)), NEW l, NEW own,
           NEW e, HeaderOf(e, p, l, own), NEW receiver, NEW contexts
    PROVE  LET d == ReadDestination(e, receiver, contexts, Destination(p, l, own).in \o y)
           IN  DestinationRead(d, y, e, p, l, receiver, contexts)
<1>1. PICK c : c = Destination(p, l, own)
  OBVIOUS
<1>2. e.m = IsMcast(p.dest) /\ e.dac = c.ctx /\ e.dam = c.mode
  BY <1>1 DEF HeaderOf
<1>3. PICK d : d = ReadDestination(e, receiver, contexts, c.in \o y)
  OBVIOUS
<1>4. CASE IsMcast(p.dest)
  <2>1. c = Multicast(p.dest)
    BY <1>1, <1>4 DEF Destination
  <2>2. d = ReadMulticast(c.mode, c.in \o y)
    BY <1>2, <1>3, <1>4 DEF ReadDestination
  <2>3. Gives(d, p.dest, y)
    BY <1>4, <2>1, <2>2, MulticastIsRead
  <2> QED
    BY <1>1, <1>3, <2>3 DEF Gives, DestinationRead
<1>5. CASE ~IsMcast(p.dest)
  <2>1. c = Unicast(p.dest, l, own)
    BY <1>1, <1>5 DEF Destination
  <2>2. d = uncompress_addr(c.ctx, DestContext(e, contexts), c.mode, receiver, c.in \o y)
    BY <1>2, <1>3, <1>5 DEF ReadDestination
  <2>3. UnicastRead(d, y, c, p, l, receiver, DestContext(e, contexts))
    BY <1>5, <2>1, <2>2, UnicastIsRead
  <2> QED
    BY <1>1, <1>2, <1>3, <1>5, <2>3 DEF SameDest, UnicastRead, DestinationRead
<1> QED
  BY <1>4, <1>5

(* The fields that do not depend on contexts are given back whatever the     *)
(* contexts of the two nodes are; the addresses are if the prefixes agree.   *)
LEMMA HeaderIsRead ==
    ASSUME NEW sum, NEW p \in Packet(sum), SourceForm(p.src), NEW l, NEW own,
           NEW e, e = compress_hdr_hc06(p, l, own),
           NEW sender, NEW receiver, NEW contexts, NEW payload,
           NEW q, q = uncompress_hdr_hc06(e, sender, receiver, contexts, payload)
    PROVE  /\ Kept(q, p, payload)
           /\ SameSource(e, p, contexts) => q.src = p.src
           /\ SameDest(e, p, l, receiver, contexts) => q.dest = p.dest
<1>1. HeaderOf(e, p, l, own)
  BY HeaderIs
<1>2. PICK y1, y2, y3, y4 \in Seq(Fields(p)) : Row(e, p, l, own, y1, y2, y3, y4)
  BY RowOf
<1>3. PICK t, n, h, s, d, u : Steps(e, sender, receiver, contexts, payload, t, n, h, s, d, u, q)
  BY StepsOf
<1>4. t = [vtc |-> p.vtc, tcflow |-> p.tcflow, flow |-> p.flow, rest |-> y1]
  <2>1. /\ e.fl = ClassAndLabel(p).fl /\ e.tc = ClassAndLabel(p).tc
        /\ e.in = ClassAndLabel(p).in \o y1 /\ t = ReadClassAndLabel(e)
    BY <1>1, <1>2, <1>3 DEF HeaderOf, Row, Steps
  <2> QED
    BY <2>1, ClassAndLabelIsRead
<1>11. e.nh = (p.proto = UIP_PROTO_UDP)
  BY <1>1 DEF HeaderOf
<1>5. n = [proto |-> p.proto, rest |-> y2]
  <2>1. t.rest = y1
    BY <1>4
  <2>2. n = ReadNextHeader(e, NextHeader(p) \o y2)
    BY <1>2, <1>3, <2>1, Zenon DEF Row, Steps
  <2> QED
    BY <1>11, <2>2, NextHeaderIsRead
<1>6. h = [ttl |-> p.ttl, rest |-> y3]
  <2>1. n.rest = y2
    BY <1>5
  <2>2. h = ReadHopLimit(e, HopLimit(p).in \o y3)
    BY <1>2, <1>3, <2>1, Zenon DEF Row, Steps
  <2>3. e.hl = HopLimit(p).hl
    BY <1>1, Zenon DEF HeaderOf
  <2> QED
    BY <2>2, <2>3, HopLimitIsRead
<1>7. s.rest = y4 /\ (SameSource(e, p, contexts) => s.a = p.src)
  <2>1. PICK c : c = Source(p, own)
    OBVIOUS
  <2>2. e.sac = c.ctx /\ e.sam = c.mode
    BY <1>1, <2>1, Zenon DEF HeaderOf
  <2>3. h.rest = y3
    BY <1>6
  <2>4. y3 = c.in \o y4
    BY <1>2, <2>1, Zenon DEF Row
  <2>5. s = uncompress_addr(e.sac, SourceContext(e, contexts), e.sam, sender, h.rest)
    BY <1>3, Zenon DEF Steps
  <2>6. s = uncompress_addr(c.ctx, SourceContext(e, contexts), c.mode, sender, c.in \o y4)
    BY <2>2, <2>3, <2>4, <2>5, Zenon
  <2>7. SourceRead(s, y4, c, p, SourceContext(e, contexts))
    BY <2>1, <2>6, SourceIsRead
  <2> QED
    BY <2>2, <2>7 DEF SameSource, SourceRead
<1>8. DestinationRead(d, UdpHeader(p), e, p, l, receiver, contexts)
  <2>1. UdpHeader(p) \in Seq(Fields(p))
    BY UdpHeaderBytes DEF AtMost
  <2>2. d = ReadDestination(e, receiver, contexts, Destination(p, l, own).in \o UdpHeader(p))
    BY <1>2, <1>3, <1>7, Zenon DEF Row, Steps
  <2> QED
    BY <1>1, <2>1, <2>2, DestinationIsRead
<1>9. UdpRead(u, p, payload.sum)
  <2>1. d.rest = UdpHeader(p)
    BY <1>8, Zenon DEF DestinationRead
  <2>2. u = ReadUdpHeader(e, UdpHeader(p), payload.sum)
    BY <1>3, <2>1, ZenonT(60) DEF Steps
  <2> QED
    BY <1>11, <2>2, UdpHeaderIsRead
<1>10. /\ q.src = s.a /\ q.dest = d.a
       /\ q.vtc = t.vtc /\ q.tcflow = t.tcflow /\ q.flow = t.flow
       /\ q.proto = n.proto /\ q.ttl = h.ttl
       /\ q.len = (payload.n + Transport(n.proto)) % 256
       /\ q.srcport = u.ports[1] /\ q.destport = u.ports[2] /\ q.sum = u.sum
       /\ q.udplen = IF e.nh THEN q.len ELSE 0
       /\ q.data = [is |-> payload.is, n |-> payload.n]
  BY <1>3 DEF Steps
<1>12. Kept(q, p, payload)
  <2>1. /\ q.vtc = p.vtc /\ q.tcflow = p.tcflow /\ q.flow = p.flow
        /\ q.proto = p.proto /\ q.ttl = p.ttl
        /\ q.len = (payload.n + Transport(p.proto)) % 256
    BY <1>4, <1>5, <1>6, <1>10
  <2>2. CASE p.proto = UIP_PROTO_UDP
    <3>1. q.srcport = p.srcport /\ q.destport = p.destport /\ q.sum = p.sum /\ q.udplen = q.len
      <4>1. UdpGives(u, p.srcport, p.destport, p.sum)
        BY <1>9, <2>2, Zenon DEF UdpRead
      <4>2. u.ports[1] = p.srcport /\ u.ports[2] = p.destport /\ u.sum = p.sum
        BY <4>1 DEF UdpGives
      <4> QED
        BY <1>10, <1>11, <2>2, <4>2
    <3> QED
      BY <1>10, <2>1, <2>2, <3>1 DEF Kept
  <2>3. CASE p.proto # UIP_PROTO_UDP
    <3>1. q.srcport = 0 /\ q.destport = 0 /\ q.sum = payload.sum /\ q.udplen = 0
      <4>1. UdpGives(u, 0, 0, payload.sum)
        BY <1>9, <2>3, Zenon DEF UdpRead
      <4>2. u.ports[1] = 0 /\ u.ports[2] = 0 /\ u.sum = payload.sum
        BY <4>1 DEF UdpGives
      <4> QED
        BY <1>10, <1>11, <2>3, <4>2
    <3> QED
      BY <1>10, <2>1, <2>3, <3>1 DEF Kept
  <2> QED
    BY <2>2, <2>3
<1> QED
  BY <1>7, <1>8, <1>10, <1>12 DEF DestinationRead

(* No two contexts of a node have the same number.                           *)
OneEach(contexts) == \A c, d \in contexts : c.number = d.number => c = d

(* The receiver looks up by number the context that the sender found by      *)
(* prefix.                                                                   *)
LEMMA ContextIsFound ==
    ASSUME NEW own, NEW contexts, NEW x, OneEach(contexts),
           ByPrefix(own, x) # {}, ByPrefix(own, x) \subseteq contexts,
           NEW found, found = ByNumber(contexts, ContextNumber(own, x))
    PROVE  found # {} /\ SamePrefix(Prefix(TRUE, found), x)
<1>1. PICK c : c = CHOOSE d \in ByPrefix(own, x) : TRUE
  OBVIOUS
<1>2. c \in ByPrefix(own, x)
  BY <1>1
<1>3. ContextNumber(own, x) = c.number
  BY <1>1 DEF ContextNumber
<1>4. found = {c}
  BY <1>2, <1>3 DEF ByNumber, OneEach
<1>5. Prefix(TRUE, found) = c
  BY <1>4 DEF Prefix
<1> QED
  BY <1>2, <1>4, <1>5 DEF ByPrefix, SamePrefix

(* If the receiver has the contexts that the sender used then none is        *)
(* missing, and the prefixes agree.                                          *)
LEMMA ContextsAgree ==
    ASSUME NEW p, NEW l, NEW own, NEW e, HeaderOf(e, p, l, own),
           NEW contexts, OneEach(contexts),
           ByPrefix(own, p.src) \cup ByPrefix(own, p.dest) \subseteq contexts,
           NEW receiver, ~IsMcast(p.dest) => receiver = l
    PROVE  /\ ~ContextMissing(e, contexts)
           /\ SameSource(e, p, contexts) /\ SameDest(e, p, l, receiver, contexts)
<1>1. e.sac /\ e.sam # 0 => ByPrefix(own, p.src) # {}
  <2>1. PICK s : s = Source(p, own)
    OBVIOUS
  <2>2. s.ctx /\ s.mode # 0 => ByPrefix(own, p.src) # {}
    BY <2>1 DEF Source, Compressed, InFull, Unspecified, IsLinkLocal
  <2> QED
    BY <2>1, <2>2 DEF HeaderOf
<1>2. ~IsMcast(p.dest) /\ e.dac => ByPrefix(own, p.dest) # {}
  <2>1. ~IsMcast(p.dest) /\ Destination(p, l, own).ctx => ByPrefix(own, p.dest) # {}
    BY DEF Destination, Unicast, Compressed, InFull
  <2> QED
    BY <2>1 DEF HeaderOf
<1>3. ASSUME ByPrefix(own, p.src) # {}
      PROVE  /\ SourceContext(e, contexts) # {}
             /\ SamePrefix(Prefix(TRUE, SourceContext(e, contexts)), p.src)
  <2>1. SourceContext(e, contexts) = ByNumber(contexts, ContextNumber(own, p.src))
    BY <1>3 DEF SourceContext, HeaderOf
  <2> QED
    BY <1>3, <2>1, ContextIsFound
<1>4. ASSUME ByPrefix(own, p.dest) # {}
      PROVE  /\ DestContext(e, contexts) # {}
             /\ SamePrefix(Prefix(TRUE, DestContext(e, contexts)), p.dest)
  <2>1. DestContext(e, contexts) = ByNumber(contexts, ContextNumber(own, p.dest))
    BY <1>4 DEF DestContext, HeaderOf
  <2> QED
    BY <1>4, <2>1, ContextIsFound
<1>5. e.m = IsMcast(p.dest)
  BY DEF HeaderOf
<1>6. ~ContextMissing(e, contexts)
  BY <1>1, <1>2, <1>3, <1>4, <1>5 DEF ContextMissing
<1>7. SameSource(e, p, contexts) /\ SameDest(e, p, l, receiver, contexts)
  BY <1>1, <1>2, <1>3, <1>4 DEF SameSource, SameDest
<1> QED
  BY <1>6, <1>7

(* The lengths and ports of a packet as udp_send() and icmp6_send() fill     *)
(* them in.                                                                  *)
FilledIn(p) ==
    /\ p.len = Transport(p.proto) + p.data.n
    /\ p.proto = UIP_PROTO_UDP => p.udplen = p.len
    /\ p.proto # UIP_PROTO_UDP => p.srcport = 0 /\ p.destport = 0 /\ p.udplen = 0

(* A packet is its fields, and                                               *)
LEMMA PacketIs ==
    ASSUME NEW sum, NEW p \in Packet(sum)
    PROVE  p = [vtc |-> p.vtc, tcflow |-> p.tcflow, flow |-> p.flow, len |-> p.len,
                proto |-> p.proto, ttl |-> p.ttl, src |-> p.src, dest |-> p.dest,
                srcport |-> p.srcport, destport |-> p.destport,
                udplen |-> p.udplen, sum |-> p.sum,
                data |-> [is |-> p.data.is, n |-> p.data.n]]
<1>1. p.data \in [is : STRING, n : Nat]
  BY DEF Packet
<1>2. p.data = [is |-> p.data.is, n |-> p.data.n]
  BY <1>1
<1> QED
  BY <1>2 DEF Packet

(* so is what uncompress_hdr_hc06() gives.                                   *)
LEMMA UncompressedIs ==
    ASSUME NEW e, NEW sender, NEW receiver, NEW contexts, NEW payload,
           NEW q, q = uncompress_hdr_hc06(e, sender, receiver, contexts, payload)
    PROVE  q = [vtc |-> q.vtc, tcflow |-> q.tcflow, flow |-> q.flow, len |-> q.len,
                proto |-> q.proto, ttl |-> q.ttl, src |-> q.src, dest |-> q.dest,
                srcport |-> q.srcport, destport |-> q.destport,
                udplen |-> q.udplen, sum |-> q.sum, data |-> q.data]
  BY DEF uncompress_hdr_hc06

(* No context is missing to read e, and what is read is p.                   *)
GivenBack(e, sender, receiver, contexts, payload, p) ==
    /\ ~ContextMissing(e, contexts)
    /\ uncompress_hdr_hc06(e, sender, receiver, contexts, payload) = p

(* The round trip of the header compression: for every packet, every set of  *)
(* contexts of which the receiver has those that were used, and every pair   *)
(* of link-layer addresses, no context is missing and uncompress_hdr_hc06()  *)
(* gives back the packet that compress_hdr_hc06() was given, in every field. *)
THEOREM HeaderRoundTrip ==
    ASSUME NEW sum, NEW p \in Packet(sum), SourceForm(p.src), FilledIn(p),
           NEW own, NEW contexts, OneEach(contexts),
           ByPrefix(own, p.src) \cup ByPrefix(own, p.dest) \subseteq contexts,
           NEW l, NEW receiver, ~IsMcast(p.dest) => receiver = l,
           NEW e, e = compress_hdr_hc06(p, l, own),
           NEW sender, NEW payload, payload.is = p.data.is, payload.n = p.data.n,
           payload.sum = p.sum
    PROVE  GivenBack(e, sender, receiver, contexts, payload, p)
<1>1. PICK q : q = uncompress_hdr_hc06(e, sender, receiver, contexts, payload)
  OBVIOUS
<1>2. /\ Kept(q, p, payload)
      /\ SameSource(e, p, contexts) => q.src = p.src
      /\ SameDest(e, p, l, receiver, contexts) => q.dest = p.dest
  BY <1>1, HeaderIsRead
<1>3. /\ ~ContextMissing(e, contexts)
      /\ SameSource(e, p, contexts) /\ SameDest(e, p, l, receiver, contexts)
  BY HeaderIs, ContextsAgree
<1>4. q.len = p.len
  <2>1. p.len \in 0..255
    <3>1. p.len \in Byte
      BY DEF Packet
    <3> QED
      BY <3>1, ByteIsNat
  <2>2. p.len = payload.n + Transport(p.proto)
    <3>1. p.data.n \in Nat /\ Transport(p.proto) \in Nat
      BY DEF Packet, Transport, UIP_UDPH_LEN
    <3> QED
      BY <3>1 DEF FilledIn
  <2>3. q.len = p.len % 256
    BY <1>2, <2>2 DEF Kept
  <2> QED
    BY <2>1, <2>3
<1>5. /\ q.vtc = p.vtc /\ q.tcflow = p.tcflow /\ q.flow = p.flow
      /\ q.proto = p.proto /\ q.ttl = p.ttl /\ q.src = p.src /\ q.dest = p.dest
      /\ q.srcport = p.srcport /\ q.destport = p.destport
      /\ q.udplen = p.udplen /\ q.sum = p.sum
      /\ q.data = [is |-> p.data.is, n |-> p.data.n]
  BY <1>2, <1>3, <1>4 DEF Kept, FilledIn
<1>6. q = p
  BY <1>1, <1>4, <1>5, PacketIs, UncompressedIs
<1> QED
  BY <1>1, <1>3, <1>6 DEF GivenBack
=============================================================================
