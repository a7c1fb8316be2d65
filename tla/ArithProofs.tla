----------------------------- MODULE ArithProofs -----------------------------
(***************************************************************************)
(* What MCArith checks of the arithmetic on a circle of eight, for every   *)
(* key and every set of members of a circle of any size; and what it       *)
(* checks of the encoding for some messages, for every message, with bytes *)
(* of any size.                                                            *)
(***************************************************************************)
EXTENDS MCArith, RingArithProofs, SequenceTheorems

USE DEF Ident

InputOK == key \in Ident /\ members \in SUBSET Ident

LEMMA InputStays == Spec => []InputOK
  <1>1. Init => InputOK
    BY RingSizeAssumption DEF Init, CircleInput, MessageInput, InputOK
  <1>2. InputOK /\ [Next]_vars => InputOK'
    BY DEF InputOK, Next, vars
  <1> QED
    BY <1>1, <1>2, PTL DEF Spec

\* isInSuccessor() is membership of an arc, on a circle of any size.
THEOREM MembershipCorrect == Spec => []MembershipIsArc
  <1>1. InputOK => MembershipIsArc
    BY IsInSuccessorExact DEF InputOK, MembershipIsArc
  <1> QED
    BY <1>1, InputStays, PTL

\* A set of points that is more than one has another beside each of them.
LEMMA TwoMembers ==
  ASSUME NEW S \in SUBSET Ident, Cardinality(S) > 1, NEW x
  PROVE  S \ {x} # {}
  <1> SUFFICES ASSUME S \subseteq {x}
               PROVE  FALSE
    OBVIOUS
  <1>1. S = {} \/ S = {x}
    OBVIOUS
  <1>2. CASE S = {}
    <2>1. Cardinality(S) = 0
      BY <1>2, FS_EmptySet
    <2> QED
      BY <2>1
  <1>3. CASE S = {x}
    <2>1. Cardinality(S) = 1
      BY <1>3, FS_Singleton
    <2> QED
      BY <2>1
  <1> QED
    BY <1>1, <1>2, <1>3

\* In an ideal ring of any two or more members, one and only one holds a given
\* key to be its successor's, and that successor is responsible for it.
THEOREM OneMemberCorrect == Spec => []OneMemberAnswers
  <1>1. ASSUME InputOK, Cardinality(members) > 1
        PROVE  \E n \in members :
                 /\ {a \in members : IsInSuccessor(key, a, NextOn(members, a))} = {n}
                 /\ NextOn(members, n) = Owner(members, key)
    <2> USE DEF InputOK
    <2>1. \A x : members \ {x} # {}
      BY <1>1, TwoMembers
    <2>2. PICK n \in members : IsInSuccessor(key, n, NextOn(members, n))
      BY <1>1, <2>1, SomebodyAnswers
    <2>3. NextOn(members, n) = Owner(members, key)
      BY <1>1, <2>1, <2>2, AnswerIsOwner
    <2>4. ASSUME NEW a \in members, a # n, IsInSuccessor(key, a, NextOn(members, a))
          PROVE  FALSE
      <3>1. a \in Ident /\ n \in Ident /\ NextOn(members, a) \in Ident
            /\ NextOn(members, n) \in Ident
        BY <1>1, <2>1, NextOnFirst
      <3>2. /\ Clockwise(a, NextOn(members, a)) <= Clockwise(a, n)
            /\ Clockwise(n, NextOn(members, n)) <= Clockwise(n, a)
        BY <1>1, <2>1, <2>4, <3>1, NextOnFirst
      <3> QED
        BY <1>1, <2>2, <2>4, <3>1, <3>2, OneAnswerer
    <2> QED
      BY <2>2, <2>3, <2>4
  <1>2. InputOK => OneMemberAnswers
    BY <1>1, FS_Singleton DEF OneMemberAnswers
  <1> QED
    BY <1>2, InputStays, PTL

\* The first key of a finger is its span ahead, or one more.
THEOREM FingersCorrect == Spec => []FingersReachAhead
  <1>1. ASSUME key \in Ident, NEW p \in Span
        PROVE  /\ FingerStart(key, p) \in Ident
               /\ Clockwise(key, FingerStart(key, p)) \in {p, p + 1}
               /\ key + p < RingSize => Clockwise(key, FingerStart(key, p)) = p
    <2>1. p \in Ident /\ p + 1 < RingSize
      BY SpanAssumption DEF Span
    <2>2. /\ FingerStart(key, p) \in Ident
          /\ FingerStart(key, p) =
               IF key + p < RingSize THEN key + p ELSE key + p - RingSize + 1
      BY <1>1, <2>1, FingerStartExact
    <2> QED
      BY <1>1, <2>1, <2>2, RingSizeAssumption DEF Clockwise
  <1>2. InputOK => FingersReachAhead
    BY <1>1 DEF InputOK, FingersReachAhead
  <1> QED
    BY <1>2, InputStays, PTL

-----------------------------------------------------------------------------
(* Words and their bytes, for bytes of any size.                           *)

LEMMA Division ==
  ASSUME NEW x \in Nat
  PROVE  /\ x \div ByteSize \in Nat
         /\ x % ByteSize \in Byte
         /\ x = (x \div ByteSize) * ByteSize + (x % ByteSize)
  <1>1. ByteSize \in Nat \ {0}
    BY FormatAssumption
  <1>2. x % ByteSize \in 0 .. ByteSize - 1
    BY <1>1
  <1>3. x = ByteSize * (x \div ByteSize) + (x % ByteSize)
    BY <1>1
  <1>4. x \div ByteSize \in Int
    BY <1>1
  <1>5. x \div ByteSize \in Nat
    <2> DEFINE q == x \div ByteSize
    <2> SUFFICES ASSUME q <= -1
                 PROVE  FALSE
      BY <1>4
    <2> HIDE DEF q
    <2>1. ByteSize * (q + 1) <= 0
      BY <1>1, <1>4 DEF q
    <2>2. ByteSize * (q + 1) = ByteSize * q + ByteSize
      BY <1>1, <1>4 DEF q
    <2> QED
      BY <1>1, <1>2, <1>3, <1>4, <2>1, <2>2 DEF q
  <1> QED
    BY <1>1, <1>2, <1>3, <1>5 DEF Byte

LEMMA Quotient ==
  ASSUME NEW q \in Nat, NEW r \in Byte
  PROVE  /\ q * ByteSize + r \in Nat
         /\ (q * ByteSize + r) \div ByteSize = q
         /\ (q * ByteSize + r) % ByteSize = r
  BY FormatAssumption DEF Byte

LEMMA SmallQuotient ==
  ASSUME NEW x \in Nat, NEW k \in Nat, x < k * ByteSize
  PROVE  x \div ByteSize < k
  BY FormatAssumption

Bytes(b) == b[1] \in Byte /\ b[2] \in Byte /\ b[3] \in Byte /\ b[4] \in Byte

\* A word is four bytes, and is what its bytes make.
LEMMA WordOfBytes ==
  ASSUME NEW w \in Word
  PROVE  Bytes(BigEndian(w)) /\ FromBigEndian(BigEndian(w)) = w
  <1> DEFINE x == w \div ByteSize
             y == x \div ByteSize
             z == y \div ByteSize
  <1>1. w \in Nat /\ x \in Nat /\ y \in Nat /\ z \in Nat
    BY Division, FormatAssumption DEF Word
  <1>2. /\ w = x * ByteSize + (w % ByteSize) /\ w % ByteSize \in Byte
        /\ x = y * ByteSize + (x % ByteSize) /\ x % ByteSize \in Byte
        /\ y = z * ByteSize + (y % ByteSize) /\ y % ByteSize \in Byte
    BY <1>1, Division
  <1>3. z \in Byte
    <2>1. /\ ByteSize \in Nat /\ ByteSize * ByteSize \in Nat
          /\ ByteSize * ByteSize * ByteSize \in Nat
          /\ w < ByteSize * ByteSize * ByteSize * ByteSize
      BY FormatAssumption DEF Word
    <2>2. x < ByteSize * ByteSize * ByteSize
      BY <1>1, <2>1, SmallQuotient
    <2>3. y < ByteSize * ByteSize
      BY <1>1, <2>1, <2>2, SmallQuotient
    <2>4. z < ByteSize
      BY <1>1, <2>1, <2>3, SmallQuotient
    <2> QED
      BY <1>1, <2>1, <2>4 DEF Byte
  <1>4. BigEndian(w) = <<z, y % ByteSize, x % ByteSize, w % ByteSize>>
    BY DEF BigEndian
  <1> HIDE DEF x, y, z
  <1> QED
    BY <1>2, <1>3, <1>4 DEF Bytes, FromBigEndian

\* Four bytes are the bytes of the word they make.
LEMMA BytesOfWord ==
  ASSUME NEW b, Bytes(b)
  PROVE  BigEndian(FromBigEndian(b)) = <<b[1], b[2], b[3], b[4]>>
  <1> DEFINE z == b[1]
             y == z * ByteSize + b[2]
             x == y * ByteSize + b[3]
             w == x * ByteSize + b[4]
  <1>1. z \in Nat /\ b[2] \in Byte /\ b[3] \in Byte /\ b[4] \in Byte
    BY FormatAssumption DEF Bytes, Byte
  <1>2. y \in Nat /\ y \div ByteSize = z /\ y % ByteSize = b[2]
    BY <1>1, Quotient
  <1>3. x \in Nat /\ x \div ByteSize = y /\ x % ByteSize = b[3]
    BY <1>1, <1>2, Quotient
  <1>4. w \in Nat /\ w \div ByteSize = x /\ w % ByteSize = b[4]
    BY <1>1, <1>3, Quotient
  <1>5. FromBigEndian(b) = w
    BY DEF FromBigEndian
  <1> HIDE DEF w, x, y
  <1> QED
    BY <1>2, <1>3, <1>4, <1>5 DEF BigEndian

LEMMA SwappedBytes ==
  ASSUME NEW b, Bytes(b)
  PROVE  Bytes(Swap(b)) /\ Swap(Swap(b)) = <<b[1], b[2], b[3], b[4]>>
  BY DEF Bytes, Swap

\* Whatever the order of a host, the network's is big-endian: what it writes,
LEMMA WordWritten ==
  ASSUME NEW w \in Word, NEW order \in ByteOrder
  PROVE  PutWord(order, w) = BigEndian(w)
  <1>1. Bytes(BigEndian(w)) /\ FromBigEndian(BigEndian(w)) = w
    BY WordOfBytes
  <1>2. <<BigEndian(w)[1], BigEndian(w)[2], BigEndian(w)[3], BigEndian(w)[4]>> = BigEndian(w)
    BY DEF BigEndian
  <1>3. CASE order = "big"
    BY <1>3 DEF PutWord, itobc, htonl
  <1>4. CASE order = "little"
    <2> DEFINE s == Swap(BigEndian(w))
    <2>1. Bytes(s) /\ Swap(s) = BigEndian(w)
      BY <1>1, <1>2, SwappedBytes
    <2>2. s = <<s[1], s[2], s[3], s[4]>>
      BY DEF Swap
    <2>3. BigEndian(FromBigEndian(s)) = s
      BY <2>1, <2>2, BytesOfWord
    <2>4. PutWord(order, w) = Swap(BigEndian(FromBigEndian(s)))
      BY <1>4 DEF PutWord, itobc, htonl
    <2> QED
      BY <2>1, <2>3, <2>4
  <1> QED
    BY <1>3, <1>4 DEF ByteOrder

\* and what it reads.
LEMMA WordRead ==
  ASSUME NEW w \in Word, NEW order \in ByteOrder, NEW bytes, NEW o \in Nat,
         \A i \in 1 .. 4 : bytes[o + i] = BigEndian(w)[i]
  PROVE  GetWord(order, bytes, o) = w
  <1> DEFINE b == SubSeq(bytes, o + 1, o + 4)
  <1>1. Bytes(BigEndian(w)) /\ FromBigEndian(BigEndian(w)) = w
    BY WordOfBytes
  <1>2. \A i \in o + 1 .. o + 4 : bytes[i] \in Byte
    <2> SUFFICES ASSUME NEW i \in o + 1 .. o + 4
                 PROVE  bytes[i] \in Byte
      OBVIOUS
    <2>1. i - o \in 1 .. 4 /\ i = o + (i - o)
      OBVIOUS
    <2> QED
      BY <1>1, <2>1 DEF Bytes
  <1>3. /\ b[1] = BigEndian(w)[1] /\ b[2] = BigEndian(w)[2]
        /\ b[3] = BigEndian(w)[3] /\ b[4] = BigEndian(w)[4]
    BY <1>2, SubSeqProperties
  <1> HIDE DEF b
  <1>4. Bytes(b) /\ FromBigEndian(b) = w
    BY <1>1, <1>3 DEF Bytes, FromBigEndian
  <1>5. CASE order = "big"
    BY <1>4, <1>5 DEF GetWord, ntohl, htonl, bctoi, b
  <1>6. CASE order = "little"
    <2> DEFINE s == Swap(b)
    <2>1. Bytes(s) /\ Swap(s) = <<b[1], b[2], b[3], b[4]>>
      BY <1>4, SwappedBytes
    <2>2. s = <<s[1], s[2], s[3], s[4]>>
      BY DEF Swap
    <2>3. BigEndian(FromBigEndian(s)) = s
      BY <2>1, <2>2, BytesOfWord
    <2>4. FromBigEndian(Swap(s)) = w
      BY <1>4, <2>1 DEF FromBigEndian
    <2>5. GetWord(order, bytes, o) = FromBigEndian(Swap(BigEndian(FromBigEndian(s))))
      BY <1>6 DEF GetWord, ntohl, htonl, bctoi, b
    <2> QED
      BY <2>3, <2>4, <2>5
  <1> QED
    BY <1>5, <1>6 DEF ByteOrder

-----------------------------------------------------------------------------
(* Messages and their bytes.                                               *)

LEMMA FourBytes ==
  ASSUME NEW p \in Byte, NEW q \in Byte, NEW r \in Byte, NEW s \in Byte
  PROVE  <<p, q, r, s>> \in Seq(Byte) /\ Len(<<p, q, r, s>>) = 4
  OBVIOUS

LEMMA WordSequence ==
  ASSUME NEW w \in Word
  PROVE  BigEndian(w) \in Seq(Byte) /\ Len(BigEndian(w)) = 4
  <1> DEFINE b == BigEndian(w)
  <1>1. b[1] \in Byte /\ b[2] \in Byte /\ b[3] \in Byte /\ b[4] \in Byte
    BY WordOfBytes DEF Bytes
  <1>2. \E p, q, r, s : b = <<p, q, r, s>>
    BY DEF BigEndian
  <1>3. PICK p, q, r, s : b = <<p, q, r, s>>
    BY <1>2
  <1> HIDE DEF b
  <1>4. p \in Byte /\ q \in Byte /\ r \in Byte /\ s \in Byte
    BY <1>1, <1>3
  <1> QED
    BY <1>3, <1>4, FourBytes DEF b

LEMMA Joined ==
  ASSUME NEW s \in Seq(Byte), NEW t \in Seq(Byte)
  PROVE  /\ s \o t \in Seq(Byte) /\ Len(s \o t) = Len(s) + Len(t)
         /\ \A i \in 1 .. Len(s) : (s \o t)[i] = s[i]
         /\ \A i \in 1 .. Len(t) : (s \o t)[Len(s) + i] = t[i]
  <1> DEFINE u == s \o t
  <1>1. Len(s) \in Nat /\ Len(t) \in Nat
    BY LenProperties
  <1>2. /\ u \in Seq(Byte) /\ Len(u) = Len(s) + Len(t)
        /\ \A i \in 1 .. Len(s) + Len(t) :
             u[i] = IF i <= Len(s) THEN s[i] ELSE t[i - Len(s)]
    BY ConcatProperties
  <1> HIDE DEF u
  <1>3. \A i \in 1 .. Len(s) : u[i] = s[i]
    BY <1>1, <1>2
  <1>4. ASSUME NEW i \in 1 .. Len(t)
        PROVE  u[Len(s) + i] = t[i]
    <2>1. /\ Len(s) + i \in 1 .. Len(s) + Len(t)
          /\ ~ (Len(s) + i <= Len(s)) /\ Len(s) + i - Len(s) = i
      BY <1>1
    <2> QED
      BY <1>2, <2>1
  <1> QED
    BY <1>2, <1>3, <1>4 DEF u

\* Where the parts of a message are in its bytes: three words, perhaps a
\* fourth, and the address.
InPlace(bytes, A, B, C, d, t) ==
  /\ bytes \in Seq(Byte) /\ Len(bytes) = 12 + Len(d) + Len(t)
  /\ \A i \in 1 .. 4 : bytes[i] = A[i] /\ bytes[4 + i] = B[i] /\ bytes[8 + i] = C[i]
  /\ \A i \in 1 .. Len(d) : bytes[12 + i] = d[i]
  /\ \A i \in 1 .. Len(t) : bytes[12 + Len(d) + i] = t[i]

LEMMA Layout ==
  ASSUME NEW A \in Seq(Byte), NEW B \in Seq(Byte), NEW C \in Seq(Byte),
         NEW d \in Seq(Byte), NEW t \in Seq(Byte),
         Len(A) = 4, Len(B) = 4, Len(C) = 4
  PROVE  InPlace(A \o B \o C \o d \o t, A, B, C, d, t)
  <1> DEFINE AB == A \o B
             ABC == AB \o C
             ABCD == ABC \o d
             bytes == ABCD \o t
  <1>1. Len(d) \in Nat /\ Len(t) \in Nat
    BY LenProperties
  <1> HIDE DEF bytes
  <1>3. /\ AB \in Seq(Byte) /\ Len(AB) = 8
        /\ \A i \in 1 .. 4 : AB[i] = A[i] /\ AB[4 + i] = B[i]
    <2>1. /\ AB \in Seq(Byte) /\ Len(AB) = Len(A) + Len(B)
          /\ \A i \in 1 .. Len(A) : AB[i] = A[i]
          /\ \A i \in 1 .. Len(B) : AB[Len(A) + i] = B[i]
      BY <1>1, Joined
    <2> HIDE DEF AB
    <2> QED
      BY <1>1, <2>1
  <1>4. /\ ABC \in Seq(Byte) /\ Len(ABC) = 12
        /\ \A i \in 1 .. 8 : ABC[i] = AB[i]
        /\ \A i \in 1 .. 4 : ABC[8 + i] = C[i]
    <2> HIDE DEF AB
    <2>1. /\ ABC \in Seq(Byte) /\ Len(ABC) = Len(AB) + Len(C)
          /\ \A i \in 1 .. Len(AB) : ABC[i] = AB[i]
          /\ \A i \in 1 .. Len(C) : ABC[Len(AB) + i] = C[i]
      BY <1>1, <1>3, Joined
    <2> HIDE DEF ABC
    <2> QED
      BY <1>1, <1>3, <2>1
  <1>5. /\ ABCD \in Seq(Byte) /\ Len(ABCD) = 12 + Len(d)
        /\ \A i \in 1 .. 12 : ABCD[i] = ABC[i]
        /\ \A i \in 1 .. Len(d) : ABCD[12 + i] = d[i]
    <2> HIDE DEF ABC
    <2>1. /\ ABCD \in Seq(Byte) /\ Len(ABCD) = Len(ABC) + Len(d)
          /\ \A i \in 1 .. Len(ABC) : ABCD[i] = ABC[i]
          /\ \A i \in 1 .. Len(d) : ABCD[Len(ABC) + i] = d[i]
      BY <1>1, <1>4, Joined
    <2> HIDE DEF ABCD
    <2> QED
      BY <1>1, <1>4, <2>1
  <1> HIDE DEF AB, ABC, ABCD
  <1>6. /\ bytes \in Seq(Byte) /\ Len(bytes) = 12 + Len(d) + Len(t)
        /\ \A i \in 1 .. 12 + Len(d) : bytes[i] = ABCD[i]
        /\ \A i \in 1 .. Len(t) : bytes[12 + Len(d) + i] = t[i]
    <2>1. /\ bytes \in Seq(Byte) /\ Len(bytes) = Len(ABCD) + Len(t)
          /\ \A i \in 1 .. Len(ABCD) : bytes[i] = ABCD[i]
          /\ \A i \in 1 .. Len(t) : bytes[Len(ABCD) + i] = t[i]
      BY <1>5, Joined DEF bytes
    <2> QED
      BY <1>1, <1>5, <2>1
  <1>7. ASSUME NEW i \in 1 .. 12
        PROVE  bytes[i] = ABC[i]
    <2>1. i \in 1 .. 12 + Len(d)
      BY <1>1
    <2> QED
      BY <1>5, <1>6, <2>1
  <1>8. \A i \in 1 .. 4 : bytes[i] = A[i] /\ bytes[4 + i] = B[i] /\ bytes[8 + i] = C[i]
    BY <1>3, <1>4, <1>7
  <1>9. ASSUME NEW i \in 1 .. Len(d)
        PROVE  bytes[12 + i] = d[i]
    <2>1. 12 + i \in 1 .. 12 + Len(d)
      BY <1>1
    <2>2. bytes[12 + i] = ABCD[12 + i]
      BY <1>6, <2>1
    <2> QED
      BY <1>5, <2>2
  <1>10. InPlace(bytes, A, B, C, d, t)
    BY <1>6, <1>8, <1>9 DEF InPlace
  <1> QED
    BY <1>10 DEF bytes, ABCD, ABC, AB

\* A text in memory ends with its first zero.
LEMMA TextRead ==
  ASSUME NEW text \in Seq(Byte \ {0})
  PROVE  CString(InMemory(text)) = text
  <1> DEFINE chars == InMemory(text)
             First(i) == chars[i] = 0 /\ \A j \in 1 .. i - 1 : chars[j] # 0
  <1>1. Len(text) \in Nat /\ \A i \in 1 .. Len(text) : text[i] # 0 /\ text[i] \in Byte
    BY ElementOfSeq, LenProperties
  <1>2. 0 \in Byte
    BY FormatAssumption DEF Byte
  <1>3. text \in Seq(Byte)
    BY SeqMonotonic
  <1>4. /\ chars \in Seq(Byte) /\ Len(chars) = Len(text) + 1
        /\ \A i \in 1 .. Len(text) : chars[i] = text[i]
        /\ chars[Len(text) + 1] = 0
    BY <1>2, <1>3, AppendProperties DEF InMemory
  <1>5. DOMAIN chars = 1 .. Len(text) + 1
    BY <1>4, LenProperties
  <1> HIDE DEF chars
  <1>6. \A i \in DOMAIN chars : First(i) <=> i = Len(text) + 1
    <2> SUFFICES ASSUME NEW i \in DOMAIN chars
                 PROVE  First(i) <=> i = Len(text) + 1
      OBVIOUS
    <2>1. i \in 1 .. Len(text) \/ i = Len(text) + 1
      BY <1>1, <1>5
    <2>2. i \in 1 .. Len(text) => ~ First(i) /\ i # Len(text) + 1
      BY <1>1, <1>4
    <2>3. i = Len(text) + 1 => First(i)
      BY <1>1, <1>4
    <2> QED
      BY <2>1, <2>2, <2>3
  <1>7. (CHOOSE i \in DOMAIN chars : First(i)) = Len(text) + 1
    BY <1>1, <1>5, <1>6
  <1>8. CString(chars) = SubSeq(chars, 1, Len(text))
    <2>1. \E i \in DOMAIN chars : chars[i] = 0
      BY <1>1, <1>4, <1>5
    <2>2. CString(chars) = SubSeq(chars, 1, (CHOOSE i \in DOMAIN chars : First(i)) - 1)
      BY <2>1 DEF CString
    <2> DEFINE end == CHOOSE i \in DOMAIN chars : First(i)
    <2>3. end = Len(text) + 1
      BY <1>7
    <2> HIDE DEF end
    <2>4. end - 1 = Len(text)
      BY <1>1, <2>3
    <2> QED
      BY <2>2, <2>4 DEF end
  <1>9. SubSeq(chars, 1, Len(text)) = text
    <2> DEFINE s == SubSeq(chars, 1, Len(text))
    <2>1. \A i \in 1 .. Len(text) : chars[i] \in Byte
      BY <1>1, <1>4
    <2>2. s \in Seq(Byte) /\ Len(s) = Len(text) /\ \A i \in 1 .. Len(text) : s[i] = chars[i]
      BY <1>1, <2>1, SubSeqProperties
    <2> HIDE DEF s
    <2>3. s = text
      BY <1>3, <1>4, <2>2, SeqEqual
    <2> QED
      BY <2>3 DEF s
  <1> QED
    BY <1>8, <1>9 DEF chars

LEMMA TypesAreWords == MType \subseteq Word
  <1>1. ByteSize \in Nat /\ ByteSize >= 2
    BY FormatAssumption
  <1>2. ByteSize * ByteSize \in Nat /\ ByteSize * ByteSize >= 4
    BY <1>1
  <1>3. ByteSize * ByteSize * ByteSize \in Nat /\ ByteSize * ByteSize * ByteSize >= 8
    BY <1>1, <1>2
  <1>4. /\ ByteSize * ByteSize * ByteSize * ByteSize \in Nat
        /\ ByteSize * ByteSize * ByteSize * ByteSize >= 16
    BY <1>1, <1>3
  <1> QED
    BY <1>4 DEF MType, Word

\* A message that the create functions make and receiveMessage() has room for.
Writable(m) ==
  \E type \in MType, w1, w2 \in Word, text \in Seq(Byte \ {0}) :
    /\ m = Create(type, SubSeq(<<w1, w2>>, 1, WordsOf(type)), text)
    /\ SizeOf(type, text) \in Word /\ SizeOf(type, text) <= BufferSize
    /\ text # NONE

\* The bytes of a message: of its type, its size, its words and its address.
Words(type, w2) == IF WordsOf(type) = 2 THEN BigEndian(w2) ELSE <<>>
Chars(type, text) ==
  IF type = MTYPE_UPDATE_PREDECESSOR_ACK THEN <<>> ELSE InMemory(text)

BytesOf(type, w1, w2, text) ==
  BigEndian(type) \o BigEndian(SizeOf(type, text)) \o BigEndian(w1)
    \o Words(type, w2) \o Chars(type, text)

LEMMA CharsType ==
  ASSUME NEW type \in MType, NEW text \in Seq(Byte \ {0})
  PROVE  /\ Chars(type, text) \in Seq(Byte)
         /\ Len(text) \in Nat
         /\ SizeOf(type, text) = TextOffset(type) + Len(Chars(type, text))
         /\ Len(Chars(type, text)) =
              IF type = MTYPE_UPDATE_PREDECESSOR_ACK THEN 0 ELSE Len(text) + 1
  <1>1. 0 \in Byte /\ text \in Seq(Byte)
    BY FormatAssumption, SeqMonotonic DEF Byte
  <1>2. Len(text) \in Nat
    BY LenProperties
  <1>3. InMemory(text) \in Seq(Byte) /\ Len(InMemory(text)) = Len(text) + 1
    BY <1>1, AppendProperties DEF InMemory
  <1>4. TextOffset(type) \in Nat
    BY DEF TextOffset, WordsOf
  <1>5. <<>> \in Seq(Byte) /\ Len(<<>>) = 0
    BY EmptySeq
  <1> QED
    BY <1>2, <1>3, <1>4, <1>5 DEF Chars, SizeOf

LEMMA WordsKept ==
  ASSUME NEW type, NEW w1 \in Word, NEW w2 \in Word
  PROVE  SubSeq(<<w1, w2>>, 1, WordsOf(type)) =
           [i \in 1 .. WordsOf(type) |-> IF i = 1 THEN w1 ELSE w2]
  <1> DEFINE k == WordsOf(type)
             s == SubSeq(<<w1, w2>>, 1, k)
  <1>1. k \in {1, 2}
    BY DEF WordsOf
  <1> HIDE DEF k
  <1>2. \A i \in 1 .. k : <<w1, w2>>[i] = IF i = 1 THEN w1 ELSE w2
    BY <1>1
  <1>3. \A i \in 1 .. k : <<w1, w2>>[i] \in Word
    BY <1>2
  <1>4. s \in Seq(Word) /\ Len(s) = k /\ \A i \in 1 .. k : s[i] = <<w1, w2>>[i]
    BY <1>1, <1>3, SubSeqProperties
  <1> HIDE DEF s
  <1>5. s = [i \in 1 .. k |-> s[i]]
    BY <1>4, LenProperties
  <1>6. s = [i \in 1 .. k |-> IF i = 1 THEN w1 ELSE w2]
    BY <1>2, <1>4, <1>5
  <1> QED
    BY <1>6 DEF k, s

LEMMA Written ==
  ASSUME NEW type \in MType, NEW w1 \in Word, NEW w2 \in Word,
         NEW text \in Seq(Byte \ {0}), text # NONE, SizeOf(type, text) \in Word,
         NEW words, words[1] = w1, WordsOf(type) = 2 => words[2] = w2,
         NEW m, m = Create(type, words, text), NEW order \in ByteOrder
  PROVE  Serialize(order, m) = BytesOf(type, w1, w2, text)
  <1>1. /\ m.type = type /\ m.size = SizeOf(type, text)
        /\ m.text = IF type = MTYPE_UPDATE_PREDECESSOR_ACK THEN NONE ELSE text
        /\ m.words = words
    BY DEF Create
  <1>2. /\ PutWord(order, m.type) = BigEndian(type)
        /\ PutWord(order, m.size) = BigEndian(SizeOf(type, text))
        /\ PutWord(order, m.words[1]) = BigEndian(w1)
        /\ WordsOf(type) = 2 => PutWord(order, m.words[2]) = BigEndian(w2)
    BY <1>1, WordWritten, TypesAreWords
  <1>3. (IF WordsOf(m.type) = 2 THEN PutWord(order, m.words[2]) ELSE <<>>) = Words(type, w2)
    BY <1>1, <1>2 DEF Words
  <1>4. (IF m.text = NONE THEN <<>>
         ELSE SubSeq(InMemory(m.text), 1, m.size - TextOffset(m.type))) = Chars(type, text)
    <2>1. CASE type = MTYPE_UPDATE_PREDECESSOR_ACK
      BY <1>1, <2>1 DEF Chars
    <2>2. CASE type # MTYPE_UPDATE_PREDECESSOR_ACK
      <3>1. m.text = text /\ Chars(type, text) = InMemory(text)
        BY <1>1, <2>2 DEF Chars
      <3>2. TextOffset(type) \in Nat
        BY DEF TextOffset, WordsOf
      <3>3. m.size - TextOffset(m.type) = Len(InMemory(text))
        BY <1>1, <2>2, <3>1, <3>2, CharsType
      <3>4. SubSeq(InMemory(text), 1, Len(InMemory(text))) = InMemory(text)
        BY <3>1, CharsType, SubSeqFull
      <3> QED
        BY <3>1, <3>3, <3>4
    <2> QED
      BY <2>1, <2>2
  <1> QED
    BY <1>1, <1>2, <1>3, <1>4 DEF Serialize, BytesOf

\* Bytes with the words and the address of a message in their places.
HasParts(bytes, type, w1, w2, text) ==
  InPlace(bytes, BigEndian(type), BigEndian(SizeOf(type, text)), BigEndian(w1),
          Words(type, w2), Chars(type, text))

LEMMA WordsType ==
  ASSUME NEW type, NEW w2 \in Word
  PROVE  /\ Words(type, w2) \in Seq(Byte)
         /\ \/ WordsOf(type) = 1 /\ Len(Words(type, w2)) = 0
            \/ /\ WordsOf(type) = 2 /\ Len(Words(type, w2)) = 4
               /\ Words(type, w2) = BigEndian(w2)
         /\ TextOffset(type) = 12 + Len(Words(type, w2))
  <1>1. CASE WordsOf(type) = 1
    <2>1. Words(type, w2) = <<>>
      BY <1>1 DEF Words
    <2>2. Words(type, w2) \in Seq(Byte) /\ Len(Words(type, w2)) = 0
      BY <2>1, EmptySeq
    <2> QED
      BY <1>1, <2>2 DEF TextOffset
  <1>2. CASE WordsOf(type) = 2
    <2>1. Words(type, w2) = BigEndian(w2)
      BY <1>2 DEF Words
    <2>2. Words(type, w2) \in Seq(Byte) /\ Len(Words(type, w2)) = 4
      BY <2>1, WordSequence
    <2> QED
      BY <1>2, <2>1, <2>2 DEF TextOffset
  <1> QED
    BY <1>1, <1>2 DEF WordsOf

LEMMA PartsWritten ==
  ASSUME NEW type \in MType, NEW w1 \in Word, NEW w2 \in Word,
         NEW text \in Seq(Byte \ {0}), SizeOf(type, text) \in Word
  PROVE  HasParts(BytesOf(type, w1, w2, text), type, w1, w2, text)
  <1>1. /\ BigEndian(type) \in Seq(Byte) /\ Len(BigEndian(type)) = 4
        /\ BigEndian(SizeOf(type, text)) \in Seq(Byte)
        /\ Len(BigEndian(SizeOf(type, text))) = 4
        /\ BigEndian(w1) \in Seq(Byte) /\ Len(BigEndian(w1)) = 4
    BY WordSequence, TypesAreWords
  <1>2. Words(type, w2) \in Seq(Byte) /\ Chars(type, text) \in Seq(Byte)
    BY WordsType, CharsType
  <1> QED
    BY <1>1, <1>2, Layout DEF HasParts, BytesOf

\* What a host of either byte order reads in the bytes of a message.
LEMMA ReadBack ==
  ASSUME NEW type \in MType, NEW w1 \in Word, NEW w2 \in Word,
         NEW text \in Seq(Byte \ {0}), SizeOf(type, text) \in Word,
         NEW order \in ByteOrder, NEW bytes,
         HasParts(bytes, type, w1, w2, text)
  PROVE  /\ bytes \in Seq(Byte) /\ Len(bytes) = SizeOf(type, text)
         /\ GetWord(order, bytes, 4) = SizeOf(type, text)
         /\ Unserialize(order, bytes) =
              Create(type, SubSeq(<<w1, w2>>, 1, WordsOf(type)), text)
  <1> DEFINE size == SizeOf(type, text)
             d == Words(type, w2)
             t == Chars(type, text)
             off == TextOffset(type)
  <1>1. off = 12 + Len(d) /\ Len(d) \in Nat
    BY WordsType
  <1>2. /\ t \in Seq(Byte) /\ Len(text) \in Nat /\ Len(t) \in Nat
        /\ size = off + Len(t)
        /\ Len(t) = IF type = MTYPE_UPDATE_PREDECESSOR_ACK THEN 0 ELSE Len(text) + 1
    BY CharsType
  <1>3. type \in Word /\ size \in Word
    BY TypesAreWords
  <1>4. bytes \in Seq(Byte) /\ Len(bytes) = 12 + Len(d) + Len(t)
    BY DEF HasParts, InPlace
  <1>5. \A i \in 1 .. 4 : /\ bytes[0 + i] = BigEndian(type)[i]
                          /\ bytes[4 + i] = BigEndian(size)[i]
                          /\ bytes[8 + i] = BigEndian(w1)[i]
    <2> SUFFICES ASSUME NEW i \in 1 .. 4
                 PROVE  /\ bytes[0 + i] = BigEndian(type)[i]
                        /\ bytes[4 + i] = BigEndian(size)[i]
                        /\ bytes[8 + i] = BigEndian(w1)[i]
      OBVIOUS
    <2>1. 0 + i = i
      OBVIOUS
    <2> QED
      BY <2>1 DEF HasParts, InPlace
  <1>6. WordsOf(type) = 2 => \A i \in 1 .. 4 : bytes[12 + i] = BigEndian(w2)[i]
    <2>1. \A i \in 1 .. Len(d) : bytes[12 + i] = d[i]
      BY DEF HasParts, InPlace
    <2>2. WordsOf(type) = 2 => Len(d) = 4 /\ d = BigEndian(w2)
      BY WordsType
    <2> QED
      BY <2>1, <2>2
  <1>7. \A i \in 1 .. Len(t) : bytes[off + i] = t[i]
    BY <1>1 DEF HasParts, InPlace
  <1>8. WordsOf(type) \in {1, 2}
    BY DEF WordsOf
  <1> HIDE DEF size, d, t, off
  <1>9. /\ GetWord(order, bytes, 0) = type
        /\ GetWord(order, bytes, 4) = size
        /\ GetWord(order, bytes, 8) = w1
        /\ WordsOf(type) = 2 => GetWord(order, bytes, 12) = w2
    BY <1>3, <1>5, <1>6, WordRead
  <1>10. Len(bytes) = size
    BY <1>1, <1>2, <1>4
  <1>11. [i \in 1 .. WordsOf(type) |-> GetWord(order, bytes, 4 + 4 * i)] =
           SubSeq(<<w1, w2>>, 1, WordsOf(type))
    <2>1. ASSUME NEW i \in 1 .. WordsOf(type)
          PROVE  GetWord(order, bytes, 4 + 4 * i) = IF i = 1 THEN w1 ELSE w2
      <3>1. i = 1 \/ (i = 2 /\ WordsOf(type) = 2)
        BY <1>8
      <3>2. i = 1 => 4 + 4 * i = 8
        OBVIOUS
      <3>3. i = 2 => 4 + 4 * i = 12
        OBVIOUS
      <3> QED
        BY <1>9, <3>1, <3>2, <3>3
    <2> QED
      BY <2>1, WordsKept
  <1>12. ASSUME type # MTYPE_UPDATE_PREDECESSOR_ACK
         PROVE  size # off /\ CString(SubSeq(bytes, off + 1, size)) = text
    <2> DEFINE s == SubSeq(bytes, off + 1, size)
    <2>1. Len(t) = Len(text) + 1 /\ off \in Nat /\ size \in Nat
      BY <1>1, <1>2, <1>12
    <2>2. size # off /\ off + 1 <= size + 1 /\ size <= Len(bytes)
          /\ size - (off + 1) + 1 = Len(t)
      BY <1>2, <1>10, <2>1
    <2>3. \A i \in off + 1 .. size : bytes[i] \in Byte
      <3>1. \A i \in 1 .. Len(bytes) : bytes[i] \in Byte
        BY <1>4, ElementOfSeq
      <3> QED
        BY <2>1, <2>2, <1>10, <3>1
    <2>4. /\ s \in Seq(Byte) /\ Len(s) = Len(t)
          /\ \A i \in 1 .. Len(t) : s[i] = bytes[off + 1 + i - 1]
      BY <1>2, <2>1, <2>2, <2>3, SubSeqProperties
    <2> HIDE DEF s
    <2>5. \A i \in 1 .. Len(t) : s[i] = t[i]
      <3>1. \A i \in 1 .. Len(t) : off + 1 + i - 1 = off + i
        BY <2>1
      <3> QED
        BY <1>7, <2>4, <3>1
    <2>6. s = t
      BY <1>2, <2>4, <2>5, SeqEqual
    <2>7. t = InMemory(text)
      BY <1>12 DEF t, Chars
    <2>8. CString(s) = text
      BY <2>6, <2>7, TextRead
    <2> QED
      BY <2>2, <2>8 DEF s
  <1>13. Unserialize(order, bytes) =
           [type |-> type, size |-> size, words |-> SubSeq(<<w1, w2>>, 1, WordsOf(type)),
            text |-> IF type = MTYPE_UPDATE_PREDECESSOR_ACK THEN NONE ELSE text]
    <2>1. TypeRead(order, bytes) = type
      BY <1>9 DEF TypeRead
    <2>2. (IF type = MTYPE_UPDATE_PREDECESSOR_ACK \/ size = off THEN NONE
           ELSE CString(SubSeq(bytes, off + 1, size))) =
            IF type = MTYPE_UPDATE_PREDECESSOR_ACK THEN NONE ELSE text
      BY <1>12
    <2> QED
      BY <1>9, <1>11, <2>1, <2>2 DEF Unserialize, off
  <1> QED
    BY <1>4, <1>10, <1>9, <1>13 DEF Create, size

\* Every message the create functions can make, if receiveMessage() has room for
\* it, is the same bytes whichever host writes it; they reach a host whole, any
\* host reads the message in them, and they hold their own length.
THEOREM EveryMessage ==
  ASSUME NEW m, Writable(m), NEW order \in ByteOrder, NEW other \in ByteOrder
  PROVE  /\ Received(Serialize(order, m)) = Serialize(order, m)
         /\ Unserialize(other, Received(Serialize(order, m))) = m
         /\ Serialize(other, m) = Serialize(order, m)
         /\ GetSize(order, Serialize(order, m)) = Len(Serialize(order, m))
  <1>1. PICK type \in MType, w1 \in Word, w2 \in Word, text \in Seq(Byte \ {0}) :
          /\ m = Create(type, SubSeq(<<w1, w2>>, 1, WordsOf(type)), text)
          /\ SizeOf(type, text) \in Word /\ SizeOf(type, text) <= BufferSize
          /\ text # NONE
    BY DEF Writable
  <1> DEFINE bytes == BytesOf(type, w1, w2, text)
  <1>2. Serialize(order, m) = bytes /\ Serialize(other, m) = bytes
    <2> DEFINE k == WordsOf(type)
               words == SubSeq(<<w1, w2>>, 1, k)
    <2>1. k \in {1, 2}
      BY DEF WordsOf
    <2>2. words = [i \in 1 .. k |-> IF i = 1 THEN w1 ELSE w2]
      BY WordsKept
    <2>3. m = Create(type, words, text)
      BY <1>1
    <2> HIDE DEF k, words
    <2>4. 1 \in 1 .. k /\ (k = 2 => 2 \in 1 .. k)
      BY <2>1
    <2>5. words[1] = w1 /\ (k = 2 => words[2] = w2)
      BY <2>2, <2>4
    <2> QED
      BY <1>1, <2>3, <2>5, Written DEF k
  <1>3. HasParts(bytes, type, w1, w2, text)
    BY <1>1, PartsWritten
  <1> HIDE DEF bytes
  <1>4. /\ bytes \in Seq(Byte) /\ Len(bytes) = SizeOf(type, text)
        /\ GetWord(order, bytes, 4) = SizeOf(type, text)
        /\ Unserialize(other, bytes) = m
    BY <1>1, <1>3, ReadBack
  <1>5. Received(bytes) = bytes
    <2>1. Len(bytes) <= BufferSize
      BY <1>1, <1>4
    <2>2. SubSeq(bytes, 1, Len(bytes)) = bytes
      BY <1>4, SubSeqFull
    <2> QED
      BY <2>1, <2>2 DEF Received
  <1> QED
    BY <1>2, <1>4, <1>5 DEF GetSize

MessageOK ==
  message # NONE =>
    /\ Writable(message)
    /\ sender \in ByteOrder /\ middle \in ByteOrder /\ receiver \in ByteOrder

LEMMA InputsAreWritable == \A m \in Message : Writable(m)
  <1> SUFFICES ASSUME NEW m \in Message
               PROVE  Writable(m)
    OBVIOUS
  <1>1. PICK type \in MType, words \in TestWord \X TestWord, text \in TestText :
          m = Create(type, SubSeq(words, 1, WordsOf(type)), text)
    BY DEF Message
  <1>2. PICK w1 \in TestWord, w2 \in TestWord : words = <<w1, w2>>
    BY <1>1
  <1>3. /\ w1 \in Word /\ w2 \in Word /\ text \in Seq(Byte \ {0}) /\ text # NONE
        /\ SizeOf(type, text) \in Word /\ SizeOf(type, text) <= BufferSize
    BY <1>1, <1>2, InputAssumption
  <1> QED
    BY <1>1, <1>2, <1>3 DEF Writable

LEMMA MessageStays == Spec => []MessageOK
  <1>1. Init => MessageOK
    BY InputsAreWritable DEF Init, CircleInput, MessageInput, MessageOK
  <1>2. MessageOK /\ [Next]_vars => MessageOK'
    BY DEF MessageOK, Next, vars
  <1> QED
    BY <1>1, <1>2, PTL DEF Spec

\* What a host reads is what another wrote, whatever orders of bytes they use:
\* serialize() and unserialize() are inverse for bytes, words, addresses and
\* buffers of any size.
THEOREM RoundTripCorrect == Spec => []RoundTrip
  <1>1. MessageOK => RoundTrip
    BY EveryMessage DEF MessageOK, RoundTrip, Datagram
  <1> QED
    BY <1>1, MessageStays, PTL

\* A host that reads a query and writes it again to pass it on sends the same
\* bytes.
THEOREM ForwardedCorrect == Spec => []ForwardedUnchanged
  <1>1. MessageOK => ForwardedUnchanged
    <2> SUFFICES ASSUME MessageOK, message # NONE
                 PROVE  Serialize(middle, Unserialize(middle, Received(Datagram))) = Datagram
      BY DEF ForwardedUnchanged
    <2>1. Writable(message) /\ sender \in ByteOrder /\ middle \in ByteOrder
      BY DEF MessageOK
    <2>2. /\ Unserialize(middle, Received(Serialize(sender, message))) = message
          /\ Serialize(middle, message) = Serialize(sender, message)
      BY <2>1, EveryMessage
    <2> QED
      BY <2>2 DEF Datagram
  <1> QED
    BY <1>1, MessageStays, PTL

\* The timeout reads in a saved datagram how long it is, and sends all of it.
THEOREM ResendCorrect == Spec => []ResendIsWhole
  <1>1. MessageOK => ResendIsWhole
    BY EveryMessage DEF MessageOK, ResendIsWhole, Datagram
  <1> QED
    BY <1>1, MessageStays, PTL
=============================================================================
