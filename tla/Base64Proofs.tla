------------------------------ MODULE Base64Proofs ------------------------------
(***************************************************************************)
(* How much encode_base64 writes and what, for messages of any length.     *)
(***************************************************************************)
EXTENDS Base64, SequenceTheorems, TLAPS

\* Whole groups are four characters.  The last one has one more than it has bytes,
\* until it is padded.
Written ==
  /\ message \in Message /\ i \in Nat /\ i % 3 = 0 /\ pc \in {"loop", "done"}
  /\ \E S : b64 \in Seq(S)
  /\ pc = "loop" =>
       \/ i <= length /\ 3 * Len(b64) = 4 * i
       \/ length < i /\ i < length + 3 /\ 3 * (Len(b64) + i - length) = 4 * i
  /\ pc = "done" => length <= i /\ i < length + 3 /\ 3 * Len(b64) = 4 * i

LEMMA LengthIsNat == ASSUME message \in Message PROVE length \in Nat
  BY Base64Assumption DEF length

\* Appending n characters.
LEMMA Longer ==
  ASSUME NEW S, NEW s \in Seq(S), NEW n \in Nat, NEW T, NEW t \in [1 .. n -> T]
  PROVE  /\ Len(s) \in Nat /\ Len(s \o t) = Len(s) + n
         /\ \E U : s \o t \in Seq(U)
<1>1. PICK U : t \in Seq(U) /\ Len(t) = n /\ s \in Seq(U)
  <2>1. t \in Seq(S \cup T) /\ Len(t) = n /\ s \in Seq(S \cup T)
    OBVIOUS
  <2>2. QED
    BY <2>1
<1>2. PICK v : v = t /\ v \in Seq(U) /\ Len(v) = n
  BY <1>1
<1>3. s \o v \in Seq(U) /\ Len(s \o v) = Len(s) + Len(v) /\ Len(s) \in Nat
  BY <1>1, <1>2, ConcatProperties
<1>4. QED
  BY <1>2, <1>3

LEMMA InitWritten == Init => Written
<1> SUFFICES ASSUME Init PROVE Written
  OBVIOUS
<1>1. b64 \in Seq({}) /\ Len(b64) = 0
  BY DEF Init
<1>2. QED
  BY <1>1, LengthIsNat DEF Init, Written

LEMMA EncodeWritten == ASSUME Written, Encode PROVE Written'
<1>1. PICK m \in Nat : m = length
  BY LengthIsNat DEF Written
<1>2. PICK S : b64 \in Seq(S)
  BY DEF Written
<1>3. PICK n \in 2 .. 4 : n = Characters(length - i)
  BY <1>1 DEF Encode, Written, Characters
<1>4. /\ Len(b64) \in Nat /\ Len(b64') = Len(b64) + n
      /\ \E T : b64' \in Seq(T)
  <2> DEFINE T == {Sextet(l, k) : k \in 1 .. n}
             t == [k \in 1 .. n |-> Sextet(l, k)]
  <2>1. t \in [1 .. n -> T] /\ n \in Nat
    OBVIOUS
  <2>2. b64' = b64 \o t
    BY <1>3 DEF Encode
  <2> HIDE DEF t, T
  <2>3. QED
    BY <1>2, <2>1, <2>2, Longer
<1>5. length' = length
  BY DEF Encode, length
<1>6. /\ i < m /\ 3 * Len(b64) = 4 * i /\ i \in Nat /\ i' = i + 3
      /\ pc' = "loop" /\ message' = message /\ message \in Message /\ i % 3 = 0
  BY <1>1 DEF Encode, Written
<1>7. n = IF m - i < 3 THEN m - i + 1 ELSE 4
  BY <1>1, <1>3 DEF Characters
<1>8. i' \in Nat /\ i' % 3 = 0
  BY <1>6
<1>9. \/ i' <= m /\ 3 * Len(b64') = 4 * i'
      \/ m < i' /\ i' < m + 3 /\ 3 * (Len(b64') + i' - m) = 4 * i'
  <2>1. PICK k \in Nat : k = Len(b64)
    BY <1>4
  <2>2. Len(b64') = k + n /\ 3 * k = 4 * i
    BY <1>4, <1>6, <2>1
  <2>3. CASE m - i < 3
    <3>1. n = m - i + 1
      BY <1>7, <2>3
    <3>2. 3 * (k + n + i + 3 - m) = 4 * (i + 3)
      BY <1>6, <2>2, <3>1
    <3>3. m < i + 3 /\ i + 3 < m + 3
      BY <1>6, <2>3
    <3>4. QED
      BY <1>6, <2>2, <3>2, <3>3
  <2>4. CASE m - i >= 3
    BY <1>6, <1>7, <2>2, <2>4
  <2>5. QED
    BY <1>6, <2>3, <2>4
<1>10. QED
  BY <1>1, <1>4, <1>5, <1>6, <1>8, <1>9 DEF Written

LEMMA StandarizeWritten == ASSUME Written, Standarize PROVE Written'
<1>1. PICK m \in Nat : m = length
  BY LengthIsNat DEF Written
<1>2. PICK S : b64 \in Seq(S)
  BY DEF Written
<1>3. PICK n \in 0 .. 2 : n = IF m % 3 = 0 THEN 0 ELSE 3 - (m % 3)
  OBVIOUS
<1>4. b64' = b64 \o [k \in 1 .. n |-> Pad]
  BY <1>1, <1>3 DEF Standarize
<1>5. /\ Len(b64) \in Nat /\ Len(b64') = Len(b64) + n
      /\ \E T : b64' \in Seq(T)
  <2> DEFINE t == [k \in 1 .. n |-> Pad]
  <2>1. t \in [1 .. n -> {Pad}] /\ n \in Nat
    OBVIOUS
  <2>2. b64' = b64 \o t
    BY <1>4
  <2> HIDE DEF t
  <2>3. QED
    BY <1>2, <2>1, <2>2, Longer
<1>6. /\ length' = length /\ i' = i /\ i \in Nat /\ i % 3 = 0 /\ m <= i
      /\ pc' = "done" /\ message' = message /\ message \in Message
  BY <1>1 DEF Standarize, length, Written
<1>7. \/ i = m /\ 3 * Len(b64) = 4 * i
      \/ m < i /\ i < m + 3 /\ 3 * (Len(b64) + i - m) = 4 * i
  BY <1>1, <1>6 DEF Standarize, Written
<1>8. n = i - m
  BY <1>3, <1>6, <1>7
<1>9. 3 * Len(b64') = 4 * i
  BY <1>5, <1>6, <1>7, <1>8
<1>10. QED
  BY <1>1, <1>5, <1>6, <1>7, <1>9 DEF Written

LEMMA NextWritten == Written /\ [Next]_vars => Written'
<1> SUFFICES ASSUME Written, [Next]_vars PROVE Written'
  OBVIOUS
<1>1. CASE Encode
  BY <1>1, EncodeWritten
<1>2. CASE Standarize
  BY <1>2, StandarizeWritten
<1>3. CASE UNCHANGED vars
  BY <1>3 DEF vars, Written, length
<1>4. QED
  BY <1>1, <1>2, <1>3 DEF Next

\* The buffer of twice the length is large enough for every message but those of
\* none, one, two and four bytes (encode_base64).
THEOREM BufferHolds == Spec => []RoomUnlessShort
<1>1. Written => RoomUnlessShort
  <2> SUFFICES ASSUME Written PROVE RoomUnlessShort
    OBVIOUS
  <2>1. PICK m \in Nat : m = length
    BY LengthIsNat DEF Written
  <2>2. PICK n \in Nat : n = Len(b64)
    BY DEF Written
  <2>3. CASE pc = "loop"
    <3>1. i \in Nat /\ i % 3 = 0
      BY DEF Written
    <3>2. \/ i <= m /\ 3 * n = 4 * i
          \/ m < i /\ i < m + 3 /\ 3 * (n + i - m) = 4 * i
      BY <2>1, <2>2, <2>3 DEF Written
    <3>3. n + 1 <= 2 * m \/ m \in {0, 1, 2, 4}
      BY <3>1, <3>2
    <3>4. QED
      BY <2>1, <2>2, <3>3 DEF RoomUnlessShort
  <2>4. CASE pc = "done"
    <3>1. i \in Nat /\ i % 3 = 0 /\ m <= i /\ i < m + 3 /\ 3 * n = 4 * i
      BY <2>1, <2>2, <2>4 DEF Written
    <3>2. n + 1 <= 2 * m \/ m \in {0, 1, 2, 4}
      BY <3>1
    <3>3. QED
      BY <2>1, <2>2, <3>2 DEF RoomUnlessShort
  <2>5. QED
    BY <2>3, <2>4 DEF Written
<1>2. QED
  BY InitWritten, NextWritten, <1>1, PTL DEF Spec


-----------------------------------------------------------------------------
(* What is written. *)

\* The p-th character belongs to the group of message[3 * ((p - 1) \div 4)].
CharAt(p) == Sextet(Word(3 * ((p - 1) \div 4)), ((p - 1) % 4) + 1)

\* The characters written are those of the groups; those behind the last are pads.
Coded ==
  /\ pc = "loop" => \A p \in 1 .. Len(b64) : b64[p] = CharAt(p)
  /\ pc = "done" =>
       \A p \in 1 .. Len(b64) : b64[p] = IF 3 * p < 4 * length + 3 THEN CharAt(p) ELSE Pad

Bits8(o) == o \in Nat /\ o < 256

Bits24(w) == w \in Nat /\ w < 16777216

LEMMA Weights == Weight[1] = 262144 /\ Weight[2] = 4096 /\ Weight[3] = 64 /\ Weight[4] = 1
  BY DEF Weight

LEMMA OctetWeights == Octet[1] = 65536 /\ Octet[2] = 256 /\ Octet[3] = 1
  BY DEF Octet

LEMMA ByteBits ==
  ASSUME message \in Message, NEW k \in Nat
  PROVE  /\ Bits8(Byte(k))
         /\ k >= length => Byte(k) = 0
         /\ k < length => Byte(k) = message[k + 1]
<1>1. PICK S : S = 1 .. 255
  OBVIOUS
<1>2. message \in Seq(S) /\ length \in Nat /\ length = Len(message)
  BY <1>1, Base64Assumption, LengthIsNat DEF length
<1>3. CASE k < length
  <2>1. k + 1 \in 1 .. Len(message)
    BY <1>2, <1>3
  <2>2. message[k + 1] \in S
    BY <1>2, <2>1, ElementOfSeq
  <2>3. message[k + 1] \in Nat /\ message[k + 1] < 256
    BY <1>1, <2>2
  <2>4. QED
    BY <1>2, <1>3, <2>3 DEF Byte, Bits8
<1>4. CASE ~(k < length)
  BY <1>2, <1>4 DEF Byte, Bits8
<1>5. QED
  BY <1>3, <1>4

LEMMA UnderBits == ASSUME NEW o, Bits8(o), NEW B PROVE Bits8(Under(o, B))
  BY DEF Under, Bits8

\* The three octets of a group, sign bits included.
LEMMA WordIs ==
  ASSUME message \in Message, NEW j \in Nat
  PROVE  \E o1, o2, o3 :
           /\ Bits8(o1) /\ Bits8(o2) /\ Bits8(o3)
           /\ o1 = Under(Byte(j), {Byte(j + 1), Byte(j + 2)})
           /\ o2 = Under(Byte(j + 1), {Byte(j + 2)})
           /\ o3 = Byte(j + 2)
           /\ Word(j) = o1 * 65536 + o2 * 256 + o3
<1>1. j + 1 \in Nat /\ j + 2 \in Nat
  OBVIOUS
<1>2. Bits8(Byte(j)) /\ Bits8(Byte(j + 1)) /\ Bits8(Byte(j + 2))
  BY <1>1, ByteBits
<1>3. Bits8(Under(Byte(j), {Byte(j + 1), Byte(j + 2)}))
  BY <1>2, UnderBits
<1>4. Bits8(Under(Byte(j + 1), {Byte(j + 2)}))
  BY <1>2, UnderBits
<1>5. QED
  BY <1>2, <1>3, <1>4 DEF Word, Group

LEMMA WordBits ==
  ASSUME message \in Message, NEW j \in Nat PROVE Bits24(Word(j))
<1>1. PICK o1, o2, o3 :
        /\ Bits8(o1) /\ Bits8(o2) /\ Bits8(o3)
        /\ o1 = Under(Byte(j), {Byte(j + 1), Byte(j + 2)})
        /\ o2 = Under(Byte(j + 1), {Byte(j + 2)})
        /\ o3 = Byte(j + 2)
        /\ Word(j) = o1 * 65536 + o2 * 256 + o3
  BY WordIs
<1>2. QED
  BY <1>1 DEF Bits8, Bits24

LEMMA Sextets ==
  ASSUME NEW w, Bits24(w)
  PROVE  /\ Sextet(w, 1) = (w \div 262144) % 64 /\ Sextet(w, 2) = (w \div 4096) % 64
         /\ Sextet(w, 3) = (w \div 64) % 64 /\ Sextet(w, 4) = w % 64
<1>1. w \div 1 = w
  BY DEF Bits24
<1>2. QED
  BY <1>1, Weights DEF Sextet

\* No sextet is taken for a pad.
LEMMA SextetRange ==
  ASSUME NEW w, Bits24(w), NEW k \in 1 .. 4
  PROVE  Sextet(w, k) \in Nat /\ Sextet(w, k) < 64
<1>1. k = 1 \/ k = 2 \/ k = 3 \/ k = 4
  OBVIOUS
<1>2. w \in Nat
  BY DEF Bits24
<1>3. QED
  BY <1>1, <1>2, Sextets

\* Four sextets are a word.
LEMMA SextetsAreWord ==
  ASSUME NEW w, Bits24(w)
  PROVE  Sextet(w, 1) * 262144 + Sextet(w, 2) * 4096 + Sextet(w, 3) * 64 + Sextet(w, 4) = w
<1>1. w \in Nat /\ w < 16777216
  BY DEF Bits24
<1>2. PICK a \in Nat : a = w \div 64
  BY <1>1
<1>3. PICK b \in Nat : b = w \div 4096
  BY <1>1
<1>4. PICK c \in Nat : c = w \div 262144
  BY <1>1
<1>5. w = 64 * a + (w % 64)
  BY <1>1, <1>2
<1>6. a = 64 * b + (a % 64)
  BY <1>1, <1>2, <1>3
<1>7. b = 64 * c + (b % 64)
  BY <1>1, <1>3, <1>4
<1>8. c % 64 = c
  BY <1>1, <1>4
<1>9. PICK p \in Int, q \in Int, r \in Int : p = w % 64 /\ q = a % 64 /\ r = b % 64
  BY <1>1
<1>10. c * 262144 + r * 4096 + q * 64 + p = w
  BY <1>1, <1>5, <1>6, <1>7, <1>9
<1>11. QED
  BY <1>2, <1>3, <1>4, <1>8, <1>9, <1>10, Sextets

\* Three octets are a word.
LEMMA OctetsOfWord ==
  ASSUME NEW o1, NEW o2, NEW o3, Bits8(o1), Bits8(o2), Bits8(o3),
         NEW w, w = o1 * 65536 + o2 * 256 + o3
  PROVE  /\ (w \div Octet[1]) % 256 = o1
         /\ (w \div Octet[2]) % 256 = o2
         /\ (w \div Octet[3]) % 256 = o3
<1>1. /\ o1 \in Nat /\ o1 < 256 /\ o2 \in Nat /\ o2 < 256 /\ o3 \in Nat /\ o3 < 256
  BY DEF Bits8
<1>2. (w \div 65536) % 256 = o1
  BY <1>1
<1>3. (w \div 256) % 256 = o2
  BY <1>1
<1>4. (w \div 1) % 256 = o3
  BY <1>1
<1>5. QED
  BY <1>2, <1>3, <1>4, OctetWeights

\* What a group that is not full does not write would be zero.
LEMMA NothingLeft ==
  ASSUME message \in Message, NEW j \in Nat
  PROVE  /\ Byte(j + 2) = 0 => Sextet(Word(j), 4) = 0
         /\ Byte(j + 1) = 0 /\ Byte(j + 2) = 0 => Sextet(Word(j), 3) = 0
<1>1. PICK o1, o2, o3 :
        /\ Bits8(o1) /\ Bits8(o2) /\ Bits8(o3)
        /\ o1 = Under(Byte(j), {Byte(j + 1), Byte(j + 2)})
        /\ o2 = Under(Byte(j + 1), {Byte(j + 2)})
        /\ o3 = Byte(j + 2)
        /\ Word(j) = o1 * 65536 + o2 * 256 + o3
  BY WordIs
<1>2. o1 \in Nat /\ o2 \in Nat /\ o3 \in Nat
  BY <1>1 DEF Bits8
<1>3. Byte(j + 2) = 0 => o2 = Byte(j + 1)
  BY <1>1 DEF Under
<1>4. Sextet(Word(j), 3) = (Word(j) \div 64) % 64 /\ Sextet(Word(j), 4) = Word(j) % 64
  BY WordBits, Sextets
<1>5. o3 = 0 => (o1 * 65536 + o2 * 256 + o3) % 64 = 0
  BY <1>2
<1>6. o2 = 0 /\ o3 = 0 => ((o1 * 65536 + o2 * 256 + o3) \div 64) % 64 = 0
  BY <1>2
<1>7. QED
  BY <1>1, <1>3, <1>4, <1>5, <1>6

\* The places of the characters of group g.
LEMMA Places ==
  ASSUME NEW g \in Nat, NEW k \in 1 .. 4
  PROVE  CharAt(4 * g + k) = Sextet(Word(3 * g), k)
<1>1. ((4 * g + k) - 1) \div 4 = g /\ (((4 * g + k) - 1) % 4) + 1 = k
  OBVIOUS
<1>2. QED
  BY <1>1 DEF CharAt

\* What the characters of b64 become by t.
LEMMA Appended ==
  ASSUME NEW S, NEW s \in Seq(S), NEW n \in Nat, NEW t, t = [k \in 1 .. n |-> t[k]]
  PROVE  /\ \A p \in 1 .. Len(s) : (s \o t)[p] = s[p]
         /\ \A p \in (Len(s) + 1) .. (Len(s) + n) : (s \o t)[p] = t[p - Len(s)]
<1>1. PICK T : T = S \cup {t[k] : k \in 1 .. n}
  OBVIOUS
<1>2. s \in Seq(T)
  BY <1>1
<1>3. t \in [1 .. n -> T]
  BY <1>1
<1>4. PICK v : v = t /\ v \in Seq(T) /\ Len(v) = n
  BY <1>3
<1>5. /\ \A p \in 1 .. Len(s) + Len(v) :
            (s \o v)[p] = IF p <= Len(s) THEN s[p] ELSE v[p - Len(s)]
      /\ Len(s) \in Nat
  BY <1>2, <1>4, ConcatProperties
<1>6. QED
  BY <1>4, <1>5

LEMMA EncodeCoded == ASSUME Written, Coded, Encode PROVE Coded'
<1>1. PICK m \in Nat : m = length
  BY LengthIsNat DEF Written
<1>2. PICK S : b64 \in Seq(S)
  BY DEF Written
<1>3. PICK n \in 2 .. 4 : n = Characters(length - i)
  BY <1>1 DEF Encode, Written, Characters
<1>4. PICK g \in Nat : i = 3 * g /\ Len(b64) = 4 * g
  <2>1. i \in Nat /\ i % 3 = 0 /\ 3 * Len(b64) = 4 * i /\ Len(b64) \in Nat
    BY <1>1, <1>2 DEF Encode, Written
  <2>2. i = 3 * (i \div 3) /\ i \div 3 \in Nat
    BY <2>1
  <2>3. Len(b64) = 4 * (i \div 3)
    BY <2>1, <2>2
  <2>4. QED
    BY <2>2, <2>3
<1>5. PICK t : t = [k \in 1 .. n |-> Sextet(l, k)]
  OBVIOUS
<1>6. b64' = b64 \o t /\ pc' = "loop" /\ pc = "loop" /\ message' = message
  BY <1>3, <1>5 DEF Encode
<1>7. /\ \A p \in 1 .. 4 * g : b64'[p] = b64[p]
      /\ \A p \in (4 * g + 1) .. (4 * g + n) : b64'[p] = t[p - 4 * g]
  <2>1. n \in Nat /\ t = [k \in 1 .. n |-> t[k]]
    BY <1>3, <1>5
  <2>2. /\ \A p \in 1 .. Len(b64) : (b64 \o t)[p] = b64[p]
        /\ \A p \in (Len(b64) + 1) .. (Len(b64) + n) : (b64 \o t)[p] = t[p - Len(b64)]
    BY <1>2, <2>1, Appended
  <2>3. QED
    BY <1>4, <1>6, <2>2
<1>8. \A k \in 1 .. n : b64'[4 * g + k] = t[k]
  <2> TAKE k \in 1 .. n
  <2>1. 4 * g + k \in (4 * g + 1) .. (4 * g + n) /\ (4 * g + k) - 4 * g = k
    BY <1>3, <1>4
  <2>2. QED
    BY <1>7, <2>1
<1>9. Len(b64') = 4 * g + n
  <2>1. t \in [1 .. n -> {t[k] : k \in 1 .. n}]
    BY <1>5
  <2>2. QED
    BY <1>2, <1>3, <1>4, <1>6, <2>1, Longer
<1>10. \A p : CharAt(p)' = CharAt(p)
  BY <1>6 DEF CharAt, Word, Byte, Under, length, Group, Sextet
<1>11. l = Word(3 * g)
  BY <1>4 DEF l
<1>12. ASSUME NEW p \in 1 .. Len(b64') PROVE b64'[p] = CharAt(p)
  <2>1. CASE p <= 4 * g
    <3>1. p \in 1 .. Len(b64) /\ p \in 1 .. 4 * g
      BY <1>4, <1>9, <2>1
    <3>2. QED
      BY <1>6, <1>7, <3>1 DEF Coded
  <2>2. CASE ~(p <= 4 * g)
    <3>1. PICK k \in 1 .. n : p = 4 * g + k
      <4>1. p - 4 * g \in 1 .. n /\ p = 4 * g + (p - 4 * g)
        BY <1>9, <1>3, <1>4, <2>2
      <4>2. QED
        BY <4>1
    <3>2. k \in 1 .. 4
      BY <1>3
    <3>3. b64'[p] = Sextet(l, k)
      BY <1>5, <1>8, <3>1
    <3>4. CharAt(p) = Sextet(Word(3 * g), k)
      BY <3>1, <3>2, Places
    <3>5. QED
      BY <1>11, <3>3, <3>4
  <2>3. QED
    BY <2>1, <2>2
<1>13. QED
  BY <1>6, <1>10, <1>12 DEF Coded

LEMMA StandarizeCoded == ASSUME Written, Coded, Standarize PROVE Coded'
<1>1. PICK m \in Nat : m = length
  BY LengthIsNat DEF Written
<1>2. PICK S : b64 \in Seq(S)
  BY DEF Written
<1>3. PICK n \in 0 .. 2 : n = IF m % 3 = 0 THEN 0 ELSE 3 - (m % 3)
  OBVIOUS
<1>4. PICK t : t = [k \in 1 .. n |-> Pad]
  OBVIOUS
<1>5. b64' = b64 \o t /\ pc' = "done" /\ pc = "loop" /\ message' = message
  BY <1>1, <1>3, <1>4 DEF Standarize
<1>6. PICK c \in Nat : c = Len(b64)
  BY <1>2
<1>7. 3 * c < 4 * m + 3 /\ 3 * (c + 1) >= 4 * m + 3
  <2>1. i \in Nat /\ m <= i
    BY <1>1 DEF Standarize, Written
  <2>2. \/ i <= m /\ 3 * c = 4 * i
        \/ m < i /\ i < m + 3 /\ 3 * (c + i - m) = 4 * i
    BY <1>1, <1>5, <1>6 DEF Written
  <2>3. QED
    BY <2>1, <2>2
<1>8. /\ \A p \in 1 .. c : b64'[p] = b64[p]
      /\ \A p \in (c + 1) .. (c + n) : b64'[p] = t[p - c]
  <2>1. n \in Nat /\ t = [k \in 1 .. n |-> t[k]]
    BY <1>3, <1>4
  <2>2. /\ \A p \in 1 .. Len(b64) : (b64 \o t)[p] = b64[p]
        /\ \A p \in (Len(b64) + 1) .. (Len(b64) + n) : (b64 \o t)[p] = t[p - Len(b64)]
    BY <1>2, <2>1, Appended
  <2>3. QED
    BY <1>5, <1>6, <2>2
<1>9. \A p \in (c + 1) .. (c + n) : b64'[p] = Pad
  <2> TAKE p \in (c + 1) .. (c + n)
  <2>1. p - c \in 1 .. n
    BY <1>3, <1>6
  <2>2. QED
    BY <1>4, <1>8, <2>1
<1>10. Len(b64') = c + n
  <2>1. t \in [1 .. n -> {t[k] : k \in 1 .. n}]
    BY <1>4
  <2>2. QED
    BY <1>2, <1>3, <1>5, <1>6, <2>1, Longer
<1>11. \A p : CharAt(p)' = CharAt(p)
  BY <1>5 DEF CharAt, Word, Byte, Under, length, Group, Sextet
<1>12. length' = m
  BY <1>1, <1>5 DEF length
<1>13. ASSUME NEW p \in 1 .. Len(b64')
       PROVE  b64'[p] = IF 3 * p < 4 * m + 3 THEN CharAt(p) ELSE Pad
  <2>1. CASE p <= c
    <3>1. p \in 1 .. c /\ 3 * p < 4 * m + 3
      BY <1>1, <1>6, <1>7, <1>10, <2>1
    <3>2. b64[p] = CharAt(p)
      BY <1>5, <1>6, <3>1 DEF Coded
    <3>3. QED
      BY <1>8, <3>1, <3>2
  <2>2. CASE ~(p <= c)
    <3>1. p \in (c + 1) .. (c + n) /\ ~(3 * p < 4 * m + 3)
      BY <1>1, <1>3, <1>6, <1>7, <1>10, <2>2
    <3>2. QED
      BY <1>9, <3>1
  <2>3. QED
    BY <2>1, <2>2
<1>14. QED
  BY <1>5, <1>11, <1>12, <1>13 DEF Coded

LEMMA NextCoded == Written /\ Coded /\ [Next]_vars => Coded'
<1> SUFFICES ASSUME Written, Coded, [Next]_vars PROVE Coded'
  OBVIOUS
<1>1. CASE Encode
  BY <1>1, EncodeCoded
<1>2. CASE Standarize
  BY <1>2, StandarizeCoded
<1>3. CASE UNCHANGED vars
  <2>1. message' = message /\ b64' = b64 /\ i' = i /\ pc' = pc
    BY <1>3 DEF vars
  <2>2. \A p : CharAt(p)' = CharAt(p)
    BY <2>1 DEF CharAt, Word, Byte, Under, length, Group, Sextet
  <2>3. length' = length
    BY <2>1 DEF length
  <2>4. QED
    BY <2>1, <2>2, <2>3 DEF Coded
<1>4. QED
  BY <1>1, <1>2, <1>3 DEF Next

LEMMA InitCoded == Init => Coded
<1> SUFFICES ASSUME Init PROVE Coded
  OBVIOUS
<1>1. 1 .. Len(b64) = {} /\ pc = "loop"
  BY DEF Init
<1>2. QED
  BY <1>1 DEF Coded

-----------------------------------------------------------------------------
(* What it decodes to. *)

\* Once all is written: m bytes are q groups of four characters.
Done(m, q) ==
  /\ message \in Message /\ m \in Nat /\ q \in Nat
  /\ length = m /\ Len(b64) = 4 * q /\ DOMAIN b64 = 1 .. (4 * q)
  /\ 3 * q < m + 3 /\ m <= 3 * q
  /\ \A p \in 1 .. (4 * q) : b64[p] = IF 3 * p < 4 * m + 3 THEN CharAt(p) ELSE Pad

LEMMA DoneIs ==
  ASSUME Written, Coded, pc = "done" PROVE \E m, q : Done(m, q)
<1>1. PICK m \in Nat : m = length
  BY LengthIsNat DEF Written
<1>2. PICK S : b64 \in Seq(S)
  BY DEF Written
<1>3. PICK c \in Nat : c = Len(b64) /\ DOMAIN b64 = 1 .. c
  BY <1>2
<1>4. i \in Nat /\ i % 3 = 0 /\ m <= i /\ i < m + 3 /\ 3 * c = 4 * i
  BY <1>1, <1>3 DEF Written
<1>5. PICK q \in Nat : i = 3 * q
  <2>1. i = 3 * (i \div 3) /\ i \div 3 \in Nat
    BY <1>4
  <2>2. QED
    BY <2>1
<1>6. c = 4 * q /\ 3 * q < m + 3 /\ m <= 3 * q
  BY <1>4, <1>5
<1>7. \A p \in 1 .. (4 * q) : b64[p] = IF 3 * p < 4 * m + 3 THEN CharAt(p) ELSE Pad
  BY <1>1, <1>3, <1>6 DEF Coded
<1>8. Done(m, q)
  BY <1>1, <1>3, <1>6, <1>7 DEF Done, Written
<1>9. QED
  BY <1>8

\* The k-th character of group g, as decoding reads it.
LEMMA Reads ==
  ASSUME NEW m, NEW q, Done(m, q), NEW g \in 0 .. (q - 1), NEW k \in 1 .. 4
  PROVE  (IF b64[4 * g + k] = Pad THEN 0 ELSE b64[4 * g + k]) = Sextet(Word(3 * g), k)
<1>1. /\ message \in Message /\ m \in Nat /\ q \in Nat /\ length = m
      /\ 3 * q < m + 3 /\ m <= 3 * q
  BY DEF Done
<1>2. g \in Nat /\ 3 * g \in Nat /\ g < q
  BY <1>1
<1>3. 4 * g + k \in 1 .. (4 * q)
  BY <1>1, <1>2
<1>4. CharAt(4 * g + k) = Sextet(Word(3 * g), k)
  BY <1>2, Places
<1>5. b64[4 * g + k]
        = IF 3 * (4 * g + k) < 4 * m + 3 THEN Sextet(Word(3 * g), k) ELSE Pad
  BY <1>3, <1>4 DEF Done
<1>6. Sextet(Word(3 * g), k) # Pad
  <2>1. Sextet(Word(3 * g), k) \in Nat /\ Sextet(Word(3 * g), k) < 64
    BY <1>1, <1>2, WordBits, SextetRange
  <2>2. QED
    BY <2>1 DEF Pad
<1>7. CASE 3 * (4 * g + k) < 4 * m + 3
  BY <1>5, <1>6, <1>7
<1>8. CASE ~(3 * (4 * g + k) < 4 * m + 3)
  <2>1. (k = 3 /\ m <= 3 * g + 1) \/ (k = 4 /\ m <= 3 * g + 2)
    BY <1>1, <1>2, <1>8
  <2>2. /\ 3 * g + 1 \in Nat /\ 3 * g + 2 \in Nat
        /\ m <= 3 * g + 1 => m <= 3 * g + 2
    BY <1>1, <1>2
  <2>3. /\ m <= 3 * g + 1 => Byte(3 * g + 1) = 0
        /\ m <= 3 * g + 2 => Byte(3 * g + 2) = 0
    BY <1>1, <2>2, ByteBits
  <2>4. /\ Byte(3 * g + 2) = 0 => Sextet(Word(3 * g), 4) = 0
        /\ Byte(3 * g + 1) = 0 /\ Byte(3 * g + 2) = 0 => Sextet(Word(3 * g), 3) = 0
    BY <1>1, <1>2, NothingLeft
  <2>5. Sextet(Word(3 * g), k) = 0
    BY <2>1, <2>2, <2>3, <2>4
  <2>6. QED
    BY <1>5, <1>8, <2>5
<1>9. QED
  BY <1>7, <1>8

LEMMA ValueIsWord ==
  ASSUME NEW m, NEW q, Done(m, q), NEW g \in 0 .. (q - 1)
  PROVE  Value(b64, g) = Word(3 * g)
<1>1. message \in Message /\ q \in Nat
  BY DEF Done
<1>2. 3 * g \in Nat
  BY <1>1
<1>3. PICK w : w = Word(3 * g) /\ Bits24(w)
  BY <1>1, <1>2, WordBits
<1>4. \A k \in 1 .. 4 : (IF b64[4 * g + k] = Pad THEN 0 ELSE b64[4 * g + k]) = Sextet(w, k)
  BY <1>3, Reads
<1>5. Value(b64, g) = Sextet(w, 1) * Weight[1] + Sextet(w, 2) * Weight[2]
                        + Sextet(w, 3) * Weight[3] + Sextet(w, 4) * Weight[4]
  BY <1>4 DEF Value
<1>6. Sextet(w, 4) * 1 = Sextet(w, 4)
  BY <1>3, SextetRange
<1>7. Value(b64, g) = Sextet(w, 1) * 262144 + Sextet(w, 2) * 4096 + Sextet(w, 3) * 64
                        + Sextet(w, 4)
  BY <1>5, <1>6, Weights
<1>8. QED
  BY <1>3, <1>7, SextetsAreWord

LEMMA BytesAreLength ==
  ASSUME NEW m, NEW q, Done(m, q) PROVE Bytes(b64) = m
<1>1. /\ message \in Message /\ m \in Nat /\ q \in Nat
      /\ Len(b64) = 4 * q /\ DOMAIN b64 = 1 .. (4 * q)
      /\ 3 * q < m + 3 /\ m <= 3 * q
  BY DEF Done
<1> DEFINE pad(k) == IF k \in DOMAIN b64 /\ b64[k] = Pad THEN 1 ELSE 0
<1>2. Bytes(b64) = 3 * ((4 * q) \div 4) - pad(4 * q) - pad(4 * q - 1)
  BY <1>1 DEF Bytes
<1>3. (4 * q) \div 4 = q
  BY <1>1
<1>4. ASSUME NEW p \in 1 .. (4 * q), p = 4 * q \/ p = 4 * q - 1
      PROVE  (b64[p] = Pad) = ~(3 * p < 4 * m + 3)
  <2>1. PICK g \in 0 .. (q - 1), k \in 3 .. 4 : p = 4 * g + k
    <3>1. p = 4 * (q - 1) + 4 \/ p = 4 * (q - 1) + 3
      BY <1>1, <1>4
    <3>2. q - 1 \in 0 .. (q - 1)
      BY <1>1, <1>4
    <3>3. QED
      BY <3>1, <3>2
  <2>2. g \in Nat /\ 3 * g \in Nat /\ k \in 1 .. 4
    BY <1>1
  <2>3. CharAt(p) = Sextet(Word(3 * g), k)
    BY <2>1, <2>2, Places
  <2>4. Sextet(Word(3 * g), k) \in Nat /\ Sextet(Word(3 * g), k) < 64
    BY <1>1, <2>2, WordBits, SextetRange
  <2>5. CharAt(p) # Pad
    BY <2>3, <2>4 DEF Pad
  <2>6. b64[p] = IF 3 * p < 4 * m + 3 THEN CharAt(p) ELSE Pad
    BY DEF Done
  <2>7. QED
    BY <2>5, <2>6
<1>5. pad(4 * q) = IF m < 3 * q THEN 1 ELSE 0
  <2>1. CASE q = 0
    BY <1>1, <2>1
  <2>2. CASE q # 0
    <3>1. 4 * q \in 1 .. (4 * q)
      BY <1>1, <2>2
    <3>2. (b64[4 * q] = Pad) = ~(3 * (4 * q) < 4 * m + 3)
      BY <1>4, <3>1
    <3>3. (3 * (4 * q) < 4 * m + 3) = ~(m < 3 * q)
      BY <1>1
    <3>4. QED
      BY <1>1, <3>1, <3>2, <3>3
  <2>3. QED
    BY <2>1, <2>2
<1>6. pad(4 * q - 1) = IF m + 1 < 3 * q THEN 1 ELSE 0
  <2>1. CASE q = 0
    BY <1>1, <2>1
  <2>2. CASE q # 0
    <3>1. 4 * q - 1 \in 1 .. (4 * q)
      BY <1>1, <2>2
    <3>2. (b64[4 * q - 1] = Pad) = ~(3 * (4 * q - 1) < 4 * m + 3)
      BY <1>4, <3>1
    <3>3. (3 * (4 * q - 1) < 4 * m + 3) = ~(m + 1 < 3 * q)
      BY <1>1
    <3>4. QED
      BY <1>1, <3>1, <3>2, <3>3
  <2>3. QED
    BY <2>1, <2>2
<1> HIDE DEF pad
<1>7. QED
  BY <1>1, <1>2, <1>3, <1>5, <1>6

\* The j-th byte lies behind the k-th, in its group, and has a sign bit.
Behind(j, k) == message[j] > 127 /\ k < j /\ (k - 1) \div 3 = (j - 1) \div 3

\* A byte is decoded unless such a one makes it 255.
LEMMA DecodedByte ==
  ASSUME NEW m, NEW q, Done(m, q), NEW k \in 1 .. m
  PROVE  (Value(b64, (k - 1) \div 3) \div Octet[((k - 1) % 3) + 1]) % 256
           = IF \E j \in 1 .. m : Behind(j, k) THEN 255 ELSE message[k]
<1>1. message \in Message /\ m \in Nat /\ q \in Nat /\ length = m /\ m <= 3 * q
  BY DEF Done
<1>2. PICK g \in Nat : g = (k - 1) \div 3
  BY <1>1
<1>3. PICK r \in 0 .. 2 : r = (k - 1) % 3 /\ k = 3 * g + r + 1
  BY <1>1, <1>2
<1>4. g \in 0 .. (q - 1) /\ 3 * g \in Nat /\ 3 * g + 1 \in Nat /\ 3 * g + 2 \in Nat
  BY <1>1, <1>2, <1>3
<1>5. Value(b64, g) = Word(3 * g)
  BY <1>4, ValueIsWord
<1>6. PICK o1, o2, o3 :
        /\ Bits8(o1) /\ Bits8(o2) /\ Bits8(o3)
        /\ o1 = Under(Byte(3 * g), {Byte(3 * g + 1), Byte(3 * g + 2)})
        /\ o2 = Under(Byte(3 * g + 1), {Byte(3 * g + 2)})
        /\ o3 = Byte(3 * g + 2)
        /\ Word(3 * g) = o1 * 65536 + o2 * 256 + o3
  <2>1. PICK h \in Nat : h = 3 * g
    BY <1>4
  <2>2. \E o1, o2, o3 :
          /\ Bits8(o1) /\ Bits8(o2) /\ Bits8(o3)
          /\ o1 = Under(Byte(h), {Byte(h + 1), Byte(h + 2)})
          /\ o2 = Under(Byte(h + 1), {Byte(h + 2)})
          /\ o3 = Byte(h + 2)
          /\ Word(h) = o1 * 65536 + o2 * 256 + o3
    BY <1>1, WordIs
  <2>3. QED
    BY <2>1, <2>2
<1>7. /\ (Word(3 * g) \div Octet[1]) % 256 = o1
      /\ (Word(3 * g) \div Octet[2]) % 256 = o2
      /\ (Word(3 * g) \div Octet[3]) % 256 = o3
  BY <1>6, OctetsOfWord
<1>8. ASSUME NEW x \in Nat
      PROVE  /\ x < m => Byte(x) = message[x + 1]
             /\ ~(x < m) => ~(Byte(x) > 127)
  <2>1. /\ x >= m => Byte(x) = 0
        /\ x < m => Byte(x) = message[x + 1]
    BY <1>1, ByteBits
  <2>2. QED
    BY <1>1, <2>1
\* The bytes behind are those of the places left in the group.
<1>9. ASSUME NEW j \in 1 .. m, Behind(j, k)
      PROVE  \E x \in {1, 2} : r < x /\ Byte(3 * g + x) > 127
  <2>1. message[j] > 127 /\ k < j /\ g = (j - 1) \div 3
    BY <1>2, <1>9 DEF Behind
  <2>2. PICK x \in {1, 2} : r < x /\ j = 3 * g + x + 1
    <3>1. j = 3 * g + ((j - 1) % 3) + 1 /\ (j - 1) % 3 \in 0 .. 2
      BY <1>1, <2>1
    <3>2. r < (j - 1) % 3
      BY <1>1, <1>3, <2>1, <3>1
    <3>3. (j - 1) % 3 \in {1, 2}
      BY <1>3, <3>1, <3>2
    <3>4. QED
      BY <3>1, <3>2, <3>3
  <2>3. 3 * g + x \in Nat /\ 3 * g + x < m /\ (3 * g + x) + 1 = j
    BY <1>1, <2>2
  <2>4. Byte(3 * g + x) = message[j]
    BY <1>8, <2>3
  <2>5. QED
    BY <2>1, <2>2, <2>4
<1>10. ASSUME NEW x \in {1, 2}, r < x, Byte(3 * g + x) > 127
       PROVE  \E j \in 1 .. m : Behind(j, k)
  <2>1. 3 * g + x \in Nat
    OBVIOUS
  <2>2. 3 * g + x < m /\ Byte(3 * g + x) = message[(3 * g + x) + 1]
    BY <1>8, <1>10, <2>1
  <2>3. PICK j \in 1 .. m : j = (3 * g + x) + 1
    BY <1>1, <2>1, <2>2
  <2>4. k < j
    BY <1>3, <1>10, <2>3
  <2>5. (j - 1) \div 3 = g
    BY <2>3
  <2>6. Behind(j, k)
    BY <1>2, <1>10, <2>2, <2>3, <2>4, <2>5 DEF Behind
  <2>7. QED
    BY <2>6
<1>11. 3 * g + r < m /\ message[k] = Byte(3 * g + r)
  <2>1. 3 * g + r \in Nat /\ 3 * g + r < m /\ (3 * g + r) + 1 = k
    BY <1>1, <1>3
  <2>2. QED
    BY <1>8, <2>1
<1>12. CASE r = 0
  <2>1. message[k] = Byte(3 * g) /\ r + 1 = 1
    BY <1>11, <1>12
  <2>2. (Value(b64, g) \div Octet[r + 1]) % 256
          = Under(Byte(3 * g), {Byte(3 * g + 1), Byte(3 * g + 2)})
    BY <1>5, <1>6, <1>7, <2>1
  <2>3. (\E b \in {Byte(3 * g + 1), Byte(3 * g + 2)} : b > 127)
          <=> \E j \in 1 .. m : Behind(j, k)
    BY <1>9, <1>10, <1>12
  <2>4. QED
    BY <1>2, <1>3, <2>1, <2>2, <2>3 DEF Under
<1>13. CASE r = 1
  <2>1. message[k] = Byte(3 * g + 1) /\ r + 1 = 2
    BY <1>11, <1>13
  <2>2. (Value(b64, g) \div Octet[r + 1]) % 256 = Under(Byte(3 * g + 1), {Byte(3 * g + 2)})
    BY <1>5, <1>6, <1>7, <2>1
  <2>3. (\E b \in {Byte(3 * g + 2)} : b > 127) <=> \E j \in 1 .. m : Behind(j, k)
    BY <1>9, <1>10, <1>13
  <2>4. QED
    BY <1>2, <1>3, <2>1, <2>2, <2>3 DEF Under
<1>14. CASE r = 2
  <2>1. message[k] = Byte(3 * g + 2) /\ r + 1 = 3
    BY <1>11, <1>14
  <2>2. (Value(b64, g) \div Octet[r + 1]) % 256 = message[k]
    BY <1>5, <1>6, <1>7, <2>1
  <2>3. ~ \E j \in 1 .. m : Behind(j, k)
    BY <1>9, <1>14
  <2>4. QED
    BY <1>2, <1>3, <2>2, <2>3
<1>15. QED
  BY <1>3, <1>12, <1>13, <1>14

\* The characters are four for every group, and they decode to the message exactly
\* if no byte above 127 lies behind another byte of its group, but for bytes 255
\* (encode_base64).
THEOREM DecodesExactly == Spec => []DecodesBack
<1>1. Written /\ Coded => DecodesBack
  <2> SUFFICES ASSUME Written, Coded, pc = "done"
               PROVE  /\ Len(b64) % 4 = 0
                      /\ (Decode(b64) = message) <=>
                           \A k \in DOMAIN message : \A j \in DOMAIN message :
                             message[k] > 127 /\ j < k /\ (j - 1) \div 3 = (k - 1) \div 3
                               => message[j] = 255
    BY DEF DecodesBack
  <2>1. PICK m, q : Done(m, q)
    BY DoneIs
  <2>2. m \in Nat /\ q \in Nat /\ Len(b64) = 4 * q /\ Len(message) = m /\ message \in Message
    BY <2>1 DEF Done, length
  <2>3. Len(b64) % 4 = 0
    BY <2>2
  <2>4. PICK S : message \in Seq(S)
    BY <2>2, Base64Assumption
  <2>5. DOMAIN message = 1 .. m /\ message = [k \in 1 .. m |-> message[k]]
    BY <2>2, <2>4
  <2> DEFINE sent(k) == IF \E j \in 1 .. m : Behind(j, k) THEN 255 ELSE message[k]
  <2>6. Decode(b64) = [k \in 1 .. m |-> sent(k)]
    <3>1. Bytes(b64) = m
      BY <2>1, BytesAreLength
    <3>2. \A k \in 1 .. m :
            (Value(b64, (k - 1) \div 3) \div Octet[((k - 1) % 3) + 1]) % 256 = sent(k)
      BY <2>1, DecodedByte
    <3> HIDE DEF sent
    <3>3. QED
      BY <3>1, <3>2 DEF Decode
  <2>7. (Decode(b64) = message) <=> \A k \in 1 .. m : sent(k) = message[k]
    <3> HIDE DEF sent
    <3> QED
      BY <2>5, <2>6
  <2>8. (\A k \in 1 .. m : sent(k) = message[k])
          <=> \A k \in 1 .. m : \A j \in 1 .. m : Behind(j, k) => message[k] = 255
    OBVIOUS
  <2>9. (\A k \in 1 .. m : \A j \in 1 .. m : Behind(j, k) => message[k] = 255)
          <=> \A k \in 1 .. m : \A j \in 1 .. m :
                message[k] > 127 /\ j < k /\ (j - 1) \div 3 = (k - 1) \div 3
                  => message[j] = 255
    BY DEF Behind
  <2>10. QED
    BY <2>3, <2>5, <2>7, <2>8, <2>9
<1>2. QED
  BY InitWritten, NextWritten, InitCoded, NextCoded, <1>1, PTL DEF Spec
===============================================================================
