--------------------------------- MODULE Base64 ---------------------------------
(***************************************************************************)
(* encode_base64 of util_piaabo.h: three bytes of the message at a time    *)
(* become four characters.  A character is its index in lookup, or Pad.    *)
(* char is signed, so a byte above 127 is widened to a word whose higher   *)
(* bits are all set; of these, the octets of the group keep what lies over *)
(* them.                                                                   *)
(*                                                                         *)
(* A definition marked "Fault:" is a wrong version of the one below it.    *)
(***************************************************************************)
EXTENDS Integers, Sequences

CONSTANT Message

ASSUME Base64Assumption == Message \subseteq Seq(1 .. 255)

VARIABLES message, b64, i, pc

vars == <<message, b64, i, pc>>

Pad == 64

length == Len(message)

Init == message \in Message /\ b64 = <<>> /\ i = 0 /\ pc = "loop"

\* message[k], and nothing behind the end.
Byte(k) == IF k < length THEN message[k + 1] ELSE 0

\* An octet under the sign bits of the bytes to its right.
Under(octet, bytes) == IF \E b \in bytes : b > 127 THEN 255 ELSE octet

\* Fault: the middle octet is shifted as far as the first.
Group_Shift(o1, o2, o3) == o1 * 65536 + o2 * 65536 + o3

Group(o1, o2, o3) == o1 * 65536 + o2 * 256 + o3

\* The 24 bits of l that are looked at, of the group of message[j].
Word(j) == Group(Under(Byte(j), {Byte(j + 1), Byte(j + 2)}),
                 Under(Byte(j + 1), {Byte(j + 2)}),
                 Byte(j + 2))

l == Word(i)

\* The shifts by 18, 12, 6 and 0, and the mask 0x3F.
Weight == <<262144, 4096, 64, 1>>

Sextet(word, k) == (word \div Weight[k]) % 64

\* Fault: four characters for every group.
Characters_Four(rest) == 4

\* A group of one or two bytes needs fewer characters.
Characters(rest) == IF rest < 3 THEN rest + 1 ELSE 4

Encode ==
  /\ pc = "loop" /\ i < length
  /\ b64' = b64 \o [k \in 1 .. Characters(length - i) |-> Sextet(l, k)]
  /\ i' = i + 3
  /\ UNCHANGED <<message, pc>>

\* "standarize"
Standarize ==
  /\ pc = "loop" /\ i >= length
  /\ b64' = b64 \o [k \in 1 .. (IF length % 3 = 0 THEN 0 ELSE 3 - (length % 3)) |-> Pad]
  /\ pc' = "done"
  /\ UNCHANGED <<message, i>>

Next == Encode \/ Standarize \/ (pc = "done" /\ UNCHANGED vars)

Spec == Init /\ [][Next]_vars

-----------------------------------------------------------------------------
(* Properties. *)

\* What base64 says of the characters c: the 24 bits of the four of group g are
\* three bytes, and a pad at the end is one byte less.
Value(c, g) ==
  LET sextet(k) == IF c[k] = Pad THEN 0 ELSE c[k]
  IN sextet(4*g + 1) * Weight[1] + sextet(4*g + 2) * Weight[2]
       + sextet(4*g + 3) * Weight[3] + sextet(4*g + 4) * Weight[4]

Octet == <<65536, 256, 1>>

Bytes(c) ==
  LET pad(k) == IF k \in DOMAIN c /\ c[k] = Pad THEN 1 ELSE 0
  IN 3 * (Len(c) \div 4) - pad(Len(c)) - pad(Len(c) - 1)

Decode(c) ==
  [k \in 1 .. Bytes(c) |->
     (Value(c, (k - 1) \div 3) \div Octet[((k - 1) % 3) + 1]) % 256]

\* A message decodes to itself exactly if no byte above 127 lies behind another
\* byte of its group, but for bytes 255, on which the sign bits do not show.
DecodesBack ==
  pc = "done" =>
    /\ Len(b64) % 4 = 0
    /\ (Decode(b64) = message) <=>
         \A k \in DOMAIN message : \A j \in DOMAIN message :
           message[k] > 127 /\ j < k /\ (j - 1) \div 3 = (k - 1) \div 3
             => message[j] = 255

\* The buffer of twice the length holds the characters and the terminator, but for
\* messages of these four lengths.
RoomUnlessShort == Len(b64) + 1 <= 2 * length \/ length \in {0, 1, 2, 4}

================================================================================
