----------------------------- MODULE DataInduction -----------------------------
(***************************************************************************)
(* What proofs about text and streams rest on: induction on the natural    *)
(* numbers, for a set rather than a predicate, and what follows for        *)
(* FlattenSeq, whose recursive function is shown to exist.                 *)
(***************************************************************************)
EXTENDS Integers, SequencesExt, SequenceTheorems, WellFoundedInduction, TLAPS

\* A set of naturals that is not empty has a least one.
LEMMA LeastNatural ==
  ASSUME NEW S \in SUBSET Nat, S # {}
  PROVE  \E m \in S : \A n \in S : m <= n
<1> DEFINE Below == {ss \in Nat \X Nat : ss[1] < ss[2]}
<1>1. IsWellFoundedOn(Below, Nat)
  BY NatLessThanWellFounded DEF OpToRel
<1>2. \A n, m \in Nat : n < m => <<n, m>> \in Below
  OBVIOUS
<1> HIDE DEF Below
<1>3. PICK m \in S : \A n \in S : ~(<<n, m>> \in Below)
  BY <1>1, WFMin
<1>4. ASSUME NEW n \in S PROVE m <= n
  <2>1. m \in Nat /\ n \in Nat
    OBVIOUS
  <2>2. ~(n < m)
    BY <1>2, <1>3, <2>1
  <2>3. QED
    BY <2>1, <2>2
<1>5. QED
  BY <1>4

\* A set of the naturals up to b that has 0 and with each number the next has all.
LEMMA InductionTo ==
  ASSUME NEW b \in Nat, NEW S, 0 \in S, \A n \in 0 .. b - 1 : n \in S => n + 1 \in S
  PROVE  \A n \in 0 .. b : n \in S
<1> DEFINE R == {n \in 0 .. b : n \notin S}
<1> SUFFICES ASSUME R # {} PROVE FALSE
  OBVIOUS
<1>1. R \in SUBSET Nat
  OBVIOUS
<1>2. PICK m \in R : \A n \in R : m <= n
  BY <1>1, LeastNatural
<1>3. m \in 0 .. b /\ m \notin S /\ m # 0
  OBVIOUS
<1>4. m - 1 \in 0 .. b - 1 /\ m - 1 \notin R
  BY <1>2, <1>3
<1>5. m - 1 \in S
  BY <1>3, <1>4
<1>6. (m - 1) + 1 = m
  BY <1>3
<1>7. QED
  BY <1>3, <1>4, <1>5, <1>6

-----------------------------------------------------------------------------
(* Texts: sequences under names the provers do not look into, so that what *)
(* is said of them follows from a few laws alone.                          *)

Text(T) == Seq(T)
Size(s) == Len(s)
One(y) == <<y>>
Cat(s, t) == s \o t
Part(s, a, b) == SubSeq(s, a, b)

-----------------------------------------------------------------------------
(* FlattenSeq. *)

\* g flattens the first n sequences of q, place by place.
Flattens(g, q, n) ==
  g = [i \in 1 .. n |-> IF i = 1 THEN q[i] ELSE g[i - 1] \o q[i]]

LEMMA FlatteningExists ==
  ASSUME NEW q, NEW b \in Nat PROVE \E g : Flattens(g, q, b)
<1> DEFINE S == {n \in 0 .. b : \E g : Flattens(g, q, n)}
<1>1. 0 \in S
  <2>1. Flattens([i \in 1 .. 0 |-> IF i = 1 THEN q[i] ELSE <<>>], q, 0)
    BY DEF Flattens
  <2>2. QED
    BY <2>1
<1>2. ASSUME NEW n \in 0 .. b - 1, n \in S PROVE n + 1 \in S
  <2>1. PICK g : Flattens(g, q, n)
    BY <1>2
  <2> DEFINE h == [i \in 1 .. n + 1 |->
                     IF i \in 1 .. n THEN g[i]
                                     ELSE IF i = 1 THEN q[i] ELSE g[i - 1] \o q[i]]
  <2>2. ASSUME NEW i \in 1 .. n + 1
        PROVE  h[i] = IF i = 1 THEN q[i] ELSE h[i - 1] \o q[i]
    <3>1. CASE i \in 1 .. n
      <4>1. g[i] = IF i = 1 THEN q[i] ELSE g[i - 1] \o q[i]
        BY <2>1, <3>1 DEF Flattens
      <4>2. i # 1 => i - 1 \in 1 .. n
        BY <3>1
      <4>3. QED
        BY <3>1, <4>1, <4>2
    <3>2. CASE i \notin 1 .. n
      <4>1. i # 1 => i - 1 \in 1 .. n
        BY <3>2
      <4>2. QED
        BY <3>2, <4>1
    <3>3. QED
      BY <3>1, <3>2
  <2>3. h = [i \in 1 .. n + 1 |-> IF i = 1 THEN q[i] ELSE h[i - 1] \o q[i]]
    BY <2>2
  <2>4. Flattens(h, q, n + 1)
    BY <2>3 DEF Flattens
  <2>5. n + 1 \in 0 .. b
    OBVIOUS
  <2>6. QED
    BY <2>4, <2>5
<1> HIDE DEF S
<1>3. \A n \in 0 .. b : n \in S
  BY <1>1, <1>2, InductionTo
<1>4. b \in S
  BY <1>3
<1>5. QED
  BY <1>4 DEF S

\* What FlattenSeq computes in its last place.
LEMMA FlattenIs ==
  ASSUME NEW T, NEW q \in Seq(T), q # <<>>
  PROVE  \E g : Flattens(g, q, Len(q)) /\ FlattenSeq(q) = g[Len(q)]
<1> DEFINE F(g) == Flattens(g, q, Len(q))
<1>1. Len(q) \in Nat /\ Len(q) # 0
  OBVIOUS
<1>2. \E g : F(g)
  BY <1>1, FlatteningExists
<1>3. F(CHOOSE g : F(g))
  BY <1>2
<1>4. FlattenSeq(q) = (CHOOSE g : F(g))[Len(q)]
  BY <1>1 DEF FlattenSeq, Flattens
<1>5. QED
  BY <1>3, <1>4

\* Two that flatten the same sequences agree.
LEMMA FlatteningAgrees ==
  ASSUME NEW p, NEW q, NEW m \in Nat, NEW n \in Nat, NEW g, NEW h,
         Flattens(g, p, m), Flattens(h, q, n), n <= m, \A i \in 1 .. n : p[i] = q[i]
  PROVE  \A i \in 1 .. n : g[i] = h[i]
<1> DEFINE S == {i \in 0 .. n : i # 0 => g[i] = h[i]}
<1>1. 0 \in S
  OBVIOUS
<1>2. ASSUME NEW i \in 0 .. n - 1, i \in S PROVE i + 1 \in S
  <2>1. i + 1 \in 1 .. m /\ i + 1 \in 1 .. n /\ (i + 1) - 1 = i
        /\ (i + 1 = 1 <=> i = 0)
    OBVIOUS
  <2>2. PICK j \in 1 .. n : j = i + 1
    BY <2>1
  <2>3. /\ j \in 1 .. m /\ j \in 1 .. n /\ j - 1 = i
        /\ (j = 1 <=> i = 0)
    BY <2>1, <2>2
  <2>4. g[j] = IF j = 1 THEN p[j] ELSE g[j - 1] \o p[j]
    BY <2>3 DEF Flattens
  <2>5. h[j] = IF j = 1 THEN q[j] ELSE h[j - 1] \o q[j]
    BY <2>3 DEF Flattens
  <2>6. p[j] = q[j]
    BY <2>3
  <2>7. g[j] = h[j]
    BY <1>2, <2>3, <2>4, <2>5, <2>6
  <2>8. QED
    BY <2>1, <2>2, <2>7
<1> HIDE DEF S
<1>3. \A i \in 0 .. n : i \in S
  BY <1>1, <1>2, InductionTo
<1>4. QED
  BY <1>3 DEF S

LEMMA FlattenNone == FlattenSeq(<<>>) = <<>>
  BY DEF FlattenSeq

\* FlattenSeq, one sequence after the other.
LEMMA FlattenOneMore ==
  ASSUME NEW T, NEW q \in Seq(Seq(T)), NEW x \in Seq(T)
  PROVE  FlattenSeq(Append(q, x)) = FlattenSeq(q) \o x
<1> DEFINE p == Append(q, x)
<1>1. PICK n \in Nat : n = Len(q)
  OBVIOUS
<1>2. /\ p \in Seq(Seq(T)) /\ Len(p) = n + 1 /\ p # <<>> /\ p[n + 1] = x
      /\ \A i \in 1 .. n : p[i] = q[i]
  BY <1>1, AppendProperties
<1> HIDE DEF p
<1>3. PICK g : Flattens(g, p, n + 1) /\ FlattenSeq(p) = g[n + 1]
  BY <1>2, FlattenIs
<1>4. g[n + 1] = IF n = 0 THEN x ELSE g[n] \o x
  <2>1. n + 1 \in 1 .. n + 1 /\ (n + 1) - 1 = n /\ (n + 1 = 1 <=> n = 0)
    OBVIOUS
  <2>2. g[n + 1] = IF n + 1 = 1 THEN p[n + 1] ELSE g[(n + 1) - 1] \o p[n + 1]
    BY <1>3, <2>1 DEF Flattens
  <2>3. QED
    BY <1>2, <2>1, <2>2
<1>5. CASE n = 0
  <2>1. q = <<>> /\ FlattenSeq(q) = <<>>
    BY <1>1, <1>5, EmptySeq, FlattenNone
  <2>2. <<>> \o x = x
    BY ConcatEmptySeq
  <2>3. QED
    BY <1>3, <1>4, <1>5, <2>1, <2>2 DEF p
<1>6. CASE n # 0
  <2>1. q # <<>>
    BY <1>1, <1>6
  <2>2. PICK h : Flattens(h, q, n) /\ FlattenSeq(q) = h[n]
    BY <1>1, <2>1, FlattenIs
  <2>3. g[n] = h[n]
    <3>1. n <= n + 1 /\ n + 1 \in Nat /\ n \in 1 .. n
      BY <1>6
    <3>2. \A i \in 1 .. n : p[i] = q[i]
      BY <1>2
    <3>3. Flattens(g, p, n + 1) /\ Flattens(h, q, n)
      BY <1>3, <2>2
    <3>4. \A i \in 1 .. n : g[i] = h[i]
      BY <3>1, <3>2, <3>3, FlatteningAgrees
    <3>5. QED
      BY <3>1, <3>4
  <2>4. QED
    BY <1>3, <1>4, <1>6, <2>2, <2>3 DEF p
<1>7. QED
  BY <1>5, <1>6

-----------------------------------------------------------------------------
(* The text a page comes to, piece by piece. *)

\* What the first n of the strings e come to, one behind the other.
Joined(e, n) == FlattenSeq([i \in 1 .. n |-> e[i]])

LEMMA JoinedNone == \A e : Joined(e, 0) = <<>>
<1> SUFFICES ASSUME NEW e PROVE Joined(e, 0) = <<>>
  OBVIOUS
<1>1. [i \in 1 .. 0 |-> e[i]] = <<>>
  OBVIOUS
<1>2. QED
  BY <1>1, FlattenNone DEF Joined

LEMMA JoinedAll ==
  ASSUME NEW T, NEW m \in Nat, NEW e \in [1 .. m -> T] PROVE Joined(e, m) = FlattenSeq(e)
<1>1. [i \in 1 .. m |-> e[i]] = e
  OBVIOUS
<1>2. QED
  BY <1>1 DEF Joined

LEMMA JoinedOneMore ==
  ASSUME NEW T, NEW m \in Nat, NEW e \in [1 .. m -> Seq(T)], NEW n \in 0 .. m - 1
  PROVE  Joined(e, n + 1) = Joined(e, n) \o e[n + 1]
<1> DEFINE p == [i \in 1 .. n |-> e[i]]
           q == [i \in 1 .. n + 1 |-> e[i]]
<1>1. n \in Nat /\ n + 1 \in 1 .. m /\ e[n + 1] \in Seq(T)
  OBVIOUS
<1>2. p \in Seq(Seq(T)) /\ Len(p) = n
  BY <1>1
<1>3. q \in Seq(Seq(T)) /\ Len(q) = n + 1
  BY <1>1
<1>4. /\ Append(p, e[n + 1]) \in Seq(Seq(T)) /\ Len(Append(p, e[n + 1])) = n + 1
      /\ \A i \in 1 .. n + 1 : Append(p, e[n + 1])[i] = q[i]
  BY <1>1, <1>2
<1> HIDE DEF p, q
<1>5. Append(p, e[n + 1]) = q
  BY <1>3, <1>4, SeqEqual
<1>6. FlattenSeq(q) = FlattenSeq(p) \o e[n + 1]
  BY <1>1, <1>2, <1>5, FlattenOneMore
<1>7. QED
  BY <1>6 DEF Joined, p, q

LEMMA JoinedIsSeq ==
  ASSUME NEW T, NEW m \in Nat, NEW e \in [1 .. m -> Seq(T)]
  PROVE  \A n \in 0 .. m : Joined(e, n) \in Seq(T)
<1> DEFINE S == {n \in 0 .. m : Joined(e, n) \in Seq(T)}
<1>1. 0 \in S
  <2>1. Joined(e, 0) = <<>>
    BY JoinedNone
  <2>2. <<>> \in Seq(T)
    OBVIOUS
  <2>3. 0 \in 0 .. m
    OBVIOUS
  <2>4. QED
    BY <2>1, <2>2, <2>3, Zenon
<1>2. ASSUME NEW n \in 0 .. m - 1, n \in S PROVE n + 1 \in S
  <2>1. e[n + 1] \in Seq(T) /\ n + 1 \in 0 .. m
    OBVIOUS
  <2>2. Joined(e, n + 1) = Joined(e, n) \o e[n + 1]
    BY JoinedOneMore
  <2>3. Joined(e, n) \in Seq(T)
    BY <1>2
  <2>4. Joined(e, n) \o e[n + 1] \in Seq(T)
    BY <2>1, <2>3, ConcatProperties
  <2>5. QED
    BY <2>1, <2>2, <2>4
<1> HIDE DEF S
<1>3. \A n \in 0 .. m : n \in S
  BY <1>1, <1>2, InductionTo
<1>4. QED
  BY <1>3 DEF S

\* Between a and k the strings e come to the pieces of v.
Pieces(e, v, a, k) == Joined(e, k) = Joined(e, a) \o SubSeq(v, a + 1, k)

\* A string of one piece adds this piece to a run of such strings.
LEMMA JoinedPiece ==
  ASSUME NEW T, NEW m \in Nat, NEW e \in [1 .. m -> Seq(T)], NEW v \in Seq(T), Len(v) = m,
         NEW k \in 0 .. m - 1, NEW a \in 0 .. k, e[k + 1] = <<v[k + 1]>>,
         Pieces(e, v, a, k)
  PROVE  Pieces(e, v, a, k + 1)
<1>1. Joined(e, k + 1) = Joined(e, k) \o e[k + 1]
  BY JoinedOneMore
<1>2. PICK J \in Seq(T) : J = Joined(e, a)
  <2>1. a \in 0 .. m
    OBVIOUS
  <2>2. Joined(e, a) \in Seq(T)
    BY <2>1, JoinedIsSeq, Zenon
  <2>3. QED
    BY <2>2
<1>3. k + 1 \in 1 .. Len(v) /\ a + 1 \in 1 .. Len(v) /\ k + 1 \in a + 1 .. Len(v)
      /\ (k + 1) - 1 = k
  OBVIOUS
<1>4. SubSeq(v, a + 1, k + 1) = SubSeq(v, a + 1, (k + 1) - 1) \o <<v[k + 1]>>
  BY <1>3, SubSeqRecursiveSecond
<1>5. PICK x \in Seq(T) : x = <<v[k + 1]>>
  BY <1>3, ElementOfSeq
<1>6. PICK w \in Seq(T) : w = SubSeq(v, a + 1, k)
  <2>1. SubSeq(v, a + 1, k) \in Seq(T)
    OBVIOUS
  <2>2. QED
    BY <2>1
<1>7. (J \o w) \o x = J \o (w \o x)
  <2>1. J \in Seq(T) /\ w \in Seq(T) /\ x \in Seq(T)
    OBVIOUS
  <2>2. QED
    BY ONLY <2>1, ConcatAssociative, SMTT(60)
<1>8. QED
  BY <1>1, <1>2, <1>3, <1>4, <1>5, <1>6, <1>7 DEF Pieces

\* Strings of one piece add these pieces.
LEMMA JoinedPieces ==
  ASSUME NEW T, NEW m \in Nat, NEW e \in [1 .. m -> Seq(T)], NEW v \in Seq(T), Len(v) = m,
         NEW a \in 0 .. m, NEW b \in a .. m,
         \A i \in a + 1 .. b : e[i] = One(v[i])
  PROVE  Pieces(e, v, a, b)
<1> DEFINE S == {n \in 0 .. b - a : Pieces(e, v, a, a + n)}
<1>1. 0 \in S
  <2>1. SubSeq(v, a + 1, a) = <<>>
    OBVIOUS
  <2>2. Joined(e, a) \in Seq(T)
    BY JoinedIsSeq
  <2>3. Joined(e, a) \o <<>> = Joined(e, a)
    BY <2>2, ConcatEmptySeq
  <2>4. Pieces(e, v, a, a)
    BY <2>1, <2>3 DEF Pieces
  <2>5. 0 \in 0 .. b - a /\ a + 0 = a
    OBVIOUS
  <2>6. QED
    BY <2>4, <2>5
<1>2. ASSUME NEW n \in 0 .. (b - a) - 1, n \in S PROVE n + 1 \in S
  <2>1. PICK k \in 0 .. m - 1 : k = a + n /\ a \in 0 .. k /\ k + 1 \in a + 1 .. b
    OBVIOUS
  <2>2. Pieces(e, v, a, k)
    BY <1>2, <2>1
  <2>3. e[k + 1] = <<v[k + 1]>>
    BY <2>1 DEF One
  <2>4. Pieces(e, v, a, k + 1)
    <3>1. a \in 0 .. k
      BY <2>1
    <3>2. QED
      BY <2>2, <2>3, <3>1, JoinedPiece
  <2>5. a + (n + 1) = k + 1 /\ n + 1 \in 0 .. b - a
    BY <2>1
  <2>6. QED
    BY <2>4, <2>5
<1> HIDE DEF S
<1>3. b - a \in Nat /\ b - a \in 0 .. b - a /\ a + (b - a) = b
  OBVIOUS
<1>4. \A n \in 0 .. b - a : n \in S
  BY <1>1, <1>2, <1>3, InductionTo
<1>5. b - a \in S
  BY <1>3, <1>4
<1>6. Pieces(e, v, a, a + (b - a))
  BY <1>5 DEF S
<1>7. QED
  BY <1>3, <1>6

-----------------------------------------------------------------------------
(* Joined, in these words. *)

LEMMA TextOne == \A T : \A y \in T : One(y) \in Text(T)
  BY DEF Text, One

LEMMA JoinedRun ==
  ASSUME NEW T, NEW m \in Nat, NEW e \in [1 .. m -> Text(T)], NEW v \in Text(T),
         Size(v) = m, NEW a \in 0 .. m, NEW b \in a .. m,
         \A i \in a + 1 .. b : e[i] = One(v[i])
  PROVE  Joined(e, b) = Cat(Joined(e, a), Part(v, a + 1, b))
<1>1. e \in [1 .. m -> Seq(T)] /\ v \in Seq(T) /\ Len(v) = m
  BY DEF Text, Size
<1>2. Pieces(e, v, a, b)
  BY <1>1, JoinedPieces
<1>3. QED
  BY <1>2 DEF Pieces, Cat, Part

================================================================================
