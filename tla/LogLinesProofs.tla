---------------------------- MODULE LogLinesProofs ----------------------------
(***************************************************************************)
(* Theorems about LogLines, for any threads and any number of calls.       *)
(***************************************************************************)
EXTENDS LogLines, SequenceTheorems, FiniteSetTheorems, TLAPS

\* The mutex is held by the thread that writes, and by no other.
Exclusive ==
  \A t \in Thread : pc[t] \in {"prefix", "message", "unlock"} <=> log_mutex = t

\* A prefix on stdout is one of log; the last one is of the call that writes.
PrefixesPlain ==
  \A i \in 1 .. Len(stdout) :
    stdout[i].part = "prefix" /\ i = Len(stdout) => kind[stdout[i].by] = "log"

Told ==
  \E i \in 1 .. Len(stdout) :
    stdout[i].part = "message" /\ stdout[i].kind = "log_fatal"

\* A call of log_fatal that has written its message has told the reason.
FatalTold ==
  \A t \in Thread :
    \/ pc[t] = "exit"
    \/ pc[t] = "unlock" /\ kind[t] = "log_fatal"
    => Told

\* stderr is one prefix ahead while a call is between its prefix there and its
\* message, and that prefix is of this call; otherwise the streams are level.
Ahead ==
  LET n == MarkedIn(stdout, Len(stdout))
  IN /\ \A t \in Thread :
          pc[t] = "message" /\ kind[t] # "log" =>
            /\ Len(stderr) = n + 1
            /\ stderr[n + 1].by = t /\ stderr[n + 1].kind = kind[t]
     /\ (\A t \in Thread : pc[t] = "message" => kind[t] = "log") => Len(stderr) = n

IInv ==
  /\ TypeOK /\ Exclusive /\ LinesWhole /\ PrefixesPlain /\ FatalTold /\ ReasonTold
  /\ Ahead /\ StreamsAgree

-----------------------------------------------------------------------------
(* How many lines have their prefix in the other stream. *)

LEMMA MarkedFinite ==
  ASSUME NEW lines, NEW n \in Nat
  PROVE  /\ IsFiniteSet({i \in 1 .. n : Marked(lines[i])})
         /\ MarkedIn(lines, n) \in Nat
<1> DEFINE M == {i \in 1 .. n : Marked(lines[i])}
<1>1. IsFiniteSet(1 .. n) /\ M \in SUBSET (1 .. n)
  BY FS_Interval
<1> HIDE DEF M
<1>2. IsFiniteSet(M)
  BY <1>1, FS_Subset
<1>3. Cardinality(M) \in Nat
  BY <1>2, FS_CardinalityType
<1>4. QED
  BY <1>2, <1>3 DEF M, MarkedIn

LEMMA CountNone == \A lines : MarkedIn(lines, 0) = 0
<1> SUFFICES ASSUME NEW lines PROVE MarkedIn(lines, 0) = 0
  OBVIOUS
<1>1. {i \in 1 .. 0 : Marked(lines[i])} = {}
  OBVIOUS
<1>2. QED
  BY <1>1, FS_EmptySet DEF MarkedIn

LEMMA CountNext ==
  ASSUME NEW lines, NEW n \in Nat
  PROVE  MarkedIn(lines, n + 1) =
           IF Marked(lines[n + 1]) THEN MarkedIn(lines, n) + 1 ELSE MarkedIn(lines, n)
<1> DEFINE M(k) == {i \in 1 .. k : Marked(lines[i])}
<1>1. IsFiniteSet(M(n))
  BY MarkedFinite
<1>2. 1 .. n + 1 = (1 .. n) \cup {n + 1} /\ n + 1 \notin 1 .. n
  OBVIOUS
<1>3. M(n + 1) = IF Marked(lines[n + 1]) THEN M(n) \cup {n + 1} ELSE M(n)
  BY <1>2
<1>4. n + 1 \notin M(n)
  OBVIOUS
<1> HIDE DEF M
<1>5. Cardinality(M(n) \cup {n + 1}) = Cardinality(M(n)) + 1
  BY <1>1, <1>4, FS_AddElement
<1>6. QED
  BY <1>3, <1>5 DEF M, MarkedIn

LEMMA CountSame ==
  ASSUME NEW lines, NEW more, NEW n \in Nat, \A i \in 1 .. n : lines[i] = more[i]
  PROVE  MarkedIn(lines, n) = MarkedIn(more, n)
<1>1. {i \in 1 .. n : Marked(lines[i])} = {i \in 1 .. n : Marked(more[i])}
  OBVIOUS
<1>2. QED
  BY <1>1 DEF MarkedIn

\* The place of a marked line's prefix is one of the first MarkedIn(lines, n).
LEMMA CountPlace ==
  ASSUME NEW lines, NEW n \in Nat, NEW i \in 1 .. n, Marked(lines[i])
  PROVE  MarkedIn(lines, i) \in 1 .. MarkedIn(lines, n)
<1> DEFINE M(k) == {j \in 1 .. k : Marked(lines[j])}
<1>1. i - 1 \in Nat /\ i \in Nat /\ (i - 1) + 1 = i
  OBVIOUS
<1>2. MarkedIn(lines, i - 1) \in Nat /\ MarkedIn(lines, i) \in Nat
      /\ MarkedIn(lines, n) \in Nat
  BY <1>1, MarkedFinite
<1>3. MarkedIn(lines, i) = MarkedIn(lines, i - 1) + 1
  BY <1>1, CountNext
<1>4. M(i) \in SUBSET M(n) /\ IsFiniteSet(M(n))
  BY MarkedFinite
<1> HIDE DEF M
<1>5. Cardinality(M(i)) <= Cardinality(M(n))
  BY <1>4, FS_Subset
<1>6. MarkedIn(lines, i) <= MarkedIn(lines, n)
  BY <1>5 DEF M, MarkedIn
<1>7. QED
  BY <1>2, <1>3, <1>6

-----------------------------------------------------------------------------

LEMMA InitIInv == Init => IInv
<1> SUFFICES ASSUME Init PROVE IInv
  OBVIOUS
<1>1. stdout = <<>> /\ stderr = <<>> /\ \A t \in Thread : pc[t] = "idle"
  BY DEF Init
<1>2. TypeOK
  <2>1. <<>> \in Seq(Line)
    OBVIOUS
  <2>2. calls \in [Thread -> 0 .. CallBound]
    BY LogAssumption DEF Init
  <2>3. pc \in [Thread -> {"idle", "lock", "prefix", "message", "unlock", "exit"}]
    BY DEF Init
  <2>4. kind \in [Thread -> Kind]
    BY DEF Init, Kind
  <2>5. QED
    BY <2>1, <2>2, <2>3, <2>4, <1>1 DEF Init, TypeOK
<1>3. Exclusive
  BY <1>1, LogAssumption DEF Init, Exclusive
<1>4. LinesWhole /\ PrefixesPlain
  BY <1>1 DEF LinesWhole, PrefixesPlain
<1>5. FatalTold /\ ReasonTold
  BY <1>1 DEF Init, FatalTold, ReasonTold
<1>6. Ahead /\ StreamsAgree
  <2>1. MarkedIn(stdout, 0) = 0
    BY CountNone
  <2>2. Len(stdout) = 0 /\ Len(stderr) = 0
    BY <1>1
  <2>3. QED
    BY <1>1, <2>1, <2>2 DEF Ahead, StreamsAgree
<1>7. QED
  BY <1>2, <1>3, <1>4, <1>5, <1>6 DEF IInv

-----------------------------------------------------------------------------

LEMMA WrittenIsLine ==
  ASSUME TypeOK, NEW t \in Thread, NEW part \in {"prefix", "message"}
  PROVE  Written(part, t) \in Line
  BY DEF TypeOK, Written, Line

\* What the two steps that write do to the streams.
LEMMA PrefixWrites ==
  ASSUME TypeOK, NEW t \in Thread, Prefix(t)
  PROVE  \/ /\ kind[t] = "log" /\ stderr' = stderr
            /\ stdout' = Append(stdout, Written("prefix", t)) /\ stdout' \in Seq(Line)
         \/ /\ kind[t] # "log" /\ stdout' = stdout
            /\ stderr' = Append(stderr, Written("prefix", t)) /\ stderr' \in Seq(Line)
<1>1. stdout \in Seq(Line) /\ stderr \in Seq(Line)
  BY DEF TypeOK
<1>2. Written("prefix", t) \in Line
  BY WrittenIsLine
<1>3. /\ Append(stdout, Written("prefix", t)) \in Seq(Line)
      /\ Append(stderr, Written("prefix", t)) \in Seq(Line)
  BY <1>1, <1>2, AppendProperties
<1>4. QED
  BY <1>3 DEF Prefix

LEMMA MessageWrites ==
  ASSUME TypeOK, NEW t \in Thread, WriteMessage(t)
  PROVE  /\ stdout' = Append(stdout, Written("message", t)) /\ stdout' \in Seq(Line)
         /\ stderr' = stderr
<1>1. stdout \in Seq(Line) /\ Written("message", t) \in Line
  BY WrittenIsLine DEF TypeOK
<1>2. Append(stdout, Written("message", t)) \in Seq(Line)
  BY <1>1, AppendProperties
<1>3. QED
  BY <1>2 DEF WriteMessage, Message

LEMMA TypeStep == TypeOK /\ [Next]_vars => TypeOK'
<1> SUFFICES ASSUME TypeOK, [Next]_vars PROVE TypeOK'
  OBVIOUS
<1> USE LogAssumption DEF TypeOK, Goto
<1>1. ASSUME NEW t \in Thread, NEW k \in Kind, Call(t, k) PROVE TypeOK'
  BY <1>1 DEF Call
<1>2. ASSUME NEW t \in Thread, Lock(t) PROVE TypeOK'
  BY <1>2 DEF Lock
<1>3. ASSUME NEW t \in Thread, Prefix(t) PROVE TypeOK'
  <2>1. stdout' \in Seq(Line) /\ stderr' \in Seq(Line)
    BY <1>3, PrefixWrites
  <2>2. pc' = [pc EXCEPT ![t] = "message"] /\ UNCHANGED <<log_mutex, kind, calls, ended>>
    BY <1>3 DEF Prefix
  <2>3. QED
    BY <2>1, <2>2
<1>4. ASSUME NEW t \in Thread, WriteMessage(t) PROVE TypeOK'
  <2>1. stdout' \in Seq(Line) /\ stderr' = stderr
    BY <1>4, MessageWrites
  <2>2. pc' = [pc EXCEPT ![t] = "unlock"] /\ UNCHANGED <<log_mutex, kind, calls, ended>>
    BY <1>4 DEF WriteMessage
  <2>3. QED
    BY <2>1, <2>2
<1>5. ASSUME NEW t \in Thread, Unlock(t) PROVE TypeOK'
  BY <1>5 DEF Unlock, AfterUnlock
<1>6. ASSUME NEW t \in Thread, Exit(t) PROVE TypeOK'
  BY <1>6 DEF Exit
<1>7. CASE UNCHANGED vars
  BY <1>7 DEF vars
<1>8. QED
  BY <1>1, <1>2, <1>3, <1>4, <1>5, <1>6, <1>7 DEF Next, Run, Terminated

LEMMA ExclusiveStep == TypeOK /\ Exclusive /\ [Next]_vars => Exclusive'
<1> SUFFICES ASSUME TypeOK, Exclusive, [Next]_vars PROVE Exclusive'
  OBVIOUS
<1> DEFINE Places == {"idle", "lock", "prefix", "message", "unlock", "exit"}
<1>0. pc \in [Thread -> Places] /\ Nobody \notin Thread
  BY LogAssumption DEF TypeOK
<1> USE <1>0 DEF Exclusive, Goto
<1>1. ASSUME NEW t \in Thread, NEW k \in Kind, Call(t, k) PROVE Exclusive'
  BY <1>1 DEF Call
<1>2. ASSUME NEW t \in Thread, Lock(t) PROVE Exclusive'
  <2>1. log_mutex = Nobody /\ log_mutex' = t /\ pc' = [pc EXCEPT ![t] = "prefix"]
    BY <1>2 DEF Lock, MayLock
  <2>2. QED
    BY <2>1
<1>3. ASSUME NEW t \in Thread, Prefix(t) PROVE Exclusive'
  <2>1. pc[t] = "prefix" /\ log_mutex' = log_mutex /\ pc' = [pc EXCEPT ![t] = "message"]
    BY <1>3 DEF Prefix
  <2>2. QED
    BY <2>1
<1>4. ASSUME NEW t \in Thread, WriteMessage(t) PROVE Exclusive'
  <2>1. pc[t] = "message" /\ log_mutex' = log_mutex /\ pc' = [pc EXCEPT ![t] = "unlock"]
    BY <1>4 DEF WriteMessage
  <2>2. QED
    BY <2>1
<1>5. ASSUME NEW t \in Thread, Unlock(t) PROVE Exclusive'
  <2>1. /\ pc[t] = "unlock" /\ log_mutex' = Nobody
        /\ pc' = [pc EXCEPT ![t] = IF kind[t] = "log_fatal" THEN "exit" ELSE "idle"]
    BY <1>5 DEF Unlock, AfterUnlock
  <2>2. QED
    BY <2>1
<1>6. ASSUME NEW t \in Thread, Exit(t) PROVE Exclusive'
  BY <1>6 DEF Exit
<1>7. CASE UNCHANGED vars
  BY <1>7 DEF vars
<1>8. QED
  BY <1>1, <1>2, <1>3, <1>4, <1>5, <1>6, <1>7 DEF Next, Run, Terminated

-----------------------------------------------------------------------------

\* While the thread that holds the mutex is not at its message, the last line on
\* stdout is no prefix.
LEMMA NoneOpen ==
  ASSUME TypeOK, LinesWhole, NEW t \in Thread, log_mutex = t, pc[t] # "message"
  PROVE  \A i \in 1 .. Len(stdout) : stdout[i].part = "prefix" => i < Len(stdout)
<1>1. SUFFICES ASSUME NEW i \in 1 .. Len(stdout), stdout[i].part = "prefix",
                      ~(i < Len(stdout))
               PROVE  FALSE
  OBVIOUS
<1>2. log_mutex = stdout[i].by /\ pc[stdout[i].by] = "message"
  BY <1>1 DEF LinesWhole
<1>3. QED
  BY <1>2

\* Nor is it when nobody holds it.
LEMMA NoneOpenFree ==
  ASSUME TypeOK, LinesWhole, log_mutex = Nobody
  PROVE  \A i \in 1 .. Len(stdout) : stdout[i].part = "prefix" => i < Len(stdout)
<1>1. SUFFICES ASSUME NEW i \in 1 .. Len(stdout), stdout[i].part = "prefix",
                      ~(i < Len(stdout))
               PROVE  FALSE
  OBVIOUS
<1>2. log_mutex = stdout[i].by
  BY <1>1 DEF LinesWhole
<1>3. stdout[i] \in Line
  BY <1>1 DEF TypeOK
<1>4. QED
  BY <1>2, <1>3, LogAssumption DEF Line

\* Steps that leave stdout alone, between lines.
LEMMA LinesStay ==
  ASSUME LinesWhole, stdout' = stdout, stdout \in Seq(Line),
         \A i \in 1 .. Len(stdout) : stdout[i].part = "prefix" => i < Len(stdout)
  PROVE  LinesWhole' /\ PrefixesPlain'
<1>1. Len(stdout) \in Nat
  OBVIOUS
<1>2. QED
  BY <1>1 DEF LinesWhole, PrefixesPlain

LEMMA LinesStep == IInv /\ [Next]_vars => LinesWhole' /\ PrefixesPlain'
<1> SUFFICES ASSUME IInv, [Next]_vars PROVE LinesWhole' /\ PrefixesPlain'
  OBVIOUS
<1>0. /\ TypeOK /\ Exclusive /\ LinesWhole /\ PrefixesPlain
      /\ stdout \in Seq(Line) /\ Len(stdout) \in Nat
  BY DEF IInv, TypeOK
<1>1. ASSUME NEW t \in Thread, NEW k \in Kind, Call(t, k)
      PROVE  LinesWhole' /\ PrefixesPlain'
  <2>1. /\ pc[t] = "idle" /\ pc' = [pc EXCEPT ![t] = "lock"] /\ log_mutex' = log_mutex
        /\ kind' = [kind EXCEPT ![t] = k] /\ stdout' = stdout
    BY <1>1 DEF Call, Goto
  <2>2. ASSUME NEW i \in 1 .. Len(stdout) PROVE stdout[i].by \in Thread
    <3>1. stdout[i] \in Line
      BY <1>0
    <3>2. QED
      BY <3>1 DEF Line
  <2>3. \A u \in Thread : pc[u] = "message" => u # t /\ pc'[u] = "message" /\ kind'[u] = kind[u]
    BY <1>0, <2>1 DEF TypeOK
  <2>4. LinesWhole'
    BY <1>0, <2>1, <2>2, <2>3 DEF LinesWhole
  <2>5. PrefixesPlain'
    <3>1. SUFFICES ASSUME NEW i \in 1 .. Len(stdout), stdout[i].part = "prefix",
                          i = Len(stdout)
                   PROVE  kind'[stdout[i].by] = "log"
      BY <2>1 DEF PrefixesPlain
    <3>2. pc[stdout[i].by] = "message"
      BY <1>0, <3>1 DEF LinesWhole
    <3>3. kind[stdout[i].by] = "log"
      BY <1>0, <3>1 DEF PrefixesPlain
    <3>4. QED
      BY <2>2, <2>3, <3>1, <3>2, <3>3
  <2>6. QED
    BY <2>4, <2>5
<1>2. ASSUME NEW t \in Thread, Lock(t) PROVE LinesWhole' /\ PrefixesPlain'
  <2>1. log_mutex = Nobody /\ stdout' = stdout
    BY <1>2 DEF Lock, MayLock
  <2>2. QED
    BY <1>0, <2>1, NoneOpenFree, LinesStay
<1>3. ASSUME NEW t \in Thread, Prefix(t) PROVE LinesWhole' /\ PrefixesPlain'
  <2>1. log_mutex = t /\ pc[t] = "prefix"
    BY <1>0, <1>3 DEF Prefix, Exclusive
  <2>2. \A i \in 1 .. Len(stdout) : stdout[i].part = "prefix" => i < Len(stdout)
    BY <1>0, <2>1, NoneOpen
  <2>3. CASE kind[t] = "log" /\ stdout' = Append(stdout, Written("prefix", t))
    <3>1. /\ Len(stdout') = Len(stdout) + 1
          /\ \A i \in 1 .. Len(stdout) : stdout'[i] = stdout[i]
          /\ stdout'[Len(stdout) + 1] = Written("prefix", t)
      BY <1>0, <2>3, WrittenIsLine, AppendProperties
    <3>2. pc'[t] = "message" /\ kind' = kind /\ log_mutex' = t
      BY <1>0, <1>3, <2>1 DEF Prefix, Goto, TypeOK
    <3>3. Written("prefix", t).by = t
      BY DEF Written
    <3>4. ASSUME NEW i \in 1 .. Len(stdout'), stdout'[i].part = "prefix"
          PROVE  /\ i < Len(stdout') =>
                      /\ stdout'[i + 1].part = "message"
                      /\ stdout'[i + 1].by = stdout'[i].by /\ stdout'[i + 1].kind = "log"
                 /\ ~(i < Len(stdout')) => stdout'[i].by = t
      <4>1. CASE i \in 1 .. Len(stdout)
        <5>1. i < Len(stdout) /\ i + 1 \in 1 .. Len(stdout)
          BY <1>0, <2>2, <3>1, <3>4, <4>1
        <5>2. QED
          BY <1>0, <3>1, <3>4, <4>1, <5>1 DEF LinesWhole
      <4>2. CASE i = Len(stdout) + 1
        BY <1>0, <3>1, <3>3, <4>2
      <4>3. QED
        BY <1>0, <3>1, <3>4, <4>1, <4>2
    <3>5. LinesWhole'
      BY <3>2, <3>4 DEF LinesWhole
    <3>6. PrefixesPlain'
      BY <1>0, <2>3, <3>1, <3>2, <3>4 DEF PrefixesPlain
    <3>7. QED
      BY <3>5, <3>6
  <2>4. CASE stdout' = stdout
    BY <1>0, <2>2, <2>4, LinesStay
  <2>5. QED
    BY <1>0, <1>3, <2>3, <2>4, PrefixWrites
<1>4. ASSUME NEW t \in Thread, WriteMessage(t) PROVE LinesWhole' /\ PrefixesPlain'
  <2>1. log_mutex = t
    BY <1>0, <1>4 DEF WriteMessage, Exclusive
  <2>2. /\ Len(stdout') = Len(stdout) + 1
        /\ \A i \in 1 .. Len(stdout) : stdout'[i] = stdout[i]
        /\ stdout'[Len(stdout) + 1] = Written("message", t)
    BY <1>0, <1>4, MessageWrites, WrittenIsLine, AppendProperties
  <2>3. /\ Written("message", t).part = "message" /\ Written("message", t).by = t
        /\ Written("message", t).kind = kind[t]
    BY DEF Written
  <2>4. ASSUME NEW i \in 1 .. Len(stdout'), stdout'[i].part = "prefix"
        PROVE  /\ i < Len(stdout')
               /\ stdout'[i + 1].part = "message"
               /\ stdout'[i + 1].by = stdout'[i].by /\ stdout'[i + 1].kind = "log"
    <3>1. i \in 1 .. Len(stdout) /\ stdout[i].part = "prefix"
      BY <1>0, <2>2, <2>3, <2>4
    <3>2. CASE i < Len(stdout)
      <4>1. i + 1 \in 1 .. Len(stdout)
        BY <1>0, <3>1, <3>2
      <4>2. QED
        BY <1>0, <2>2, <3>1, <3>2, <4>1 DEF LinesWhole
    \* An open prefix is the one of this call.
    <3>3. CASE i = Len(stdout)
      <4>1. stdout[i].by = t /\ kind[t] = "log"
        BY <1>0, <2>1, <3>1, <3>3 DEF LinesWhole, PrefixesPlain
      <4>2. QED
        BY <1>0, <2>2, <2>3, <3>1, <3>3, <4>1
    <3>4. QED
      BY <1>0, <3>1, <3>2, <3>3
  <2>5. LinesWhole'
    BY <2>4 DEF LinesWhole
  <2>6. PrefixesPlain'
    BY <1>0, <2>2, <2>4 DEF PrefixesPlain
  <2>7. QED
    BY <2>5, <2>6
<1>5. ASSUME NEW t \in Thread, Unlock(t) PROVE LinesWhole' /\ PrefixesPlain'
  <2>1. log_mutex = t /\ pc[t] # "message" /\ stdout' = stdout
    BY <1>0, <1>5 DEF Unlock, Exclusive
  <2>2. QED
    BY <1>0, <2>1, NoneOpen, LinesStay
<1>6. ASSUME NEW t \in Thread, Exit(t) PROVE LinesWhole' /\ PrefixesPlain'
  BY <1>0, <1>6 DEF Exit, LinesWhole, PrefixesPlain
<1>7. CASE UNCHANGED vars
  BY <1>0, <1>7 DEF vars, LinesWhole, PrefixesPlain
<1>8. QED
  BY <1>1, <1>2, <1>3, <1>4, <1>5, <1>6, <1>7 DEF Next, Run, Terminated

-----------------------------------------------------------------------------

\* What is on stdout stays there.
LEMMA StdoutGrows ==
  ASSUME TypeOK, [Next]_vars
  PROVE  /\ Len(stdout') \in Nat /\ Len(stdout) <= Len(stdout')
         /\ \A i \in 1 .. Len(stdout) : stdout'[i] = stdout[i]
<1>1. stdout \in Seq(Line) /\ Len(stdout) \in Nat
  BY DEF TypeOK
<1>2. CASE stdout' = stdout
  BY <1>1, <1>2
<1>3. ASSUME NEW line \in Line, stdout' = Append(stdout, line)
      PROVE  /\ Len(stdout') = Len(stdout) + 1
             /\ \A i \in 1 .. Len(stdout) : stdout'[i] = stdout[i]
  BY <1>1, <1>3, AppendProperties
<1>4. ASSUME NEW t \in Thread, Prefix(t)
      PROVE  stdout' = stdout \/ \E line \in Line : stdout' = Append(stdout, line)
  BY <1>4, PrefixWrites, WrittenIsLine
<1>5. ASSUME NEW t \in Thread, WriteMessage(t)
      PROVE  \E line \in Line : stdout' = Append(stdout, line)
  BY <1>5, MessageWrites, WrittenIsLine
<1>6. stdout' = stdout \/ \E line \in Line : stdout' = Append(stdout, line)
  BY <1>4, <1>5 DEF Next, Run, Terminated, Call, Lock, Unlock, Exit, vars
<1>7. QED
  BY <1>1, <1>2, <1>3, <1>6

LEMMA ToldStep == IInv /\ [Next]_vars => FatalTold' /\ ReasonTold'
<1> SUFFICES ASSUME IInv, [Next]_vars PROVE FatalTold' /\ ReasonTold'
  OBVIOUS
<1>0. TypeOK /\ FatalTold /\ (ended => Told)
  BY DEF IInv, ReasonTold, Told
<1>t. Told => Told'
  <2>1. SUFFICES ASSUME NEW i \in 1 .. Len(stdout),
                        stdout[i].part = "message" /\ stdout[i].kind = "log_fatal"
                 PROVE  Told'
    BY DEF Told
  <2>2. i \in 1 .. Len(stdout') /\ stdout'[i] = stdout[i]
    BY <1>0, StdoutGrows DEF TypeOK
  <2>3. QED
    BY <2>1, <2>2 DEF Told
<1>u. (ended' => Told') => ReasonTold'
  BY DEF ReasonTold, Told
<1> DEFINE Places == {"idle", "lock", "prefix", "message", "unlock", "exit"}
<1>p. pc \in [Thread -> Places] /\ kind \in [Thread -> Kind]
  BY <1>0 DEF TypeOK
<1> USE <1>0, <1>t, <1>u, <1>p DEF FatalTold, Goto
<1>1. ASSUME NEW t \in Thread, NEW k \in Kind, Call(t, k) PROVE FatalTold' /\ ReasonTold'
  BY <1>1 DEF Call
<1>2. ASSUME NEW t \in Thread, Lock(t) PROVE FatalTold' /\ ReasonTold'
  BY <1>2 DEF Lock
<1>3. ASSUME NEW t \in Thread, Prefix(t) PROVE FatalTold' /\ ReasonTold'
  <2>1. UNCHANGED <<kind, ended>> /\ pc' = [pc EXCEPT ![t] = "message"] /\ ~ended
    BY <1>3 DEF Prefix
  <2>2. QED
    BY <2>1
<1>4. ASSUME NEW t \in Thread, WriteMessage(t) PROVE FatalTold' /\ ReasonTold'
  <2>1. kind[t] = "log_fatal" => Told'
    <3>1. Len(stdout') = Len(stdout) + 1 /\ stdout'[Len(stdout) + 1] = Written("message", t)
          /\ Len(stdout) \in Nat
      BY <1>0, <1>4, MessageWrites, WrittenIsLine, AppendProperties DEF TypeOK
    <3>2. Len(stdout) + 1 \in 1 .. Len(stdout')
      BY <3>1
    <3>3. QED
      BY <3>1, <3>2 DEF Told, Written
  <2>2. UNCHANGED <<kind, ended>> /\ pc' = [pc EXCEPT ![t] = "unlock"] /\ ~ended
    BY <1>4 DEF WriteMessage
  <2>3. QED
    BY <2>1, <2>2
<1>5. ASSUME NEW t \in Thread, Unlock(t) PROVE FatalTold' /\ ReasonTold'
  BY <1>5 DEF Unlock
<1>6. ASSUME NEW t \in Thread, Exit(t) PROVE FatalTold' /\ ReasonTold'
  BY <1>6 DEF Exit
<1>7. CASE UNCHANGED vars
  BY <1>7 DEF vars
<1>8. QED
  BY <1>1, <1>2, <1>3, <1>4, <1>5, <1>6, <1>7 DEF Next, Run, Terminated

-----------------------------------------------------------------------------

\* The line a call writes to stdout is counted if its prefix is on stderr.
LEMMA StdoutCounts ==
  ASSUME TypeOK, NEW line \in Line, stdout' = Append(stdout, line)
  PROVE  /\ Len(stdout') = Len(stdout) + 1
         /\ MarkedIn(stdout', Len(stdout')) =
              IF Marked(line) THEN MarkedIn(stdout, Len(stdout)) + 1
                              ELSE MarkedIn(stdout, Len(stdout))
         /\ \A i \in 1 .. Len(stdout) :
              stdout'[i] = stdout[i] /\ MarkedIn(stdout', i) = MarkedIn(stdout, i)
         /\ stdout'[Len(stdout')] = line
<1>1. PICK n \in Nat : n = Len(stdout)
  BY DEF TypeOK
<1>2. /\ Len(stdout') = n + 1 /\ stdout'[n + 1] = line
      /\ \A i \in 1 .. n : stdout'[i] = stdout[i]
  BY <1>1, AppendProperties DEF TypeOK
<1>3. ASSUME NEW i \in 0 .. n PROVE MarkedIn(stdout', i) = MarkedIn(stdout, i)
  <2>1. i \in Nat /\ \A j \in 1 .. i : stdout'[j] = stdout[j]
    BY <1>2
  <2>2. QED
    BY <2>1, CountSame
<1>4. MarkedIn(stdout', n + 1) =
        IF Marked(line) THEN MarkedIn(stdout', n) + 1 ELSE MarkedIn(stdout', n)
  BY <1>2, CountNext
<1>5. QED
  BY <1>1, <1>2, <1>3, <1>4

\* Steps between which no call comes to its message or leaves it.
LEMMA StreamsStay ==
  ASSUME Ahead, StreamsAgree, stdout' = stdout, stderr' = stderr,
         \A t \in Thread : pc'[t] = "message" <=> pc[t] = "message",
         \A t \in Thread : pc[t] = "message" => kind'[t] = kind[t]
  PROVE  Ahead' /\ StreamsAgree'
  BY DEF Ahead, StreamsAgree

LEMMA StreamsStep == IInv /\ [Next]_vars => Ahead' /\ StreamsAgree'
<1> SUFFICES ASSUME IInv, [Next]_vars PROVE Ahead' /\ StreamsAgree'
  OBVIOUS
<1>0. /\ TypeOK /\ Exclusive /\ Ahead /\ StreamsAgree
      /\ stdout \in Seq(Line) /\ stderr \in Seq(Line)
  BY DEF IInv, TypeOK
<1> DEFINE Places == {"idle", "lock", "prefix", "message", "unlock", "exit"}
<1>p. pc \in [Thread -> Places] /\ kind \in [Thread -> Kind]
  BY <1>0 DEF TypeOK
<1>m. PICK m \in Nat : m = Len(stdout)
  BY <1>0
<1>n. PICK n \in Nat : n = MarkedIn(stdout, m)
  BY <1>m, MarkedFinite
<1>a. \A i \in 1 .. m : Marked(stdout[i]) =>
        /\ MarkedIn(stdout, i) \in 1 .. n
        /\ stderr[MarkedIn(stdout, i)].by = stdout[i].by
        /\ stderr[MarkedIn(stdout, i)].kind = stdout[i].kind
  <2>1. ASSUME NEW i \in 1 .. m, Marked(stdout[i]) PROVE MarkedIn(stdout, i) \in 1 .. n
    BY <1>n, <2>1, CountPlace
  <2>2. QED
    BY <1>0, <1>m, <2>1 DEF StreamsAgree
<1>b. /\ \A t \in Thread : pc[t] = "message" /\ kind[t] # "log" =>
             /\ Len(stderr) = n + 1
             /\ stderr[n + 1].by = t /\ stderr[n + 1].kind = kind[t]
      /\ (\A t \in Thread : pc[t] = "message" => kind[t] = "log") => Len(stderr) = n
  BY <1>0, <1>m, <1>n DEF Ahead
<1>1. ASSUME NEW t \in Thread, NEW k \in Kind, Call(t, k)
      PROVE  Ahead' /\ StreamsAgree'
  <2>1. /\ pc[t] = "idle" /\ pc' = [pc EXCEPT ![t] = "lock"]
        /\ kind' = [kind EXCEPT ![t] = k] /\ stdout' = stdout /\ stderr' = stderr
    BY <1>1 DEF Call, Goto
  <2>2. /\ \A u \in Thread : pc'[u] = "message" <=> pc[u] = "message"
        /\ \A u \in Thread : pc[u] = "message" => kind'[u] = kind[u]
    BY <1>p, <2>1
  <2>3. QED
    BY <1>0, <2>1, <2>2, StreamsStay
<1>2. ASSUME NEW t \in Thread, Lock(t) PROVE Ahead' /\ StreamsAgree'
  <2>1. /\ pc[t] = "lock" /\ pc' = [pc EXCEPT ![t] = "prefix"]
        /\ kind' = kind /\ stdout' = stdout /\ stderr' = stderr
    BY <1>2 DEF Lock, Goto
  <2>2. /\ \A u \in Thread : pc'[u] = "message" <=> pc[u] = "message"
        /\ \A u \in Thread : pc[u] = "message" => kind'[u] = kind[u]
    BY <1>p, <2>1
  <2>3. QED
    BY <1>0, <2>1, <2>2, StreamsStay
<1>3. ASSUME NEW t \in Thread, Prefix(t) PROVE Ahead' /\ StreamsAgree'
  <2>1. /\ pc[t] = "prefix" /\ pc' = [pc EXCEPT ![t] = "message"] /\ kind' = kind
    BY <1>3 DEF Prefix, Goto
  \* No other call is at its message, so the streams were level.
  <2>2. \A u \in Thread : pc[u] # "message"
    BY <1>0, <2>1 DEF Exclusive
  <2>3. Len(stderr) = n
    BY <1>b, <2>2
  <2>4. pc'[t] = "message" /\ \A u \in Thread : pc'[u] = "message" => u = t
    BY <1>p, <2>1, <2>2
  <2>5. Written("prefix", t) \in Line /\ ~Marked(Written("prefix", t))
        /\ Written("prefix", t).by = t /\ Written("prefix", t).kind = kind[t]
    BY <1>0, WrittenIsLine DEF Marked, Written
  <2>6. CASE /\ kind[t] = "log" /\ stderr' = stderr
             /\ stdout' = Append(stdout, Written("prefix", t))
    <3>1. /\ Len(stdout') = m + 1 /\ MarkedIn(stdout', m + 1) = n
          /\ \A i \in 1 .. m :
               stdout'[i] = stdout[i] /\ MarkedIn(stdout', i) = MarkedIn(stdout, i)
          /\ ~Marked(stdout'[m + 1])
      BY <1>0, <1>m, <1>n, <2>5, <2>6, StdoutCounts
    <3>2. Ahead'
      BY <2>1, <2>3, <2>4, <2>6, <3>1 DEF Ahead
    <3>3. \A i \in 1 .. m + 1 : i = m + 1 \/ i \in 1 .. m
      OBVIOUS
    <3>4. StreamsAgree'
      BY <1>a, <2>3, <2>6, <3>1, <3>3 DEF StreamsAgree
    <3>5. QED
      BY <3>2, <3>4
  <2>7. CASE /\ kind[t] # "log" /\ stdout' = stdout
             /\ stderr' = Append(stderr, Written("prefix", t))
    <3>1. /\ Len(stderr') = n + 1 /\ stderr'[n + 1] = Written("prefix", t)
          /\ \A i \in 1 .. n : stderr'[i] = stderr[i]
      BY <1>0, <2>3, <2>5, <2>7, AppendProperties
    <3>2. Ahead'
      BY <1>m, <1>n, <2>1, <2>4, <2>5, <2>7, <3>1 DEF Ahead
    <3>3. StreamsAgree'
      BY <1>a, <1>m, <1>n, <2>7, <3>1 DEF StreamsAgree
    <3>4. QED
      BY <3>2, <3>3
  <2>8. QED
    BY <1>0, <1>3, <2>6, <2>7, PrefixWrites
<1>4. ASSUME NEW t \in Thread, WriteMessage(t) PROVE Ahead' /\ StreamsAgree'
  <2>1. /\ pc[t] = "message" /\ pc' = [pc EXCEPT ![t] = "unlock"] /\ kind' = kind
    BY <1>4 DEF WriteMessage, Goto
  <2>2. \A u \in Thread : pc[u] = "message" => u = t
    BY <1>0, <2>1 DEF Exclusive
  <2>3. \A u \in Thread : pc'[u] # "message"
    BY <1>p, <2>1, <2>2
  <2>4. Written("message", t) \in Line
        /\ (Marked(Written("message", t)) <=> kind[t] # "log")
        /\ Written("message", t).by = t /\ Written("message", t).kind = kind[t]
    BY <1>0, WrittenIsLine DEF Marked, Written
  <2>5. /\ stdout' = Append(stdout, Written("message", t)) /\ stderr' = stderr
    BY <1>0, <1>4, MessageWrites
  <2>6. /\ Len(stdout') = m + 1
        /\ MarkedIn(stdout', m + 1) = IF kind[t] # "log" THEN n + 1 ELSE n
        /\ \A i \in 1 .. m :
             stdout'[i] = stdout[i] /\ MarkedIn(stdout', i) = MarkedIn(stdout, i)
        /\ stdout'[m + 1] = Written("message", t)
    BY <1>0, <1>m, <1>n, <2>4, <2>5, StdoutCounts
  \* Its prefix was the one stderr was ahead by.
  <2>7. Len(stderr) = IF kind[t] # "log" THEN n + 1 ELSE n
    BY <1>b, <2>1, <2>2
  <2>8. Ahead'
    BY <2>3, <2>5, <2>6, <2>7 DEF Ahead
  <2>9. ASSUME NEW i \in 1 .. m + 1, Marked(stdout'[i])
        PROVE  /\ stderr[MarkedIn(stdout', i)].by = stdout'[i].by
               /\ stderr[MarkedIn(stdout', i)].kind = stdout'[i].kind
    <3>1. CASE i \in 1 .. m
      BY <1>a, <2>6, <2>9, <3>1
    <3>2. CASE i = m + 1
      <4>1. kind[t] # "log" /\ MarkedIn(stdout', i) = n + 1
        BY <2>4, <2>6, <2>9, <3>2
      <4>2. stderr[n + 1].by = t /\ stderr[n + 1].kind = kind[t]
        BY <1>b, <2>1, <4>1
      <4>3. QED
        BY <2>4, <2>6, <3>2, <4>1, <4>2
    <3>3. QED
      BY <3>1, <3>2
  <2>10. StreamsAgree'
    BY <2>5, <2>6, <2>7, <2>9 DEF StreamsAgree
  <2>11. QED
    BY <2>8, <2>10
<1>5. ASSUME NEW t \in Thread, Unlock(t) PROVE Ahead' /\ StreamsAgree'
  <2>1. /\ pc[t] = "unlock" /\ kind' = kind /\ stdout' = stdout /\ stderr' = stderr
        /\ pc' = [pc EXCEPT ![t] = IF kind[t] = "log_fatal" THEN "exit" ELSE "idle"]
    BY <1>5 DEF Unlock, Goto
  <2>2. \A u \in Thread : pc'[u] = "message" <=> pc[u] = "message"
    BY <1>p, <2>1
  <2>3. QED
    BY <1>0, <2>1, <2>2, StreamsStay
<1>6. ASSUME NEW t \in Thread, Exit(t) PROVE Ahead' /\ StreamsAgree'
  BY <1>0, <1>6, StreamsStay DEF Exit
<1>7. CASE UNCHANGED vars
  BY <1>0, <1>7, StreamsStay DEF vars
<1>8. QED
  BY <1>1, <1>2, <1>3, <1>4, <1>5, <1>6, <1>7 DEF Next, Run, Terminated

-----------------------------------------------------------------------------

\* The inductive invariant holds in every reachable state.
THEOREM Invariance == Spec => []IInv
<1>1. IInv /\ [Next]_vars => IInv'
  BY TypeStep, ExclusiveStep, LinesStep, ToldStep, StreamsStep DEF IInv
<1>2. QED
  BY InitIInv, <1>1, PTL DEF Spec

\* Every variable keeps its type, whatever the threads log.
THEOREM TypeCorrect == Spec => []TypeOK
<1>1. IInv => TypeOK
  BY DEF IInv
<1>2. QED
  BY <1>1, Invariance, PTL

\* A line of log is never cut in two by another thread's.
THEOREM LinesAreWhole == Spec => []LinesWhole
<1>1. IInv => LinesWhole
  BY DEF IInv
<1>2. QED
  BY <1>1, Invariance, PTL

\* The n-th prefix on stderr is the one of the n-th message on stdout that has none
\* there, whatever the threads log and in whatever order they take the mutex.
THEOREM StreamsPaired == Spec => []StreamsAgree
<1>1. IInv => StreamsAgree
  BY DEF IInv
<1>2. QED
  BY <1>1, Invariance, PTL

\* The process does not end before its reason is on stdout.
THEOREM ReasonIsTold == Spec => []ReasonTold
<1>1. IInv => ReasonTold
  BY DEF IInv
<1>2. QED
  BY <1>1, Invariance, PTL

-----------------------------------------------------------------------------
(* Calls end. *)

\* The steps left of a call, waiting for the mutex not counted.
StepsLeft(t) ==
  CASE pc[t] = "lock"    -> 5
    [] pc[t] = "prefix"  -> 4
    [] pc[t] = "message" -> 3
    [] pc[t] = "unlock"  -> 2
    [] pc[t] = "exit"    -> 1
    [] OTHER             -> 0

\* A step of t brings the end of its call nearer, or ends the process; the step of
\* another thread does not put it off; and if t waits it is for a call that is writing,
\* which waits for nobody.
Advances(t) ==
  /\ Run(t) => StepsLeft(t)' < StepsLeft(t) \/ ended'
  /\ pc[t] # "idle" /\ ~Run(t) => StepsLeft(t)' = StepsLeft(t)
  /\ pc[t] = "lock" /\ ~MayLock(t) =>
       \E u \in Thread : log_mutex = u /\ pc[u] \in {"prefix", "message", "unlock"}

\* Every call of the log returns after five steps, or ends the process, besides
\* waiting, and a wait is for a single call that is running (log, log_err, log_fatal,
\* log_warn).
THEOREM CallsAdvance == Spec => [][\A t \in Thread : Advances(t)]_vars
<1>1. IInv /\ [Next]_vars => [\A t \in Thread : Advances(t)]_vars
  <2> SUFFICES ASSUME IInv, Next, vars' # vars, NEW t \in Thread PROVE Advances(t)
    OBVIOUS
  <2>1. /\ pc \in [Thread -> {"idle", "lock", "prefix", "message", "unlock", "exit"}]
        /\ log_mutex \in Thread \cup {Nobody}
    BY DEF IInv, TypeOK
  <2>2. ASSUME Run(t) PROVE StepsLeft(t)' < StepsLeft(t) \/ ended'
    <3>1. CASE Exit(t)
      BY <3>1 DEF Exit
    <3>2. CASE ~Exit(t)
      <4>1. \/ pc[t] = "lock" /\ pc'[t] = "prefix"
            \/ pc[t] = "prefix" /\ pc'[t] = "message"
            \/ pc[t] = "message" /\ pc'[t] = "unlock"
            \/ pc[t] = "unlock" /\ pc'[t] \in {"exit", "idle"}
        BY <2>1, <2>2, <3>2 DEF Run, Lock, Prefix, WriteMessage, Unlock, Goto
      <4>2. QED
        BY <4>1 DEF StepsLeft
    <3>3. QED
      BY <3>1, <3>2
  <2>3. ASSUME pc[t] # "idle", ~Run(t) PROVE StepsLeft(t)' = StepsLeft(t)
    <3>1. PICK u \in Thread : Run(u) \/ \E k \in Kind : Call(u, k)
      BY DEF Next, Terminated
    <3>2. pc' = pc \/ \E p : pc' = [pc EXCEPT ![u] = p]
      BY <3>1 DEF Run, Call, Lock, Prefix, WriteMessage, Unlock, Exit, Goto
    <3>3. u # t
      BY <2>3, <3>1 DEF Call
    <3>4. pc'[t] = pc[t]
      BY <2>1, <3>2, <3>3
    <3>5. QED
      BY <3>4 DEF StepsLeft
  <2>4. ASSUME ~MayLock(t)
        PROVE  \E u \in Thread : log_mutex = u /\ pc[u] \in {"prefix", "message", "unlock"}
    BY <2>1, <2>4 DEF MayLock, IInv, Exclusive
  <2>5. QED
    BY <2>2, <2>3, <2>4 DEF Advances
<1>2. QED
  BY Invariance, <1>1, PTL DEF Spec

================================================================================
