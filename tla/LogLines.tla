-------------------------------- MODULE LogLines --------------------------------
(***************************************************************************)
(* log, log_err, log_fatal and log_warn of util_piaabo.h: each writes a    *)
(* prefix with the id of its thread and then the message, both under       *)
(* log_mutex.  log writes both to stdout; the others write the prefix to   *)
(* stderr and the message to stdout.  log_fatal, in which a failed ASSERT  *)
(* ends, gives the mutex back and then ends the process.                   *)
(*                                                                         *)
(* A definition marked "Fault:" is a wrong version of the one below it.    *)
(***************************************************************************)
EXTENDS Integers, Sequences, FiniteSets

CONSTANTS Thread, Nobody, CallBound

ASSUME LogAssumption == Nobody \notin Thread /\ CallBound \in Nat

VARIABLES
  log_mutex,       \* who holds it, or Nobody
  pc, kind,        \* of each thread: its place in a call, and which call
  calls,
  stdout, stderr,  \* what was written: [part, kind, by]
  ended            \* exit was called

vars == <<log_mutex, pc, kind, calls, stdout, stderr, ended>>

Kind == {"log", "log_err", "log_fatal", "log_warn"}

\* Fault: the id of the thread is left out.
Written_Anonymous(part, t) == [part |-> part, kind |-> kind[t], by |-> Nobody]

Written(part, t) == [part |-> part, kind |-> kind[t], by |-> t]

Goto(t, p) == pc' = [pc EXCEPT ![t] = p]

Init ==
  /\ log_mutex = Nobody
  /\ pc = [t \in Thread |-> "idle"] /\ kind = [t \in Thread |-> "log"]
  /\ calls = [t \in Thread |-> 0]
  /\ stdout = <<>> /\ stderr = <<>> /\ ended = FALSE

Call(t, k) ==
  /\ ~ended /\ pc[t] = "idle" /\ calls[t] < CallBound
  /\ kind' = [kind EXCEPT ![t] = k] /\ calls' = [calls EXCEPT ![t] = @ + 1]
  /\ Goto(t, "lock")
  /\ UNCHANGED <<log_mutex, stdout, stderr, ended>>

\* Fault: a warning does not wait.
MayLock_Warnings(t) == log_mutex = Nobody \/ kind[t] = "log_warn"

MayLock(t) == log_mutex = Nobody

Lock(t) ==
  /\ ~ended /\ pc[t] = "lock" /\ MayLock(t)
  /\ log_mutex' = t /\ Goto(t, "prefix")
  /\ UNCHANGED <<kind, calls, stdout, stderr, ended>>

Prefix(t) ==
  /\ ~ended /\ pc[t] = "prefix"
  /\ IF kind[t] = "log"
       THEN stdout' = Append(stdout, Written("prefix", t)) /\ UNCHANGED stderr
       ELSE stderr' = Append(stderr, Written("prefix", t)) /\ UNCHANGED stdout
  /\ Goto(t, "message")
  /\ UNCHANGED <<log_mutex, kind, calls, ended>>

\* Fault: a fatal message is left in the buffer.
Message_FatalLost(t) ==
  IF kind[t] = "log_fatal" THEN stdout ELSE Append(stdout, Written("message", t))

Message(t) == Append(stdout, Written("message", t))

WriteMessage(t) ==
  /\ ~ended /\ pc[t] = "message"
  /\ stdout' = Message(t) /\ Goto(t, "unlock")
  /\ UNCHANGED <<log_mutex, kind, calls, stderr, ended>>

\* Fault: an error returns with the mutex.
AfterUnlock_ErrorsKeep(t) == IF kind[t] = "log_err" THEN t ELSE Nobody

AfterUnlock(t) == Nobody

Unlock(t) ==
  /\ ~ended /\ pc[t] = "unlock"
  /\ log_mutex' = AfterUnlock(t)
  /\ Goto(t, IF kind[t] = "log_fatal" THEN "exit" ELSE "idle")
  /\ UNCHANGED <<kind, calls, stdout, stderr, ended>>

\* exit(1): other threads may have logged since the fatal line.
Exit(t) ==
  /\ ~ended /\ pc[t] = "exit" /\ ended' = TRUE
  /\ UNCHANGED <<log_mutex, pc, kind, calls, stdout, stderr>>

Run(t) == Lock(t) \/ Prefix(t) \/ WriteMessage(t) \/ Unlock(t) \/ Exit(t)

Terminated ==
  /\ ended \/ \A t \in Thread : pc[t] = "idle" /\ calls[t] = CallBound
  /\ UNCHANGED vars

Next ==
  \/ \E t \in Thread : Run(t) \/ \E k \in Kind : Call(t, k)
  \/ Terminated

\* Threads run.
Spec == Init /\ [][Next]_vars /\ \A t \in Thread : WF_vars(Run(t))

-----------------------------------------------------------------------------
(* Properties. *)

Line == [part : {"prefix", "message"}, kind : Kind, by : Thread]

TypeOK ==
  /\ log_mutex \in Thread \cup {Nobody}
  /\ pc \in [Thread -> {"idle", "lock", "prefix", "message", "unlock", "exit"}]
  /\ kind \in [Thread -> Kind] /\ calls \in [Thread -> 0 .. CallBound]
  /\ stdout \in Seq(Line) /\ stderr \in Seq(Line) /\ ended \in BOOLEAN

\* A line of log is never cut in two: its message follows its prefix on stdout, or
\* is about to (log, whose comment links messages to threads).
LinesWhole ==
  \A i \in 1 .. Len(stdout) :
    stdout[i].part = "prefix" =>
      IF i < Len(stdout)
        THEN /\ stdout[i + 1].part = "message"
             /\ stdout[i + 1].by = stdout[i].by /\ stdout[i + 1].kind = "log"
        ELSE log_mutex = stdout[i].by /\ pc[stdout[i].by] = "message"

Marked(line) == line.part = "message" /\ line.kind # "log"

\* How many of the first n lines have their prefix in the other stream.
MarkedIn(lines, n) == Cardinality({i \in 1 .. n : Marked(lines[i])})

\* The prefixes on stderr are those of the messages on stdout that have none
\* there, one for one and in order: the n-th tells whose the n-th message is,
\* though they are in different streams (log_err, log_fatal, log_warn).
StreamsAgree ==
  /\ Len(stderr) - MarkedIn(stdout, Len(stdout)) \in {0, 1}
  /\ \A i \in 1 .. Len(stdout) :
       Marked(stdout[i]) =>
         LET prefix == stderr[MarkedIn(stdout, i)]
         IN prefix.by = stdout[i].by /\ prefix.kind = stdout[i].kind

\* The process does not end before its reason is told (log_fatal).
ReasonTold ==
  ended => \E i \in 1 .. Len(stdout) :
             stdout[i].part = "message" /\ stdout[i].kind = "log_fatal"

\* Every call writes its line and gives the mutex back, unless the process ends.
CallsReturn == \A t \in Thread : pc[t] = "lock" ~> pc[t] = "idle" \/ ended

================================================================================
