-------------------------------- MODULE Exchange --------------------------------
(***************************************************************************)
(* What the server promises its clients, whatever its threads do inside:   *)
(* on each connection one request at a time is open, it gets at most one   *)
(* page, and that page is one of those due to it.  A request may also end  *)
(* without a page, with its connection.  Server implements this.           *)
(***************************************************************************)
CONSTANTS Connection, Request, Page, NoPage

VARIABLES
  status,  \* "up", "down" or "dead": of the daemon
  due,     \* [Request -> SUBSET Page]: the pages that may answer a request
  phase,   \* of each connection: "ready", "pending", "replied" or "closed"
  asked,   \* the open request
  page     \* the page that answers it, or NoPage

vars == <<status, due, phase, asked, page>>

Init ==
  /\ status = "up" /\ due \in [Request -> SUBSET Page]
  /\ phase = [c \in Connection |-> "ready"]
  /\ asked \in [Connection -> Request]
  /\ page = [c \in Connection |-> NoPage]

Ask(c) ==
  /\ status = "up" /\ phase[c] = "ready" /\ phase' = [phase EXCEPT ![c] = "pending"]
  /\ \E r \in Request : asked' = [asked EXCEPT ![c] = r]
  /\ UNCHANGED <<status, due, page>>

Reply(c) ==
  /\ status = "up" /\ phase[c] = "pending" /\ phase' = [phase EXCEPT ![c] = "replied"]
  /\ \E p \in due[asked[c]] : page' = [page EXCEPT ![c] = p]
  /\ UNCHANGED <<status, due, asked>>

\* The request is over, with its page or without; its connection may stay.
Finish(c) ==
  /\ status = "up" /\ phase[c] # "closed"
  /\ \E p \in {"ready", "closed"} :
       /\ p = "ready" => phase[c] = "replied"
       /\ phase' = [phase EXCEPT ![c] = p]
  /\ page' = [page EXCEPT ![c] = NoPage]
  /\ \E r \in Request : asked' = [asked EXCEPT ![c] = r]
  /\ UNCHANGED <<status, due>>

\* The daemon goes down when nothing is open; the process may die at any time.
Stop ==
  /\ status = "up"
  /\ \/ status' = "down" /\ \A c \in Connection : phase[c] \in {"ready", "closed"}
     \/ status' = "dead"
  /\ UNCHANGED <<due, phase, asked, page>>

Next == (\E c \in Connection : Ask(c) \/ Reply(c) \/ Finish(c)) \/ Stop

Spec == Init /\ [][Next]_vars

================================================================================
