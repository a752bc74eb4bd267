----------------------------- MODULE ServerProofs -----------------------------
(***************************************************************************)
(* Theorems about Server, for any connections and requests, either handler *)
(* and any set of calls that may fail.                                     *)
(***************************************************************************)
EXTENDS Server, TLAPS

\* Places in the handler where a request is being answered.
Answering == {"open", "render", "create", "decorate", "perform", "headers", "queue",
              "destroy"}

\* Where the request may be while its thread is in the handler.
Placed(c) ==
  /\ at[c] \in Answering => state[c] \in {"body", "complete"}
  /\ at[c] = "return" => state[c] \in {"headers", "body", "complete"}

\* The server_response_t is live from its creation to its destruction; the
\* references are the handler's, which goes with it, and MHD's, which a queued
\* response has until it is sent or its connection closes.
Counted(c) ==
  /\ response[c].live <=>
       at[c] \in {"decorate", "perform", "headers", "queue", "destroy"}
  /\ at[c] = "out" => mhd[c].refs = IF state[c] = "sending" THEN 1 ELSE 0
  /\ at[c] \in {"open", "render", "create"} => mhd[c].refs = 0
  /\ at[c] \in {"decorate", "perform"} =>
       mhd[c].refs = IF response[c].result THEN 1 ELSE 0
  /\ at[c] \in {"headers", "queue"} => mhd[c].refs = 1
  /\ at[c] = "destroy" => IF answer[c] THEN mhd[c].refs = 2 ELSE mhd[c].refs < 2
  /\ at[c] = "return" => mhd[c].refs = IF answer[c] THEN 1 ELSE 0

\* A response is the page of the route that answers, which is due to the request.
Paged(c) ==
  /\ mhd[c].page = IF mhd[c].refs = 0 THEN "none" ELSE route[c]
  /\ at[c] \in Answering \/ mhd[c].refs > 0 =>
       route[c] # "none" /\ route[c] \in Due(request[c])
  /\ at[c] = "open" => route[c] = "favicon_route"
  /\ at[c] \in {"render", "create", "decorate"} => route[c] # "favicon_route"
  /\ at[c] = "render" => route[c] # "ask_authentication"

Own(c)    == IF route[c] = "logging_route" THEN {"Link"} ELSE {}
Cookie(c) == IF route[c] = "oauth2_landing" /\ ~request[c].cookie THEN {"Set-Cookie"} ELSE {}

\* Which headers are where, on their way to the MHD_Response.
Headed(c) ==
  /\ at[c] = "decorate" =>
       response[c].headers = {} /\ mhd[c].headers = {} /\ mhd[c].refused = {}
  /\ at[c] = "perform" => response[c].headers = Own(c)
  /\ at[c] = "headers" => response[c].headers = Own(c) \cup {"Content-Type"}
  /\ at[c] \in {"perform", "headers"} /\ mhd[c].refs > 0 =>
       /\ mhd[c].refused \subseteq Cookie(c)
       /\ mhd[c].headers = Cookie(c) \ mhd[c].refused
  /\ at[c] \in {"queue", "destroy", "return", "out"} /\ mhd[c].refs > 0 =>
       mhd[c].headers = Promised(c) \ mhd[c].refused

Owned(c) == fds[c] = orphans[c] + IF mhd[c].page = "favicon_route" THEN 1 ELSE 0

Sound(c) == Placed(c) /\ Counted(c) /\ Paged(c) /\ Headed(c) /\ Owned(c)

IInv == TypeOK /\ \A c \in Connection : Sound(c)

-----------------------------------------------------------------------------
(* How one step leads from IInv to IInv: it keeps the types, it touches one *)
(* connection, and it leaves that one sound.                                *)

\* The step is one of c.
Untouched(c) ==
  /\ access' = access
  /\ \A d \in Connection \ {c} :
       /\ state'[d] = state[d] /\ request'[d] = request[d] /\ route'[d] = route[d]
       /\ at'[d] = at[d]
       /\ response'[d] = response[d] /\ mhd'[d] = mhd[d] /\ answer'[d] = answer[d]
       /\ fds'[d] = fds[d] /\ orphans'[d] = orphans[d]

LEMMA DueKept == ASSUME access' = access PROVE \A r : Due(r)' = Due(r)
  BY DEF Due

LEMMA SoundKept ==
  ASSUME NEW d, Sound(d), access' = access,
         state'[d] = state[d] /\ request'[d] = request[d] /\ route'[d] = route[d],
         at'[d] = at[d],
         response'[d] = response[d] /\ mhd'[d] = mhd[d] /\ answer'[d] = answer[d],
         fds'[d] = fds[d] /\ orphans'[d] = orphans[d]
  PROVE  Sound(d)'
<1>1. Due(request[d])' = Due(request[d])
  BY DueKept
<1>2. Placed(d)' /\ Counted(d)'
  BY DEF Sound, Placed, Counted
<1>3. Paged(d)'
  BY <1>1 DEF Sound, Paged
<1>4. Headed(d)'
  BY DEF Sound, Headed, Own, Cookie, Promised
<1>5. Owned(d)'
  BY DEF Sound, Owned
<1>6. QED
  BY <1>2, <1>3, <1>4, <1>5 DEF Sound

LEMMA StepOfOne ==
  ASSUME IInv, NEW c \in Connection, TypeOK', Untouched(c), Sound(c)'
  PROVE  IInv'
<1>1. ASSUME NEW d \in Connection \ {c} PROVE Sound(d)'
  <2>1. Sound(d)
    BY DEF IInv
  <2>2. QED
    BY <2>1, SoundKept DEF Untouched
<1>2. QED
  BY <1>1 DEF IInv

Responses == [live : BOOLEAN, result : BOOLEAN, headers : SUBSET {"Link", "Content-Type"}]

MHDResponses ==
  [refs : 0 .. 2, page : {"none"} \cup Page,
   headers : SUBSET {"Link", "Content-Type", "Set-Cookie"},
   refused : SUBSET {"Link", "Content-Type", "Set-Cookie"}]

\* What is known of c before the step.
LEMMA Known ==
  ASSUME IInv, NEW c \in Connection
  PROVE  TypeOK /\ Placed(c) /\ Counted(c) /\ Paged(c) /\ Headed(c) /\ Owned(c)
  BY DEF IInv, Sound

LEMMA KnownTypes ==
  ASSUME TypeOK
  PROVE  /\ mhd \in [Connection -> MHDResponses] /\ response \in [Connection -> Responses]
         /\ fds \in [Connection -> Nat] /\ orphans \in [Connection -> Nat]
         /\ request \in [Connection -> Request] /\ route \in [Connection -> {"none"} \cup Page]
  BY DEF TypeOK, MHDResponses, Responses

\* A connection whose request is over is sound.
LEMMA OverSound ==
  ASSUME NEW c, at'[c] = "out", state'[c] # "sending", mhd'[c].refs = 0,
         mhd'[c].page = "none", ~response'[c].live, route'[c] = "none",
         fds'[c] = orphans'[c], fds'[c] \in Nat
  PROVE  Sound(c)'
  BY DEF Sound, Placed, Counted, Paged, Headed, Owned, Answering

\* The last reference takes its descriptor with it.
LEMMA DropLast ==
  ASSUME TypeOK, NEW c \in Connection, mhd[c].refs = 1, Owned(c), Drop(c)
  PROVE  /\ mhd' = [mhd EXCEPT ![c] = NoMHDResponse]
         /\ fds' = [fds EXCEPT ![c] = orphans[c]]
<1>1. mhd' = [mhd EXCEPT ![c] = NoMHDResponse]
  BY DEF Drop
<1>2. fds[c] - ClosedWith(mhd[c]) = orphans[c]
  BY KnownTypes DEF Owned, ClosedWith
<1>3. QED
  BY <1>1, <1>2 DEF Drop

LEMMA NoMHDResponseType == NoMHDResponse \in MHDResponses
  BY DEF NoMHDResponse, MHDResponses

\* Close leaves nothing of a response.
LEMMA CloseEnds ==
  ASSUME TypeOK, NEW c \in Connection, Owned(c), Paged(c), Close(c),
         mhd[c].refs = IF state[c] = "sending" THEN 1 ELSE 0
  PROVE  /\ mhd' \in [Connection -> MHDResponses] /\ fds' \in [Connection -> Nat]
         /\ mhd'[c].refs = 0 /\ mhd'[c].page = "none" /\ fds'[c] = orphans[c]
<1>1. CASE state[c] = "sending"
  <2>1. Drop(c)
    BY <1>1 DEF Close
  <2>2. /\ mhd' = [mhd EXCEPT ![c] = NoMHDResponse]
        /\ fds' = [fds EXCEPT ![c] = orphans[c]]
    BY <1>1, <2>1, DropLast
  <2>3. mhd'[c] = NoMHDResponse /\ fds'[c] = orphans[c]
    BY <2>2, KnownTypes
  <2>4. mhd' \in [Connection -> MHDResponses] /\ fds' \in [Connection -> Nat]
    BY <2>2, KnownTypes, NoMHDResponseType
  <2>5. QED
    BY <2>3, <2>4 DEF NoMHDResponse
<1>2. CASE state[c] # "sending"
  <2>1. mhd' = mhd /\ fds' = fds
    BY <1>2 DEF Close
  <2>2. QED
    BY <1>2, <2>1, KnownTypes DEF Paged, Owned
<1>3. QED
  BY <1>1, <1>2

\* What NewResponse makes.
LEMMA NewResponseMakes ==
  ASSUME TypeOK, NEW c \in Connection, NEW page \in {"none"} \cup Page, NewResponse(c, page)
  PROVE  /\ mhd' \in [Connection -> MHDResponses] /\ response' \in [Connection -> Responses]
         /\ mhd'[c].refs = (IF page = "none" THEN 0 ELSE 1) /\ mhd'[c].page = page
         /\ mhd'[c].headers = {} /\ mhd'[c].refused = {}
         /\ response'[c].live /\ response'[c].headers = {}
         /\ response'[c].result <=> page # "none"
<1> DEFINE r == [live |-> TRUE, result |-> page # "none", headers |-> {}]
           e == [refs |-> 1, page |-> page, headers |-> {}, refused |-> {}]
           m == IF page = "none" THEN NoMHDResponse ELSE e
<1>1. mhd' = [mhd EXCEPT ![c] = m] /\ response' = [response EXCEPT ![c] = r]
  BY DEF NewResponse
<1>2. /\ m \in MHDResponses
      /\ m.refs = (IF page = "none" THEN 0 ELSE 1) /\ m.page = page
      /\ m.headers = {} /\ m.refused = {}
  <2>1. /\ NoMHDResponse.page = "none" /\ NoMHDResponse.refs = 0
        /\ NoMHDResponse.headers = {} /\ NoMHDResponse.refused = {}
    BY DEF NoMHDResponse
  <2>2. /\ e.refs = 1 /\ e.page = page /\ e.headers = {} /\ e.refused = {}
        /\ e \in MHDResponses
    BY DEF MHDResponses
  <2> HIDE DEF e
  <2>3. QED
    BY <2>1, <2>2, NoMHDResponseType
<1>3. /\ r \in Responses /\ r.live /\ r.headers = {} /\ (r.result <=> page # "none")
  BY DEF Responses
<1> HIDE DEF r, m
<1>4. mhd'[c] = m /\ response'[c] = r
  BY <1>1, KnownTypes
<1>5. mhd' \in [Connection -> MHDResponses] /\ response' \in [Connection -> Responses]
  BY <1>1, <1>2, <1>3, KnownTypes
<1>6. QED
  BY <1>2, <1>3, <1>4, <1>5

-----------------------------------------------------------------------------
(* The initial state. *)

LEMMA NoRequestIsRequest == NoRequest \in Request
  BY ServerAssumption DEF NoRequest

LEMMA InitIInv == Init => IInv
<1> SUFFICES ASSUME Init PROVE IInv
  OBVIOUS
<1>1. TypeOK
  BY NoRequestIsRequest, ServerAssumption DEF Init, TypeOK, NoResponse, NoMHDResponse, Page
<1>2. ASSUME NEW c \in Connection PROVE Sound(c)
  BY DEF Init, Sound, Placed, Counted, Paged, Headed, Owned, NoResponse,
     NoMHDResponse, Answering
<1>3. QED
  BY <1>1, <1>2 DEF IInv

-----------------------------------------------------------------------------
(* One lemma for each action. *)

LEMMA ConnectStep ==
  ASSUME IInv, NEW c \in Connection, Connect(c) PROVE IInv'
<1> USE DEF Connect, Goto, client, handler, NoResponse, NoMHDResponse
<1>0. TypeOK /\ Placed(c) /\ Counted(c) /\ Paged(c) /\ Headed(c) /\ Owned(c)
  BY Known
<1>1. TypeOK'
  BY <1>0, NoRequestIsRequest DEF TypeOK, Page, Counted, Owned, Outcome
<1>2. Untouched(c)
  BY <1>0 DEF TypeOK, Untouched
<1>3. Placed(c)'
  BY <1>0 DEF TypeOK, Placed, Answering
<1>4. Counted(c)'
  BY <1>0 DEF TypeOK, Placed, Counted, Answering
<1>5. Paged(c)'
  BY <1>0, <1>2, DueKept DEF TypeOK, Paged, Counted, Answering, Untouched
<1>6. Headed(c)'
  BY <1>0 DEF TypeOK, Headed, Counted, Own, Cookie, Promised
<1>7. Owned(c)'
  BY <1>0 DEF TypeOK, Owned, Counted, Paged
<1>8. QED
  BY <1>1, <1>2, <1>3, <1>4, <1>5, <1>6, <1>7, StepOfOne DEF Sound

LEMMA ProgressStep ==
  ASSUME IInv, NEW c \in Connection, Progress(c) PROVE IInv'
<1> USE DEF Progress, Goto, client, handler, NoResponse, NoMHDResponse
<1>0. TypeOK /\ Placed(c) /\ Counted(c) /\ Paged(c) /\ Headed(c) /\ Owned(c)
  BY Known
<1>1. TypeOK'
  BY <1>0, NoRequestIsRequest DEF TypeOK, Page, Counted, Owned, Outcome
<1>2. Untouched(c)
  BY <1>0 DEF TypeOK, Untouched
<1>3. Placed(c)'
  BY <1>0 DEF TypeOK, Placed, Answering
<1>4. Counted(c)'
  BY <1>0 DEF TypeOK, Placed, Counted, Answering
<1>5. Paged(c)'
  BY <1>0, <1>2, DueKept DEF TypeOK, Paged, Counted, Answering, Untouched
<1>6. Headed(c)'
  BY <1>0 DEF TypeOK, Headed, Counted, Own, Cookie, Promised
<1>7. Owned(c)'
  BY <1>0 DEF TypeOK, Owned, Counted, Paged
<1>8. QED
  BY <1>1, <1>2, <1>3, <1>4, <1>5, <1>6, <1>7, StepOfOne DEF Sound

LEMMA RefuseMethodStep ==
  ASSUME IInv, NEW c \in Connection, RefuseMethod(c) PROVE IInv'
<1> USE DEF RefuseMethod, Called, Goto, client, handler, NoResponse, NoMHDResponse
<1>0. TypeOK /\ Placed(c) /\ Counted(c) /\ Paged(c) /\ Headed(c) /\ Owned(c)
  BY Known
<1>1. TypeOK'
  BY <1>0, NoRequestIsRequest DEF TypeOK, Page, Counted, Owned, Outcome
<1>2. Untouched(c)
  BY <1>0 DEF TypeOK, Untouched
<1>3. Placed(c)'
  BY <1>0 DEF TypeOK, Placed, Answering
<1>4. Counted(c)'
  BY <1>0 DEF TypeOK, Placed, Counted, Answering
<1>5. Paged(c)'
  BY <1>0, <1>2, DueKept DEF TypeOK, Paged, Counted, Answering, Untouched
<1>6. Headed(c)'
  BY <1>0 DEF TypeOK, Headed, Counted, Own, Cookie, Promised
<1>7. Owned(c)'
  BY <1>0 DEF TypeOK, Owned, Counted, Paged
<1>8. QED
  BY <1>1, <1>2, <1>3, <1>4, <1>5, <1>6, <1>7, StepOfOne DEF Sound

LEMMA FirstCallStep ==
  ASSUME IInv, NEW c \in Connection, FirstCall(c) PROVE IInv'
<1> USE DEF FirstCall, Called, Goto, client, handler, NoResponse, NoMHDResponse
<1>0. TypeOK /\ Placed(c) /\ Counted(c) /\ Paged(c) /\ Headed(c) /\ Owned(c)
  BY Known
<1>1. TypeOK'
  BY <1>0, NoRequestIsRequest DEF TypeOK, Page, Counted, Owned, Outcome
<1>2. Untouched(c)
  BY <1>0 DEF TypeOK, Untouched
<1>3. Placed(c)'
  BY <1>0 DEF TypeOK, Placed, Answering
<1>4. Counted(c)'
  BY <1>0 DEF TypeOK, Placed, Counted, Answering
<1>5. Paged(c)'
  BY <1>0, <1>2, DueKept DEF TypeOK, Paged, Counted, Answering, Untouched
<1>6. Headed(c)'
  BY <1>0 DEF TypeOK, Headed, Counted, Own, Cookie, Promised
<1>7. Owned(c)'
  BY <1>0 DEF TypeOK, Owned, Counted, Paged
<1>8. QED
  BY <1>1, <1>2, <1>3, <1>4, <1>5, <1>6, <1>7, StepOfOne DEF Sound

LEMMA RenderStep ==
  ASSUME IInv, NEW c \in Connection, Render(c) PROVE IInv'
<1> USE DEF Render, Goto, client, handler, NoResponse, NoMHDResponse
<1>0. TypeOK /\ Placed(c) /\ Counted(c) /\ Paged(c) /\ Headed(c) /\ Owned(c)
  BY Known
<1>1. TypeOK'
  BY <1>0, NoRequestIsRequest DEF TypeOK, Page, Counted, Owned, Outcome
<1>2. Untouched(c)
  BY <1>0 DEF TypeOK, Untouched
<1>3. Placed(c)'
  BY <1>0 DEF TypeOK, Placed, Answering
<1>4. Counted(c)'
  BY <1>0 DEF TypeOK, Placed, Counted, Answering
<1>5. Paged(c)'
  BY <1>0, <1>2, DueKept DEF TypeOK, Paged, Counted, Answering, Untouched
<1>6. Headed(c)'
  BY <1>0 DEF TypeOK, Headed, Counted, Own, Cookie, Promised
<1>7. Owned(c)'
  BY <1>0 DEF TypeOK, Owned, Counted, Paged
<1>8. QED
  BY <1>1, <1>2, <1>3, <1>4, <1>5, <1>6, <1>7, StepOfOne DEF Sound

LEMMA SentStep ==
  ASSUME IInv, NEW c \in Connection, Sent(c) PROVE IInv'
<1>0. TypeOK /\ Placed(c) /\ Counted(c) /\ Paged(c) /\ Headed(c) /\ Owned(c)
  BY Known
<1>1. state[c] = "sending" /\ at[c] = "out" /\ mhd[c].refs = 1
  BY <1>0 DEF Sent, Placed, Counted, Answering, TypeOK
<1>2. mhd' = [mhd EXCEPT ![c] = NoMHDResponse] /\ fds' = [fds EXCEPT ![c] = orphans[c]]
  BY <1>0, <1>1, DropLast DEF Sent
<1>3. mhd'[c] = NoMHDResponse /\ fds'[c] = orphans[c] /\ orphans[c] \in Nat
  BY <1>0, <1>2, KnownTypes
<1>4. mhd' \in [Connection -> MHDResponses] /\ fds' \in [Connection -> Nat]
  BY <1>0, <1>2, KnownTypes, NoMHDResponseType
<1>5. TypeOK'
  BY <1>0, <1>4, NoRequestIsRequest DEF Sent, Forget, TypeOK, MHDResponses
<1>6. Untouched(c)
  BY <1>0, <1>2 DEF TypeOK, Untouched, Sent, Forget
<1>7. Sound(c)'
  <2>1. /\ at'[c] = "out" /\ state'[c] # "sending" /\ route'[c] = "none"
        /\ response'[c].live = FALSE /\ orphans'[c] = orphans[c]
    BY <1>0, <1>1 DEF Sent, Forget, TypeOK, Counted
  <2>2. mhd'[c].refs = 0 /\ mhd'[c].page = "none"
    BY <1>3 DEF NoMHDResponse
  <2>3. QED
    BY <1>3, <2>1, <2>2, OverSound
<1>8. QED
  BY <1>5, <1>6, <1>7, StepOfOne

LEMMA DisconnectStep ==
  ASSUME IInv, NEW c \in Connection, Disconnect(c) PROVE IInv'
<1>0. TypeOK /\ Placed(c) /\ Counted(c) /\ Paged(c) /\ Headed(c) /\ Owned(c)
  BY Known
<1>1. at[c] = "out" /\ Close(c) /\ mhd[c].refs = IF state[c] = "sending" THEN 1 ELSE 0
  BY <1>0 DEF Disconnect, Counted
<1>2. /\ mhd' \in [Connection -> MHDResponses] /\ fds' \in [Connection -> Nat]
      /\ mhd'[c].refs = 0 /\ mhd'[c].page = "none" /\ fds'[c] = orphans[c]
  BY <1>0, <1>1, CloseEnds
<1>3. TypeOK'
  BY <1>0, <1>2, NoRequestIsRequest DEF Disconnect, Close, Forget, TypeOK, MHDResponses
<1>4. Untouched(c)
  BY <1>0 DEF TypeOK, Untouched, Disconnect, Close, Forget, Drop
<1>5. Sound(c)'
  <2>1. /\ at'[c] = "out" /\ state'[c] # "sending" /\ route'[c] = "none"
        /\ response'[c].live = FALSE /\ orphans'[c] = orphans[c] /\ orphans[c] \in Nat
    BY <1>0, <1>1 DEF Disconnect, Close, Forget, TypeOK, Counted
  <2>2. QED
    BY <1>2, <2>1, OverSound
<1>6. QED
  BY <1>3, <1>4, <1>5, StepOfOne

LEMMA ReturnedStep ==
  ASSUME IInv, NEW c \in Connection, Returned(c) PROVE IInv'
<1>0. TypeOK /\ Placed(c) /\ Counted(c) /\ Paged(c) /\ Headed(c) /\ Owned(c)
  BY Known
<1>1. at[c] = "return" /\ at' = [at EXCEPT ![c] = "out"] /\ response[c].live = FALSE
  BY <1>0 DEF Returned, Goto, Counted, TypeOK
<1>2. CASE answer[c]
  <2>1. /\ mhd[c].refs = 1 /\ mhd' = mhd /\ access' = access
        /\ state' = [state EXCEPT ![c] = "sending"]
        /\ UNCHANGED <<con_cls, request, begun, daemon, handler>>
    BY <1>0, <1>1, <1>2 DEF Returned, Counted
  <2>2. TypeOK'
    BY <1>0, <1>1, <2>1 DEF handler, TypeOK
  <2>3. Untouched(c)
    BY <1>0, <1>1, <2>1 DEF TypeOK, Untouched, handler
  <2>4. Placed(c)' /\ Counted(c)'
    BY <1>0, <1>1, <2>1 DEF TypeOK, Placed, Counted, Answering, handler
  <2>5. Paged(c)'
    <3>1. Due(request[c])' = Due(request[c])
      BY <2>1, DueKept
    <3>2. at'[c] = "out"
      BY <1>0, <1>1 DEF TypeOK
    <3>3. QED
      BY <1>0, <1>1, <2>1, <3>1, <3>2 DEF Paged, handler
  <2>6. Headed(c)'
    <3>1. at'[c] = "out" /\ Promised(c)' = Promised(c)
      BY <1>0, <1>1, <2>1 DEF TypeOK, Promised, handler
    <3>2. mhd[c].headers = Promised(c) \ mhd[c].refused
      BY <1>0, <1>1, <2>1 DEF Headed
    <3>3. QED
      BY <2>1, <3>1, <3>2 DEF Headed
  <2>7. Owned(c)'
    BY <1>0, <2>1 DEF Owned, handler
  <2>8. QED
    BY <2>2, <2>3, <2>4, <2>5, <2>6, <2>7, StepOfOne DEF Sound
<1>3. CASE ~answer[c]
  <2>1. Close(c) /\ state[c] # "sending" /\ mhd[c].refs = 0
    BY <1>0, <1>1, <1>3 DEF Returned, Counted, Placed
  <2>2. /\ mhd' \in [Connection -> MHDResponses] /\ fds' \in [Connection -> Nat]
        /\ mhd'[c].refs = 0 /\ mhd'[c].page = "none" /\ fds'[c] = orphans[c]
    BY <1>0, <2>1, CloseEnds
  <2>3. TypeOK'
    BY <1>0, <1>1, <2>1, <2>2, NoRequestIsRequest DEF Close, Forget, TypeOK, MHDResponses
  <2>4. Untouched(c)
    BY <1>0, <1>1, <2>1 DEF TypeOK, Untouched, Close, Forget
  <2>5. Sound(c)'
    <3>1. /\ at'[c] = "out" /\ state'[c] # "sending" /\ route'[c] = "none"
          /\ response'[c].live = FALSE /\ orphans'[c] = orphans[c] /\ orphans[c] \in Nat
      BY <1>0, <1>1, <2>1 DEF Close, Forget, TypeOK
    <3>2. QED
      BY <2>2, <3>1, OverSound
  <2>6. QED
    BY <2>3, <2>4, <2>5, StepOfOne
<1>4. QED
  BY <1>0, <1>2, <1>3 DEF TypeOK

\* A route begins to answer.
LEMMA RespondStep ==
  ASSUME IInv, NEW c \in Connection, NEW r \in Page, Called(c), Respond(c, r),
         state[c] \in {"body", "complete"}, r \in Due(request[c])
  PROVE  IInv'
<1>0. TypeOK /\ Placed(c) /\ Counted(c) /\ Paged(c) /\ Headed(c) /\ Owned(c)
  BY Known
<1>1. /\ at[c] = "out" /\ route' = [route EXCEPT ![c] = r]
      /\ UNCHANGED <<daemon, client, response, answer, fds, orphans, mhd>>
      /\ mhd[c].refs = 0 /\ mhd[c].page = "none" /\ response[c].live = FALSE
  BY <1>0 DEF Called, Respond, Counted, Paged, TypeOK
<1>2. PICK p \in {"open", "create", "render"} :
        /\ at' = [at EXCEPT ![c] = p]
        /\ p = "open" <=> r = "favicon_route"
        /\ p = "render" => r # "ask_authentication"
  BY DEF Respond, Goto
<1>3. at'[c] = p /\ route'[c] = r /\ r # "none"
  BY <1>0, <1>1, <1>2 DEF TypeOK, Page
<1>4. TypeOK'
  BY <1>0, <1>1, <1>2 DEF TypeOK, client
<1>5. Untouched(c)
  BY <1>0, <1>1, <1>2 DEF TypeOK, Untouched, client
<1>6. Due(request[c])' = Due(request[c]) /\ request' = request
  BY <1>1, DueKept DEF client
<1>7. Placed(c)' /\ Counted(c)'
  BY <1>0, <1>1, <1>2, <1>3 DEF Placed, Counted, Answering, client
<1>8. Paged(c)'
  BY <1>1, <1>2, <1>3, <1>6 DEF Paged
<1>9. Headed(c)'
  BY <1>1, <1>2, <1>3 DEF Headed
<1>10. Owned(c)'
  BY <1>0, <1>1, <1>3 DEF Owned, client
<1>11. QED
  BY <1>4, <1>5, <1>7, <1>8, <1>9, <1>10, StepOfOne DEF Sound

LEMMA RoutesArePages ==
  \A r : route_coordinator(r) \in Page /\ secure_route_coordinator(r) \in Page \ {"ask_authentication"}
  BY DEF route_coordinator, secure_route_coordinator, Page

LEMMA answer_to_connection_noauthStep ==
  ASSUME IInv, NEW c \in Connection, answer_to_connection_noauth(c) PROVE IInv'
<1>0. TypeOK
  BY Known
<1>1. /\ access = "noauth" /\ Called(c) /\ Respond(c, route_coordinator(request[c]))
      /\ state[c] \in {"body", "complete"}
  BY DEF answer_to_connection_noauth, Called
<1>2. route_coordinator(request[c]) \in Due(request[c])
  BY <1>1 DEF Due
<1>3. QED
  BY <1>0, <1>1, <1>2, RoutesArePages, RespondStep DEF TypeOK

\* A client with a session is sent on to a route that is due to it, and one without
\* ends the process.
LEMMA TlsAuth ==
  ASSUME TypeOK, NEW c \in Connection, answer_to_connection_tls_auth(c)
  PROVE  /\ access = "tls_auth" /\ Called(c) /\ con_cls[c] /\ request[c] \in Request
         /\ state[c] \in {"body", "complete"} /\ request[c].method = "GET"
         /\ \/ /\ request[c].peer = "none" /\ daemon' = "dead"
               /\ UNCHANGED <<client, at, handler, mhd>>
            \/ \E r \in Page : r \in Due(request[c]) /\ Respond(c, r)
<1>1. /\ access = "tls_auth" /\ Called(c) /\ state[c] \in {"body", "complete"}
      /\ con_cls[c] /\ request[c].method = "GET" /\ request[c] \in Request
  BY DEF answer_to_connection_tls_auth, Called, MethodAllowed, TypeOK
<1>2. request[c].peer \in {"none", "session", "untrusted", "trusted"}
  BY <1>1, ServerAssumption
<1>3. CASE request[c].peer = "none"
  BY <1>1, <1>3 DEF answer_to_connection_tls_auth
<1>4. CASE request[c].peer # "none"
  <2>1. PICK cert \in get_client_certificate(request[c].peer) :
          Respond(c, RouteOf(request[c], cert))
    BY <1>4 DEF answer_to_connection_tls_auth
  <2>2. "ask_authentication" \in Page /\ "ask_authentication" \in Due(request[c])
    BY <1>1, <1>2, <1>4 DEF Page, Due
  <2>3. CASE cert = "given"
    <3>1. request[c].peer \in {"untrusted", "trusted"}
      BY <2>1, <2>3 DEF get_client_certificate
    <3>2. secure_route_coordinator(request[c]) \in Due(request[c])
      BY <1>1, <3>1 DEF Due
    <3>3. RouteOf(request[c], cert) = secure_route_coordinator(request[c])
      BY <2>3 DEF RouteOf
    <3>4. QED
      BY <1>1, <2>1, <3>2, <3>3, RoutesArePages
  <2>4. CASE cert # "given"
    <3>1. RouteOf(request[c], cert) = "ask_authentication"
      BY <2>4 DEF RouteOf
    <3>2. QED
      BY <1>1, <2>1, <2>2, <3>1
  <2>5. QED
    BY <2>3, <2>4
<1>5. QED
  BY <1>3, <1>4

LEMMA answer_to_connection_tls_authStep ==
  ASSUME IInv, NEW c \in Connection, answer_to_connection_tls_auth(c) PROVE IInv'
<1>0. TypeOK
  BY Known
<1>1. CASE daemon' = "dead" /\ UNCHANGED <<client, at, handler, mhd>>
  <2>1. TypeOK'
    BY <1>0, <1>1 DEF TypeOK, client, handler
  <2>2. ASSUME NEW d \in Connection PROVE Sound(d)'
    <3>1. Sound(d)
      BY DEF IInv
    <3>2. QED
      BY <1>1, <3>1, SoundKept DEF client, handler
  <2>3. QED
    BY <2>1, <2>2 DEF IInv
<1>2. ASSUME NEW r \in Page, r \in Due(request[c]), Respond(c, r) PROVE IInv'
  BY <1>0, <1>2, TlsAuth, RespondStep
<1>3. QED
  BY <1>0, <1>1, <1>2, TlsAuth

LEMMA create_html_responseStep ==
  ASSUME IInv, NEW c \in Connection, create_html_response(c) PROVE IInv'
<1>0. TypeOK /\ Placed(c) /\ Counted(c) /\ Paged(c) /\ Headed(c) /\ Owned(c)
  BY Known
<1>1. /\ at[c] = "create" /\ at' = [at EXCEPT ![c] = "decorate"]
      /\ UNCHANGED <<daemon, client, route, answer, fds, orphans>>
  BY DEF create_html_response, Goto
<1>2. PICK page \in {"none", route[c]} : NewResponse(c, page)
  BY DEF create_html_response, Outcome
<1>3. route[c] \in Page /\ route[c] # "none" /\ route[c] # "favicon_route"
      /\ mhd[c].refs = 0 /\ mhd[c].page = "none"
  BY <1>0, <1>1, KnownTypes DEF Paged, Counted, Answering
<1>4. /\ mhd' \in [Connection -> MHDResponses] /\ response' \in [Connection -> Responses]
      /\ mhd'[c].refs = (IF page = "none" THEN 0 ELSE 1) /\ mhd'[c].page = page
      /\ mhd'[c].headers = {} /\ mhd'[c].refused = {}
      /\ response'[c].live /\ response'[c].headers = {}
      /\ response'[c].result <=> page # "none"
  BY <1>0, <1>2, <1>3, NewResponseMakes
<1>5. TypeOK'
  BY <1>0, <1>1, <1>4 DEF TypeOK, client, MHDResponses, Responses
<1>6. Untouched(c)
  BY <1>0, <1>1, <1>2 DEF TypeOK, Untouched, client, NewResponse
<1>7. at'[c] = "decorate" /\ Due(request[c])' = Due(request[c]) /\ request' = request
  BY <1>0, <1>1, DueKept DEF TypeOK, client
<1>8. Placed(c)' /\ Counted(c)'
  BY <1>0, <1>1, <1>2, <1>3, <1>4, <1>7 DEF Placed, Counted, Answering, client
<1>9. Paged(c)'
  BY <1>0, <1>1, <1>2, <1>3, <1>4, <1>7 DEF Paged, Answering
<1>10. Headed(c)'
  BY <1>0, <1>1, <1>4, <1>7 DEF Headed, client
<1>11. Owned(c)'
  BY <1>0, <1>1, <1>2, <1>3, <1>4 DEF Owned
<1>12. QED
  BY <1>5, <1>6, <1>8, <1>9, <1>10, <1>11, StepOfOne DEF Sound

LEMMA create_response_from_fileStep ==
  ASSUME IInv, NEW c \in Connection, create_response_from_file(c) PROVE IInv'
<1>0. TypeOK /\ Placed(c) /\ Counted(c) /\ Paged(c) /\ Headed(c) /\ Owned(c)
  BY Known
<1>1. /\ at[c] = "open" /\ at' = [at EXCEPT ![c] = "perform"]
      /\ UNCHANGED <<daemon, client, route, answer>>
  BY DEF create_response_from_file, Goto
<1>2. PICK page \in {"none", "favicon_route"} :
        /\ NewResponse(c, page)
        /\ \/ UNCHANGED <<fds, orphans>> /\ page = "none"
           \/ /\ fds' = [fds EXCEPT ![c] = @ + 1] /\ page = "none"
              /\ orphans' = [orphans EXCEPT ![c] = @ + 1]
           \/ /\ fds' = [fds EXCEPT ![c] = @ + 1] /\ page = "favicon_route"
              /\ UNCHANGED orphans
  BY DEF create_response_from_file, FstatFailed
<1>3. route[c] = "favicon_route" /\ mhd[c].refs = 0 /\ mhd[c].page = "none"
  BY <1>0, <1>1 DEF Paged, Counted
<1>4. "favicon_route" \in Page
  BY DEF Page
<1>5. /\ mhd' \in [Connection -> MHDResponses] /\ response' \in [Connection -> Responses]
      /\ mhd'[c].refs = (IF page = "none" THEN 0 ELSE 1) /\ mhd'[c].page = page
      /\ mhd'[c].headers = {} /\ mhd'[c].refused = {}
      /\ response'[c].live /\ response'[c].headers = {}
      /\ response'[c].result <=> page # "none"
  BY <1>0, <1>2, <1>4, NewResponseMakes
<1>6. fds' \in [Connection -> Nat] /\ orphans' \in [Connection -> Nat]
  BY <1>0, <1>2, KnownTypes
<1>7. TypeOK'
  BY <1>0, <1>1, <1>5, <1>6 DEF TypeOK, client, MHDResponses, Responses
<1>8. Untouched(c)
  BY <1>0, <1>1, <1>2 DEF TypeOK, Untouched, client, NewResponse
<1>9. at'[c] = "perform" /\ Due(request[c])' = Due(request[c]) /\ request' = request
  BY <1>0, <1>1, DueKept DEF TypeOK, client
<1>10. Placed(c)' /\ Counted(c)'
  BY <1>0, <1>1, <1>2, <1>5, <1>9 DEF Placed, Counted, Answering, client
<1>11. Paged(c)'
  BY <1>0, <1>1, <1>2, <1>3, <1>5, <1>9 DEF Paged, Answering
<1>12. Headed(c)'
  BY <1>0, <1>1, <1>3, <1>5, <1>9 DEF Headed, Own, Cookie, client
<1>13. Owned(c)'
  BY <1>0, <1>2, <1>3, <1>5, KnownTypes DEF Owned
<1>14. QED
  BY <1>7, <1>8, <1>10, <1>11, <1>12, <1>13, StepOfOne DEF Sound

LEMMA DecorateStep ==
  ASSUME IInv, NEW c \in Connection, Decorate(c) PROVE IInv'
<1>0. TypeOK /\ Placed(c) /\ Counted(c) /\ Paged(c) /\ Headed(c) /\ Owned(c)
  BY Known
<1>1. /\ at[c] = "decorate" /\ at' = [at EXCEPT ![c] = "perform"]
      /\ UNCHANGED <<daemon, client, route, answer, fds, orphans>>
      /\ response[c].headers = {} /\ mhd[c].headers = {} /\ mhd[c].refused = {}
  BY <1>0 DEF Decorate, Goto, Headed
<1>2. PICK r \in Responses :
        /\ response' = [response EXCEPT ![c] = r] /\ r.headers = Own(c)
        /\ r.live = response[c].live /\ r.result = response[c].result
  <2> DEFINE r == [response[c] EXCEPT !.headers =
                     IF route[c] = "logging_route" THEN @ \cup {"Link"} ELSE @]
  <2>1. response' = [response EXCEPT ![c] = r]
    BY <1>0, KnownTypes DEF Decorate
  <2>2. response[c] \in Responses
    BY <1>0, KnownTypes
  <2>3. r \in Responses /\ r.live = response[c].live /\ r.result = response[c].result
    BY <2>2 DEF Responses
  <2>4. r.headers = Own(c)
    BY <1>1, <2>2 DEF Responses, Own
  <2> HIDE DEF r
  <2>5. QED
    BY <2>1, <2>3, <2>4
<1>3. PICK m \in MHDResponses :
        /\ mhd' = [mhd EXCEPT ![c] = m] /\ m.refs = mhd[c].refs /\ m.page = mhd[c].page
        /\ m.refs > 0 => m.refused \subseteq Cookie(c) /\ m.headers = Cookie(c) \ m.refused
  <2>1. mhd[c] \in MHDResponses
    BY <1>0, KnownTypes
  <2>2. CASE UNCHANGED mhd /\ (mhd[c].refs > 0 => Cookie(c) = {})
    <3>1. mhd' = [mhd EXCEPT ![c] = mhd[c]]
      BY <1>0, <2>2, KnownTypes
    <3>2. QED
      BY <1>1, <2>1, <2>2, <3>1
  <2>3. ASSUME NEW ok \in BOOLEAN, Take(c, "Set-Cookie", ok), Cookie(c) = {"Set-Cookie"}
        PROVE  \E m \in MHDResponses :
                 /\ mhd' = [mhd EXCEPT ![c] = m] /\ m.refs = mhd[c].refs /\ m.page = mhd[c].page
                 /\ m.refused \subseteq Cookie(c) /\ m.headers = Cookie(c) \ m.refused
    <3> DEFINE m == [mhd[c] EXCEPT !.headers = IF ok THEN @ \cup {"Set-Cookie"} ELSE @,
                                   !.refused = IF ok THEN @ ELSE @ \cup {"Set-Cookie"}]
    <3>1. mhd' = [mhd EXCEPT ![c] = m]
      BY <1>0, <2>3, KnownTypes DEF Take
    <3>2. /\ m \in MHDResponses /\ m.refs = mhd[c].refs /\ m.page = mhd[c].page
          /\ m.headers = IF ok THEN {"Set-Cookie"} ELSE {}
          /\ m.refused = IF ok THEN {} ELSE {"Set-Cookie"}
      BY <1>1, <2>1 DEF MHDResponses
    <3> HIDE DEF m
    <3>3. QED
      BY <2>3, <3>1, <3>2
  <2>4. \/ UNCHANGED mhd /\ (mhd[c].refs > 0 => Cookie(c) = {})
        \/ \E ok \in BOOLEAN : Take(c, "Set-Cookie", ok) /\ Cookie(c) = {"Set-Cookie"}
    BY DEF Decorate, Outcome, Cookie
  <2>5. QED
    BY <2>2, <2>3, <2>4
<1>4. mhd'[c] = m /\ response'[c] = r /\ at'[c] = "perform"
  BY <1>0, <1>1, <1>2, <1>3, KnownTypes DEF TypeOK
<1>5. mhd' \in [Connection -> MHDResponses] /\ response' \in [Connection -> Responses]
  BY <1>0, <1>2, <1>3, KnownTypes
<1>6. TypeOK'
  BY <1>0, <1>1, <1>5 DEF TypeOK, client, MHDResponses, Responses
<1>7. Untouched(c)
  BY <1>0, <1>1, <1>2, <1>3 DEF TypeOK, Untouched, client
<1>8. Due(request[c])' = Due(request[c]) /\ request' = request /\ route' = route
  BY <1>1, DueKept DEF client
<1>9. Placed(c)' /\ Counted(c)'
  BY <1>0, <1>1, <1>2, <1>3, <1>4 DEF Placed, Counted, Answering, client
<1>10. Paged(c)'
  BY <1>0, <1>1, <1>3, <1>4, <1>8 DEF Paged, Answering
<1>11. Headed(c)'
  BY <1>2, <1>3, <1>4, <1>8 DEF Headed, Own, Cookie
<1>12. Owned(c)'
  BY <1>0, <1>1, <1>3, <1>4 DEF Owned, client
<1>13. QED
  BY <1>6, <1>7, <1>9, <1>10, <1>11, <1>12, StepOfOne DEF Sound

LEMMA ValidateStep ==
  ASSUME IInv, NEW c \in Connection, Validate(c) PROVE IInv'
<1>0. TypeOK /\ Placed(c) /\ Counted(c) /\ Paged(c) /\ Headed(c) /\ Owned(c)
  BY Known
<1>1. /\ at[c] = "perform"
      /\ UNCHANGED <<daemon, client, route, mhd, fds, orphans>>
  BY DEF Validate
<1>2. Due(request[c])' = Due(request[c]) /\ request' = request
  BY <1>1, DueKept DEF client
<1>3. CASE response[c].result
  <2> DEFINE r == [response[c] EXCEPT !.headers = @ \cup {"Content-Type"}]
  <2>1. /\ at' = [at EXCEPT ![c] = "headers"] /\ answer' = answer
        /\ response' = [response EXCEPT ![c] = r]
    BY <1>0, <1>1, <1>3, KnownTypes DEF Validate, Goto, WithContentType
  <2>2. r \in Responses /\ r.live = response[c].live
        /\ r.headers = response[c].headers \cup {"Content-Type"}
    BY <1>0, KnownTypes DEF Responses
  <2> HIDE DEF r
  <2>3. response' \in [Connection -> Responses] /\ response'[c] = r /\ at'[c] = "headers"
    BY <1>0, <2>1, <2>2, KnownTypes DEF TypeOK
  <2>4. TypeOK'
    BY <1>0, <1>1, <2>1, <2>3 DEF TypeOK, client, Responses
  <2>5. Untouched(c)
    BY <1>0, <1>1, <2>1 DEF TypeOK, Untouched, client
  <2>6. Placed(c)' /\ Counted(c)'
    BY <1>0, <1>1, <1>3, <2>2, <2>3 DEF Placed, Counted, Answering, client
  <2>7. Paged(c)' /\ Owned(c)'
    BY <1>0, <1>1, <1>2, <2>3 DEF Paged, Owned, Answering, client
  <2>8. Headed(c)'
    BY <1>0, <1>1, <1>2, <2>2, <2>3 DEF Headed, Own, Cookie
  <2>9. QED
    BY <2>4, <2>5, <2>6, <2>7, <2>8, StepOfOne DEF Sound
<1>4. CASE ~response[c].result
  <2>1. /\ at' = [at EXCEPT ![c] = "destroy"] /\ answer' = [answer EXCEPT ![c] = FALSE]
        /\ response' = response /\ mhd[c].refs = 0
    BY <1>0, <1>1, <1>4 DEF Validate, Goto, Counted
  <2>2. answer'[c] = FALSE /\ at'[c] = "destroy"
    BY <1>0, <2>1 DEF TypeOK
  <2>3. TypeOK'
    BY <1>0, <1>1, <2>1 DEF TypeOK, client
  <2>4. Untouched(c)
    BY <1>0, <1>1, <2>1 DEF TypeOK, Untouched, client
  <2>5. Placed(c)' /\ Counted(c)'
    BY <1>0, <1>1, <2>1, <2>2 DEF Placed, Counted, Answering, client
  <2>6. Paged(c)' /\ Headed(c)' /\ Owned(c)'
    BY <1>0, <1>1, <1>2, <2>1, <2>2 DEF Paged, Headed, Owned, Answering, client
  <2>7. QED
    BY <2>3, <2>4, <2>5, <2>6, StepOfOne DEF Sound
<1>5. QED
  BY <1>3, <1>4

LEMMA set_response_headersStep ==
  ASSUME IInv, NEW c \in Connection, set_response_headers(c) PROVE IInv'
<1>0. TypeOK /\ Placed(c) /\ Counted(c) /\ Paged(c) /\ Headed(c) /\ Owned(c)
  BY Known
<1>1. /\ at[c] = "headers" /\ at' = [at EXCEPT ![c] = "queue"] /\ mhd[c].refs = 1
      /\ UNCHANGED <<daemon, client, route, answer, fds, orphans>>
      /\ mhd[c] \in MHDResponses /\ response[c] \in Responses
  BY <1>0, KnownTypes DEF set_response_headers, Goto, Counted
<1>2. PICK lost \in SUBSET response[c].headers :
        /\ mhd' = [mhd EXCEPT ![c].headers = @ \cup (response[c].headers \ lost),
                              ![c].refused = @ \cup lost]
        /\ response' = [response EXCEPT ![c].result = lost = {}]
  BY DEF set_response_headers
<1> DEFINE m == [mhd[c] EXCEPT !.headers = @ \cup (response[c].headers \ lost),
                               !.refused = @ \cup lost]
           r == [response[c] EXCEPT !.result = lost = {}]
<1>3. mhd' = [mhd EXCEPT ![c] = m] /\ response' = [response EXCEPT ![c] = r]
  BY <1>0, <1>2, KnownTypes
<1>4. /\ m \in MHDResponses /\ m.refs = 1 /\ m.page = mhd[c].page
      /\ m.headers = mhd[c].headers \cup (response[c].headers \ lost)
      /\ m.refused = mhd[c].refused \cup lost
  BY <1>1, <1>2 DEF MHDResponses, Responses
<1>5. r \in Responses /\ r.live = response[c].live
  BY <1>1, <1>2 DEF Responses
<1> HIDE DEF m, r
<1>6. mhd'[c] = m /\ response'[c] = r /\ at'[c] = "queue"
  BY <1>0, <1>1, <1>3, KnownTypes DEF TypeOK
<1>7. mhd' \in [Connection -> MHDResponses] /\ response' \in [Connection -> Responses]
  BY <1>0, <1>3, <1>4, <1>5, KnownTypes
<1>8. TypeOK'
  BY <1>0, <1>1, <1>7 DEF TypeOK, client, MHDResponses, Responses
<1>9. Untouched(c)
  BY <1>0, <1>1, <1>3 DEF TypeOK, Untouched, client
<1>10. Due(request[c])' = Due(request[c]) /\ request' = request
  BY <1>1, DueKept DEF client
<1>11. Placed(c)' /\ Counted(c)'
  BY <1>0, <1>1, <1>4, <1>5, <1>6 DEF Placed, Counted, Answering, client
<1>12. Paged(c)' /\ Owned(c)'
  BY <1>0, <1>1, <1>4, <1>6, <1>10 DEF Paged, Owned, Answering, client
<1>13. Headed(c)'
  <2>1. /\ response[c].headers = Own(c) \cup {"Content-Type"}
        /\ mhd[c].refused \subseteq Cookie(c) /\ mhd[c].headers = Cookie(c) \ mhd[c].refused
    BY <1>0, <1>1 DEF Headed
  <2>2. Promised(c) = Cookie(c) \cup Own(c) \cup {"Content-Type"}
    BY DEF Promised, Cookie, Own
  <2>3. Own(c) \subseteq {"Link"} /\ Cookie(c) \subseteq {"Set-Cookie"}
    BY DEF Own, Cookie
  <2>4. m.headers = Promised(c) \ m.refused
    BY <1>2, <1>4, <2>1, <2>2, <2>3
  <2>5. Promised(c)' = Promised(c)
    BY <1>1, <1>10 DEF Promised
  <2>6. QED
    BY <1>6, <2>4, <2>5 DEF Headed
<1>14. QED
  BY <1>8, <1>9, <1>11, <1>12, <1>13, StepOfOne DEF Sound

LEMMA MHD_queue_responseStep ==
  ASSUME IInv, NEW c \in Connection, MHD_queue_response(c) PROVE IInv'
<1>0. TypeOK /\ Placed(c) /\ Counted(c) /\ Paged(c) /\ Headed(c) /\ Owned(c)
  BY Known
<1>1. /\ at[c] = "queue" /\ at' = [at EXCEPT ![c] = "destroy"] /\ mhd[c].refs = 1
      /\ UNCHANGED <<daemon, client, route, fds, orphans>>
      /\ mhd[c] \in MHDResponses /\ response[c] \in Responses
  BY <1>0, KnownTypes DEF MHD_queue_response, Goto, Counted
<1>2. PICK accepted \in BOOLEAN :
        /\ mhd' = [mhd EXCEPT ![c].refs = IF accepted THEN @ + 1 ELSE @]
        /\ answer' = [answer EXCEPT ![c] = accepted]
        /\ response' = [response EXCEPT ![c].result = @ /\ accepted]
  BY DEF MHD_queue_response, TempResult, Outcome
<1> DEFINE m == [mhd[c] EXCEPT !.refs = IF accepted THEN @ + 1 ELSE @]
           r == [response[c] EXCEPT !.result = @ /\ accepted]
<1>3. mhd' = [mhd EXCEPT ![c] = m] /\ response' = [response EXCEPT ![c] = r]
  BY <1>0, <1>2, KnownTypes
<1>4. /\ m \in MHDResponses /\ m.refs = (IF accepted THEN 2 ELSE 1) /\ m.page = mhd[c].page
      /\ m.headers = mhd[c].headers /\ m.refused = mhd[c].refused
  BY <1>1 DEF MHDResponses
<1>5. r \in Responses /\ r.live = response[c].live
  BY <1>1 DEF Responses
<1> HIDE DEF m, r
<1>6. mhd'[c] = m /\ response'[c] = r /\ at'[c] = "destroy" /\ answer'[c] = accepted
  BY <1>0, <1>1, <1>2, <1>3, KnownTypes DEF TypeOK
<1>7. mhd' \in [Connection -> MHDResponses] /\ response' \in [Connection -> Responses]
  BY <1>0, <1>3, <1>4, <1>5, KnownTypes
<1>8. TypeOK'
  BY <1>0, <1>1, <1>2, <1>7 DEF TypeOK, client, MHDResponses, Responses
<1>9. Untouched(c)
  BY <1>0, <1>1, <1>2, <1>3 DEF TypeOK, Untouched, client
<1>10. Due(request[c])' = Due(request[c]) /\ request' = request
  BY <1>1, DueKept DEF client
<1>11. Placed(c)' /\ Counted(c)'
  BY <1>0, <1>1, <1>4, <1>5, <1>6 DEF Placed, Counted, Answering, client
<1>12. Paged(c)' /\ Owned(c)'
  BY <1>0, <1>1, <1>4, <1>6, <1>10 DEF Paged, Owned, Answering, client
<1>13. Headed(c)'
  BY <1>0, <1>1, <1>4, <1>6, <1>10 DEF Headed, Promised
<1>14. QED
  BY <1>8, <1>9, <1>11, <1>12, <1>13, StepOfOne DEF Sound

LEMMA destroy_server_responseStep ==
  ASSUME IInv, NEW c \in Connection, destroy_server_response(c) PROVE IInv'
<1>0. TypeOK /\ Placed(c) /\ Counted(c) /\ Paged(c) /\ Headed(c) /\ Owned(c)
  BY Known
<1>1. /\ at[c] = "destroy" /\ at' = [at EXCEPT ![c] = "return"] /\ DropOwn(c)
      /\ response' = [response EXCEPT ![c] = NoResponse]
      /\ UNCHANGED <<daemon, client, route, answer, orphans>>
      /\ mhd[c] \in MHDResponses
      /\ IF answer[c] THEN mhd[c].refs = 2 ELSE mhd[c].refs < 2
  BY <1>0, KnownTypes DEF destroy_server_response, Goto, Counted
<1>2. NoResponse \in Responses /\ NoResponse.live = FALSE
  BY DEF NoResponse, Responses
<1>3. /\ response' \in [Connection -> Responses] /\ at'[c] = "return"
      /\ response'[c].live = FALSE
  BY <1>0, <1>1, <1>2, KnownTypes DEF TypeOK
\* The reference that is dropped, if there is one, is the last unless MHD has one.
<1>4. /\ mhd' \in [Connection -> MHDResponses] /\ fds' \in [Connection -> Nat]
      /\ mhd'[c].refs = (IF answer[c] THEN 1 ELSE 0)
      /\ mhd'[c].page = (IF answer[c] THEN mhd[c].page ELSE "none")
      /\ answer[c] => mhd'[c].headers = mhd[c].headers /\ mhd'[c].refused = mhd[c].refused
      /\ fds'[c] = IF answer[c] THEN fds[c] ELSE orphans[c]
  <2>1. CASE mhd[c].refs = 0
    <3>1. mhd' = mhd /\ fds' = fds /\ ~answer[c]
      BY <1>1, <2>1 DEF DropOwn
    <3>2. QED
      BY <1>0, <2>1, <3>1, KnownTypes DEF Paged, Owned
  <2>2. CASE mhd[c].refs = 1
    <3>1. Drop(c) /\ ~answer[c]
      BY <1>1, <2>2 DEF DropOwn
    <3>2. mhd' = [mhd EXCEPT ![c] = NoMHDResponse] /\ fds' = [fds EXCEPT ![c] = orphans[c]]
      BY <1>0, <2>2, <3>1, DropLast
    <3>3. /\ mhd'[c] = NoMHDResponse /\ fds'[c] = orphans[c]
          /\ mhd' \in [Connection -> MHDResponses] /\ fds' \in [Connection -> Nat]
      BY <1>0, <3>2, KnownTypes, NoMHDResponseType
    <3>4. QED
      BY <3>1, <3>3 DEF NoMHDResponse
  <2>3. CASE mhd[c].refs = 2
    <3> DEFINE m == [mhd[c] EXCEPT !.refs = @ - 1]
    <3>1. Drop(c) /\ answer[c] /\ ClosedWith(mhd[c]) = 0
      BY <1>1, <2>3 DEF DropOwn, ClosedWith
    <3>2. mhd' = [mhd EXCEPT ![c] = m] /\ fds' = [fds EXCEPT ![c] = fds[c] - 0]
      <4>1. mhd' = [mhd EXCEPT ![c] = m]
        BY <2>3, <3>1 DEF Drop
      <4>2. fds' = [fds EXCEPT ![c] = fds[c] - ClosedWith(mhd[c])]
        BY <3>1 DEF Drop
      <4>3. QED
        BY <3>1, <4>1, <4>2
    <3>3. /\ m \in MHDResponses /\ m.refs = 1 /\ m.page = mhd[c].page
          /\ m.headers = mhd[c].headers /\ m.refused = mhd[c].refused
      BY <1>1, <2>3 DEF MHDResponses
    <3> HIDE DEF m
    <3>4. /\ mhd'[c] = m /\ fds'[c] = fds[c]
          /\ mhd' \in [Connection -> MHDResponses] /\ fds' \in [Connection -> Nat]
      BY <1>0, <3>2, <3>3, KnownTypes
    <3>5. QED
      BY <3>1, <3>3, <3>4
  <2>4. QED
    BY <1>1, <2>1, <2>2, <2>3 DEF MHDResponses
<1>5. TypeOK'
  BY <1>0, <1>1, <1>3, <1>4 DEF TypeOK, client, MHDResponses, Responses
<1>6. Untouched(c)
  BY <1>0, <1>1 DEF TypeOK, Untouched, client, DropOwn, Drop
<1>7. Due(request[c])' = Due(request[c]) /\ request' = request
  BY <1>1, DueKept DEF client
<1>8. Placed(c)' /\ Counted(c)'
  BY <1>0, <1>1, <1>3, <1>4 DEF Placed, Counted, Answering, client
<1>9. Paged(c)'
  BY <1>0, <1>1, <1>3, <1>4, <1>7 DEF Paged, Answering
<1>10. Headed(c)'
  BY <1>0, <1>1, <1>3, <1>4, <1>7 DEF Headed, Promised
<1>11. Owned(c)'
  BY <1>0, <1>1, <1>4 DEF Owned, client
<1>12. QED
  BY <1>5, <1>6, <1>8, <1>9, <1>10, <1>11, StepOfOne DEF Sound

LEMMA ReceiveStep ==
  ASSUME IInv, NEW c \in Connection, NEW r \in Request, Receive(c, r) PROVE IInv'
<1>0. TypeOK /\ Placed(c) /\ Counted(c) /\ Paged(c) /\ Headed(c) /\ Owned(c)
  BY Known
<1>1. /\ state[c] = "waiting" /\ state' = [state EXCEPT ![c] = "headers"]
      /\ request' = [request EXCEPT ![c] = r]
      /\ begun[c] < RequestBound[c] /\ begun' = [begun EXCEPT ![c] = @ + 1]
      /\ UNCHANGED <<access, daemon, con_cls, at, handler, mhd>>
  BY DEF Receive
<1>2. at[c] = "out" /\ mhd[c].refs = 0 /\ state'[c] = "headers"
  BY <1>0, <1>1 DEF Placed, Counted, Answering, TypeOK
<1>3. TypeOK'
  <2>1. begun' \in [Connection -> Nat] /\ \A d \in Connection : begun'[d] <= RequestBound[d]
    <3>1. /\ begun \in [Connection -> Nat] /\ RequestBound \in [Connection -> Nat]
          /\ \A d \in Connection : begun[d] <= RequestBound[d]
      BY <1>0, ServerAssumption DEF TypeOK
    <3>2. QED
      BY <1>1, <3>1
  <2>2. QED
    BY <1>0, <1>1, <2>1 DEF TypeOK, handler
<1>4. Untouched(c)
  BY <1>0, <1>1 DEF TypeOK, Untouched, handler
<1>5. Sound(c)'
  BY <1>0, <1>1, <1>2 DEF Sound, Placed, Counted, Paged, Headed, Owned,
     Answering, handler
<1>6. QED
  BY <1>3, <1>4, <1>5, StepOfOne

\* Steps of the daemon, and steps that change nothing.
LEMMA DaemonStep ==
  ASSUME IInv, StopRequested \/ MHD_stop_daemon \/ UNCHANGED vars PROVE IInv'
<1>1. /\ UNCHANGED <<client, at, handler, mhd>> /\ TypeOK
      /\ daemon' \in {"up", "stopping", "down", "dead"}
  BY DEF StopRequested, MHD_stop_daemon, vars, IInv, TypeOK
<1>2. TypeOK'
  BY <1>1 DEF TypeOK, client, handler
<1>3. ASSUME NEW c \in Connection PROVE Sound(c)'
  <2>1. Sound(c)
    BY DEF IInv
  <2>2. QED
    BY <1>1, <2>1, SoundKept DEF client, handler
<1>4. QED
  BY <1>2, <1>3 DEF IInv

-----------------------------------------------------------------------------

LEMMA NextIInv == IInv /\ [Next]_vars => IInv'
<1> SUFFICES ASSUME IInv, [Next]_vars PROVE IInv'
  OBVIOUS
<1>1. ASSUME NEW c \in Connection, Handler(c) PROVE IInv'
  BY <1>1, RefuseMethodStep, FirstCallStep, answer_to_connection_noauthStep,
     answer_to_connection_tls_authStep, RenderStep, create_html_responseStep,
     create_response_from_fileStep, DecorateStep, ValidateStep, set_response_headersStep,
     MHD_queue_responseStep, destroy_server_responseStep, ReturnedStep DEF Handler
<1>2. ASSUME NEW c \in Connection, Client(c) PROVE IInv'
  BY <1>2, ConnectStep, ProgressStep, ReceiveStep, SentStep DEF Client
<1>3. QED
  BY <1>1, <1>2, DisconnectStep, DaemonStep DEF Next, Terminated

\* The inductive invariant holds in every reachable state.
THEOREM Invariance == Spec => []IInv
<1>1. QED
  BY InitIInv, NextIInv, PTL DEF Spec

\* Every variable keeps its type, for any connections and requests.
THEOREM TypeCorrect == Spec => []TypeOK
<1>1. IInv => TypeOK
  BY DEF IInv
<1>2. QED
  BY <1>1, Invariance, PTL

\* Between two requests nothing of a response is left.
THEOREM NothingIsLeft == Spec => []NothingLeft
<1>1. IInv => NothingLeft
  BY DEF IInv, Sound, Counted, NothingLeft
<1>2. QED
  BY <1>1, Invariance, PTL

\* The response MHD is sending is not freed by destroy_server_response.
THEOREM SendingIsHeld == Spec => []SendingHeld
<1>1. ASSUME IInv, NEW c \in Connection, state[c] = "sending" PROVE mhd[c].refs = 1
  <2>1. at[c] = "out"
    BY <1>1 DEF IInv, Sound, Placed, Answering, TypeOK
  <2>2. QED
    BY <1>1, <2>1 DEF IInv, Sound, Counted
<1>2. IInv => SendingHeld
  BY <1>1 DEF SendingHeld
<1>3. QED
  BY <1>2, Invariance, PTL

\* A descriptor is open exactly while a file response holds it, or an orphan.
THEOREM DescriptorsAreOwned == Spec => []DescriptorsOwned
<1>1. IInv => DescriptorsOwned
  BY DEF IInv, Sound, Owned, DescriptorsOwned
<1>2. QED
  BY <1>1, Invariance, PTL

\* The handler answers yes only when a response is queued (perform_response), so
\* that libmicrohttpd never waits for one in vain.
THEOREM YesMeansQueued ==
  Spec => [](\A c \in Connection : at[c] = "return" => (answer[c] <=> mhd[c].refs = 1))
<1>1. IInv => \A c \in Connection : at[c] = "return" => (answer[c] <=> mhd[c].refs = 1)
  BY DEF IInv, Sound, Counted
<1>2. QED
  BY <1>1, Invariance, PTL

\* A response that is sent has the headers its route promised but those refused.
THEOREM HeadersAreOfRoute == Spec => []HeadersOfRoute
<1>1. ASSUME IInv, NEW c \in Connection, state[c] = "sending"
      PROVE  mhd[c].headers = Promised(c) \ mhd[c].refused
  <2>1. at[c] = "out"
    BY <1>1 DEF IInv, Sound, Placed, Answering, TypeOK
  <2>2. mhd[c].refs > 0
    BY <1>1, <2>1 DEF IInv, Sound, Counted
  <2>3. QED
    BY <1>1, <2>1, <2>2 DEF IInv, Sound, Headed
<1>2. IInv => HeadersOfRoute
  BY <1>1 DEF HeadersOfRoute
<1>3. QED
  BY <1>2, Invariance, PTL

-----------------------------------------------------------------------------
(* A request with a body. *)

\* libmicrohttpd refuses what is queued for c, and the handler tells it so.
Unanswered(c) ==
  /\ state[c] \notin {"complete", "sending"}
  /\ at[c] \in {"destroy", "return"} => ~answer[c]

BodyInv == \A c \in Connection : request[c].body => Unanswered(c)

\* A step of c leaves the others as they are.
LEMMA BodyOfOne ==
  ASSUME BodyInv, NEW c \in Connection,
         \A d \in Connection \ {c} :
           /\ state'[d] = state[d] /\ request'[d] = request[d]
           /\ at'[d] = at[d] /\ answer'[d] = answer[d],
         request'[c].body => Unanswered(c)'
  PROVE  BodyInv'
  BY DEF BodyInv, Unanswered

LEMMA BodyHandler ==
  ASSUME TypeOK, BodyInv, NEW c \in Connection, Handler(c) PROVE BodyInv'
<1> USE DEF Goto, client
<1>1. request[c].body => Unanswered(c)
  BY DEF BodyInv
<1>2. CASE RefuseMethod(c)
  <2>1. answer'[c] = FALSE /\ UNCHANGED <<state, request>>
    BY <1>2 DEF RefuseMethod, TypeOK
  <2>2. \A d \in Connection \ {c} : at'[d] = at[d] /\ answer'[d] = answer[d]
    BY <1>2 DEF RefuseMethod, TypeOK
  <2>3. QED
    BY <1>1, <2>1, <2>2, BodyOfOne DEF Unanswered
<1>3. CASE FirstCall(c)
  BY <1>3 DEF FirstCall, BodyInv, Unanswered, handler
<1>4. ASSUME \E p \in {"open", "render", "create", "decorate", "perform", "headers", "queue"} :
               Goto(c, p),
             UNCHANGED <<state, request, answer>>
      PROVE  BodyInv'
  <2>1. at'[c] \notin {"destroy", "return"}
    BY <1>4 DEF TypeOK
  <2>2. \A d \in Connection \ {c} : at'[d] = at[d]
    BY <1>4 DEF TypeOK
  <2>3. QED
    BY <1>1, <1>4, <2>1, <2>2, BodyOfOne DEF Unanswered
<1>5. CASE answer_to_connection_noauth(c) \/ answer_to_connection_tls_auth(c)
  <2>1. CASE \E r : Respond(c, r)
    BY <1>4, <2>1 DEF Respond
  <2>2. CASE UNCHANGED <<client, at, handler, mhd>>
    BY <2>2 DEF BodyInv, Unanswered, handler
  <2>3. QED
    BY <1>5, <2>1, <2>2 DEF answer_to_connection_noauth, answer_to_connection_tls_auth
<1>6. CASE Render(c)
  BY <1>4, <1>6 DEF Render, handler
<1>7. CASE create_html_response(c) \/ create_response_from_file(c) \/ Decorate(c)
             \/ set_response_headers(c)
  BY <1>4, <1>7 DEF create_html_response, create_response_from_file, Decorate,
     set_response_headers
<1>8. CASE Validate(c)
  <2>1. CASE response[c].result
    BY <1>4, <1>8, <2>1 DEF Validate
  <2>2. CASE ~response[c].result
    <3>1. answer'[c] = FALSE /\ UNCHANGED <<state, request>>
      BY <1>8, <2>2 DEF Validate, TypeOK
    <3>2. \A d \in Connection \ {c} : at'[d] = at[d] /\ answer'[d] = answer[d]
      BY <1>8, <2>2 DEF Validate, TypeOK
    <3>3. QED
      BY <1>1, <3>1, <3>2, BodyOfOne DEF Unanswered
  <2>3. QED
    BY <2>1, <2>2
<1>9. CASE MHD_queue_response(c)
  <2>1. PICK ok \in BOOLEAN : answer' = [answer EXCEPT ![c] = ok /\ state[c] = "complete"]
    BY <1>9 DEF MHD_queue_response, Outcome, TempResult
  <2>2. UNCHANGED <<state, request>> /\ at' = [at EXCEPT ![c] = "destroy"]
    BY <1>9 DEF MHD_queue_response
  <2>3. answer'[c] => state[c] = "complete"
    BY <2>1 DEF TypeOK
  <2>4. QED
    BY <1>1, <2>1, <2>2, <2>3, BodyOfOne DEF Unanswered, TypeOK
<1>10. CASE destroy_server_response(c)
  <2>1. at[c] = "destroy" /\ UNCHANGED <<state, request, answer>>
        /\ at' = [at EXCEPT ![c] = "return"]
    BY <1>10 DEF destroy_server_response
  <2>2. QED
    BY <1>1, <2>1, BodyOfOne DEF Unanswered, TypeOK
<1>11. CASE Returned(c)
  <2>1. at[c] = "return" /\ at' = [at EXCEPT ![c] = "out"] /\ answer' = answer
    BY <1>11 DEF Returned, Close, Forget, handler
  <2>2. CASE answer[c]
    <3>1. ~request[c].body /\ request' = request
      BY <1>1, <1>11, <2>1, <2>2 DEF Unanswered, Returned
    <3>2. \A d \in Connection \ {c} : state'[d] = state[d]
      BY <1>11, <2>2 DEF Returned, TypeOK
    <3>3. QED
      BY <2>1, <3>1, <3>2, BodyOfOne DEF TypeOK
  <2>3. CASE ~answer[c]
    <3>1. Close(c)
      BY <1>11, <2>3 DEF Returned
    <3>2. state'[c] = "closed" /\ at'[c] = "out"
      BY <2>1, <3>1 DEF Close, TypeOK
    <3>3. \A d \in Connection \ {c} :
            state'[d] = state[d] /\ request'[d] = request[d] /\ at'[d] = at[d]
      BY <2>1, <3>1 DEF Close, Forget, TypeOK
    <3>4. QED
      BY <2>1, <3>2, <3>3, BodyOfOne DEF Unanswered
  <2>4. QED
    BY <2>2, <2>3
<1>12. QED
  BY <1>2, <1>3, <1>5, <1>6, <1>7, <1>8, <1>9, <1>10, <1>11 DEF Handler

LEMMA BodyClient ==
  ASSUME TypeOK, \A c \in Connection : Placed(c), BodyInv,
         NEW c \in Connection, Client(c) \/ Disconnect(c)
  PROVE  BodyInv'
<1>1. request[c].body => Unanswered(c)
  BY DEF BodyInv
<1>2. UNCHANGED <<at, answer>>
  BY DEF Client, Connect, Progress, Receive, Sent, Disconnect, Close, Forget, handler
<1>3. \A d \in Connection \ {c} : state'[d] = state[d] /\ request'[d] = request[d]
  BY DEF Client, Connect, Progress, Receive, Sent, Disconnect, Close, Forget, TypeOK
<1>4. state[c] \in {"free", "waiting", "sending"} => at[c] \notin {"destroy", "return"}
  BY DEF Placed, Answering
<1>5. request'[c].body => Unanswered(c)'
  <2>1. CASE Connect(c) \/ (\E r \in Request : Receive(c, r)) \/ Sent(c)
    <3>1. state'[c] \in {"waiting", "headers"} /\ state[c] \in {"free", "waiting", "sending"}
      BY <2>1 DEF Connect, Receive, Sent, TypeOK
    <3>2. QED
      BY <1>2, <1>4, <3>1 DEF Unanswered
  <2>2. CASE Progress(c)
    <3>1. at[c] = "out" /\ request' = request
          /\ state'[c] = IF request[c].body THEN "body" ELSE "complete"
      BY <2>2 DEF Progress, TypeOK
    <3>2. QED
      BY <1>2, <3>1 DEF Unanswered
  <2>3. CASE Disconnect(c)
    <3>1. at[c] = "out" /\ state'[c] = "closed"
      BY <2>3 DEF Disconnect, Close, TypeOK
    <3>2. QED
      BY <1>2, <3>1 DEF Unanswered
  <2>4. QED
    BY <2>1, <2>2, <2>3 DEF Client
<1>6. QED
  BY <1>2, <1>3, <1>5, BodyOfOne

\* A request with a body is never answered, by either handler and whatever happens:
\* its response is queued while the body is still coming in, libmicrohttpd refuses
\* it, and the handler says no (answer_to_connection_noauth,
\* answer_to_connection_tls_auth, perform_response).  What the run server_body shows
\* of one request is so of all.
THEOREM BodiesGetNothing ==
  Spec => [](\A c \in Connection :
               request[c].body =>
                 state[c] # "sending" /\ (at[c] = "return" => ~answer[c]))
<1>1. Init => BodyInv
  BY DEF Init, BodyInv, Unanswered
<1>2. IInv /\ BodyInv /\ [Next]_vars => BodyInv'
  <2> SUFFICES ASSUME IInv, BodyInv, [Next]_vars PROVE BodyInv'
    OBVIOUS
  <2>1. TypeOK /\ \A c \in Connection : Placed(c)
    BY DEF IInv, Sound
  <2>2. ASSUME NEW c \in Connection, Handler(c) PROVE BodyInv'
    BY <2>1, <2>2, BodyHandler
  <2>3. ASSUME NEW c \in Connection, Client(c) \/ Disconnect(c) PROVE BodyInv'
    BY <2>1, <2>3, BodyClient
  <2>4. CASE StopRequested \/ MHD_stop_daemon \/ UNCHANGED vars
    BY <2>4 DEF StopRequested, MHD_stop_daemon, vars, client, handler, BodyInv, Unanswered
  <2>5. QED
    BY <2>2, <2>3, <2>4 DEF Next, Terminated
<1>3. BodyInv => \A c \in Connection :
                   request[c].body =>
                     state[c] # "sending" /\ (at[c] = "return" => ~answer[c])
  BY DEF BodyInv, Unanswered
<1>4. QED
  BY <1>1, <1>2, <1>3, Invariance, PTL DEF Spec

-----------------------------------------------------------------------------
(* Requests end. *)

\* Once the body is coming in, or there is none, the request has had its first call.
FirstCalled == \A c \in Connection : state[c] \in {"body", "complete"} => con_cls[c]

\* The steps left of the request of c, until its connection is ready for another one or
\* closed: those of the handler, and those of libmicrohttpd around it.
ToDo(c) ==
  CASE at[c] = "render"            -> 9
    [] at[c] = "create"            -> 8
    [] at[c] \in {"decorate", "open"} -> 7
    [] at[c] = "perform"           -> 6
    [] at[c] = "headers"           -> 5
    [] at[c] = "queue"             -> 4
    [] at[c] = "destroy"           -> 3
    [] at[c] = "return"            -> 2
    [] at[c] = "out" ->
         CASE state[c] = "headers"              -> IF con_cls[c] THEN 11 ELSE 12
           [] state[c] \in {"body", "complete"} -> 10
           [] state[c] = "sending"              -> 1
           [] OTHER                             -> 0

\* Every step of c brings the end of its request nearer, and no other connection's step
\* and none of the daemon's puts it off, unless the process ends.
Nearer(c) ==
  ToDo(c) > 0 =>
    \/ ToDo(c)' < ToDo(c)
    \/ ToDo(c)' = ToDo(c) /\ ~(Handler(c) \/ Client(c) \/ Disconnect(c))
    \/ ~Alive'

LEMMA ToDoBounded == IInv => \A c \in Connection : ToDo(c) \in 0 .. 12
  BY DEF IInv, TypeOK, ToDo

\* Which steps touch *con_cls.
LEMMA FirstCalledKept ==
  ASSUME TypeOK, FirstCalled, [Next]_vars PROVE FirstCalled'
<1>1. ASSUME NEW c \in Connection, Forget(c), state'[c] \in {"waiting", "closed"},
             \A d \in Connection \ {c} : state'[d] = state[d]
      PROVE  FirstCalled'
  BY <1>1 DEF Forget, FirstCalled, TypeOK
<1>2. ASSUME UNCHANGED <<state, con_cls>> PROVE FirstCalled'
  BY <1>2 DEF FirstCalled
<1>3. ASSUME NEW c \in Connection, Returned(c) PROVE FirstCalled'
  <2>1. CASE answer[c]
    BY <1>3, <2>1 DEF Returned, FirstCalled, TypeOK
  <2>2. CASE ~answer[c]
    <3>1. Forget(c) /\ state' = [state EXCEPT ![c] = "closed"]
      BY <1>3, <2>2 DEF Returned, Close
    <3>2. state'[c] = "closed" /\ \A d \in Connection \ {c} : state'[d] = state[d]
      BY <3>1 DEF TypeOK
    <3>3. QED
      BY <1>1, <3>1, <3>2
  <2>3. QED
    BY <2>1, <2>2
<1>4. ASSUME NEW c \in Connection, FirstCall(c) PROVE FirstCalled'
  BY <1>4 DEF FirstCall, FirstCalled, TypeOK
<1>5. ASSUME NEW c \in Connection, Handler(c), ~Returned(c), ~FirstCall(c)
      PROVE  FirstCalled'
  BY <1>2, <1>5 DEF Handler, RefuseMethod, answer_to_connection_noauth,
     answer_to_connection_tls_auth, Respond, Render, create_html_response,
     create_response_from_file, Decorate, Validate, set_response_headers,
     MHD_queue_response, destroy_server_response, client
<1>6. ASSUME NEW c \in Connection, Connect(c) \/ Progress(c) PROVE FirstCalled'
  BY <1>6 DEF Connect, Progress, FirstCalled, TypeOK
<1>7. ASSUME NEW c \in Connection, NEW r \in Request, Receive(c, r) PROVE FirstCalled'
  BY <1>7 DEF Receive, FirstCalled, TypeOK
<1>8. ASSUME NEW c \in Connection, Sent(c) \/ Disconnect(c) PROVE FirstCalled'
  <2>1. /\ Forget(c)
        /\ \/ state' = [state EXCEPT ![c] = "waiting"]
           \/ state' = [state EXCEPT ![c] = "closed"]
    BY <1>8 DEF Sent, Disconnect, Close
  <2>2. /\ state'[c] \in {"waiting", "closed"}
        /\ \A d \in Connection \ {c} : state'[d] = state[d]
    BY <2>1 DEF TypeOK
  <2>3. QED
    BY <1>1, <2>1, <2>2
<1>9. CASE StopRequested \/ MHD_stop_daemon \/ UNCHANGED vars
  BY <1>2, <1>9 DEF StopRequested, MHD_stop_daemon, vars, client
<1>10. QED
  BY <1>3, <1>4, <1>5, <1>6, <1>7, <1>8, <1>9 DEF Next, Client, Terminated

\* A rendering that fails is of a request that could end the process.
LEMMA RenderFatal ==
  ASSUME IInv, FirstCalled, NEW c \in Connection, Render(c), daemon' # daemon
  PROVE  con_cls[c] /\ Fatal(request[c])
<1>1. /\ at[c] = "render" /\ "template" \in MayFail
      /\ request[c] \in Request /\ access \in {"noauth", "tls_auth"}
  BY ServerAssumption DEF Render, Outcome, CanFail, IInv, TypeOK
<1>2. /\ con_cls[c] /\ route[c] \in Due(request[c])
      /\ route[c] # "favicon_route" /\ route[c] # "ask_authentication"
  BY <1>1 DEF IInv, Sound, Placed, Paged, Answering, FirstCalled
<1>3. CASE access = "noauth"
  BY <1>1, <1>2, <1>3 DEF Due, Fatal
<1>4. CASE access = "tls_auth"
  <2>1. request[c].peer \in {"none", "session", "untrusted", "trusted"}
    BY <1>1, ServerAssumption
  <2>2. /\ request[c].method = "GET" /\ request[c].peer \in {"untrusted", "trusted"}
        /\ route[c] = secure_route_coordinator(request[c])
    BY <1>2, <1>4, <2>1 DEF Due
  <2>3. QED
    BY <1>1, <1>2, <1>4, <2>2 DEF Fatal
<1>5. QED
  BY <1>1, <1>3, <1>4

\* When the process has died, some request that could kill it was past its first call,
\* whatever the other connections were doing (the routes, get_tls_session).
THEOREM DeathIsExplained == Spec => []DeathExplained
<1>1. Init => DeathExplained /\ FirstCalled
  BY DEF Init, DeathExplained, FirstCalled
<1>2. IInv /\ FirstCalled /\ DeathExplained /\ [Next]_vars => DeathExplained'
  <2> SUFFICES ASSUME IInv, FirstCalled, DeathExplained, [Next]_vars, daemon' = "dead"
               PROVE  \E c \in Connection : con_cls'[c] /\ Fatal(request[c])'
    BY DEF DeathExplained
  <2>1. ASSUME NEW c \in Connection, con_cls[c], Fatal(request[c]),
               UNCHANGED <<access, con_cls, request>>
        PROVE  con_cls'[c] /\ Fatal(request[c])'
    BY <2>1 DEF Fatal
  <2>2. CASE daemon = "dead"
    <3>1. UNCHANGED <<access, con_cls, request>>
      BY <2>2 DEF Next, Handler, Client, Terminated, RefuseMethod, FirstCall, Called,
         answer_to_connection_noauth, answer_to_connection_tls_auth, Render,
         create_html_response, create_response_from_file, Decorate, Validate,
         set_response_headers, MHD_queue_response, destroy_server_response, Returned,
         Connect, Progress, Receive, Sent, Disconnect, StopRequested, MHD_stop_daemon,
         Alive, vars, client
    <3>2. QED
      BY <2>1, <2>2, <3>1 DEF DeathExplained
  <2>3. ASSUME NEW c \in Connection, daemon # "dead", Render(c)
        PROVE  con_cls'[c] /\ Fatal(request[c])'
    <3>1. UNCHANGED <<access, con_cls, request>>
      BY <2>3 DEF Render, client
    <3>2. QED
      BY <2>1, <2>3, <3>1, RenderFatal
  <2>4. ASSUME NEW c \in Connection, daemon # "dead", answer_to_connection_tls_auth(c)
        PROVE  con_cls'[c] /\ Fatal(request[c])'
    <3>1. /\ access = "tls_auth" /\ con_cls[c] /\ request[c].method = "GET"
          /\ request[c].peer = "none" /\ UNCHANGED <<access, con_cls, request>>
      BY <2>4, TlsAuth DEF IInv, Respond, client
    <3>2. QED
      BY <2>1, <3>1 DEF Fatal
  <2>5. CASE daemon # "dead"
    <3>1. PICK c \in Connection : Render(c) \/ answer_to_connection_tls_auth(c)
      BY <2>5 DEF Next, Handler, Client, Terminated, RefuseMethod, FirstCall,
         answer_to_connection_noauth, Respond, create_html_response,
         create_response_from_file, Decorate, Validate, set_response_headers,
         MHD_queue_response, destroy_server_response, Returned, Close, Connect, Progress,
         Receive, Sent, Disconnect, StopRequested, MHD_stop_daemon, vars
    <3>2. QED
      BY <2>3, <2>4, <2>5, <3>1
  <2>6. QED
    BY <2>2, <2>5
<1>3. IInv /\ FirstCalled /\ [Next]_vars => FirstCalled'
  BY FirstCalledKept DEF IInv
<1>4. QED
  BY <1>1, <1>2, <1>3, Invariance, PTL DEF Spec

\* The handler goes from place to place, and out with a page to send or none.
LEMMA HandlerNearer ==
  ASSUME IInv, FirstCalled, NEW c \in Connection, Handler(c), Alive'
  PROVE  ToDo(c)' < ToDo(c)
<1>1. /\ at \in [Connection -> {"out", "open", "render", "create", "decorate", "perform",
                                "headers", "queue", "destroy", "return"}]
      /\ state \in [Connection -> {"free", "waiting", "headers", "body", "complete",
                                   "sending", "closed"}]
      /\ con_cls \in [Connection -> BOOLEAN]
  BY DEF IInv, TypeOK
<1>2. CASE RefuseMethod(c)
  <2>1. at[c] = "out" /\ at'[c] = "return" /\ state[c] \in {"headers", "body", "complete"}
    BY <1>1, <1>2 DEF RefuseMethod, Called, Goto
  <2>2. QED
    BY <2>1 DEF ToDo
<1>3. CASE FirstCall(c)
  <2>1. /\ at[c] = "out" /\ state[c] = "headers" /\ ~con_cls[c]
        /\ at'[c] = "out" /\ state'[c] = "headers" /\ con_cls'[c]
    BY <1>1, <1>3 DEF FirstCall, Called, FirstCalled
  <2>2. QED
    BY <2>1 DEF ToDo
<1>4. CASE answer_to_connection_noauth(c) \/ answer_to_connection_tls_auth(c)
  <2>1. /\ at[c] = "out" /\ state[c] \in {"body", "complete"}
        /\ at'[c] \in {"open", "create", "render"}
    BY <1>1, <1>4 DEF answer_to_connection_noauth, answer_to_connection_tls_auth, Respond,
       Goto, Called, Alive
  <2>2. QED
    BY <2>1 DEF ToDo
<1>5. CASE Render(c)
  <2>1. at[c] = "render" /\ at'[c] = "create"
    BY <1>1, <1>5 DEF Render, Goto, Alive
  <2>2. QED
    BY <2>1 DEF ToDo
<1>6. CASE create_html_response(c) \/ create_response_from_file(c) \/ Decorate(c)
  <2>1. \/ at[c] = "create" /\ at'[c] = "decorate"
        \/ at[c] \in {"open", "decorate"} /\ at'[c] = "perform"
    BY <1>1, <1>6 DEF create_html_response, create_response_from_file, Decorate, Goto
  <2>2. QED
    BY <2>1 DEF ToDo
<1>7. CASE Validate(c) \/ set_response_headers(c) \/ MHD_queue_response(c)
             \/ destroy_server_response(c)
  <2>1. \/ at[c] = "perform" /\ at'[c] \in {"headers", "destroy"}
        \/ at[c] = "headers" /\ at'[c] = "queue"
        \/ at[c] = "queue" /\ at'[c] = "destroy"
        \/ at[c] = "destroy" /\ at'[c] = "return"
    BY <1>1, <1>7 DEF Validate, set_response_headers, MHD_queue_response,
       destroy_server_response, Goto
  <2>2. QED
    BY <2>1 DEF ToDo
<1>8. CASE Returned(c)
  <2>1. at[c] = "return" /\ at'[c] = "out"
    BY <1>1, <1>8 DEF Returned, Goto
  <2>2. CASE answer[c]
    <3>1. mhd[c].refs = 1
      BY <2>1, <2>2 DEF IInv, Sound, Counted
    <3>2. state'[c] = "sending"
      BY <1>1, <1>8, <2>2, <3>1 DEF Returned
    <3>3. QED
      BY <2>1, <3>2 DEF ToDo
  <2>3. CASE ~answer[c]
    <3>1. state'[c] = "closed"
      BY <1>1, <1>8, <2>3 DEF Returned, Close
    <3>2. QED
      BY <2>1, <3>1 DEF ToDo
  <2>4. QED
    BY <2>2, <2>3
<1>9. QED
  BY <1>2, <1>3, <1>4, <1>5, <1>6, <1>7, <1>8 DEF Handler

LEMMA ClientNearer ==
  ASSUME IInv, NEW c \in Connection, Client(c) \/ Disconnect(c), ToDo(c) > 0
  PROVE  ToDo(c)' < ToDo(c)
<1>1. /\ state \in [Connection -> {"free", "waiting", "headers", "body", "complete",
                                   "sending", "closed"}]
      /\ Placed(c) /\ at' = at
      /\ at[c] \in Answering \cup {"out", "return"}
  BY DEF IInv, Sound, TypeOK, Answering, Client, Connect, Progress, Receive, Sent,
     Disconnect, Close
<1>2. state[c] \notin {"free", "waiting"}
  <2>1. state[c] \in {"free", "waiting"} => at[c] = "out"
    BY <1>1 DEF Placed
  <2>2. QED
    BY <2>1 DEF ToDo
<1>3. CASE Progress(c)
  <2>1. /\ at[c] = "out" /\ state[c] = "headers" /\ con_cls[c]
        /\ state'[c] \in {"body", "complete"}
    BY <1>1, <1>3 DEF Progress
  <2>2. QED
    BY <1>1, <2>1 DEF ToDo
<1>4. CASE Sent(c) \/ Disconnect(c)
  <2>1. /\ at[c] = "out" /\ state[c] \in {"headers", "body", "sending"}
        /\ state'[c] \in {"waiting", "closed"}
    BY <1>1, <1>2, <1>4 DEF Sent, Disconnect, Close, Placed
  <2>2. QED
    BY <1>1, <2>1 DEF ToDo
<1>5. QED
  BY <1>2, <1>3, <1>4 DEF Client, Connect, Receive

\* Nobody else touches what the measure of c reads.
LEMMA OthersKeepToDo ==
  ASSUME TypeOK, NEW d \in Connection, Handler(d) \/ Client(d) \/ Disconnect(d),
         NEW c \in Connection, c # d
  PROVE  ToDo(c)' = ToDo(c)
<1>1. /\ at' = at \/ \E p : at' = [at EXCEPT ![d] = p]
      /\ state' = state \/ \E s : state' = [state EXCEPT ![d] = s]
      /\ con_cls' = con_cls \/ \E b : con_cls' = [con_cls EXCEPT ![d] = b]
  <2>1. CASE RefuseMethod(d) \/ FirstCall(d) \/ answer_to_connection_noauth(d)
               \/ answer_to_connection_tls_auth(d) \/ Render(d)
    BY <2>1 DEF RefuseMethod, FirstCall, answer_to_connection_noauth,
       answer_to_connection_tls_auth, Respond, Render, Goto, client
  <2>2. CASE create_html_response(d) \/ create_response_from_file(d) \/ Decorate(d)
               \/ Validate(d)
    BY <2>2 DEF create_html_response, create_response_from_file, Decorate, Validate, Goto,
       client
  <2>3. CASE set_response_headers(d) \/ MHD_queue_response(d) \/ destroy_server_response(d)
    BY <2>3 DEF set_response_headers, MHD_queue_response, destroy_server_response, Goto,
       client
  <2>4. CASE Returned(d) \/ Sent(d) \/ Disconnect(d)
    BY <2>4 DEF Returned, Sent, Disconnect, Close, Forget, Goto
  <2>5. CASE Connect(d) \/ Progress(d) \/ \E r \in Request : Receive(d, r)
    BY <2>5 DEF Connect, Progress, Receive
  <2>6. QED
    BY <2>1, <2>2, <2>3, <2>4, <2>5 DEF Handler, Client
<1>2. at'[c] = at[c] /\ state'[c] = state[c] /\ con_cls'[c] = con_cls[c]
  BY <1>1 DEF TypeOK
<1>3. QED
  BY <1>2 DEF ToDo

\* A request ends within twelve steps of its connection, whatever fails and whatever the
\* others do, unless the process ends before: the handler asks for nothing twice and
\* waits for nobody, and a yes has a page behind it (answer_to_connection_noauth,
\* answer_to_connection_tls_auth, perform_response).
THEOREM RequestsEndSoon ==
  Spec => [][\A c \in Connection : ToDo(c) \in 0 .. 12 /\ Nearer(c)]_vars
<1>1. IInv /\ FirstCalled /\ [Next]_vars =>
        [\A c \in Connection : ToDo(c) \in 0 .. 12 /\ Nearer(c)]_vars
  <2> SUFFICES ASSUME IInv, FirstCalled, Next, vars' # vars, NEW c \in Connection
               PROVE  Nearer(c)
    BY ToDoBounded
  <2>1. CASE Handler(c) \/ Client(c) \/ Disconnect(c)
    BY <2>1, HandlerNearer, ClientNearer DEF Nearer
  <2>2. ASSUME ~(Handler(c) \/ Client(c) \/ Disconnect(c)),
               NEW d \in Connection, Handler(d) \/ Client(d) \/ Disconnect(d)
        PROVE  Nearer(c)
    BY <2>2, OthersKeepToDo DEF Nearer, IInv
  <2>3. ASSUME ~(Handler(c) \/ Client(c) \/ Disconnect(c)), StopRequested \/ MHD_stop_daemon
        PROVE  Nearer(c)
    <3>1. ToDo(c)' = ToDo(c)
      BY <2>3 DEF StopRequested, MHD_stop_daemon, client, ToDo
    <3>2. QED
      BY <2>3, <3>1 DEF Nearer
  <2>4. QED
    BY <2>1, <2>2, <2>3 DEF Next, Terminated
<1>2. Init => FirstCalled
  BY DEF Init, FirstCalled
<1>3. IInv /\ FirstCalled /\ [Next]_vars => FirstCalled'
  BY FirstCalledKept DEF IInv
<1>4. QED
  BY <1>1, <1>2, <1>3, Invariance, PTL DEF Spec

-----------------------------------------------------------------------------
(* Server implements Exchange: a request is asked when its headers are in,  *)
(* replied to when the handler's yes reaches libmicrohttpd, and finished    *)
(* when its page is out or its connection closes.  The steps inside the     *)
(* handler are not seen.                                                    *)

LEMMA InitRefines == Init => E!Init
<1> SUFFICES ASSUME Init PROVE E!Init
  OBVIOUS
<1>1. Status = "up"
  BY DEF Init, Status
<1>2. Dues \in [Request -> SUBSET Page]
  <2>1. ASSUME NEW r \in Request PROVE Due(r) \in SUBSET Page
    <3>1. "ask_authentication" \in Page
      BY DEF Page
    <3>2. access \in {"noauth", "tls_auth"}
      BY ServerAssumption DEF Init
    <3>3. CASE access = "noauth"
      BY <3>3, RoutesArePages DEF Due
    <3>4. CASE access = "tls_auth"
      <4>1. Due(r) \subseteq {"ask_authentication", secure_route_coordinator(r)}
        <5>1. r.peer \in {"none", "session", "untrusted", "trusted"}
          BY ServerAssumption
        <5>2. QED
          BY <3>4, <5>1 DEF Due
      <4>2. QED
        BY <3>1, <4>1, RoutesArePages
    <3>5. QED
      BY <3>2, <3>3, <3>4
  <2>2. QED
    BY <2>1 DEF Dues
<1>3. Phases = [c \in Connection |-> "ready"] /\ Pages = [c \in Connection |-> "none"]
  BY DEF Init, Phases, Pages, PhaseOf
<1>4. request \in [Connection -> Request]
  BY NoRequestIsRequest DEF Init
<1>5. QED
  BY <1>1, <1>2, <1>3, <1>4 DEF E!Init

LEMMA DuesKept == ASSUME access' = access PROVE Dues' = Dues
  BY DueKept DEF Dues

LEMMA PhaseOfs ==
  /\ PhaseOf("free") = "ready" /\ PhaseOf("waiting") = "ready"
  /\ PhaseOf("headers") = "pending" /\ PhaseOf("body") = "pending"
  /\ PhaseOf("complete") = "pending"
  /\ PhaseOf("sending") = "replied" /\ PhaseOf("closed") = "closed"
  BY DEF PhaseOf

\* A step inside the handler for c.
LEMMA Inside ==
  ASSUME IInv, NEW c \in Connection, UNCHANGED <<daemon, access, state, request>>,
         at[c] # "out", \A d \in Connection \ {c} : mhd'[d] = mhd[d]
  PROVE  UNCHANGED E!vars
<1>1. state[c] # "sending"
  BY DEF IInv, Sound, Placed, Answering, TypeOK
<1>2. Pages' = Pages
  BY <1>1 DEF Pages
<1>3. Dues' = Dues /\ Phases' = Phases /\ Status' = Status
  BY DuesKept DEF Phases, Status
<1>4. QED
  BY <1>2, <1>3 DEF E!vars

\* The request of c moves on while no page of it is out, before or after.
LEMMA Moved ==
  ASSUME IInv, NEW c \in Connection, NEW s, access' = access, daemon' = daemon,
         state' = [state EXCEPT ![c] = s], state[c] # "sending", s # "sending",
         mhd' = mhd
  PROVE  /\ Pages' = Pages /\ Dues' = Dues /\ Status' = Status
         /\ Phases' = [Phases EXCEPT ![c] = PhaseOf(s)]
<1>1. state \in [Connection -> {"free", "waiting", "headers", "body", "complete",
                                "sending", "closed"}]
  BY DEF IInv, TypeOK
<1>2. Pages' = Pages
  BY <1>1 DEF Pages
<1>3. Phases' = [Phases EXCEPT ![c] = PhaseOf(s)]
  BY <1>1 DEF Phases
<1>4. QED
  BY <1>2, <1>3, DuesKept DEF Status

\* The request of c is over.
LEMMA Over ==
  ASSUME IInv, NEW c \in Connection, NEW s \in {"waiting", "closed"}, Alive,
         state[c] \in {"waiting", "headers", "body", "complete", "sending"},
         s = "waiting" => state[c] = "sending", daemon' = daemon,
         state' = [state EXCEPT ![c] = s], Forget(c),
         \A d \in Connection \ {c} : mhd'[d] = mhd[d]
  PROVE  E!Finish(c)
<1>1. /\ state \in [Connection -> {"free", "waiting", "headers", "body", "complete",
                                   "sending", "closed"}]
      /\ access' = access /\ Status = "up"
  BY DEF IInv, TypeOK, Forget, Alive, Status
<1>2. Pages' = [Pages EXCEPT ![c] = "none"]
  BY <1>1 DEF Pages
<1>3. Phases' = [Phases EXCEPT ![c] = PhaseOf(s)]
  BY <1>1 DEF Phases
<1>4. Phases[c] = PhaseOf(state[c])
  BY DEF Phases
<1>5. Dues' = Dues /\ Status' = Status
  BY <1>1, DuesKept DEF Status
<1>6. \E r \in Request : request' = [request EXCEPT ![c] = r]
  BY NoRequestIsRequest DEF Forget
<1>7. \E p \in {"ready", "closed"} :
        /\ p = "ready" => Phases[c] = "replied"
        /\ Phases' = [Phases EXCEPT ![c] = p]
  BY <1>3, <1>4, PhaseOfs
<1>8. Phases[c] # "closed"
  BY <1>4, PhaseOfs
<1>9. QED
  BY <1>1, <1>2, <1>5, <1>6, <1>7, <1>8 DEF E!Finish

LEMMA HandlerRefines ==
  ASSUME IInv, NEW c \in Connection, Handler(c) PROVE E!Next \/ UNCHANGED E!vars
<1>t. TypeOK
  BY Known
<1>1. CASE RefuseMethod(c)
  <2>1. UNCHANGED <<daemon, access, state, request, mhd>>
    BY <1>1 DEF RefuseMethod, client
  <2>2. QED
    BY <2>1, DuesKept DEF E!vars, Status, Phases, Pages
<1>2. CASE FirstCall(c)
  <2>1. UNCHANGED <<daemon, access, state, request, mhd>>
    BY <1>2 DEF FirstCall
  <2>2. QED
    BY <2>1, DuesKept DEF E!vars, Status, Phases, Pages
<1>3. CASE answer_to_connection_noauth(c)
  <2>1. UNCHANGED <<daemon, access, state, request, mhd>>
    BY <1>3 DEF answer_to_connection_noauth, Respond, client
  <2>2. QED
    BY <2>1, DuesKept DEF E!vars, Status, Phases, Pages
<1>4. CASE Render(c) \/ answer_to_connection_tls_auth(c)
  <2>1. UNCHANGED <<access, state, request, mhd>> /\ Alive
        /\ (daemon' = daemon \/ daemon' = "dead")
    BY <1>4 DEF Render, answer_to_connection_tls_auth, Called, Respond, client, Outcome
  <2>2. CASE daemon' = daemon
    BY <2>1, <2>2, DuesKept DEF E!vars, Status, Phases, Pages
  <2>3. CASE daemon' = "dead"
    <3>1. Status = "up" /\ Status' = "dead"
      BY <2>1, <2>3 DEF Status, Alive
    <3>2. UNCHANGED <<Dues, Phases, request, Pages>>
      BY <2>1, DuesKept DEF Phases, Pages
    <3>3. E!Stop
      BY <3>1, <3>2 DEF E!Stop
    <3>4. QED
      BY <3>3 DEF E!Next
  <2>4. QED
    BY <2>1, <2>2, <2>3
<1>5. CASE create_html_response(c) \/ create_response_from_file(c)
  <2>1. UNCHANGED <<daemon, access, state, request>> /\ at[c] # "out"
    BY <1>5 DEF create_html_response, create_response_from_file, client
  <2>2. \E page : NewResponse(c, page)
    BY <1>5 DEF create_html_response, create_response_from_file, FstatFailed
  <2>3. \A d \in Connection \ {c} : mhd'[d] = mhd[d]
    BY <1>t, <2>2, KnownTypes DEF NewResponse
  <2>4. QED
    BY <2>1, <2>3, Inside
<1>6. CASE Decorate(c) \/ Validate(c) \/ set_response_headers(c) \/ MHD_queue_response(c)
             \/ destroy_server_response(c)
  <2>1. UNCHANGED <<daemon, access, state, request>> /\ at[c] # "out"
    BY <1>6 DEF Decorate, Validate, set_response_headers, MHD_queue_response,
       destroy_server_response, client
  <2>2. \A d \in Connection \ {c} : mhd'[d] = mhd[d]
    BY <1>6, <1>t, KnownTypes DEF Decorate, Validate, set_response_headers,
       MHD_queue_response, destroy_server_response, Take, DropOwn, Drop
  <2>3. QED
    BY <2>1, <2>2, Inside
<1>7. CASE Returned(c) /\ answer[c]
  <2>1. /\ at[c] = "return" /\ mhd[c].refs = 1 /\ state[c] \in {"headers", "body", "complete"}
        /\ mhd[c].page = route[c] /\ route[c] \in Due(request[c]) /\ Alive
        /\ request[c] \in Request
    BY <1>7, <1>t, Known DEF Returned, Counted, Placed, Paged, TypeOK
  <2>2. /\ state' = [state EXCEPT ![c] = "sending"]
        /\ UNCHANGED <<daemon, access, request, mhd>>
    BY <1>7, <1>t, <2>1 DEF Returned, TypeOK
  <2>3. /\ Phases' = [Phases EXCEPT ![c] = "replied"]
        /\ Pages' = [Pages EXCEPT ![c] = route[c]]
    BY <1>t, <2>1, <2>2, PhaseOfs DEF Phases, Pages, TypeOK
  <2>4. Phases[c] = "pending" /\ Status = "up" /\ Status' = Status /\ Dues' = Dues
        /\ Dues[request[c]] = Due(request[c])
    BY <2>1, <2>2, PhaseOfs, DuesKept DEF Phases, Status, Alive, Dues
  <2>5. E!Reply(c)
    BY <2>1, <2>2, <2>3, <2>4 DEF E!Reply
  <2>6. QED
    BY <2>5 DEF E!Next
<1>8. CASE Returned(c) /\ ~answer[c]
  <2>1. /\ state[c] \in {"headers", "body", "complete"} /\ Alive /\ Close(c)
    BY <1>8, Known DEF Returned, Placed
  <2>2. /\ state' = [state EXCEPT ![c] = "closed"] /\ Forget(c) /\ daemon' = daemon
        /\ mhd' = mhd
    BY <2>1 DEF Close
  <2>3. E!Finish(c)
    BY <2>1, <2>2, Over
  <2>4. QED
    BY <2>3 DEF E!Next
<1>9. QED
  BY <1>1, <1>2, <1>3, <1>4, <1>5, <1>6, <1>7, <1>8 DEF Handler

LEMMA ClientRefines ==
  ASSUME IInv, NEW c \in Connection, Client(c) \/ Disconnect(c)
  PROVE  E!Next \/ UNCHANGED E!vars
<1>t. TypeOK
  BY Known
<1>1. CASE Connect(c)
  <2>1. /\ state[c] = "free" /\ state' = [state EXCEPT ![c] = "waiting"]
        /\ UNCHANGED <<access, daemon, request, mhd>>
    BY <1>1 DEF Connect
  <2>w. PhaseOf("waiting") = "ready"
    BY PhaseOfs
  <2>m. /\ Pages' = Pages /\ Dues' = Dues /\ Status' = Status
        /\ Phases' = [Phases EXCEPT ![c] = PhaseOf("waiting")]
    BY <2>1, Moved
  <2>2. /\ Pages' = Pages /\ Dues' = Dues /\ Status' = Status
        /\ Phases' = [Phases EXCEPT ![c] = "ready"]
    BY <2>w, <2>m
  <2>3. Phases' = Phases
    BY <2>1, <2>2, PhaseOfs DEF Phases
  <2>4. QED
    BY <2>1, <2>2, <2>3 DEF E!vars
<1>2. CASE Progress(c)
  <2>1. PICK s \in {"body", "complete"} :
          /\ state[c] = "headers" /\ state' = [state EXCEPT ![c] = s]
          /\ UNCHANGED <<access, daemon, request, mhd>>
    BY <1>2 DEF Progress
  <2>2. PhaseOf(s) = "pending"
    BY PhaseOfs
  <2>3. /\ Pages' = Pages /\ Dues' = Dues /\ Status' = Status
        /\ Phases' = [Phases EXCEPT ![c] = PhaseOf(s)]
    BY <2>1, Moved
  <2>4. Phases' = Phases
    BY <2>1, <2>2, <2>3, PhaseOfs DEF Phases
  <2>5. QED
    BY <2>1, <2>3, <2>4 DEF E!vars
<1>3. ASSUME NEW r \in Request, Receive(c, r) PROVE E!Next
  <2>1. /\ state[c] = "waiting" /\ state' = [state EXCEPT ![c] = "headers"] /\ Alive
        /\ request' = [request EXCEPT ![c] = r] /\ UNCHANGED <<access, daemon, mhd>>
    BY <1>3 DEF Receive
  <2>w. PhaseOf("headers") = "pending"
    BY PhaseOfs
  <2>m. /\ Pages' = Pages /\ Dues' = Dues /\ Status' = Status
        /\ Phases' = [Phases EXCEPT ![c] = PhaseOf("headers")]
    BY <2>1, Moved
  <2>2. /\ Pages' = Pages /\ Dues' = Dues /\ Status' = Status
        /\ Phases' = [Phases EXCEPT ![c] = "pending"]
    BY <2>w, <2>m
  <2>3. Phases[c] = "ready" /\ Status = "up"
    BY <2>1, PhaseOfs DEF Phases, Status, Alive
  <2>4. E!Ask(c)
    BY <2>1, <2>2, <2>3 DEF E!Ask
  <2>5. QED
    BY <2>4 DEF E!Next
<1>4. CASE Sent(c) \/ Disconnect(c)
  <2>1. PICK s \in {"waiting", "closed"} :
          /\ Alive /\ state[c] \in {"waiting", "headers", "body", "complete", "sending"}
          /\ s = "waiting" => state[c] = "sending"
          /\ state' = [state EXCEPT ![c] = s] /\ Forget(c) /\ daemon' = daemon
          /\ Drop(c) \/ UNCHANGED mhd
    BY <1>4 DEF Sent, Disconnect, Close
  <2>2. \A d \in Connection \ {c} : mhd'[d] = mhd[d]
    BY <1>t, <2>1, KnownTypes DEF Drop
  <2>3. E!Finish(c)
    BY <2>1, <2>2, Over
  <2>4. QED
    BY <2>3 DEF E!Next
<1>5. QED
  BY <1>1, <1>2, <1>3, <1>4 DEF Client

LEMMA DaemonRefines ==
  ASSUME IInv, StopRequested \/ MHD_stop_daemon \/ UNCHANGED vars
  PROVE  E!Next \/ UNCHANGED E!vars
<1>1. UNCHANGED <<access, state, request, mhd>>
  BY DEF StopRequested, MHD_stop_daemon, vars, client
<1>2. UNCHANGED <<Dues, Phases, request, Pages>>
  BY <1>1, DuesKept DEF Phases, Pages
<1>3. CASE StopRequested \/ UNCHANGED vars
  <2>1. Status' = Status
    BY <1>3 DEF StopRequested, vars, Status
  <2>2. QED
    BY <1>2, <2>1 DEF E!vars
<1>4. CASE MHD_stop_daemon
  <2>1. /\ Status = "up" /\ Status' = "down"
        /\ \A c \in Connection : state[c] \in {"free", "closed"}
    BY <1>4 DEF MHD_stop_daemon, Status
  <2>2. \A c \in Connection : Phases[c] \in {"ready", "closed"}
    BY <2>1, PhaseOfs DEF Phases
  <2>3. E!Stop
    BY <1>2, <2>1, <2>2 DEF E!Stop
  <2>4. QED
    BY <2>3 DEF E!Next
<1>5. QED
  BY <1>3, <1>4

\* Server implements Exchange: each request gets at most one page, one of those due
\* to it, and the daemon goes down with none open.
THEOREM ExchangeImplemented == Spec => ImplementsExchange
<1>1. IInv /\ [Next]_vars => [E!Next]_E!vars
  BY HandlerRefines, ClientRefines, DaemonRefines DEF Next, Terminated
<1>2. QED
  BY InitRefines, <1>1, Invariance, PTL DEF Spec, ImplementsExchange, E!Spec

===============================================================================
