-------------------------------- MODULE Server --------------------------------
(***************************************************************************)
(* The HTTP server of lib/oauth_server.c: one libmicrohttpd daemon with a  *)
(* thread per connection.  A request reaches the handler the daemon was    *)
(* started with, answer_to_connection_noauth (server_noauth.h) or          *)
(* answer_to_connection_tls_auth (server_tls.h), which picks a route       *)
(* (server_endpoints.h); the route builds a server_response_t              *)
(* (response_piaabo.h) around an MHD_Response and queues it.               *)
(* libmicrohttpd owns the connections: it calls the handler once when the  *)
(* headers are in, once for each piece of the body and once when the       *)
(* request is complete, takes a response only in the first and the last of *)
(* these, and counts the references of a response.  A log_fatal or a NULL  *)
(* pointer that is followed in a thread ends the process.  Exchange says   *)
(* what all this is for.                                                   *)
(*                                                                         *)
(* A definition marked "Fault:" is a wrong version of the one below it; no *)
(* behaviour of this module uses it, it is there to be put in its place.   *)
(***************************************************************************)
EXTENDS Integers, FiniteSets

CONSTANTS
  Connection,
  Request,       \* [method, url, cookie, body, peer]: the requests clients send;
                 \* peer: "none" without a TLS session, "session" without a
                 \* certificate, else whether its certificate can be trusted
  Sends,         \* [Access -> SUBSET Request]: what clients send to each handler
  Access,        \* the handlers the daemon may be started with
  MayFail,       \* which calls into the system may fail
  RequestBound   \* [Connection -> Nat]: requests per connection

Failures == {"certificate", "template", "open", "fstat", "create", "header",
             "queue"}

ASSUME ServerAssumption ==
  /\ Request # {} /\ Access \subseteq {"noauth", "tls_auth"}
  /\ Request \subseteq [method : {"GET", "POST"},
                        url : {"/favicon.ico", "/logging", "/oauth2_landing",
                               "/home", "/"},
                        cookie : BOOLEAN, body : BOOLEAN,
                        peer : {"none", "session", "untrusted", "trusted"}]
  /\ Sends \in [Access -> SUBSET Request]
  /\ MayFail \subseteq Failures
  /\ RequestBound \in [Connection -> Nat]

VARIABLES
  access,      \* the handler the daemon was started with
  daemon,      \* "up", "stopping", "down", or "dead": the process has ended
  state,       \* where libmicrohttpd has each connection
  con_cls,     \* is *con_cls set?
  request,     \* the request being served
  begun,       \* requests begun on the connection
  route,       \* the route that answers the request, or "none"
  at,          \* where the connection's thread is in the handler, or "out"
  response,    \* the server_response_t: is it live, mhd_result, queued headers
  mhd,         \* the MHD_Response: references, page, headers, and the headers it
               \* was asked to take and refused (history)
  answer,      \* temp_result of perform_response, what the handler returns
  fds,         \* open descriptors of the connection's thread
  orphans      \* descriptors opened for a response that could not be created

client  == <<access, state, con_cls, request, begun>>
handler == <<route, response, answer, fds, orphans>>
vars    == <<daemon, client, at, handler, mhd>>

NoResponse    == [live |-> FALSE, result |-> TRUE, headers |-> {}]
NoMHDResponse == [refs |-> 0, page |-> "none", headers |-> {}, refused |-> {}]
NoRequest     == CHOOSE r \in Request : TRUE

CanFail(what) == what \in MayFail

\* The outcomes of a call that may fail.
Outcome(what) == IF CanFail(what) THEN {TRUE, FALSE} ELSE {TRUE}

\* The thread goes on to p in the handler.
Goto(c, p) == at' = [at EXCEPT ![c] = p]

Alive == daemon \in {"up", "stopping"}

\* route_coordinator: only the favicon depends on the method.
route_coordinator(r) ==
  CASE r.method = "GET" /\ r.url = "/favicon.ico" -> "favicon_route"
    [] r.url = "/logging"                         -> "logging_route"
    [] r.url = "/oauth2_landing"                  -> "oauth2_landing"
    [] OTHER                                      -> "default_route"

\* secure_route_coordinator, for clients that present a certificate.
secure_route_coordinator(r) ==
  CASE r.method = "GET" /\ r.url = "/favicon.ico" -> "favicon_route"
    [] r.url = "/home"                            -> "home"
    [] OTHER                                      -> "default_route"

-----------------------------------------------------------------------------
(* References of an MHD_Response, which knows the route whose page it is; the *)
(* last one to go closes the file of the favicon.                             *)

\* Descriptors closed when a reference to m is dropped.
ClosedWith(m) == IF m.refs = 1 /\ m.page = "favicon_route" THEN 1 ELSE 0

Drop(c) ==
  /\ mhd' = [mhd EXCEPT ![c] =
       IF mhd[c].refs = 1 THEN NoMHDResponse ELSE [mhd[c] EXCEPT !.refs = @ - 1]]
  /\ fds' = [fds EXCEPT ![c] = @ - ClosedWith(mhd[c])]

Init ==
  /\ access \in Access /\ daemon = "up"
  /\ state = [c \in Connection |-> "free"]
  /\ con_cls = [c \in Connection |-> FALSE]
  /\ request = [c \in Connection |-> NoRequest]
  /\ begun = [c \in Connection |-> 0]
  /\ route = [c \in Connection |-> "none"]
  /\ at = [c \in Connection |-> "out"]
  /\ response = [c \in Connection |-> NoResponse]
  /\ mhd = [c \in Connection |-> NoMHDResponse]
  /\ answer = [c \in Connection |-> TRUE]
  /\ fds = [c \in Connection |-> 0] /\ orphans = [c \in Connection |-> 0]

-----------------------------------------------------------------------------
(* libmicrohttpd and the clients. *)

\* on_client_connect logs the address and lets everyone in.
Connect(c) ==
  /\ daemon = "up" /\ state[c] = "free"
  /\ state' = [state EXCEPT ![c] = "waiting"]
  /\ UNCHANGED <<access, daemon, con_cls, request, begun, at, handler, mhd>>

\* The headers of a request are in.
Receive(c, r) ==
  /\ Alive /\ state[c] = "waiting" /\ begun[c] < RequestBound[c]
  /\ r \in Sends[access]
  /\ state' = [state EXCEPT ![c] = "headers"]
  /\ request' = [request EXCEPT ![c] = r]
  /\ begun' = [begun EXCEPT ![c] = @ + 1]
  /\ UNCHANGED <<access, daemon, con_cls, at, handler, mhd>>

\* A piece of the body is in, or the request is complete.
Progress(c) ==
  /\ Alive /\ at[c] = "out"
  /\ state[c] = "headers" /\ con_cls[c]
  /\ state' = [state EXCEPT ![c] = IF request[c].body THEN "body" ELSE "complete"]
  /\ UNCHANGED <<access, daemon, con_cls, request, begun, at, handler, mhd>>

\* The request is over, and what it held is out of reach: on_request_completed.
Forget(c) ==
  /\ con_cls' = [con_cls EXCEPT ![c] = FALSE]
  /\ request' = [request EXCEPT ![c] = NoRequest]
  /\ route' = [route EXCEPT ![c] = "none"]
  /\ UNCHANGED <<access, begun, response, answer, orphans>>

\* The response is out, and the next request may come.
Sent(c) ==
  /\ Alive /\ state[c] = "sending"
  /\ Drop(c) /\ Forget(c)
  /\ state' = [state EXCEPT ![c] = "waiting"]
  /\ UNCHANGED <<daemon, at>>

\* The connection ends: the handler said MHD_NO, the client went away, fifteen
\* seconds passed without activity or the daemon stops.  A queued response is
\* dropped.
Close(c) ==
  /\ state' = [state EXCEPT ![c] = "closed"]
  /\ Forget(c)
  /\ IF state[c] = "sending" THEN Drop(c) ELSE UNCHANGED <<mhd, fds>>
  /\ UNCHANGED daemon

Disconnect(c) ==
  /\ Alive /\ at[c] = "out" /\ state[c] \in {"waiting", "headers", "body", "sending"}
  /\ Close(c) /\ UNCHANGED at

\* The handler's result reaches libmicrohttpd.
Returned(c) ==
  /\ Alive /\ at[c] = "return"
  /\ Goto(c, "out")
  /\ IF answer[c]
       THEN /\ state' = [state EXCEPT ![c] = IF mhd[c].refs > 0 THEN "sending" ELSE @]
            /\ UNCHANGED <<access, daemon, con_cls, request, begun, handler, mhd>>
       ELSE Close(c)

\* run_server: getchar returns and the daemon is told to stop.
StopRequested ==
  /\ daemon = "up" /\ daemon' = "stopping"
  /\ UNCHANGED <<client, at, handler, mhd>>

\* MHD_stop_daemon waits for every connection's thread.
MHD_stop_daemon ==
  /\ daemon = "stopping" /\ \A c \in Connection : state[c] \in {"free", "closed"}
  /\ daemon' = "down"
  /\ UNCHANGED <<client, at, handler, mhd>>

-----------------------------------------------------------------------------
(* The handler, up to the creation of a response. *)

\* Fault: every method is served.
MethodAllowed_Any(r) == access = "tls_auth" => r.method \in {"GET", "POST"}

\* answer_to_connection_tls_auth serves GET only, and says so before all else.
MethodAllowed(r) == access = "tls_auth" => r.method = "GET"

\* libmicrohttpd calls the handler for the request of c.
Called(c) ==
  /\ Alive /\ at[c] = "out"
  /\ \/ state[c] = "headers" /\ ~con_cls[c]
     \/ state[c] \in {"body", "complete"}

RefuseMethod(c) ==
  /\ Called(c) /\ ~MethodAllowed(request[c])
  /\ answer' = [answer EXCEPT ![c] = FALSE]
  /\ Goto(c, "return")
  /\ UNCHANGED <<daemon, client, route, response, fds, orphans, mhd>>

\* Either handler, the first call: *con_cls marks the request.
FirstCall(c) ==
  /\ Called(c) /\ ~con_cls[c] /\ MethodAllowed(request[c])
  /\ con_cls' = [con_cls EXCEPT ![c] = TRUE]
  /\ UNCHANGED <<access, daemon, state, request, begun, at, handler, mhd>>

\* The route r answers; ask_authentication has its page at hand.
Respond(c, r) ==
  /\ route' = [route EXCEPT ![c] = r]
  /\ Goto(c, CASE r = "favicon_route" -> "open"
               [] r = "ask_authentication" -> "create"
               [] OTHER -> "render")
  /\ UNCHANGED <<daemon, client, response, answer, fds, orphans, mhd>>

\* Any later call answers, whether or not the body is in.
answer_to_connection_noauth(c) ==
  /\ Called(c) /\ con_cls[c] /\ access = "noauth"
  /\ Respond(c, route_coordinator(request[c]))

\* get_client_certificate: what the client presents, or NULL if a call of GnuTLS
\* fails.  Of the verification only the return code is tested, which says that there
\* is a chain to verify; client_cert_status, which says whether it can be trusted, is
\* never read.
get_client_certificate(peer) ==
  IF peer \in {"untrusted", "trusted"}
    THEN {"given"} \cup {"NULL" : w \in MayFail \cap {"certificate"}}
    ELSE {"NULL"}

\* Fault: a client without a certificate is served like the others.
RouteOf_AnyClient(r, cert) == IF cert \in {"given", "NULL"} THEN secure_route_coordinator(r)
                                                          ELSE "ask_authentication"

RouteOf(r, cert) == IF cert = "given" THEN secure_route_coordinator(r)
                                      ELSE "ask_authentication"

\* get_tls_session follows what MHD_get_connection_info returns, which is NULL when
\* there is no TLS session: the test for a missing session comes too late.  The
\* certificate and the names taken from it are in route_data, which goes when the
\* handler returns: nothing frees them.
answer_to_connection_tls_auth(c) ==
  /\ Called(c) /\ con_cls[c] /\ access = "tls_auth" /\ MethodAllowed(request[c])
  /\ IF request[c].peer = "none"
       THEN daemon' = "dead" /\ UNCHANGED <<client, at, handler, mhd>>
       ELSE \E cert \in get_client_certificate(request[c].peer) :
              Respond(c, RouteOf(request[c], cert))

\* load_html_template; a template that cannot be read leaves a NULL pointer.  The
\* module Template has the steps, and what else may go wrong in them.
Render(c) ==
  /\ Alive /\ at[c] = "render"
  /\ \E ok \in Outcome("template") :
       /\ Goto(c, IF ok THEN "create" ELSE "render")
       /\ daemon' = IF ok THEN daemon ELSE "dead"
  /\ UNCHANGED <<client, handler, mhd>>

\* The server_response_t, with an MHD_Response of this page or none.
NewResponse(c, page) ==
  /\ response' = [response EXCEPT ![c] =
                    [live |-> TRUE, result |-> page # "none", headers |-> {}]]
  /\ mhd' = [mhd EXCEPT ![c] =
       IF page = "none" THEN NoMHDResponse
       ELSE [refs |-> 1, page |-> page, headers |-> {}, refused |-> {}]]

create_html_response(c) ==
  /\ Alive /\ at[c] = "create"
  /\ \E ok \in Outcome("create") : NewResponse(c, IF ok THEN route[c] ELSE "none")
  /\ Goto(c, "decorate")
  /\ UNCHANGED <<daemon, client, route, answer, fds, orphans>>

\* Fault: the descriptor fstat refused is kept.
FstatFailed_KeepOpen(c) ==
  NewResponse(c, "none") /\ fds' = [fds EXCEPT ![c] = @ + 1] /\ UNCHANGED orphans

\* Fault: it is closed once more when the handler is done with it.
FstatFailed_CloseTwice(c) ==
  NewResponse(c, "none") /\ fds' = [fds EXCEPT ![c] = @ - 1] /\ UNCHANGED orphans

\* The file is open but cannot be read: it is closed again.
FstatFailed(c) == NewResponse(c, "none") /\ UNCHANGED <<fds, orphans>>

\* favicon_route: open, fstat, MHD_create_response_from_fd_at_offset64.  The
\* descriptor stays open if the last one fails.
create_response_from_file(c) ==
  /\ Alive /\ at[c] = "open"
  /\ \/ CanFail("open") /\ NewResponse(c, "none") /\ UNCHANGED <<fds, orphans>>
     \/ CanFail("fstat") /\ FstatFailed(c)
     \/ /\ CanFail("create") /\ NewResponse(c, "none")
        /\ fds' = [fds EXCEPT ![c] = @ + 1]
        /\ orphans' = [orphans EXCEPT ![c] = @ + 1]
     \/ /\ NewResponse(c, "favicon_route")
        /\ fds' = [fds EXCEPT ![c] = @ + 1] /\ UNCHANGED orphans
  /\ Goto(c, "perform")
  /\ UNCHANGED <<daemon, client, route, answer>>

\* MHD_add_response_header: the MHD_Response takes the header or refuses it.
Take(c, name, ok) ==
  mhd' = [mhd EXCEPT ![c].headers = IF ok THEN @ \cup {name} ELSE @,
                     ![c].refused = IF ok THEN @ ELSE @ \cup {name}]

\* logging_route queues a Link header; oauth2_landing adds a cookie to the
\* MHD_Response itself, whose failure goes unnoticed.
Decorate(c) ==
  /\ Alive /\ at[c] = "decorate"
  /\ response' = [response EXCEPT ![c].headers =
                    IF route[c] = "logging_route" THEN @ \cup {"Link"} ELSE @]
  /\ IF route[c] = "oauth2_landing" /\ ~request[c].cookie /\ mhd[c].refs > 0
       THEN \E ok \in Outcome("header") : Take(c, "Set-Cookie", ok)
       ELSE UNCHANGED mhd
  /\ Goto(c, "perform")
  /\ UNCHANGED <<daemon, client, route, answer, fds, orphans>>

-----------------------------------------------------------------------------
(* perform_response. *)

\* Fault: the content type is dropped.
WithContentType_Not(h) == h \ {"Content-Type"}

WithContentType(h) == h \cup {"Content-Type"}

Validate(c) ==
  /\ Alive /\ at[c] = "perform"
  /\ IF response[c].result
       THEN /\ response' = [response EXCEPT ![c].headers = WithContentType(@)]
            /\ Goto(c, "headers") /\ UNCHANGED answer
       ELSE /\ answer' = [answer EXCEPT ![c] = FALSE]
            /\ Goto(c, "destroy") /\ UNCHANGED response
  /\ UNCHANGED <<daemon, client, route, mhd, fds, orphans>>

\* A header MHD refuses is lost; mhd_result notes it and nobody reads the note.
\* No route adds a footer.
set_response_headers(c) ==
  /\ Alive /\ at[c] = "headers"
  /\ \E lost \in SUBSET response[c].headers :
       /\ lost # {} => CanFail("header")
       /\ mhd' = [mhd EXCEPT ![c].headers = @ \cup (response[c].headers \ lost),
                             ![c].refused = @ \cup lost]
       /\ response' = [response EXCEPT ![c].result = lost = {}]
  /\ Goto(c, "queue")
  /\ UNCHANGED <<daemon, client, route, answer, fds, orphans>>

\* Fault: a refused response is reported as queued.
TempResult_AlwaysYes(accepted) == accepted \in BOOLEAN

TempResult(accepted) == accepted

\* MHD_queue_response takes a reference, unless the body is still coming in.
MHD_queue_response(c) ==
  /\ Alive /\ at[c] = "queue"
  /\ \E ok \in Outcome("queue") :
       LET accepted == ok /\ state[c] = "complete"
       IN /\ mhd' = [mhd EXCEPT ![c].refs = IF accepted THEN @ + 1 ELSE @]
          /\ answer' = [answer EXCEPT ![c] = TempResult(accepted)]
          /\ response' = [response EXCEPT ![c].result = @ /\ accepted]
  /\ Goto(c, "destroy")
  /\ UNCHANGED <<daemon, client, route, fds, orphans>>

\* Fault: the MHD_Response is not destroyed with the server_response_t.
DropOwn_Forget(c) == UNCHANGED <<mhd, fds>>

\* The handler's reference to the MHD_Response, if there is one.
DropOwn(c) == IF mhd[c].refs = 0 THEN UNCHANGED <<mhd, fds>> ELSE Drop(c)

destroy_server_response(c) ==
  /\ Alive /\ at[c] = "destroy"
  /\ DropOwn(c)
  /\ response' = [response EXCEPT ![c] = NoResponse]
  /\ Goto(c, "return")
  /\ UNCHANGED <<daemon, client, route, answer, orphans>>

-----------------------------------------------------------------------------

\* A thread in the handler runs on; libmicrohttpd calls it when it is due.
Handler(c) ==
  \/ RefuseMethod(c) \/ FirstCall(c)
  \/ answer_to_connection_noauth(c) \/ answer_to_connection_tls_auth(c)
  \/ Render(c) \/ create_html_response(c) \/ create_response_from_file(c)
  \/ Decorate(c) \/ Validate(c) \/ set_response_headers(c) \/ MHD_queue_response(c)
  \/ destroy_server_response(c) \/ Returned(c)

Client(c) == Connect(c) \/ Progress(c) \/ (\E r \in Request : Receive(c, r)) \/ Sent(c)

\* The process has ended, or the daemon has.
Terminated == ~Alive /\ UNCHANGED vars

Next ==
  \/ \E c \in Connection : Handler(c) \/ Client(c) \/ Disconnect(c)
  \/ StopRequested \/ MHD_stop_daemon
  \/ Terminated

\* Threads run, and MHD_OPTION_CONNECTION_TIMEOUT ends a connection on which
\* nothing happens; a stopping daemon closes its connections the same way.
Fairness ==
  /\ \A c \in Connection : WF_vars(Handler(c)) /\ WF_vars(Disconnect(c))
  /\ WF_vars(MHD_stop_daemon)

Spec == Init /\ [][Next]_vars /\ Fairness

-----------------------------------------------------------------------------
(* Properties. *)

Page == {"favicon_route", "default_route", "logging_route", "oauth2_landing",
         "home", "ask_authentication"}

TypeOK ==
  /\ access \in Access /\ daemon \in {"up", "stopping", "down", "dead"}
  /\ state \in [Connection -> {"free", "waiting", "headers", "body", "complete",
                               "sending", "closed"}]
  /\ con_cls \in [Connection -> BOOLEAN]
  /\ request \in [Connection -> Request]
  /\ begun \in [Connection -> Nat] /\ \A c \in Connection : begun[c] <= RequestBound[c]
  /\ route \in [Connection -> {"none"} \cup Page]
  /\ at \in [Connection -> {"out", "open", "render", "create", "decorate", "perform",
                            "headers", "queue", "destroy", "return"}]
  /\ response \in [Connection -> [live : BOOLEAN, result : BOOLEAN,
                                  headers : SUBSET {"Link", "Content-Type"}]]
  /\ mhd \in [Connection -> [refs : 0 .. 2, page : {"none"} \cup Page,
                headers : SUBSET {"Link", "Content-Type", "Set-Cookie"},
                refused : SUBSET {"Link", "Content-Type", "Set-Cookie"}]]
  /\ answer \in [Connection -> BOOLEAN]
  /\ fds \in [Connection -> Nat] /\ orphans \in [Connection -> Nat]

\* Between two requests, and when a connection is closed, nothing of a response
\* is left: every path through perform_response gives up the handler's
\* reference, and MHD's goes when the response is out or the client is gone.
NothingLeft ==
  \A c \in Connection :
    at[c] = "out" /\ state[c] # "sending" => ~response[c].live /\ mhd[c].refs = 0

\* The response MHD is sending is not freed by destroy_server_response.
SendingHeld == \A c \in Connection : state[c] = "sending" => mhd[c].refs = 1

\* A descriptor is open exactly while a file response holds it, but for those
\* whose response could not be created (create_response_from_file).
DescriptorsOwned ==
  \A c \in Connection :
    fds[c] = orphans[c] + IF mhd[c].page = "favicon_route" THEN 1 ELSE 0

\* The headers a route sets.
Promised(c) ==
  CASE route[c] = "logging_route" -> {"Content-Type", "Link"}
    [] route[c] = "oauth2_landing" /\ ~request[c].cookie ->
         {"Content-Type", "Set-Cookie"}
    [] OTHER -> {"Content-Type"}

\* A response that is sent carries every header its route promised, but for
\* those libmicrohttpd refused, and no other route's (set_session_cookie,
\* add_response_header, perform_response).
HeadersOfRoute ==
  \A c \in Connection :
    state[c] = "sending" => mhd[c].headers = Promised(c) \ mhd[c].refused

\* May a request like r end the process?  It may where a page is rendered from a
\* template that cannot be read, and where a session is asked for that is not there.
Fatal(r) ==
  CASE access = "noauth" ->
         "template" \in MayFail /\ route_coordinator(r) # "favicon_route"
    [] access = "tls_auth" /\ r.method # "GET" -> FALSE
    [] access = "tls_auth" /\ r.method = "GET" ->
         \/ r.peer = "none"
         \/ /\ "template" \in MayFail /\ r.peer \in {"untrusted", "trusted"}
            /\ secure_route_coordinator(r) # "favicon_route"

\* When the process has died, some request that could kill it was past its first call:
\* none for the favicon, none of another method to the TLS handler, none of a client
\* that has a session and no certificate, and none that has not been answered yes to once
\* ends the connections of all the others, whatever fails (the routes,
\* get_tls_session, load_html_template).
DeathExplained ==
  daemon = "dead" => \E c \in Connection : con_cls[c] /\ Fatal(request[c])

\* The pages due to the client that sends r: with a session it may be asked for a
\* certificate, and with any certificate, trusted or not, it may get the secure page,
\* as the code has it (get_client_certificate).
Due(r) ==
  CASE access = "noauth" -> {route_coordinator(r)}
    [] access = "tls_auth" /\ (r.method # "GET" \/ r.peer = "none") -> {}
    [] access = "tls_auth" /\ r.method = "GET" /\ r.peer = "session" ->
         {"ask_authentication"}
    [] access = "tls_auth" /\ r.method = "GET" /\ r.peer \in {"untrusted", "trusted"} ->
         {"ask_authentication", secure_route_coordinator(r)}

\* Exchange's view of the daemon, of a connection in a state, and of all of them.
Status == IF daemon = "stopping" THEN "up" ELSE daemon

PhaseOf(s) ==
  CASE s \in {"free", "waiting"} -> "ready"
    [] s \in {"headers", "body", "complete"} -> "pending"
    [] s = "sending" -> "replied"
    [] s = "closed" -> "closed"

Phases == [c \in Connection |-> PhaseOf(state[c])]

Dues == [r \in Request |-> Due(r)]

Pages == [c \in Connection |-> IF state[c] = "sending" THEN mhd[c].page ELSE "none"]

E == INSTANCE Exchange WITH
  NoPage <- "none", status <- Status, due <- Dues, phase <- Phases, asked <- request,
  page <- Pages

\* What the server is for: each request gets at most one page, one of those that
\* are due to this client for this request, and the daemon goes down with no
\* request open.
ImplementsExchange == E!Spec

\* Every request comes to an end: the next one may come, or the connection is
\* closed, or the process is gone.
RequestsEnd ==
  \A c \in Connection :
    state[c] \in {"headers", "body", "complete"} ~>
      state[c] \in {"waiting", "closed"} \/ ~Alive

\* After getchar returns the daemon goes down, with every connection closed.
StopCompletes == daemon = "stopping" ~> ~Alive

\* "respond to request allowing access to the public methods": when nothing
\* fails, no request is turned away.
HandlerAnswers == \A c \in Connection : at[c] = "return" => answer[c]

\* "Request requires a valid SSL/TLS certificate!": the client that gets one of the
\* secure pages has a certificate that can be trusted.
ValidCertificateRequired ==
  access = "tls_auth" =>
    \A c \in Connection :
      state[c] = "sending" /\ mhd[c].page # "ask_authentication" =>
        request[c].peer = "trusted"

=============================================================================
