----------------------------- MODULE HttpRequest -----------------------------
(***************************************************************************)
(* The curl client of lib/include/requests_piaabo.h: threads that make     *)
(* requests through shared request_config_t objects.  A request takes the  *)
(* config's _request_mutex, sets the options of a curl handle one by one   *)
(* (walking the config's two queues with their generators), performs the   *)
(* transfer under the global curl_lock and cleans up.  The transfer itself *)
(* is libcurl's: it calls data_callback_text for each chunk it receives,   *)
(* all of them appending to one request_memory_t.                          *)
(*                                                                         *)
(* The queues are used as CursorList promises: a generator is an index.    *)
(*                                                                         *)
(* A definition marked "Fault:" is a wrong version of the one below it; no *)
(* behaviour of this module uses it, it is there to be put in its place.   *)
(***************************************************************************)
EXTENDS Integers, Sequences, FiniteSets

CONSTANTS
  Thread, Config, NoThread, NoConfig,
  Method,       \* _method of each config
  Provided,     \* the optional arguments of each config that are not NULL
  InitMayFail,  \* may curl_easy_init return NULL?
  RequestBound, \* calls of http_request per thread
  ArgBound,     \* headers, and parameters, added to each config
  ChunkBound    \* chunks of a transfer

OptionalArguments ==
  {"WRITEFUNCTION", "WRITEDATA", "HEADERFUNCTION", "HEADERDATA", "POSTFIELDS",
   "SSL_VERIFYPEER", "SSLCERTTYPE", "SSLCERT", "SSLKEY", "KEYPASSWD"}

ASSUME RequestAssumption ==
  /\ NoThread \notin Thread /\ NoConfig \notin Config
  /\ Method \in [Config -> {"GET", "POST"}]
  /\ Provided \in [Config -> SUBSET OptionalArguments]
  /\ InitMayFail \in BOOLEAN
  /\ RequestBound \in Nat /\ ChunkBound \in Nat
  /\ ArgBound \in [Config -> Nat]

VARIABLES
  life,             \* of each config: "none", "alive" or "freed"
  headers, params,  \* number of items in _headers and _params
  next,             \* yield_index of the two queues of each config
  list,             \* _headers_list: a pointer and the headers in the slist
  request_mutex,    \* holder of each _request_mutex
  curl_lock,        \* holder of the global curl_lock
  memory,           \* the request_memory_t: chunks held, chunks allocated for
  pc, config,       \* where each thread is in http_request, and on what
  option,           \* next configure_curl call of the script
  handle, query,    \* the thread's curl handle: options set, parameters in the URL
  received,         \* chunks received in the current transfer
  made,             \* calls of http_request begun
  served,           \* requests completed on each config (history)
  failed,           \* configs on which a request failed to start (history)
  fault             \* the config whose dangling list was used: nothing is known
                    \* of the program after that, and no step is taken

args   == <<life, headers, params, served, failed>>
locks  == <<request_mutex, curl_lock>>
curl   == <<option, handle, query>>
vars   == <<args, next, list, locks, memory, pc, config, curl, received, made, fault>>

\* The options of a handle that configure_curl can set.
Options == OptionalArguments \cup
             {"VERBOSE", "CUSTOMREQUEST", "URL", "HTTPHEADER", "POSTFIELDSIZE"}

\* The calls of configure_curl made by basic_get_query and basic_post_query.
basic_get_query ==
  <<"VERBOSE", "CUSTOMREQUEST", "URL", "WRITEFUNCTION", "WRITEDATA",
    "HEADERFUNCTION", "HEADERDATA", "HTTPHEADER", "SSL_VERIFYPEER",
    "SSLCERTTYPE", "SSLCERT", "SSLKEY", "KEYPASSWD">>

basic_post_query ==
  <<"VERBOSE", "CUSTOMREQUEST", "URL", "WRITEFUNCTION", "WRITEDATA",
    "HEADERFUNCTION", "HEADERDATA", "HTTPHEADER", "POSTFIELDS",
    "POSTFIELDSIZE", "SSL_VERIFYPEER", "SSLCERT", "SSLCERTTYPE", "SSLKEY",
    "KEYPASSWD">>

Script(c) == IF Method[c] = "GET" THEN basic_get_query ELSE basic_post_query

\* What a handle knows of an option: nothing, its own argument, or the other
\* one of the pair POSTFIELDS and POSTFIELDSIZE.
NewHandle == [o \in Options |-> "unset"]

\* configure_curl, for the options that read no queue.  CUSTOMREQUEST falls
\* through to VERBOSE; a NULL argument leaves the handle as it was; the body
\* goes to POSTFIELDSIZE and its size to POSTFIELDS.
configure_curl(h, o, c) ==
  CASE o = "CUSTOMREQUEST" -> [h EXCEPT ![o] = "own", !["VERBOSE"] = "own"]
    [] o = "POSTFIELDS" ->
         IF o \in Provided[c] THEN [h EXCEPT !["POSTFIELDSIZE"] = "body"] ELSE h
    [] o = "POSTFIELDSIZE" -> [h EXCEPT !["POSTFIELDS"] = "size"]
    [] OTHER -> IF o \in OptionalArguments \ Provided[c] THEN h
                                                         ELSE [h EXCEPT ![o] = "own"]

\* url_encode_string escapes the whole "key=value", its "=" included.
url_encode_string(pair) ==
  [pair EXCEPT !.separator = IF @ = "=" THEN "%3D" ELSE @]

\* The transfer a chunk belongs to.
Transfer(t) == <<t, made[t]>>

Busy(c) == \E t \in Thread : pc[t] # "idle" /\ config[t] = c

\* t runs its call to the place p.
Goto(t, p) == pc' = [pc EXCEPT ![t] = p]

-----------------------------------------------------------------------------
(* What the owner of a config does between requests. *)

Init ==
  /\ life = [c \in Config |-> "none"]
  /\ headers = [c \in Config |-> 0] /\ params = [c \in Config |-> 0]
  /\ next = [c \in Config |-> [headers |-> 0, params |-> 0]]
  /\ list = [c \in Config |-> [at |-> "null", items |-> <<>>]]
  /\ request_mutex = [c \in Config |-> NoThread] /\ curl_lock = NoThread
  /\ memory = [chunks |-> <<>>, room |-> 0]
  /\ pc = [t \in Thread |-> "idle"] /\ config = [t \in Thread |-> NoConfig]
  /\ option = [t \in Thread |-> 1] /\ handle = [t \in Thread |-> NewHandle]
  /\ query = [t \in Thread |-> <<>>]
  /\ received = [t \in Thread |-> 0] /\ made = [t \in Thread |-> 0]
  /\ served = [c \in Config |-> 0] /\ failed = {} /\ fault = NoConfig

\* Two empty queues, no list, a fresh mutex.
initialize_request_config(c) ==
  /\ life[c] = "none"
  /\ life' = [life EXCEPT ![c] = "alive"]
  /\ UNCHANGED <<headers, params, served, failed, next, list, locks, memory, pc, config,
                 curl, received, made, fault>>

\* The arguments are changed without taking _request_mutex, so that a caller
\* may change them only while no request uses the config.
MayAdd(c) == life[c] = "alive" /\ ~Busy(c)

add_request_header(c) ==
  /\ MayAdd(c) /\ headers[c] < ArgBound[c]
  /\ headers' = [headers EXCEPT ![c] = @ + 1]
  /\ UNCHANGED <<life, params, served, failed, next, list, locks, memory, pc, config,
                 curl, received, made, fault>>

add_request_param(c) ==
  /\ MayAdd(c) /\ params[c] < ArgBound[c]
  /\ params' = [params EXCEPT ![c] = @ + 1]
  /\ UNCHANGED <<life, headers, served, failed, next, list, locks, memory, pc, config,
                 curl, received, made, fault>>

\* curl_slist_free_all on _headers_list, if there is one; the pointer stays.
FreeList(c) ==
  CASE list[c].at = "null"  -> UNCHANGED <<list, fault>>
    [] list[c].at = "freed" -> fault' = c /\ UNCHANGED list
    [] OTHER -> /\ list' = [list EXCEPT ![c] = [at |-> "freed", items |-> <<>>]]
                /\ UNCHANGED fault

\* The queues go, the list goes if there is a pointer, the config goes.
free_request_config(c) ==
  /\ life[c] = "alive" /\ ~Busy(c)
  /\ life' = [life EXCEPT ![c] = "freed"]
  /\ FreeList(c)
  /\ UNCHANGED <<headers, params, served, failed, next, locks, memory, pc, config, curl,
                 received, made>>

-----------------------------------------------------------------------------
(* http_request, up to the transfer. *)

http_request(t, c) ==
  /\ pc[t] = "idle" /\ life[c] = "alive" /\ made[t] < RequestBound
  /\ made' = [made EXCEPT ![t] = @ + 1]
  /\ config' = [config EXCEPT ![t] = c]
  /\ Goto(t, "lock")
  /\ UNCHANGED <<args, next, list, locks, memory, curl, received, fault>>

\* Fault: the mutex is not waited for.
RequestUnlocked_Always(c) == c \in Config

RequestUnlocked(c) == request_mutex[c] = NoThread

LockRequest(t) ==
  /\ pc[t] = "lock" /\ RequestUnlocked(config[t])
  /\ request_mutex' = [request_mutex EXCEPT ![config[t]] = t]
  /\ Goto(t, "init")
  /\ UNCHANGED <<args, next, list, curl_lock, memory, config, curl, received,
                 made, fault>>

InitCurl(t) ==
  /\ pc[t] = "init"
  /\ option' = [option EXCEPT ![t] = 1]
  /\ handle' = [handle EXCEPT ![t] = NewHandle]
  /\ query' = [query EXCEPT ![t] = <<>>]
  /\ Goto(t, "configure")
  /\ UNCHANGED <<args, next, list, locks, memory, config, received, made, fault>>

\* curl_easy_init fails: the call returns, its mutex still locked.
InitFails(t) ==
  /\ InitMayFail /\ pc[t] = "init"
  /\ failed' = failed \cup {config[t]}
  /\ Goto(t, "idle")
  /\ UNCHANGED <<life, headers, params, served, next, list, locks, memory, config,
                 curl, received, made, fault>>

Option(t) == Script(config[t])[option[t]]

\* One call of configure_curl; the two queues are walked from their base.
Configure(t) ==
  /\ pc[t] = "configure" /\ option[t] <= Len(Script(config[t]))
  /\ Option(t) \notin {"URL", "HTTPHEADER"}
  /\ handle' = [handle EXCEPT ![t] = configure_curl(@, Option(t), config[t])]
  /\ option' = [option EXCEPT ![t] = @ + 1]
  /\ UNCHANGED <<args, next, list, locks, memory, pc, config, query, received,
                 made, fault>>

\* The walk is over: the option is set and the script goes on.
EndWalk(t) ==
  /\ handle' = [handle EXCEPT ![t] = configure_curl(@, Option(t), config[t])]
  /\ option' = [option EXCEPT ![t] = @ + 1]
  /\ Goto(t, "configure")

\* encode_get_params returns at once when there are no parameters.
StartWalk(t) ==
  LET c == config[t]
  IN /\ pc[t] = "configure" /\ option[t] <= Len(Script(c))
     /\ \/ /\ Option(t) = "URL" /\ params[c] > 0
           /\ next' = [next EXCEPT ![c].params = 0]
           /\ Goto(t, "params") /\ UNCHANGED <<option, handle>>
        \/ /\ Option(t) = "URL" /\ params[c] = 0
           /\ EndWalk(t) /\ UNCHANGED next
        \/ /\ Option(t) = "HTTPHEADER"
           /\ next' = [next EXCEPT ![c].headers = 0]
           /\ Goto(t, "headers") /\ UNCHANGED <<option, handle>>
     /\ UNCHANGED <<args, list, locks, memory, config, query, received, made, fault>>

\* Fault: the generator runs down.
yield_increment_Down == -1

\* queue_start_generator_up.
yield_increment == 1

\* One queue_yield of encode_get_params.
YieldParam(t) ==
  LET c == config[t]
      k == next[c].params
  IN /\ pc[t] = "params"
     /\ next' = [next EXCEPT ![c].params = @ + yield_increment]
     /\ IF 0 <= k /\ k < params[c]
          THEN /\ query' = [query EXCEPT ![t] = Append(@,
                     url_encode_string([param |-> k, separator |-> "="]))]
               /\ UNCHANGED <<pc, option, handle>>
          ELSE EndWalk(t) /\ UNCHANGED query
     /\ UNCHANGED <<args, list, locks, memory, config, received, made, fault>>

\* One queue_yield of the HTTPHEADER case; curl_slist_append follows the list.
YieldHeader(t) ==
  LET c == config[t]
      k == next[c].headers
  IN /\ pc[t] = "headers"
     /\ next' = [next EXCEPT ![c].headers = @ + yield_increment]
     /\ IF k < 0 \/ k >= headers[c]
          THEN EndWalk(t) /\ UNCHANGED <<list, fault>>
          ELSE /\ IF list[c].at = "freed"
                    THEN fault' = c /\ UNCHANGED list
                    ELSE /\ list' = [list EXCEPT ![c] =
                              [at |-> "live", items |-> Append(@.items, k)]]
                         /\ UNCHANGED fault
               /\ UNCHANGED <<pc, option, handle>>
     /\ UNCHANGED <<args, locks, memory, config, query, received, made>>

\* Fault: curl_lock is not waited for.
CurlUnlocked_Always == curl_lock \in Thread \cup {NoThread}

CurlUnlocked == curl_lock = NoThread

LockCurl(t) ==
  /\ pc[t] = "configure" /\ option[t] > Len(Script(config[t]))
  /\ CurlUnlocked
  /\ curl_lock' = t
  /\ received' = [received EXCEPT ![t] = 0]
  /\ Goto(t, "perform")
  /\ UNCHANGED <<args, next, list, request_mutex, memory, config, curl, made, fault>>

-----------------------------------------------------------------------------
(* The transfer, and what follows it. *)

\* curl has a chunk and calls data_callback_text, which grows the response.
Chunk(t) ==
  /\ pc[t] = "perform" /\ received[t] < ChunkBound
  /\ handle[t]["WRITEFUNCTION"] = "own" /\ handle[t]["WRITEDATA"] = "own"
  /\ received' = [received EXCEPT ![t] = @ + 1]
  /\ memory' = [memory EXCEPT !.room = Len(memory.chunks) + 1]
  /\ Goto(t, "copy")
  /\ UNCHANGED <<args, next, list, locks, config, curl, made, fault>>

\* The rest of data_callback_text: copy the chunk behind the others.
Copy(t) ==
  /\ pc[t] = "copy"
  /\ memory' = [memory EXCEPT !.chunks = Append(@, Transfer(t))]
  /\ Goto(t, "perform")
  /\ UNCHANGED <<args, next, list, locks, config, curl, received, made, fault>>

\* curl_easy_perform returns: the transfer is complete, or it failed, or the
\* callback ran out of memory and returned 0.  The code treats them alike.
Performed(t) ==
  /\ pc[t] = "perform"
  /\ Goto(t, "unlock curl")
  /\ UNCHANGED <<args, next, list, locks, memory, config, curl, received, made, fault>>

UnlockCurl(t) ==
  /\ pc[t] = "unlock curl"
  /\ curl_lock' = NoThread
  /\ Goto(t, "finalize")
  /\ UNCHANGED <<args, next, list, request_mutex, memory, config, curl, received,
                 made, fault>>

\* Fault: the list survives the request.
finalize_configure_curl_NoFree(c) == UNCHANGED <<list, fault>>

finalize_configure_curl(c) == FreeList(c)

Finalize(t) ==
  /\ pc[t] = "finalize"
  /\ finalize_configure_curl(config[t])
  /\ handle' = [handle EXCEPT ![t] = NewHandle]
  /\ query' = [query EXCEPT ![t] = <<>>]
  /\ received' = [received EXCEPT ![t] = 0]
  /\ Goto(t, "unlock")
  /\ UNCHANGED <<args, next, locks, memory, config, option, made>>

\* Fault: the mutex is not unlocked.
Unlock_Not(c) == request_mutex' = [request_mutex EXCEPT ![c] = @]

Unlock(c) == request_mutex' = [request_mutex EXCEPT ![c] = NoThread]

UnlockRequest(t) ==
  /\ pc[t] = "unlock"
  /\ Unlock(config[t])
  /\ served' = [served EXCEPT ![config[t]] = @ + 1]
  /\ Goto(t, "idle")
  /\ UNCHANGED <<life, headers, params, failed, next, list, curl_lock, memory, config,
                 curl, received, made, fault>>

-----------------------------------------------------------------------------

\* What the owner of a config, or a thread between two calls, does next.
Call ==
  \/ \E c \in Config :
       \/ initialize_request_config(c) \/ free_request_config(c)
       \/ add_request_header(c) \/ add_request_param(c)
  \/ \E t \in Thread, c \in Config : http_request(t, c)

\* What the code of http_request does next in thread t.
Run(t) ==
  \/ LockRequest(t) \/ InitCurl(t) \/ InitFails(t)
  \/ Configure(t) \/ StartWalk(t) \/ YieldParam(t) \/ YieldHeader(t)
  \/ LockCurl(t) \/ Copy(t) \/ UnlockCurl(t) \/ Finalize(t) \/ UnlockRequest(t)

\* What libcurl and the peer do next in a transfer of thread t.
Peer(t) == Chunk(t) \/ Performed(t)

\* Nothing is left to do, or nothing can be said.
Terminated ==
  /\ fault # NoConfig \/ \A t \in Thread : pc[t] = "idle"
  /\ UNCHANGED vars

Next ==
  \/ fault = NoConfig /\ (Call \/ \E t \in Thread : Run(t) \/ Peer(t))
  \/ Terminated

\* Each thread is scheduled.  Nothing is assumed of the peer.
Spec == Init /\ [][Next]_vars /\ \A t \in Thread : WF_vars(fault = NoConfig /\ Run(t))

-----------------------------------------------------------------------------
(* Properties. *)

Places == {"idle", "lock", "init", "configure", "params", "headers", "perform",
           "copy", "unlock curl", "finalize", "unlock"}

TypeOK ==
  /\ life \in [Config -> {"none", "alive", "freed"}]
  /\ headers \in [Config -> Nat] /\ params \in [Config -> Nat]
  /\ next \in [Config -> [headers : Nat, params : Nat]]
  /\ list \in [Config -> [at : {"null", "live", "freed"}, items : Seq(Nat)]]
  /\ request_mutex \in [Config -> Thread \cup {NoThread}]
  /\ curl_lock \in Thread \cup {NoThread}
  /\ memory \in [chunks : Seq(Thread \X Nat), room : Nat]
  /\ pc \in [Thread -> Places]
  /\ config \in [Thread -> Config \cup {NoConfig}]
  /\ option \in [Thread -> 1 .. Len(basic_post_query) + 1]
  /\ handle \in [Thread -> [Options -> {"unset", "own", "body", "size"}]]
  /\ query \in [Thread -> Seq([param : Nat, separator : {"=", "%3D"}])]
  /\ received \in [Thread -> Nat] /\ made \in [Thread -> Nat]
  /\ served \in [Config -> Nat] /\ failed \in SUBSET Config
  /\ fault \in Config \cup {NoConfig}

InTransfer(t) == pc[t] \in {"perform", "copy"}

\* A request sends every parameter and every header of its config once, in the
\* order they were added, although the walks share the generators that live in
\* the queues (encode_get_params, the HTTPHEADER case of configure_curl).
SentComplete ==
  \A t \in Thread : InTransfer(t) =>
    /\ [i \in DOMAIN query[t] |-> query[t][i].param]
         = [i \in 1 .. params[config[t]] |-> i - 1]
    /\ list[config[t]].items = [i \in 1 .. headers[config[t]] |-> i - 1]

\* The chunks of a transfer lie next to each other in the response, even when
\* two configs share a request_memory_t (curl_lock, data_callback_text).
ResponseWhole ==
  \A i, j, k \in DOMAIN memory.chunks :
    i < j /\ j < k /\ memory.chunks[i] = memory.chunks[k] =>
      memory.chunks[j] = memory.chunks[i]

\* data_callback_text copies inside what it has reallocated.
ResponseFits == Len(memory.chunks) <= memory.room

\* The first request on a config never uses a dangling header list; later ones
\* do as soon as the config has a header (finalize_configure_curl).
FirstRequestSound ==
  fault # NoConfig => served[fault] >= 1 /\ headers[fault] >= 1

\* A header list does not outlive its request (finalize_configure_curl).
ListEndsWithRequest ==
  \A c \in Config : list[c].at = "live" => request_mutex[c] # NoThread

\* The two places where a request may have to wait.
AwaitsMutex(t) == pc[t] = "lock" /\ ~RequestUnlocked(config[t])

AwaitsCurl(t) ==
  pc[t] = "configure" /\ option[t] > Len(Script(config[t])) /\ ~CurlUnlocked

\* There is no deadlock: of the requests that are under way one does not wait, unless
\* an earlier request on the config of each failed to start (http_request takes
\* curl_lock inside _request_mutex, and gives both back).
NeverAllWait ==
  (\E t \in Thread : pc[t] # "idle" /\ config[t] \notin failed) =>
    \E t \in Thread : pc[t] # "idle" /\ ~AwaitsMutex(t) /\ ~AwaitsCurl(t)

\* If every transfer ends, a request returns unless an earlier one on its config
\* failed to start: the two locks are taken in an order that cannot deadlock,
\* and each is given back but by InitFails.  Without a time limit on a transfer
\* the code does not guarantee the premise (http_request).
RequestsReturn ==
  (\A t \in Thread : []<>~InTransfer(t)) =>
    \A t \in Thread :
      pc[t] # "idle" ~> pc[t] = "idle" \/ config[t] \in failed \/ fault # NoConfig

\* test/http_request_test.c adds a header, makes one request and frees the
\* config: no list is followed or freed after it was freed.
ListNeverDangles == fault = NoConfig

=============================================================================
