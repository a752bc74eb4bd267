# A TLA+ development of oauth_server

This directory specifies, model-checks and proves properties of the C library
in `lib/include` and of the server in `lib/oauth_server.c`. Line numbers refer
to the files under `src/`; "l." without a file is a line of the file named just
before.

## 1. The system

| Component | File | State | Operations | Hard part |
|---|---|---|---|---|
| Queue | `queue_piaabo.h` | linked items, `__head`, `load_size`, `load_index`, one generator (`yield_index`, `yield_increment`) | create, destroy, insert at either end, move, index, yield, health check | index and pointer must agree through every loop; the generator lives in the queue; failed assertions end the process |
| Request client | `requests_piaabo.h` | `request_config_t` (two queues, `_headers_list`, `_request_mutex`), global `curl_lock`, `request_memory_t` | build, add header or parameter, `http_request`, free | threads share configs, lists, locks and a response buffer; failures half way |
| Response | `response_piaabo.h` | `server_response_t`: `mhd_response`, `mhd_result`, header and footer queues | create from a page or a file, add headers, perform, destroy | ownership of references and descriptors on every path |
| Endpoints | `server_endpoints.h` | none | the two route coordinators and the routes | which headers a response carries |
| Daemon, noauth handler | `server_noauth.h`, `server_piaabo.h`, `oauth_server.c` | the daemon, its connections, `*con_cls` | connect, first call, answer, completion, stop | one thread per connection, clients that leave, timeouts, stop |
| TLS handler | `server_tls.h` | certificate and names of a request | method test, first call, certificate, answer | several ways not to have a certificate; what the verification says is not what is tested |
| Templates | `server_piaabo.h`, `util_piaabo.h` | map of replacements, page text | `load_html_template`, `replace_regex` | pointers into freed text |
| Files | `file_piaabo.h` | none | measure and read a file | the file changes in between; failure is a NULL pointer |
| Logging | `util_piaabo.h` | `log_mutex` | the four macros | two streams, several threads, the end of the process |
| Base64 | `util_piaabo.h` | none | `encode_base64` | lengths, signed characters |
| Session cookie | `server_piaabo.h` | none | `set_session_cookie` | result ignored by its caller |

How they interact. libmicrohttpd calls the handler in the connection's thread;
the handler calls a route, the route renders a page (queue of replacements,
file), builds a `server_response_t` (two queues), and `perform_response` moves
the queued headers into the `MHD_Response`, queues it and destroys the
`server_response_t`. libmicrohttpd keeps its own reference until the response is
out. The request client is used by the programs in `test/` and `examples/`; it
walks the two queues of a config for each request. Queues are never shared
between threads except through a shared config. Every thread logs.

What makes each component correct:

* Queue: the links spell the items both ways; `load_index` names the head; a
  generator yields every item once and in order; every call returns; nothing
  freed is used and everything is freed.
* Request client: a request sends every argument of its config; a response stays
  in one piece; locks are given back and cannot deadlock; lists do not dangle.
* Response and server: every reference and descriptor is given up exactly once;
  a response carries its route's headers; a secure page needs a certificate; each
  request gets at most one page, one that is due to it; every request ends, and so
  does the daemon when told to; few requests can end the process.
* Templates and files: what a caller gets is what was read; no page is lost or
  freed early; a search stays inside its string and ends.
* Logging: a line stays in one piece and can be attributed; the reason of an
  exit is told; the mutex is given back.
* Base64: the output decodes to the input and fits its buffer.

## 2. The modules

| Module | What it is |
|---|---|
| `CursorList` | what the queue promises: a sequence, a cursor, one generator, atomic calls |
| `Queue` | `queue_piaabo.h`, one loop iteration per step, and the refinement mapping to `CursorList` |
| `HttpRequest` | `requests_piaabo.h` with threads, configs and a peer; it uses the queues as `CursorList` promises them, a generator being an index |
| `Exchange` | what the server promises its clients: at most one page per request, and a due one |
| `Server` | `response_piaabo.h`, the routes, both handlers and the daemon, and the refinement mapping to `Exchange`; libmicrohttpd's side is modelled from how the code uses it |
| `Template` | `load_html_template`, `replace_regex` and the file reading below them |
| `LogLines` | the log macros |
| `Base64` | `encode_base64` |
| `QueueProofs`, `CursorListProofs`, `HttpRequestProofs`, `ServerProofs`, `LogLinesProofs`, `TemplateProofs`, `Base64Proofs` | the theorems |
| `DataInduction` | lemmas the proofs share: induction up to a bound, and what a flattened sequence of sequences is piece by piece |
| `MCQueue`, `MCHttpRequest`, `MCServer`, `MCTemplate`, `MCBase64` | constants and a symmetry set for TLC |

`Queue` implements `CursorList`, which `HttpRequest` and `Server` use for their
queues; `Server` has a rendering as the single step `Render`, whose inside is
`Template`.

A definition whose comment begins with `Fault:` is a deliberately wrong version
of the one below it. It is part of no behaviour; putting it in place of the
right one shows that a property notices such a bug.

### Queue

State: `up` and `down` are the two links of each cell, `blank` the cells whose
`data` is NULL, `allocated` the cells malloc has given out. `load_size`,
`load_index`, `head`, `yield_index` and `yield_increment` are the fields of
`__queue_t`. `pc` is the loop being run, `op` the API call, `target` the local
index. `chain`, `drift`, `yielded`, `watch` and `mark` are history variables
that no guard reads.

Each API function is an action that begins a call (`queue_to_top`,
`queue_insert_item_on_base`, ...); its loops are actions of one pointer move
(`TopStep`, `IndexStep`, `ScanStep`, `ReapStep`, ...), shared by the functions
that share the code; the step that returns is `MoveReturn`, `LinkOnTop`,
`HealthReturn` and so on. `queue_yield` tail-calls `queue_to_index`, and
`queue_destructor` opens with the health check as its ASSERT. An allocation that
fails ends the process (`log_fatal`). The health check of a new queue inside
`queue_fabric` is evaluated in the same step, since it runs no loop.

One thread uses a queue at a time: the library has no queue lock (l.264 warns of
it), and the programs keep queues to one thread or under `_request_mutex`.

`EmptyBaseInsert` and `NullData` name two things a caller may do that the header
allows and that lead to the failures below. With both FALSE everything holds;
with both TRUE the runs and theorems say exactly what remains.

### HttpRequest

State per config: `life`, the number of `headers` and `params`, `next` (the two
`yield_index`es), `list` (`_headers_list`: null, live or freed, and its items),
`request_mutex`. Per thread: `pc`, `config`, `option` (position in the script of
`configure_curl` calls), `handle` (what each curl option has been set to), `query`.
Global: `curl_lock`, and one `memory` that the configs share, the most demanding
use of `data_callback_text`. Using a freed list is undefined behaviour: `fault`
records it and the behaviour ends there.

`http_request` is split where another thread can observe it: taking each lock,
each `configure_curl` call, each `queue_yield`, each chunk (room first, bytes
second), and the cleanup. Arguments are added between requests only (`MayAdd`):
the two functions take no lock, and adding during a walk would be a data race on the
queue's fields. libcurl's calls of the callback (`Chunk`) and the end of
the transfer (`Performed`) come from outside. A transfer that fails, or a callback
out of memory, ends like one that succeeds, as in the code.

### Server and Exchange

State per connection: `state` (where libmicrohttpd has it), `con_cls`, `request`,
`route`, `at` (place in the handler),
`response` (the `server_response_t`), `mhd` (the `MHD_Response` with its references,
its page, its headers and those it refused), `answer` (the handler's result), `fds`,
and the history `orphans`. `access` is the handler the daemon was started with: the
two share routes, responses and connections, and so share the module.
`answer_to_connection_tls_auth` refuses a method other than GET before all else
(`RefuseMethod`), then marks the request like the other handler (`FirstCall`), then
looks for a certificate. `peer` says what the client has: no TLS session at all, a
session without a certificate, or a certificate that can or cannot be trusted.
Without a session `get_tls_session` follows NULL and the process ends;
`get_client_certificate` gives NULL without a certificate, or when a call of GnuTLS
fails, and the certificate otherwise, trusted or not, because the code never reads
`client_cert_status`. `RouteOf` asks for authentication or takes
`secure_route_coordinator`.

`MayFail` names the calls that may fail: the certificate's, reading a template,
`open`, `fstat`, creating the response, adding a header, queueing it. A template that
cannot be read makes `load_html_template` follow a NULL pointer, so the process ends
(`daemon = "dead"`). `Fatal` says which requests can end the process this way.

Assumed of libmicrohttpd (marked external in the map): it calls the handler once
after the headers, once for each piece of the body and once at the end;
it refuses a response while the body is coming in; it takes its own reference to a
queued response and drops it when the response is out or the connection ends; the
last reference closes the file of a file response.

`Exchange` is the client's view: a connection is ready, pending, replied or closed;
a reply is a page out of `due`, which is a function of the request. `Server` maps
`state` to the phase, the page of a response that is being sent to `page`, and to
`due` what each handler gives: one page per route, and with TLS the page that asks for
a certificate as well, for a call of GnuTLS may fail. A client with a session and no
certificate is due this page only; a POST over TLS, or a client without a session, is
due none. A client whose certificate cannot be trusted is due the secure page, as the
code has it; that this is not what the code says of itself is the run
`server_untrusted`.

### Template

A page is a sequence of pieces: placeholders (`Key`) and text (`Plain`). A route's
map is any sequence of pairs up to `MapBound`, replacements may hold placeholders.
`load_html_template` begins the call up to the opened file, `Measure` and `Read` are
`read_file` (size, allocation; bytes), `YieldItem` takes the next pair and compiles
its expression, `Search` and `Replace` are one iteration of `replace_regex`, `Finish`
copies the page out and frees it.

`Edit` changes the file, as another process may. The other thing the page lives among
is the heap: `replace_regex` frees each copy it makes (`FreeString`) and goes on
searching and copying it, and the next `malloc` may return the block. From then on
`Matches` is any place in the string, `Search` may also find nothing, and `Search` and
`Replace` may give `status = "undefined"`, where the behaviour ends. The text of a copy
is therefore no variable: only its length (`len`) is, with `offset` and `match`, the
counters that the code keeps in its own variables. A first search still reads the
caller's page and finds the first place of its key. `status = "dead"` is a NULL pointer
followed. The properties say what holds up to there, and none says that a replacement
is made: the code does not ensure it.

### LogLines

Per thread: `pc` and `kind`, the macro being run; global: `log_mutex`, the two
streams as sequences of parts with the thread and the macro they came from, `ended`.
One action per call of the macro. `log_fatal` unlocks and then exits, and the other
threads run on until it does. `ASSERT` ends in `log_fatal`.

### Base64

Characters are indexes into `lookup`. The loop is one action per group of three
bytes (`Encode`), then the padding (`Standarize`). `l` is the word the code builds
from three signed characters: `Under` is what the sign extension of the bytes to the
right leaves of an octet.

## 3. What the runs check

| Run | Bounds | Shows |
|---|---|---|
| `queue` | 3 cells, `yield_index` in -3..3 | with no first insertion on the base and no NULL data: links, no use after free, no leak, the health check restores the head, the generator yields consecutive items and misses none; the queue implements `CursorList`; every call returns |
| `queue_drifted` | 3 cells, -3..3, both flags TRUE | `load_index` and the head stay apart by the same constant drift; ASSERT and endless loop need the drift |
| `http_request` | 2 threads, 2 configs (GET with up to 2 headers and 2 parameters, POST with 1 and 1), 2 chunks, one call per thread; curl may fail to initialise | requests are complete, responses whole, the header list dangles only after a first request and never outlives its request live; the locks never leave every thread waiting; requests return |
| `server` | 2 connections, one with 2 requests and one with 1, either handler, 6 public and 8 secure requests, from peers of each kind, everything may fail | references, descriptors, headers and pages are accounted for; the process dies only of a request that can kill it (`DeathExplained`); the server implements `Exchange`; requests end; the daemon stops |
| `template` | a page of four pieces with two keys, one of them twice; maps up to two pairs out of three values; two renderings; one edit, longer or shorter; everything may fail | what the caller gets is the page or what was read of it; the page lives as long as it is used; a search stays inside its string and ends, even when a replacement holds its own key and whatever the freed copy reads as |
| `log_lines` | 2 threads, 3 calls each, any macro | lines are whole, the two streams can be put together again, the reason of an exit is told, calls return |
| `base64` | messages up to 7 bytes out of 1, 90, 128 and 255 | exactly which messages decode back, and which lengths overrun the buffer |

Three cells are enough for the queue to have a base, a top and an item with both
links, so every branch of the link tests and of the destructor's loop runs; the
theorems of section 4 hold for any number. The bound on `yield_index` lets a
generator run past both ends. Two threads on two configs meet both locks in every
order, and two threads on one config are a first and a second request on it. In
`http_request` deadlock is not checked, because a thread really waits for ever when
another's `curl_easy_init` has failed; `NeverAllWait` says that this is the only way
for all of them to wait, and `RequestsReturn` that it is the only way for one to, if
every transfer ends. Two requests on one connection show that nothing is left
over from the first; connections meet only in the daemon, so a second one is enough
for the stop. Two pairs on two keys let a replacement bring in the other key, before
or after that one's turn; two renderings show that the first leaves nothing behind.
Seven bytes are two groups and each length of a third; 1 and 90 are text, 128 is the
first byte whose sign shows, and 255 the one on which it does not.

Runs that end in a violation. Each checks one statement made by a comment, a test
or an assertion of the repository:

| Run | Statement | What the code does |
|---|---|---|
| `queue_spins` | `queue_to_index` retrieves an item or returns NULL (`queue_piaabo.h` l.179) | after a first insertion on the base it never returns for the last index |
| `http_double_free` | `http_request_test.c` l.24-30, "clear the memory" | the header list is freed twice |
| `server_body` | "respond to request allowing access to the public methods" (`server_noauth.h` l.38) | a request with a body gets no response |
| `server_untrusted` | "Invalid or absent certificate" gives none (`server_tls.h` l.30), "Request requires a valid SSL/TLS certificate!" (`server_endpoints.h` l.59) | only the return code of the verification is tested; a certificate that cannot be trusted gets the secure pages |
| `template_unrendered` | "uses regex to replace the template values {{KEY}}=>Value" (`server_piaabo.h` l.195) | the replacements are made in copies the caller never sees |

A run shows one behaviour; that the same is so of every queue, request or page is a
theorem: `LastIndexNeverFound` for `queue_spins`, `ListsDangle` for `http_double_free`,
`BodiesGetNothing` for `server_body` and `NothingIsReplaced` for `template_unrendered`.

Seen while modelling and visible in the models, without a run of their own:

* Queue. After a first insertion on the base `queue_is_healty` accepts a head that
  `load_index` does not name (`queue_piaabo.h` l.54, l.93; `drift` in
  `HealthCheckRestores` and `FailsOnlyWhenDrifted`), and the insertions rely on a
  healthy queue (l.235, l.254). `queue_start_generator_down` is "starting at the top"
  (l.213) and starts one below the head. Items with NULL data are not freed
  (`queue_item_destructor`; l.291 says "free all the items"). Two threads on one
  queue are only warned of (l.264).
* Request client. The POSTFIELDS case sets `CURLOPT_POSTFIELDSIZE` to the address of the
  body and the POSTFIELDSIZE case `CURLOPT_POSTFIELDS` to its size
  (`requests_piaabo.h` l.370; l.365 says "Set up for a POST request the data"), so no
  POST sends its body (`BodyIsNeverSent`). `http_request` returns with
  `_request_mutex` locked when `curl_easy_init` fails (l.502; l.524 says "free the
  mutex lock"; `InitFails`). `add_request_header` and `add_request_param` do not take the mutex
  that is there "to safely change the request arguemts" (l.55), and
  `free_request_config` does not look whether a request runs; `~Busy` in `MayAdd` and
  in `free_request_config` is a contract of the callers, which the programs of the
  repository keep and the code does not enforce. The `=` of a parameter is escaped
  with the pair (l.248). Headers, parameters and the query go to 65536-byte buffers
  without a test of their length (l.166). `exit` runs `curl_global_cleanup` while transfers may run (l.456).
* Server. `perform_response` validates a response before its headers can fail
  (`response_piaabo.h` l.120; `set_response_headers`); a file stays open if the
  response for it cannot be created (`orphans`). Nothing frees the certificate and
  the names of an authenticated request (`server_tls.h` l.115 has the call commented
  out). `get_tls_session` follows what `MHD_get_connection_info` returns, so a client
  without a TLS session ends the process (`Fatal`): the test for a missing session
  (l.27) comes too late. No alternative name has type 0, so `alt_name` stays NULL, and the loop over them leaves on one error code only (l.85). The
  address buffer is too short for some v6 addresses (`server_piaabo.h` l.75).
* Templates. `replace_regex` frees the copy it has just made and goes on searching and
  copying it (`util_piaabo.h` l.223; l.222 says "Free the memory used by the old
  string"; `FreeString`, and the status "undefined").
* Logging. The messages of `log_err`, `log_fatal` and `log_warn` have no prefix on
  stdout, where l.43 says messages are linked to their thread; `StreamsAgree` is what
  is left of it.

Failures that no property is held against, because the code makes no promise there: a
header that libmicrohttpd refuses is lost in silence (`response_piaabo.h` l.60;
`HeadersOfRoute` excepts what is in `refused`); the descriptor of a file whose response
cannot be created is lost (l.208; `orphans`, which `DescriptorsOwned` excepts);
other threads may log between the message of a `log_fatal` and the end of the process
(`util_piaabo.h` l.59, so `ReasonTold` asks that the message be written, not that it be
the last); a mutex kept by a request that failed to start stays locked for good
(`NeverAllWait` and `RequestsReturn` except its config). `RequestsEnd` and
`StopCompletes` count the end of the process as an end: which requests can bring it
about is what `DeathExplained` says.

### Fairness

* `Queue`: WF of `Run`, the code of the call in progress. Callers owe nothing.
* `HttpRequest`: WF of each thread's code. Nothing is assumed of the peer, since
  `http_request` sets no time limit; `RequestsReturn` therefore has "every transfer
  ends" as a premise. Weak fairness is enough for the mutexes because each thread
  makes a bounded number of calls, so a mutex cannot be taken over and over by
  others for ever.
* `Server`: WF of each connection's thread in the handler, and of the end of a
  connection, which `MHD_OPTION_CONNECTION_TIMEOUT` (15 s, `oauth_server.c` l.31)
  brings about when nothing happens on it; WF of `MHD_stop_daemon`. Clients owe
  nothing: neither a body nor the reading of a response.
* `Template`: WF of the rendering thread. Whoever edits the file owes nothing.
* `LogLines`: WF of each thread. As above, calls are bounded, so weak fairness does
  for `log_mutex`.

`Exchange`, `CursorList` and `Base64` are safety specifications.

## 4. What is proved

Each component with theorems has a proof module that extends it. The theorems hold
for every value of the constants that the component's named assumption admits
(`QueueAssumption`, `RequestAssumption`, `ServerAssumption`, `TemplateAssumption`,
`LogAssumption`, `Base64Assumption`), which TLC evaluates for the constants of each
run. They state safety and use no fairness. The heart of each
proof is an inductive invariant `IInv`, which every action keeps, in a lemma or a case
of its own.

### Queue

| Theorem | States | Extra assumption |
|---|---|---|
| `TypeCorrect` | `TypeOK` | |
| `Consistent` | `IInv` | |
| `LinksSound`, `HeadSound` | `ChainLinked`, `HeadInStep` | |
| `HealthCheckSound` | `HealthCheckRestores` | |
| `FreedNotUsed` | `NoUseAfterFree` | |
| `FailureNeedsDrift` | `FailsOnlyWhenDrifted` | |
| `DestructorAsserts` | `AssertHolds` (checked by no run, a consequence of the above) | `~EmptyBaseInsert` |
| `EverythingFreed` | `NoLeak` | `~NullData` |
| `CallsEnd` | each step of a call but `IndexSpin` makes `Work` smaller | |
| `LastIndexNeverFound` | with a drift, a call for the last index never leaves its loop | |
| `GeneratorOrdered` | `GeneratorOrder` | `~EmptyBaseInsert` |
| `GeneratorCompletes` | `GeneratorComplete` | `~EmptyBaseInsert` |
| `ListImplemented` | `ImplementsCursorList` | `~EmptyBaseInsert` |

None of the properties is inductive alone. A pointer move keeps the head right only
if the links spell `chain` (`ChainLinked`) and the head is where `load_index` says up
to the drift (`HeadInStep`); unlinking and freeing need the cells to be distinct and
the allocated ones to be those at or below the head while the destructor reaps
(`CellsInv`); a health check that returns needs to know that its local `target` is
the index it started from (`ControlInv`); and the ASSERT can fail only with a drift,
which only a first insertion on the base makes (`DriftInv`).

`Work` counts the loops a call may still run (`Stage`: the health check that opens the
destructor has two of them, one down and one up, before it puts the head back and the
destructor goes to the top and reaps) and the moves left in this one (`Distance`). It
is a natural number at most six times `load_size` plus ten, so a call takes no more
steps than that, drifted or not, unless it falls into the endless loop. With a drift
`load_index` stays below the last index, so a call for that one never gets there
(`LastIndexNeverFound`).

The theorems on the generator and on the list are in `CursorListProofs`. They need two more facts about the
call in progress (`CallInv`): what `mark` is in an empty queue, and that `queue_yield`
is on its way to the index the generator has just left. `GeneratorOrder` is then
inductive together with them (`NextOrder`): taking an index moves every index yielded
so far one further from `yield_index`, and the return of `queue_to_index` fills the
place. `GeneratorComplete` follows where the index leaves the range: it is the number
of items yielded, and each of them is an item of the queue. For the refinement a call
takes effect in the step that ends it: until then the list's cursor is at `mark`
(`CursorNow`) and its generator at `target` (`Upcoming`), so that loops stutter; each
way of returning is shown to be one call of the list (the lemmas `Sim...`).

### HttpRequest

| Theorem | States |
|---|---|
| `TypeCorrect` | `TypeOK` |
| `Invariance` | `IInv` |
| `LocksExclude` | `OneAtATime`: no two transfers, and no two threads inside one config |
| `RequestsSentComplete` | `SentComplete` |
| `ResponsesAreWhole` | `ResponseWhole` |
| `ResponsesFit` | `ResponseFits`: the copy fits the last allocation |
| `FirstRequestIsSound` | `FirstRequestSound` |
| `ListsEndWithRequests` | `ListEndsWithRequest` |
| `WaitsAreShort` | `WaitsEnd`: whom a waiting thread waits for |
| `NoDeadlock` | `NeverAllWait` |
| `RequestsAdvance` | each step of a request makes `WorkOf` smaller, and nobody else's makes it larger |
| `BodyIsNeverSent` | in every transfer of a POST the pointer to the body is its size |
| `ListsDangle` | a request with a header leaves a freed list for good, and its next use is a fault |

`LockInv` says who holds which lock, from the places of the threads; `Walk` what a
request has sent or listed so far, as a prefix of the queue it walks, which needs that
no other thread is in the config and that arguments come between requests (`WalkInv`);
`ListInv` where a live and where a dangling list can be; `ChunkInv` that all of the
shared response from a transfer's first chunk on is its own, and that it has been
allocated; `FaultInv` that the behaviour has stopped at the place of a fault. Steps
between the two locks leave most of it alone and share lemmas (`Quiet`).

That there is no deadlock needs one more invariant (`MutexInv`): a locked mutex is held
by a request inside its config, or was left by one that failed to start. A thread that
waits for a mutex then waits for a request that is inside, which waits at most for
`curl_lock`, whose holder is in its transfer and waits for nobody (`WaitsEnd`). Chains
of waiting are at most two long and have an end, so somebody can always go on.

Nor does a request go on for ever. `WorkOf` counts the options the script has left, at
the cost of the longest (`StepsOfOption`: a walk of both queues), less what the present
walk has taken (`Taken`, the position of its generator), and then the chunks and the
cleanup. Besides waiting, a request takes at most 7 + 2 * `ChunkBound` +
17 * (params + headers + 3) steps. That no other step raises it is where threads meet:
another thread moves another config's generators (`Exclusive`), and owners add
arguments between requests only. `ChunkBound` bounds the peer; the code does not.

The last two are about every request: no POST sends its body, and what the run
`http_double_free` shows of one request with a header is so of each. `PostInv` follows the option through the script; `SpentInv`
has the list live from the end of the transfer to its cleanup if there are headers.

### Server

| Theorem | States |
|---|---|
| `TypeCorrect` | `TypeOK` |
| `Invariance` | `IInv` |
| `NothingIsLeft` | `NothingLeft` |
| `SendingIsHeld` | `SendingHeld` |
| `DescriptorsAreOwned` | `DescriptorsOwned` |
| `YesMeansQueued` | a handler that returns yes to an answering call has queued a response |
| `HeadersAreOfRoute` | `HeadersOfRoute` |
| `DeathIsExplained` | `DeathExplained` |
| `BodiesGetNothing` | no request with a body is sent a page, and its handler says no |
| `RequestsEndSoon` | each step of a connection makes `ToDo` smaller, and nobody else's makes it larger |
| `ExchangeImplemented` | `ImplementsExchange` |

`IInv` is a conjunction of what is so of each connection (`Sound`): where its request
can be while the handler is in a place (`Placed`), who holds the references to
the `MHD_Response` there (`Counted`), that the page is that of the route and due
(`Paged`), which headers are still in the queue and which have gone over or were
refused (`Headed`) and who owns a descriptor (`Owned`). A step is of one connection (`StepOfOne`), so each action is
considered for its own connection only. The refinement goes by the actor: the steps
of the handler stutter, but for its return, which is a reply or the end of the request,
and a rendering that ends the process (`HandlerRefines`); what libmicrohttpd does for
the client and for the daemon is mapped in `ClientRefines` and `DaemonRefines`.

`DeathIsExplained` is inductive as it stands but for the thread that renders: a request
in `Render` has a route of a template, and so is one that can end the process
(`RenderFatal`), which `Paged` and `Placed` give, and that it has had its first call is
`FirstCalled`.

`BodiesGetNothing` is what `server_body` shows, for every request: one with a body is
never complete when its response is queued, so libmicrohttpd refuses it (`BodyInv`).
`ToDo` orders the places of the handler and the states around it. A request whose body
is coming in has had its first call (`FirstCalled`), and a yes has a page behind it, so
that every step leads on and a request takes at most twelve, unless the process ends.

### Template, LogLines, Base64

| Theorem | States |
|---|---|
| `TemplateProofs`: `Invariance`, `TypeCorrect` | `IInv`, `TypeOK` |
| `PageFitsBuffer` | `PageFits` |
| `PageIsHeld` | `PageHeld` |
| `SearchStaysInside` | `SearchInside` |
| `NothingIsReplaced` | `OutputIsRead`: what is returned is a page as it was read, whatever the map |
| `OutputIsSound` | `OutputSound` |
| `RenderingAdvances` | each step of a rendering makes `WorkLeft` smaller, and nobody else's makes it larger |
| `LogLinesProofs`: `Invariance`, `TypeCorrect` | `IInv`, `TypeOK` |
| `LinesAreWhole` | `LinesWhole` |
| `StreamsPaired` | `StreamsAgree` |
| `ReasonIsTold` | `ReasonTold` |
| `CallsAdvance` | each step of a call makes `StepsLeft` smaller; a call waits for one that is writing |
| `Base64Proofs`: `BufferHolds` | `RoomUnlessShort` |
| `DecodesExactly` | `DecodesBack` |

Template. `FileInv` relates what was measured and read to the versions of the
file, `HandInv` says in whose hands the page is, and `SearchInv` that `offset` and
`match` are inside the string: a match lies behind `offset` and not behind `len`
(`MatchAhead`), so the new string keeps the rest of the old one behind it, and the
search goes on no later than where that rest begins (`Replaces`). This needs no
knowledge of the text, so it holds whatever the freed copy reads as.
`NothingIsReplaced` is stronger than the run's `OutputSound` on this point: that one
says what replacement may make of a page, this one that none is made, and
`OutputIsSound` follows from it. A page with no piece replaced is a flattened sequence
of single pieces, which is defined by recursion; `DataInduction` takes it apart
(`Joined`, `JoinedRun`), behind operators (`Text`, `Cat`, `Part`) that the provers do
not look into.

`SearchInv` is also why a rendering ends although a replacement may hold keys and the
freed copy one match after the other. What is ahead of `offset` (`Ahead`, that is
`len - offset`) is at most the page at first and gets shorter with each match, so that
a search takes at most two steps for each piece of the page (`Turn`), and a page of n
pieces with a map of m pairs m * (2n + 3) + 3.

LogLines. `Exclusive` says who holds the mutex and `PrefixesPlain` that only `log`
leaves a prefix on stdout. `StreamsAgree` needs `Ahead` besides: stderr is a prefix
ahead of the messages on stdout exactly while the thread that holds the mutex is
between the two, and that last prefix is its own.

Base64. `Written` says how many characters each group and the padding write, which is
enough for `BufferHolds`. `Coded` says that they are those of their group. At the
end the four characters of a group give back its word, pads standing for sextets that
would be zero (`NothingLeft`, `ValueIsWord`), there are as many bytes as in the
message (`BytesAreLength`), and each is that of the message unless a sign bit lies on
it (`DecodedByte`).

Where an induction over data is needed it is made over a set: `InductionTo` says that a
set which holds 0, and with a number its successor, holds every number up to the bound.

### Only model-checked

* Liveness (`CallReturns`, `RequestsReturn`, `RequestsEnd`, `StopCompletes`,
  `RendersEnd`, `CallsReturn`): the prover does not reason about fairness. What is
  proved is the part without fairness: a bound on the steps of what they say
  ends (`CallsEnd`, `RequestsAdvance`, `RequestsEndSoon`, `RenderingAdvances`,
  `CallsAdvance`), and that the locks never stop everyone (`NoDeadlock`). That the
  steps are taken is left to TLC.

## 5. What is not modelled

* Lengths of strings: the 65536-byte buffers of the request client
  (`requests_piaabo.h` l.166), the buffers of addresses and of the session cookie, whose
  terminator is written one past its end (`server_piaabo.h` l.146). The cookie is in
  `Server` as a header that is or is not there; its random value is not.
* The texts of the certificate's names: they only go to log lines, and the loop over
  alternative names (`server_tls.h` l.85) depends on a data format of GnuTLS.
* `read_binary_file`, `file_exist`, `encode_get_params_minimal`,
  `respond_internal_server_error`: nothing calls them. `header_callback` only logs.
* Footers: no route adds one, so `set_response_footers` walks an empty queue.
* `curl_global_init` and `curl_global_cleanup`, which run before the first request and
  at the end of the process.
* Two threads on one queue, or a header added while a request walks: the outcome of
  the data race is undefined, and no program of the repository does it. `Queue` has one
  thread, `MayAdd` keeps additions between requests.
* Out of memory outside the queue, the text callback and the template, where the code
  follows a NULL pointer.
* The programs in `test/` and `examples/`: they are callers, and what they call, in
  the order they do, is among the behaviours of the modules.

## 6. Plan

Done, in order of importance: the queue, on which everything rests; the request
client, where threads meet; the responses, both handlers and the daemon, with the
client's view that they implement; the templates; the log; `encode_base64`. Every
safety property that a run checks is proved.

Left:

1. The session cookie and the address buffer as indexes against a bound, the way
   `Base64` treats its buffer.
2. A composition of `HttpRequest` with the log, so that a `log_fatal` in one thread
   ends requests of others at every point.
