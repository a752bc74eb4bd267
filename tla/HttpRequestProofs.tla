--------------------------- MODULE HttpRequestProofs ---------------------------
(***************************************************************************)
(* Theorems about HttpRequest, for any threads and configs, whatever       *)
(* arguments they are given.                                               *)
(***************************************************************************)
EXTENDS HttpRequest, SequenceTheorems, TLAPS

\* A thread that is in a call has a config that lives and, once it is past "lock",
\* holds its mutex; curl_lock is held from "perform" to "unlock curl".
LockInv ==
  /\ \A t \in Thread : pc[t] # "idle" => config[t] \in Config /\ life[config[t]] = "alive"
  /\ \A t \in Thread : pc[t] \notin {"idle", "lock"} => request_mutex[config[t]] = t
  /\ \A t \in Thread : pc[t] \in {"perform", "copy", "unlock curl"} <=> curl_lock = t

\* Places of a request whose list may be live.
Listing == {"configure", "params", "headers", "perform", "copy", "unlock curl", "finalize"}

\* A live list is of a request; a freed one is of a request that is over, or nearly.
ListInv ==
  /\ \A c \in Config : list[c].at = "live" =>
       \E t \in Thread : config[t] = c /\ pc[t] \in Listing
  /\ \A c \in Config : list[c].at # "null" => headers[c] >= 1
  /\ \A c \in Config : list[c].at = "freed" =>
       served[c] >= 1 \/ \E t \in Thread : config[t] = c /\ pc[t] = "unlock"
  /\ \A c \in Config : list[c].at # "live" => list[c].items = <<>>

\* The first n items of a queue.
UpTo(n) == [i \in 1 .. n |-> i - 1]

Sent(t) == [i \in DOMAIN query[t] |-> query[t][i].param]

\* Where a walk is, in terms of what was sent.  The URL is option 3 of both
\* scripts, the headers are option 8.
Walk(t) ==
  LET c == config[t]
  IN /\ pc[t] = "configure" =>
          /\ option[t] <= Len(Script(c)) + 1
          /\ IF option[t] <= 3 THEN query[t] = <<>> ELSE Sent(t) = UpTo(params[c])
          /\ IF option[t] <= 8 THEN list[c].at # "live"
                               ELSE list[c].items = UpTo(headers[c])
     /\ pc[t] = "params" =>
          /\ option[t] = 3 /\ list[c].at # "live"
          /\ next[c].params <= params[c] /\ Sent(t) = UpTo(next[c].params)
     /\ pc[t] = "headers" =>
          /\ option[t] = 8 /\ Sent(t) = UpTo(params[c])
          /\ next[c].headers <= headers[c] /\ list[c].items = UpTo(next[c].headers)
     /\ InTransfer(t) =>
          Sent(t) = UpTo(params[c]) /\ list[c].items = UpTo(headers[c])

WalkInv == \A t \in Thread : config[t] # fault => Walk(t)

\* Nothing of a transfer is in the response before it begins, and while it lasts
\* all that follows its first chunk is its own.
ChunkInv ==
  /\ \A i \in 1 .. Len(memory.chunks) : memory.chunks[i][2] <= made[memory.chunks[i][1]]
  /\ \A t \in Thread : pc[t] \in {"lock", "init", "configure", "params", "headers"} =>
       \A i \in 1 .. Len(memory.chunks) : memory.chunks[i] # Transfer(t)
  /\ \A t \in Thread : curl_lock = t =>
       \A i, j \in 1 .. Len(memory.chunks) :
         i < j /\ memory.chunks[i] = Transfer(t) => memory.chunks[j] = Transfer(t)
  /\ \A t \in Thread : pc[t] = "copy" => memory.room = Len(memory.chunks) + 1
  /\ ResponseFits

\* After a fault no step is taken; no transfer is on the config it struck.
FaultInv ==
  /\ \A t \in Thread : InTransfer(t) => config[t] # fault
  /\ FirstRequestSound

IInv == TypeOK /\ LockInv /\ ListInv /\ WalkInv /\ ChunkInv /\ FaultInv /\ ResponseWhole


-----------------------------------------------------------------------------
(* Helpers. *)

\* The scripts: the URL is option 3, the headers are option 8, nothing else walks.
LEMMA Scripts ==
  ASSUME NEW c \in Config
  PROVE  /\ Len(Script(c)) \in 13 .. 15 /\ Len(basic_post_query) = 15
         /\ Script(c) \in Seq(Options)
         /\ \A k \in 1 .. Len(Script(c)) :
              /\ Script(c)[k] \in Options
              /\ Script(c)[k] = "URL" <=> k = 3
              /\ Script(c)[k] = "HTTPHEADER" <=> k = 8
<1>1. CASE Method[c] = "GET"
  BY <1>1 DEF Script, basic_get_query, basic_post_query, Options, OptionalArguments
<1>2. CASE Method[c] # "GET"
  BY <1>2 DEF Script, basic_get_query, basic_post_query, Options, OptionalArguments
<1>. QED BY <1>1, <1>2

\* configure_curl keeps the type of a handle.
LEMMA Configured ==
  ASSUME NEW h \in [Options -> {"unset", "own", "body", "size"}],
         NEW o \in Options, NEW c \in Config
  PROVE  configure_curl(h, o, c) \in [Options -> {"unset", "own", "body", "size"}]
BY DEF configure_curl, Options, OptionalArguments

\* Two threads past "lock" are on different configs.
LEMMA Exclusive ==
  ASSUME LockInv, NEW t \in Thread, NEW u \in Thread, t # u,
         pc[t] \notin {"idle", "lock"}, pc[u] \notin {"idle", "lock"}
  PROVE  config[t] # config[u]
<1>1. request_mutex[config[t]] = t
  BY DEF LockInv
<1>2. request_mutex[config[u]] = u
  BY DEF LockInv
<1>3. QED
  BY <1>1, <1>2

\* One more item was sent.
LEMMA OneMore ==
  ASSUME NEW n \in Nat
  PROVE  Append(UpTo(n), n) = UpTo(n + 1)
BY DEF UpTo

LEMMA OneMoreParam ==
  ASSUME NEW q \in Seq([param : Nat, separator : {"=", "%3D"}]), NEW n \in Nat,
         [i \in DOMAIN q |-> q[i].param] = UpTo(n)
  PROVE  LET s == Append(q, [param |-> n, separator |-> "%3D"])
         IN  [i \in DOMAIN s |-> s[i].param] = UpTo(n + 1)
<1>1. [param |-> n, separator |-> "%3D"] \in [param : Nat, separator : {"=", "%3D"}]
  OBVIOUS
<1>2. PICK r \in [param : Nat, separator : {"=", "%3D"}] :
        r = [param |-> n, separator |-> "%3D"]
  BY <1>1
<1>3. r.param = n
  BY <1>2
<1>4. [i \in DOMAIN Append(q, r) |-> Append(q, r)[i].param] = UpTo(n + 1)
  BY <1>3 DEF UpTo
<1>5. QED
  BY <1>2, <1>4


\* The option a request is at, and what setting it does to its handle.
LEMMA Reading ==
  ASSUME TypeOK, LockInv, WalkInv, fault = NoConfig, NEW t \in Thread,
         \/ pc[t] = "configure" /\ option[t] <= Len(Script(config[t]))
         \/ pc[t] \in {"params", "headers"}
  PROVE  /\ config[t] \in Config /\ option[t] \in 1 .. Len(Script(config[t]))
         /\ Option(t) \in Options /\ option[t] + 1 \in 1 .. Len(basic_post_query) + 1
         /\ configure_curl(handle[t], Option(t), config[t])
              \in [Options -> {"unset", "own", "body", "size"}]
<1>1. config[t] \in Config
  BY DEF LockInv
<1>2. PICK n \in 13 .. 15 : Len(Script(config[t])) = n
  BY <1>1, Scripts
<1>3. option[t] \in 1 .. Len(basic_post_query) + 1
      /\ handle[t] \in [Options -> {"unset", "own", "body", "size"}]
  BY DEF TypeOK
<1>p. Len(basic_post_query) = 15
  BY <1>1, Scripts
<1>q. option[t] \in 1 .. 16
  BY <1>3, <1>p
<1>4. pc[t] = "params" => option[t] = 3
  BY <1>1, RequestAssumption DEF WalkInv, Walk
<1>5. pc[t] = "headers" => option[t] = 8
  BY <1>1, RequestAssumption DEF WalkInv, Walk
<1>n. option[t] \in 1 .. n
  <2>1. CASE pc[t] = "configure" /\ option[t] <= Len(Script(config[t]))
    <3>1. option[t] <= n
      BY <1>2, <2>1
    <3>2. QED
      BY <1>q, <3>1
  <2>2. CASE pc[t] \in {"params", "headers"}
    BY <1>4, <1>5, <2>2
  <2>3. QED
    BY <2>1, <2>2
<1>6. option[t] \in 1 .. Len(Script(config[t]))
  BY <1>2, <1>n
<1>7. Option(t) \in Options
  <2>1. \A k \in 1 .. Len(Script(config[t])) : Script(config[t])[k] \in Options
    BY <1>1, Scripts
  <2>2. Script(config[t])[option[t]] \in Options
    BY <1>6, <2>1
  <2>3. QED
    BY <2>2 DEF Option
<1>8. option[t] + 1 \in 1 .. 15 + 1
  <2>1. PICK k \in 1 .. n : k = option[t]
    BY <1>n
  <2>2. k + 1 \in 1 .. 15 + 1
    OBVIOUS
  <2>3. QED
    BY <2>1, <2>2
<1>9. QED
  BY <1>1, <1>3, <1>6, <1>7, <1>8, <1>p, Configured

\* The generators of a config are records.
LEMMA Generators ==
  ASSUME NEW n \in [Config -> [headers : Nat, params : Nat]], NEW c \in Config
  PROVE  /\ [n EXCEPT ![c].params = 0] \in [Config -> [headers : Nat, params : Nat]]
         /\ [n EXCEPT ![c].headers = 0] \in [Config -> [headers : Nat, params : Nat]]
         /\ [n EXCEPT ![c].params = @ + 1] \in [Config -> [headers : Nat, params : Nat]]
         /\ [n EXCEPT ![c].headers = @ + 1] \in [Config -> [headers : Nat, params : Nat]]
OBVIOUS

\* The header lists of the configs, and the response, are records.
LEMMA Lists ==
  ASSUME NEW l \in [Config -> [at : {"null", "live", "freed"}, items : Seq(Nat)]],
         NEW c \in Config, NEW k \in Nat
  PROVE  /\ [l EXCEPT ![c] = [at |-> "freed", items |-> <<>>]]
              \in [Config -> [at : {"null", "live", "freed"}, items : Seq(Nat)]]
         /\ [l EXCEPT ![c] = [at |-> "live", items |-> Append(@.items, k)]]
              \in [Config -> [at : {"null", "live", "freed"}, items : Seq(Nat)]]
<1>1. l[c].items \in Seq(Nat)
  OBVIOUS
<1>2. Append(l[c].items, k) \in Seq(Nat)
  BY <1>1
<1>3. QED
  BY <1>2

LEMMA Responses ==
  ASSUME NEW m \in [chunks : Seq(Thread \X Nat), room : Nat]
  PROVE  /\ \A x \in Thread \X Nat :
              [m EXCEPT !.chunks = Append(@, x)] \in [chunks : Seq(Thread \X Nat), room : Nat]
         /\ [m EXCEPT !.room = Len(m.chunks) + 1]
              \in [chunks : Seq(Thread \X Nat), room : Nat]
<1>1. m.chunks \in Seq(Thread \X Nat)
  OBVIOUS
<1>2. /\ \A x \in Thread \X Nat : Append(m.chunks, x) \in Seq(Thread \X Nat)
      /\ Len(m.chunks) + 1 \in Nat
  BY <1>1
<1>3. QED
  BY <1>2

\* An escaped parameter.
LEMMA Encoded ==
  ASSUME NEW k \in Nat
  PROVE  url_encode_string([param |-> k, separator |-> "="])
           = [param |-> k, separator |-> "%3D"]
BY DEF url_encode_string

LEMMA Queries ==
  ASSUME NEW q \in Seq([param : Nat, separator : {"=", "%3D"}]), NEW k \in Nat
  PROVE  Append(q, url_encode_string([param |-> k, separator |-> "="]))
           \in Seq([param : Nat, separator : {"=", "%3D"}])
<1>1. [param |-> k, separator |-> "%3D"] \in [param : Nat, separator : {"=", "%3D"}]
  OBVIOUS
<1>2. Append(q, [param |-> k, separator |-> "%3D"])
        \in Seq([param : Nat, separator : {"=", "%3D"}])
  BY <1>1
<1>3. QED
  BY <1>2, Encoded


Held == {"perform", "copy", "unlock curl"}

\* A step of thread t to p past "lock", or out of the call, that takes and gives no lock.
LEMMA Within ==
  ASSUME LockInv, pc \in [Thread -> Places], NEW t \in Thread, NEW p,
         pc[t] \notin {"idle", "lock"}, p # "lock", p \in Held <=> pc[t] \in Held,
         pc' = [pc EXCEPT ![t] = p], UNCHANGED <<life, config, request_mutex, curl_lock>>
  PROVE  LockInv'
<1>1. \A u \in Thread : pc'[u] = IF u = t THEN p ELSE pc[u]
  OBVIOUS
<1>2. ASSUME NEW u \in Thread, pc'[u] # "idle"
      PROVE  config[u] \in Config /\ life[config[u]] = "alive"
  <2>1. pc[u] # "idle"
    BY <1>1, <1>2
  <2>2. QED
    BY <2>1 DEF LockInv
<1>3. ASSUME NEW u \in Thread, pc'[u] \notin {"idle", "lock"}
      PROVE  request_mutex[config[u]] = u
  <2>1. pc[u] \notin {"idle", "lock"}
    BY <1>1, <1>3
  <2>2. QED
    BY <2>1 DEF LockInv
<1>4. \A u \in Thread : pc'[u] \in Held <=> curl_lock = u
  BY <1>1 DEF LockInv, Held
<1>5. QED
  BY <1>2, <1>3, <1>4 DEF LockInv, Held


\* A step of thread t to p that leaves the lists alone.
LEMMA ListsStay ==
  ASSUME ListInv, pc \in [Thread -> Places], NEW t \in Thread, NEW p,
         pc[t] # "unlock", p \in Listing \/ pc[t] \notin Listing \/ list[config[t]].at # "live",
         pc' = [pc EXCEPT ![t] = p], UNCHANGED <<list, config, headers, served>>
  PROVE  ListInv'
<1>1. \A u \in Thread : pc'[u] = IF u = t THEN p ELSE pc[u]
  OBVIOUS
<1>2. \A c \in Config : list[c].at = "live" =>
        \E u \in Thread : config[u] = c /\ pc'[u] \in Listing
  <2>1. TAKE c \in Config
  <2>2. HAVE list[c].at = "live"
  <2>3. PICK u \in Thread : config[u] = c /\ pc[u] \in Listing
    BY <2>2 DEF ListInv
  <2>4. pc'[u] \in Listing
    BY <1>1, <2>2, <2>3
  <2>5. QED
    BY <2>3, <2>4
<1>3. \A c \in Config : list[c].at = "freed" =>
        served[c] >= 1 \/ \E u \in Thread : config[u] = c /\ pc'[u] = "unlock"
  <2>1. TAKE c \in Config
  <2>2. HAVE list[c].at = "freed"
  <2>3. CASE served[c] >= 1
    BY <2>3
  <2>4. CASE \E u \in Thread : config[u] = c /\ pc[u] = "unlock"
    <3>1. PICK u \in Thread : config[u] = c /\ pc[u] = "unlock"
      BY <2>4
    <3>2. pc'[u] = "unlock"
      BY <1>1, <3>1
    <3>3. QED
      BY <3>1, <3>2
  <2>5. QED
    BY <2>2, <2>3, <2>4 DEF ListInv
<1>4. QED
  BY <1>2, <1>3 DEF ListInv


\* A chunk more: the tail that belongs to x stays one, and no transfer is cut.
LEMMA GrownTail ==
  ASSUME NEW s \in Seq(Thread \X Nat), NEW x \in Thread \X Nat,
         \A i, j \in 1 .. Len(s) : i < j /\ s[i] = x => s[j] = x
  PROVE  /\ Len(Append(s, x)) = Len(s) + 1
         /\ \A i \in 1 .. Len(s) : Append(s, x)[i] = s[i]
         /\ Append(s, x)[Len(s) + 1] = x
         /\ \A i, j \in 1 .. Len(s) + 1 : i < j /\ Append(s, x)[i] = x => Append(s, x)[j] = x
<1>1. PICK n \in Nat : n = Len(s)
  OBVIOUS
<1>2. PICK a : a = Append(s, x)
  OBVIOUS
<1>3. Len(a) = n + 1 /\ (\A i \in 1 .. n : a[i] = s[i]) /\ a[n + 1] = x
  BY <1>1, <1>2
<1>4. \A i, j \in 1 .. n : i < j /\ s[i] = x => s[j] = x
  BY <1>1
<1>5. ASSUME NEW i \in 1 .. n + 1, NEW j \in 1 .. n + 1, i < j, a[i] = x
      PROVE  a[j] = x
  <2>1. i \in 1 .. n /\ s[i] = x
    BY <1>3, <1>5
  <2>2. CASE j = n + 1
    BY <1>3, <2>2
  <2>3. CASE j \in 1 .. n
    <3>1. s[j] = x
      BY <1>4, <1>5, <2>1, <2>3
    <3>2. QED
      BY <1>3, <2>3, <3>1
  <2>4. QED
    BY <2>2, <2>3
<1>6. QED
  BY <1>1, <1>2, <1>3, <1>5

LEMMA GrownWhole ==
  ASSUME NEW s \in Seq(Thread \X Nat), NEW x \in Thread \X Nat,
         \A i, j, k \in 1 .. Len(s) : i < j /\ j < k /\ s[i] = s[k] => s[j] = s[i],
         \A i, j \in 1 .. Len(s) : i < j /\ s[i] = x => s[j] = x
  PROVE  \A i, j, k \in 1 .. Len(s) + 1 :
           i < j /\ j < k /\ Append(s, x)[i] = Append(s, x)[k]
             => Append(s, x)[j] = Append(s, x)[i]
<1>1. PICK n \in Nat : n = Len(s)
  OBVIOUS
<1>2. PICK a : a = Append(s, x)
  OBVIOUS
<1>3. (\A i \in 1 .. n : a[i] = s[i]) /\ a[n + 1] = x
  BY <1>1, <1>2
<1>4. /\ \A i, j \in 1 .. n : i < j /\ s[i] = x => s[j] = x
      /\ \A i, j, k \in 1 .. n : i < j /\ j < k /\ s[i] = s[k] => s[j] = s[i]
  BY <1>1
<1>5. ASSUME NEW i \in 1 .. n + 1, NEW j \in 1 .. n + 1, NEW k \in 1 .. n + 1,
             i < j, j < k, a[i] = a[k]
      PROVE  a[j] = a[i]
  <2>1. i \in 1 .. n /\ j \in 1 .. n
    BY <1>5
  <2>2. a[i] = s[i] /\ a[j] = s[j]
    BY <1>3, <2>1
  <2>3. CASE k = n + 1
    <3>1. s[i] = x
      BY <1>3, <1>5, <2>2, <2>3
    <3>2. s[j] = x
      BY <1>4, <1>5, <2>1, <3>1
    <3>3. QED
      BY <2>2, <3>1, <3>2
  <2>4. CASE k \in 1 .. n
    <3>1. s[i] = s[k]
      BY <1>3, <1>5, <2>2, <2>4
    <3>2. s[j] = s[i]
      BY <1>4, <1>5, <2>1, <2>4, <3>1
    <3>3. QED
      BY <2>2, <3>2
  <2>5. QED
    BY <2>3, <2>4
<1>6. QED
  BY <1>1, <1>2, <1>5

\* Places of a request that has received nothing.
Early == {"lock", "init", "configure", "params", "headers"}

\* A step of thread t to p that leaves the response and curl_lock alone.
LEMMA ChunksStay ==
  ASSUME ChunkInv, pc \in [Thread -> Places], NEW t \in Thread, NEW p,
         p \in Early => pc[t] \in Early, p # "copy",
         pc' = [pc EXCEPT ![t] = p], UNCHANGED <<memory, made, curl_lock>>
  PROVE  ChunkInv'
<1>1. \A u \in Thread : pc'[u] = IF u = t THEN p ELSE pc[u]
  OBVIOUS
<1>2. \A u \in Thread : pc'[u] \in Early => pc[u] \in Early
  BY <1>1
<1>3. \A u \in Thread : pc'[u] = "copy" => pc[u] = "copy"
  BY <1>1
<1>4. \A u \in Thread : Transfer(u)' = Transfer(u)
  BY DEF Transfer
<1>5. QED
  BY <1>2, <1>3, <1>4 DEF ChunkInv, Early, ResponseFits


\* Where a request is in its script.
LEMMA Position ==
  ASSUME TypeOK, NEW t \in Thread, config[t] \in Config
  PROVE  /\ option[t] \in Nat
         /\ option[t] > Len(Script(config[t])) => option[t] > 8
         /\ option[t] <= Len(Script(config[t])) =>
              /\ option[t] + 1 <= Len(Script(config[t])) + 1
              /\ Option(t) = "URL" <=> option[t] = 3
              /\ Option(t) = "HTTPHEADER" <=> option[t] = 8
         /\ \A k \in 1 .. 9 : k <= Len(Script(config[t])) + 1
<1>1. PICK n \in 13 .. 15 : Len(Script(config[t])) = n
  BY Scripts
<1>2. Len(basic_post_query) = 15
  BY Scripts
<1>3. option[t] \in 1 .. 16
  BY <1>2 DEF TypeOK
<1>4. ASSUME option[t] <= n
      PROVE  Option(t) = "URL" <=> option[t] = 3
  <2>1. option[t] \in 1 .. n
    BY <1>3, <1>4
  <2>2. option[t] \in 1 .. Len(Script(config[t]))
    BY <1>1, <2>1
  <2>3. QED
    BY <2>2, Scripts DEF Option
<1>5. ASSUME option[t] <= n
      PROVE  Option(t) = "HTTPHEADER" <=> option[t] = 8
  <2>1. option[t] \in 1 .. n
    BY <1>3, <1>5
  <2>2. option[t] \in 1 .. Len(Script(config[t]))
    BY <1>1, <2>1
  <2>3. QED
    BY <2>2, Scripts DEF Option
<1>6. /\ option[t] \in Nat
      /\ option[t] > n => option[t] > 8
      /\ option[t] <= n => option[t] + 1 <= n + 1
      /\ \A k \in 1 .. 9 : k <= n + 1
  BY <1>3
<1>7. QED
  BY <1>1, <1>4, <1>5, <1>6


\* Places where something is said of what was sent.
Walking == {"configure", "params", "headers", "perform", "copy"}

\* Before a fault all walks are sound.
LEMMA AllWalk ==
  ASSUME LockInv, WalkInv, fault = NoConfig, NEW u \in Thread
  PROVE  Walk(u)
<1>1. CASE pc[u] \in Walking
  <2>1. config[u] \in Config
    BY <1>1 DEF LockInv, Walking
  <2>2. config[u] # fault
    BY <2>1, RequestAssumption
  <2>3. QED
    BY <2>2 DEF WalkInv
<1>2. CASE pc[u] \notin Walking
  BY <1>2 DEF Walk, Walking, InTransfer
<1>3. QED
  BY <1>1, <1>2

\* A walk that nobody disturbs.
LEMMA SameWalk ==
  ASSUME NEW u \in Thread, Walk(u), config'[u] = config[u], pc'[u] = pc[u],
         pc[u] \in Walking =>
           /\ option'[u] = option[u] /\ query'[u] = query[u]
           /\ params'[config[u]] = params[config[u]]
           /\ headers'[config[u]] = headers[config[u]]
           /\ next'[config[u]] = next[config[u]] /\ list'[config[u]] = list[config[u]]
  PROVE  Walk(u)'
<1>1. CASE pc[u] \in Walking
  <2>1. Sent(u)' = Sent(u)
    BY <1>1 DEF Sent
  <2>2. Script(config[u])' = Script(config[u])
    BY DEF Script
  <2>3. InTransfer(u)' = InTransfer(u)
    BY DEF InTransfer
  <2>4. QED
    BY <1>1, <2>1, <2>2, <2>3 DEF Walk
<1>2. CASE pc[u] \notin Walking
  BY <1>2 DEF Walk, Walking, InTransfer
<1>3. QED
  BY <1>1, <1>2

\* A step on a config that no request uses.
LEMMA OwnersWalk ==
  ASSUME LockInv, WalkInv, fault = NoConfig, NEW c \in Config,
         \A u \in Thread : pc[u] = "idle" \/ config[u] # c,
         UNCHANGED <<pc, config, option, query, next>>,
         \A d \in Config : d # c =>
           params'[d] = params[d] /\ headers'[d] = headers[d] /\ list'[d] = list[d]
  PROVE  WalkInv'
<1>1. ASSUME NEW u \in Thread
      PROVE  Walk(u)'
  <2>1. Walk(u)
    BY AllWalk
  <2>2. pc[u] \in Walking => config[u] \in Config /\ config[u] # c
    BY DEF Walking, LockInv
  <2>3. pc[u] \in Walking =>
          /\ option'[u] = option[u] /\ query'[u] = query[u]
          /\ params'[config[u]] = params[config[u]]
          /\ headers'[config[u]] = headers[config[u]]
          /\ next'[config[u]] = next[config[u]] /\ list'[config[u]] = list[config[u]]
    BY <2>2
  <2>4. QED
    BY <2>1, <2>3, SameWalk
<1>2. QED
  BY <1>1 DEF WalkInv

\* A step of thread t past "lock": the other walks are of other configs.
LEMMA OthersWalk ==
  ASSUME LockInv, WalkInv, fault = NoConfig, NEW t \in Thread, UNCHANGED <<params, headers>>,
         \A u \in Thread : u # t =>
           /\ config'[u] = config[u] /\ pc'[u] = pc[u]
           /\ option'[u] = option[u] /\ query'[u] = query[u],
         \/ UNCHANGED <<next, list>>
         \/ /\ pc[t] \notin {"idle", "lock"}
            /\ \A d \in Config : d # config[t] => next'[d] = next[d] /\ list'[d] = list[d],
         Walk(t)' \/ config'[t] = fault'
  PROVE  WalkInv'
<1>1. ASSUME NEW u \in Thread, u # t
      PROVE  Walk(u)'
  <2>1. Walk(u)
    BY AllWalk
  <2>2. pc[u] \in Walking
           => next'[config[u]] = next[config[u]] /\ list'[config[u]] = list[config[u]]
    <3>1. CASE pc[t] \notin {"idle", "lock"} /\ pc[u] \in Walking
      <4>1. config[u] # config[t]
        BY <1>1, <3>1, Exclusive DEF Walking
      <4>2. config[u] \in Config
        BY <3>1 DEF Walking, LockInv
      <4>3. QED
        BY <4>1, <4>2
    <3>2. QED
      BY <3>1
  <2>3. /\ config'[u] = config[u] /\ pc'[u] = pc[u]
        /\ option'[u] = option[u] /\ query'[u] = query[u]
        /\ params'[config[u]] = params[config[u]]
        /\ headers'[config[u]] = headers[config[u]]
    BY <1>1
  <2>4. QED
    BY <2>1, <2>2, <2>3, SameWalk
<1>2. QED
  BY <1>1 DEF WalkInv


LEMMA Nothing ==
  /\ <<>> = UpTo(0)
  /\ \A q : q = <<>> => [i \in DOMAIN q |-> q[i].param] = UpTo(0)
BY DEF UpTo


\* The steps of a request between taking the mutex and taking curl_lock.
Quiet(t) ==
  InitCurl(t) \/ Configure(t) \/ StartWalk(t) \/ YieldParam(t) \/ YieldHeader(t)

LEMMA QuietSteps ==
  ASSUME TypeOK, NEW t \in Thread, Quiet(t)
  PROVE  /\ pc[t] \in {"init", "configure", "params", "headers"}
         /\ \E p \in {"configure", "params", "headers"} : pc' = [pc EXCEPT ![t] = p]
         /\ UNCHANGED <<life, headers, params, served, failed, request_mutex, curl_lock>>
         /\ UNCHANGED <<memory, config, received, made>>
<1>1. pc = [pc EXCEPT ![t] = pc[t]]
  BY DEF TypeOK
<1>2. CASE InitCurl(t)
  BY <1>2 DEF InitCurl, Goto, args, locks, curl
<1>3. CASE Configure(t)
  BY <1>1, <1>3 DEF Configure, args, locks, curl
<1>4. CASE StartWalk(t)
  BY <1>4 DEF StartWalk, EndWalk, Goto, args, locks, curl
<1>5. CASE YieldParam(t)
  BY <1>1, <1>5 DEF YieldParam, EndWalk, Goto, args, locks, curl
<1>6. CASE YieldHeader(t)
  BY <1>1, <1>6 DEF YieldHeader, EndWalk, Goto, args, locks, curl
<1>7. QED
  BY <1>2, <1>3, <1>4, <1>5, <1>6 DEF Quiet

\* Of these only YieldHeader touches the lists.
LEMMA QuietLists ==
  ASSUME NEW t \in Thread, Quiet(t), ~YieldHeader(t)
  PROVE  UNCHANGED <<list, fault>>
BY DEF Quiet, InitCurl, Configure, StartWalk, YieldParam


\* Every action keeps the types.
LEMMA TypeKept ==
  ASSUME TypeOK, LockInv, WalkInv, fault = NoConfig,
         Call \/ \E t \in Thread : Run(t) \/ Peer(t)
  PROVE  TypeOK'
<1>1. ASSUME NEW c \in Config, initialize_request_config(c) PROVE TypeOK'
  <2>1. /\ life' = [life EXCEPT ![c] = "alive"]
        /\ UNCHANGED <<headers, params, served, failed, next, list, request_mutex, curl_lock,
                       memory, pc, config, option, handle, query, received, made, fault>>
    BY <1>1 DEF initialize_request_config, args, locks, curl
  <2>2. life' \in [Config -> {"none", "alive", "freed"}]
    BY <2>1 DEF TypeOK
  <2>3. QED
    BY <2>1, <2>2 DEF TypeOK
<1>2. ASSUME NEW c \in Config, free_request_config(c) PROVE TypeOK'
  <2>1. CASE list[c].at = "null"
    <3>1. /\ life' = [life EXCEPT ![c] = "freed"]
          /\ UNCHANGED <<headers, params, served, failed, next, list, request_mutex, curl_lock,
                         memory, pc, config, option, handle, query, received, made, fault>>
      BY <1>2, <2>1 DEF free_request_config, FreeList, Busy, args, locks, curl
    <3>2. life' \in [Config -> {"none", "alive", "freed"}]
      BY <3>1 DEF TypeOK
    <3>3. QED
      BY <3>1, <3>2 DEF TypeOK
  <2>2. CASE list[c].at = "freed"
    <3>1. /\ life' = [life EXCEPT ![c] = "freed"]
          /\ fault' = c
          /\ UNCHANGED <<headers, params, served, failed, next, list, request_mutex, curl_lock,
                         memory, pc, config, option, handle, query, received, made>>
      BY <1>2, <2>2 DEF free_request_config, FreeList, Busy, args, locks, curl
    <3>2. /\ life' \in [Config -> {"none", "alive", "freed"}]
          /\ fault' \in Config \cup {NoConfig}
      BY <3>1 DEF TypeOK
    <3>3. QED
      BY <3>1, <3>2 DEF TypeOK
  <2>3. CASE list[c].at \notin {"null", "freed"}
    <3>1. /\ life' = [life EXCEPT ![c] = "freed"]
          /\ list' = [list EXCEPT ![c] = [at |-> "freed", items |-> <<>>]]
          /\ UNCHANGED <<headers, params, served, failed, next, request_mutex, curl_lock,
                         memory, pc, config, option, handle, query, received, made, fault>>
      BY <1>2, <2>3 DEF free_request_config, FreeList, Busy, args, locks, curl
    <3>2. life' \in [Config -> {"none", "alive", "freed"}]
      BY <3>1 DEF TypeOK
    <3>3. list' \in [Config -> [at : {"null", "live", "freed"}, items : Seq(Nat)]]
      BY <3>1, Lists DEF TypeOK
    <3>4. QED
      BY <3>1, <3>2, <3>3 DEF TypeOK
  <2>4. QED
    BY <2>1, <2>2, <2>3, <1>2 DEF free_request_config
<1>3. ASSUME NEW c \in Config, add_request_header(c) PROVE TypeOK'
  <2>1. /\ headers' = [headers EXCEPT ![c] = @ + 1]
        /\ UNCHANGED <<life, params, served, failed, next, list, request_mutex, curl_lock,
                       memory, pc, config, option, handle, query, received, made, fault>>
    BY <1>3 DEF add_request_header, MayAdd, Busy, args, locks, curl
  <2>2. headers' \in [Config -> Nat]
    BY <2>1 DEF TypeOK
  <2>3. QED
    BY <2>1, <2>2 DEF TypeOK
<1>4. ASSUME NEW c \in Config, add_request_param(c) PROVE TypeOK'
  <2>1. /\ params' = [params EXCEPT ![c] = @ + 1]
        /\ UNCHANGED <<life, headers, served, failed, next, list, request_mutex, curl_lock,
                       memory, pc, config, option, handle, query, received, made, fault>>
    BY <1>4 DEF add_request_param, MayAdd, Busy, args, locks, curl
  <2>2. params' \in [Config -> Nat]
    BY <2>1 DEF TypeOK
  <2>3. QED
    BY <2>1, <2>2 DEF TypeOK
<1>5. ASSUME NEW t \in Thread, NEW c \in Config, http_request(t, c) PROVE TypeOK'
  <2>1. /\ pc' = [pc EXCEPT ![t] = "lock"]
        /\ config' = [config EXCEPT ![t] = c]
        /\ made' = [made EXCEPT ![t] = @ + 1]
        /\ UNCHANGED <<life, headers, params, served, failed, next, list, request_mutex,
                       curl_lock, memory, option, handle, query, received, fault>>
    BY <1>5 DEF http_request, Goto, args, locks, curl
  <2>2. pc' \in [Thread -> Places]
    BY <2>1 DEF TypeOK, Places
  <2>3. /\ config' \in [Thread -> Config \cup {NoConfig}]
        /\ made' \in [Thread -> Nat]
    BY <2>1 DEF TypeOK
  <2>4. QED
    BY <2>1, <2>2, <2>3 DEF TypeOK
<1>6. ASSUME NEW t \in Thread, LockRequest(t) PROVE TypeOK'
  <2>c. config[t] \in Config
    BY <1>6 DEF LockInv, LockRequest
  <2>1. /\ request_mutex' = [request_mutex EXCEPT ![config[t]] = t]
        /\ pc' = [pc EXCEPT ![t] = "init"]
        /\ UNCHANGED <<life, headers, params, served, failed, next, list, curl_lock, memory,
                       config, option, handle, query, received, made, fault>>
    BY <1>6 DEF LockRequest, Goto, RequestUnlocked, args, locks, curl
  <2>2. pc' \in [Thread -> Places]
    BY <2>1 DEF TypeOK, Places
  <2>3. request_mutex' \in [Config -> Thread \cup {NoThread}]
    BY <2>1, <2>c DEF TypeOK
  <2>4. QED
    BY <2>1, <2>2, <2>3 DEF TypeOK
<1>7. ASSUME NEW t \in Thread, InitCurl(t) PROVE TypeOK'
  <2>c. config[t] \in Config
    BY <1>7 DEF LockInv, InitCurl
  <2>1. /\ pc' = [pc EXCEPT ![t] = "configure"]
        /\ option' = [option EXCEPT ![t] = 1]
        /\ handle' = [handle EXCEPT ![t] = NewHandle]
        /\ query' = [query EXCEPT ![t] = <<>>]
        /\ UNCHANGED <<life, headers, params, served, failed, next, list, request_mutex,
                       curl_lock, memory, config, received, made, fault>>
    BY <1>7 DEF InitCurl, Goto, args, locks, curl
  <2>2. pc' \in [Thread -> Places]
    BY <2>1 DEF TypeOK, Places
  <2>3. query' \in [Thread -> Seq([param : Nat, separator : {"=", "%3D"}])]
    BY <2>1 DEF TypeOK
  <2>4. option' \in [Thread -> 1 .. Len(basic_post_query) + 1]
    BY <2>1, <2>c, Scripts DEF TypeOK
  <2>5. handle' \in [Thread -> [Options -> {"unset", "own", "body", "size"}]]
    BY <2>1 DEF TypeOK, NewHandle
  <2>6. QED
    BY <2>1, <2>2, <2>3, <2>4, <2>5 DEF TypeOK
<1>8. ASSUME NEW t \in Thread, InitFails(t) PROVE TypeOK'
  <2>c. config[t] \in Config
    BY <1>8 DEF LockInv, InitFails
  <2>1. /\ failed' = failed \cup {config[t]}
        /\ pc' = [pc EXCEPT ![t] = "idle"]
        /\ UNCHANGED <<life, headers, params, served, next, list, request_mutex, curl_lock,
                       memory, config, option, handle, query, received, made, fault>>
    BY <1>8 DEF InitFails, Goto, args, locks, curl
  <2>2. pc' \in [Thread -> Places]
    BY <2>1 DEF TypeOK, Places
  <2>3. failed' \in SUBSET Config
    BY <2>1, <2>c DEF TypeOK
  <2>4. QED
    BY <2>1, <2>2, <2>3 DEF TypeOK
<1>9. ASSUME NEW t \in Thread, Configure(t) PROVE TypeOK'
  <2>r. /\ option[t] + 1 \in 1 .. Len(basic_post_query) + 1
        /\ configure_curl(handle[t], Option(t), config[t])
             \in [Options -> {"unset", "own", "body", "size"}]
    BY <1>9, Reading DEF Configure
  <2>1. /\ option' = [option EXCEPT ![t] = @ + 1]
        /\ handle' = [handle EXCEPT ![t] = configure_curl(@, Option(t), config[t])]
        /\ UNCHANGED <<life, headers, params, served, failed, next, list, request_mutex,
                       curl_lock, memory, pc, config, query, received, made, fault>>
    BY <1>9 DEF Configure, args, locks, curl
  <2>2. option' \in [Thread -> 1 .. Len(basic_post_query) + 1]
    BY <2>1, <2>r DEF TypeOK
  <2>3. handle' \in [Thread -> [Options -> {"unset", "own", "body", "size"}]]
    BY <2>1, <2>r DEF TypeOK
  <2>4. QED
    BY <2>1, <2>2, <2>3 DEF TypeOK
<1>10. ASSUME NEW t \in Thread, StartWalk(t) PROVE TypeOK'
  <2>c. config[t] \in Config
    BY <1>10 DEF LockInv, StartWalk
  <2>r. /\ option[t] + 1 \in 1 .. Len(basic_post_query) + 1
        /\ configure_curl(handle[t], Option(t), config[t])
             \in [Options -> {"unset", "own", "body", "size"}]
    BY <1>10, Reading DEF StartWalk
  <2>1. CASE Option(t) = "URL" /\ params[config[t]] > 0
    <3>1. /\ next' = [next EXCEPT ![config[t]].params = 0]
          /\ pc' = [pc EXCEPT ![t] = "params"]
          /\ UNCHANGED <<life, headers, params, served, failed, list, request_mutex, curl_lock,
                         memory, config, option, handle, query, received, made, fault>>
      BY <1>10, <2>1 DEF StartWalk, Goto, EndWalk, args, locks, curl
    <3>2. pc' \in [Thread -> Places]
      BY <3>1 DEF TypeOK, Places
    <3>3. next' \in [Config -> [headers : Nat, params : Nat]]
      BY <3>1, <2>c, Generators DEF TypeOK
    <3>4. QED
      BY <3>1, <3>2, <3>3 DEF TypeOK
  <2>2. CASE Option(t) = "URL" /\ params[config[t]] = 0
    <3>1. /\ pc' = [pc EXCEPT ![t] = "configure"]
          /\ option' = [option EXCEPT ![t] = @ + 1]
          /\ handle' = [handle EXCEPT ![t] = configure_curl(@, Option(t), config[t])]
          /\ UNCHANGED <<life, headers, params, served, failed, next, list, request_mutex,
                         curl_lock, memory, config, query, received, made, fault>>
      BY <1>10, <2>2 DEF StartWalk, Goto, EndWalk, args, locks, curl
    <3>2. pc' \in [Thread -> Places]
      BY <3>1 DEF TypeOK, Places
    <3>3. option' \in [Thread -> 1 .. Len(basic_post_query) + 1]
      BY <3>1, <2>r DEF TypeOK
    <3>4. handle' \in [Thread -> [Options -> {"unset", "own", "body", "size"}]]
      BY <3>1, <2>r DEF TypeOK
    <3>5. QED
      BY <3>1, <3>2, <3>3, <3>4 DEF TypeOK
  <2>3. CASE Option(t) = "HTTPHEADER"
    <3>1. /\ next' = [next EXCEPT ![config[t]].headers = 0]
          /\ pc' = [pc EXCEPT ![t] = "headers"]
          /\ UNCHANGED <<life, headers, params, served, failed, list, request_mutex, curl_lock,
                         memory, config, option, handle, query, received, made, fault>>
      BY <1>10, <2>3 DEF StartWalk, Goto, EndWalk, args, locks, curl
    <3>2. pc' \in [Thread -> Places]
      BY <3>1 DEF TypeOK, Places
    <3>3. next' \in [Config -> [headers : Nat, params : Nat]]
      BY <3>1, <2>c, Generators DEF TypeOK
    <3>4. QED
      BY <3>1, <3>2, <3>3 DEF TypeOK
  <2>4. QED
    BY <2>1, <2>2, <2>3, <1>10 DEF StartWalk
<1>11. ASSUME NEW t \in Thread, YieldParam(t) PROVE TypeOK'
  <2>c. config[t] \in Config
    BY <1>11 DEF LockInv, YieldParam
  <2>r. /\ option[t] + 1 \in 1 .. Len(basic_post_query) + 1
        /\ configure_curl(handle[t], Option(t), config[t])
             \in [Options -> {"unset", "own", "body", "size"}]
    BY <1>11, Reading DEF YieldParam
  <2>n. next[config[t]].params \in Nat /\ next[config[t]].headers \in Nat
    BY <2>c DEF TypeOK
  <2>1. CASE 0 <= next[config[t]].params /\ next[config[t]].params < params[config[t]]
    <3>1. /\ next' = [next EXCEPT ![config[t]].params = @ + 1]
          /\ query' = [query EXCEPT ![t] =
                          Append(@, url_encode_string(
                              [param |-> next[config[t]].params, separator |-> "="]))]
          /\ UNCHANGED <<life, headers, params, served, failed, list, request_mutex, curl_lock,
                         memory, pc, config, option, handle, received, made, fault>>
      BY <1>11, <2>1 DEF YieldParam, Goto, EndWalk, yield_increment, args, locks, curl
    <3>2. next' \in [Config -> [headers : Nat, params : Nat]]
      BY <3>1, <2>c, Generators DEF TypeOK
    <3>3. query' \in [Thread -> Seq([param : Nat, separator : {"=", "%3D"}])]
      BY <3>1, <2>n, Queries DEF TypeOK
    <3>4. QED
      BY <3>1, <3>2, <3>3 DEF TypeOK
  <2>2. CASE ~(0 <= next[config[t]].params /\ next[config[t]].params < params[config[t]])
    <3>1. /\ next' = [next EXCEPT ![config[t]].params = @ + 1]
          /\ pc' = [pc EXCEPT ![t] = "configure"]
          /\ option' = [option EXCEPT ![t] = @ + 1]
          /\ handle' = [handle EXCEPT ![t] = configure_curl(@, Option(t), config[t])]
          /\ UNCHANGED <<life, headers, params, served, failed, list, request_mutex, curl_lock,
                         memory, config, query, received, made, fault>>
      BY <1>11, <2>2 DEF YieldParam, Goto, EndWalk, yield_increment, args, locks, curl
    <3>2. pc' \in [Thread -> Places]
      BY <3>1 DEF TypeOK, Places
    <3>3. next' \in [Config -> [headers : Nat, params : Nat]]
      BY <3>1, <2>c, Generators DEF TypeOK
    <3>4. option' \in [Thread -> 1 .. Len(basic_post_query) + 1]
      BY <3>1, <2>r DEF TypeOK
    <3>5. handle' \in [Thread -> [Options -> {"unset", "own", "body", "size"}]]
      BY <3>1, <2>r DEF TypeOK
    <3>6. QED
      BY <3>1, <3>2, <3>3, <3>4, <3>5 DEF TypeOK
  <2>3. QED
    BY <2>1, <2>2, <1>11 DEF YieldParam
<1>12. ASSUME NEW t \in Thread, YieldHeader(t) PROVE TypeOK'
  <2>c. config[t] \in Config
    BY <1>12 DEF LockInv, YieldHeader
  <2>r. /\ option[t] + 1 \in 1 .. Len(basic_post_query) + 1
        /\ configure_curl(handle[t], Option(t), config[t])
             \in [Options -> {"unset", "own", "body", "size"}]
    BY <1>12, Reading DEF YieldHeader
  <2>n. next[config[t]].params \in Nat /\ next[config[t]].headers \in Nat
    BY <2>c DEF TypeOK
  <2>1. CASE next[config[t]].headers < 0 \/ next[config[t]].headers >= headers[config[t]]
    <3>1. /\ next' = [next EXCEPT ![config[t]].headers = @ + 1]
          /\ pc' = [pc EXCEPT ![t] = "configure"]
          /\ option' = [option EXCEPT ![t] = @ + 1]
          /\ handle' = [handle EXCEPT ![t] = configure_curl(@, Option(t), config[t])]
          /\ UNCHANGED <<life, headers, params, served, failed, list, request_mutex, curl_lock,
                         memory, config, query, received, made, fault>>
      BY <1>12, <2>1 DEF YieldHeader, Goto, EndWalk, yield_increment, args, locks, curl
    <3>2. pc' \in [Thread -> Places]
      BY <3>1 DEF TypeOK, Places
    <3>3. next' \in [Config -> [headers : Nat, params : Nat]]
      BY <3>1, <2>c, Generators DEF TypeOK
    <3>4. option' \in [Thread -> 1 .. Len(basic_post_query) + 1]
      BY <3>1, <2>r DEF TypeOK
    <3>5. handle' \in [Thread -> [Options -> {"unset", "own", "body", "size"}]]
      BY <3>1, <2>r DEF TypeOK
    <3>6. QED
      BY <3>1, <3>2, <3>3, <3>4, <3>5 DEF TypeOK
  <2>2. CASE ~(next[config[t]].headers < 0 \/ next[config[t]].headers >= headers[config[t]])
              /\ list[config[t]].at = "freed"
    <3>1. /\ next' = [next EXCEPT ![config[t]].headers = @ + 1]
          /\ fault' = config[t]
          /\ UNCHANGED <<life, headers, params, served, failed, list, request_mutex, curl_lock,
                         memory, pc, config, option, handle, query, received, made>>
      BY <1>12, <2>2 DEF YieldHeader, Goto, EndWalk, yield_increment, args, locks, curl
    <3>2. next' \in [Config -> [headers : Nat, params : Nat]]
      BY <3>1, <2>c, Generators DEF TypeOK
    <3>3. fault' \in Config \cup {NoConfig}
      BY <3>1, <2>c DEF TypeOK
    <3>4. QED
      BY <3>1, <3>2, <3>3 DEF TypeOK
  <2>3. CASE ~(next[config[t]].headers < 0 \/ next[config[t]].headers >= headers[config[t]])
              /\ list[config[t]].at # "freed"
    <3>1. /\ next' = [next EXCEPT ![config[t]].headers = @ + 1]
          /\ list' = [list EXCEPT ![config[t]] =
                         [at |-> "live", items |-> Append(@.items, next[config[t]].headers)]]
          /\ UNCHANGED <<life, headers, params, served, failed, request_mutex, curl_lock,
                         memory, pc, config, option, handle, query, received, made, fault>>
      BY <1>12, <2>3 DEF YieldHeader, Goto, EndWalk, yield_increment, args, locks, curl
    <3>2. next' \in [Config -> [headers : Nat, params : Nat]]
      BY <3>1, <2>c, Generators DEF TypeOK
    <3>3. list' \in [Config -> [at : {"null", "live", "freed"}, items : Seq(Nat)]]
      BY <3>1, <2>c, <2>n, Lists DEF TypeOK
    <3>4. QED
      BY <3>1, <3>2, <3>3 DEF TypeOK
  <2>4. QED
    BY <2>1, <2>2, <2>3, <1>12 DEF YieldHeader
<1>13. ASSUME NEW t \in Thread, LockCurl(t) PROVE TypeOK'
  <2>1. /\ curl_lock' = t
        /\ pc' = [pc EXCEPT ![t] = "perform"]
        /\ received' = [received EXCEPT ![t] = 0]
        /\ UNCHANGED <<life, headers, params, served, failed, next, list, request_mutex,
                       memory, config, option, handle, query, made, fault>>
    BY <1>13 DEF LockCurl, Goto, CurlUnlocked, args, locks, curl
  <2>2. pc' \in [Thread -> Places]
    BY <2>1 DEF TypeOK, Places
  <2>3. /\ curl_lock' \in Thread \cup {NoThread}
        /\ received' \in [Thread -> Nat]
    BY <2>1 DEF TypeOK
  <2>4. QED
    BY <2>1, <2>2, <2>3 DEF TypeOK
<1>14. ASSUME NEW t \in Thread, Copy(t) PROVE TypeOK'
  <2>1. /\ memory' = [memory EXCEPT !.chunks = Append(@, Transfer(t))]
        /\ pc' = [pc EXCEPT ![t] = "perform"]
        /\ UNCHANGED <<life, headers, params, served, failed, next, list, request_mutex,
                       curl_lock, config, option, handle, query, received, made, fault>>
    BY <1>14 DEF Copy, Goto, args, locks, curl
  <2>2. pc' \in [Thread -> Places]
    BY <2>1 DEF TypeOK, Places
  <2>3. memory' \in [chunks : Seq(Thread \X Nat), room : Nat]
    BY <2>1, Responses DEF TypeOK, Transfer
  <2>4. QED
    BY <2>1, <2>2, <2>3 DEF TypeOK
<1>15. ASSUME NEW t \in Thread, UnlockCurl(t) PROVE TypeOK'
  <2>1. /\ curl_lock' = NoThread
        /\ pc' = [pc EXCEPT ![t] = "finalize"]
        /\ UNCHANGED <<life, headers, params, served, failed, next, list, request_mutex,
                       memory, config, option, handle, query, received, made, fault>>
    BY <1>15 DEF UnlockCurl, Goto, args, locks, curl
  <2>2. pc' \in [Thread -> Places]
    BY <2>1 DEF TypeOK, Places
  <2>3. curl_lock' \in Thread \cup {NoThread}
    BY <2>1 DEF TypeOK
  <2>4. QED
    BY <2>1, <2>2, <2>3 DEF TypeOK
<1>16. ASSUME NEW t \in Thread, Finalize(t) PROVE TypeOK'
  <2>c. config[t] \in Config
    BY <1>16 DEF LockInv, Finalize
  <2>1. CASE list[config[t]].at = "null"
    <3>1. /\ pc' = [pc EXCEPT ![t] = "unlock"]
          /\ handle' = [handle EXCEPT ![t] = NewHandle]
          /\ query' = [query EXCEPT ![t] = <<>>]
          /\ received' = [received EXCEPT ![t] = 0]
          /\ UNCHANGED <<life, headers, params, served, failed, next, list, request_mutex,
                         curl_lock, memory, config, option, made, fault>>
      BY <1>16, <2>1 DEF Finalize, Goto, finalize_configure_curl, FreeList, args, locks, curl
    <3>2. pc' \in [Thread -> Places]
      BY <3>1 DEF TypeOK, Places
    <3>3. /\ query' \in [Thread -> Seq([param : Nat, separator : {"=", "%3D"}])]
          /\ received' \in [Thread -> Nat]
      BY <3>1 DEF TypeOK
    <3>4. handle' \in [Thread -> [Options -> {"unset", "own", "body", "size"}]]
      BY <3>1 DEF TypeOK, NewHandle
    <3>5. QED
      BY <3>1, <3>2, <3>3, <3>4 DEF TypeOK
  <2>2. CASE list[config[t]].at = "freed"
    <3>1. /\ pc' = [pc EXCEPT ![t] = "unlock"]
          /\ handle' = [handle EXCEPT ![t] = NewHandle]
          /\ query' = [query EXCEPT ![t] = <<>>]
          /\ received' = [received EXCEPT ![t] = 0]
          /\ fault' = config[t]
          /\ UNCHANGED <<life, headers, params, served, failed, next, list, request_mutex,
                         curl_lock, memory, config, option, made>>
      BY <1>16, <2>2 DEF Finalize, Goto, finalize_configure_curl, FreeList, args, locks, curl
    <3>2. pc' \in [Thread -> Places]
      BY <3>1 DEF TypeOK, Places
    <3>3. /\ query' \in [Thread -> Seq([param : Nat, separator : {"=", "%3D"}])]
          /\ received' \in [Thread -> Nat]
      BY <3>1 DEF TypeOK
    <3>4. handle' \in [Thread -> [Options -> {"unset", "own", "body", "size"}]]
      BY <3>1 DEF TypeOK, NewHandle
    <3>5. fault' \in Config \cup {NoConfig}
      BY <3>1, <2>c DEF TypeOK
    <3>6. QED
      BY <3>1, <3>2, <3>3, <3>4, <3>5 DEF TypeOK
  <2>3. CASE list[config[t]].at \notin {"null", "freed"}
    <3>1. /\ list' = [list EXCEPT ![config[t]] = [at |-> "freed", items |-> <<>>]]
          /\ pc' = [pc EXCEPT ![t] = "unlock"]
          /\ handle' = [handle EXCEPT ![t] = NewHandle]
          /\ query' = [query EXCEPT ![t] = <<>>]
          /\ received' = [received EXCEPT ![t] = 0]
          /\ UNCHANGED <<life, headers, params, served, failed, next, request_mutex, curl_lock,
                         memory, config, option, made, fault>>
      BY <1>16, <2>3 DEF Finalize, Goto, finalize_configure_curl, FreeList, args, locks, curl
    <3>2. pc' \in [Thread -> Places]
      BY <3>1 DEF TypeOK, Places
    <3>3. /\ query' \in [Thread -> Seq([param : Nat, separator : {"=", "%3D"}])]
          /\ received' \in [Thread -> Nat]
      BY <3>1 DEF TypeOK
    <3>4. list' \in [Config -> [at : {"null", "live", "freed"}, items : Seq(Nat)]]
      BY <3>1, <2>c, Lists DEF TypeOK
    <3>5. handle' \in [Thread -> [Options -> {"unset", "own", "body", "size"}]]
      BY <3>1 DEF TypeOK, NewHandle
    <3>6. QED
      BY <3>1, <3>2, <3>3, <3>4, <3>5 DEF TypeOK
  <2>4. QED
    BY <2>1, <2>2, <2>3, <1>16 DEF Finalize
<1>17. ASSUME NEW t \in Thread, UnlockRequest(t) PROVE TypeOK'
  <2>c. config[t] \in Config
    BY <1>17 DEF LockInv, UnlockRequest
  <2>1. /\ served' = [served EXCEPT ![config[t]] = @ + 1]
        /\ request_mutex' = [request_mutex EXCEPT ![config[t]] = NoThread]
        /\ pc' = [pc EXCEPT ![t] = "idle"]
        /\ UNCHANGED <<life, headers, params, failed, next, list, curl_lock, memory, config,
                       option, handle, query, received, made, fault>>
    BY <1>17 DEF UnlockRequest, Goto, Unlock, args, locks, curl
  <2>2. pc' \in [Thread -> Places]
    BY <2>1 DEF TypeOK, Places
  <2>3. request_mutex' \in [Config -> Thread \cup {NoThread}]
    BY <2>1 DEF TypeOK
  <2>4. served' \in [Config -> Nat]
    BY <2>1, <2>c DEF TypeOK
  <2>5. QED
    BY <2>1, <2>2, <2>3, <2>4 DEF TypeOK
<1>18. ASSUME NEW t \in Thread, Chunk(t) PROVE TypeOK'
  <2>1. /\ memory' = [memory EXCEPT !.room = Len(memory.chunks) + 1]
        /\ pc' = [pc EXCEPT ![t] = "copy"]
        /\ received' = [received EXCEPT ![t] = @ + 1]
        /\ UNCHANGED <<life, headers, params, served, failed, next, list, request_mutex,
                       curl_lock, config, option, handle, query, made, fault>>
    BY <1>18 DEF Chunk, Goto, args, locks, curl
  <2>2. pc' \in [Thread -> Places]
    BY <2>1 DEF TypeOK, Places
  <2>3. received' \in [Thread -> Nat]
    BY <2>1 DEF TypeOK
  <2>4. memory' \in [chunks : Seq(Thread \X Nat), room : Nat]
    BY <2>1, Responses DEF TypeOK
  <2>5. QED
    BY <2>1, <2>2, <2>3, <2>4 DEF TypeOK
<1>19. ASSUME NEW t \in Thread, Performed(t) PROVE TypeOK'
  <2>1. /\ pc' = [pc EXCEPT ![t] = "unlock curl"]
        /\ UNCHANGED <<life, headers, params, served, failed, next, list, request_mutex,
                       curl_lock, memory, config, option, handle, query, received, made, fault>>
    BY <1>19 DEF Performed, Goto, args, locks, curl
  <2>2. pc' \in [Thread -> Places]
    BY <2>1 DEF TypeOK, Places
  <2>3. QED
    BY <2>1, <2>2 DEF TypeOK
<1>. QED
  BY <1>1, <1>2, <1>3, <1>4, <1>5, <1>6, <1>7, <1>8, <1>9, <1>10, <1>11, <1>12, <1>13, <1>14,
     <1>15, <1>16, <1>17, <1>18, <1>19 DEF Call, Run, Peer


\* Every action keeps who holds the locks.
LEMMA LockKept ==
  ASSUME TypeOK, LockInv, fault = NoConfig,
         Call \/ \E t \in Thread : Run(t) \/ Peer(t)
  PROVE  LockInv'
<1>t. /\ life \in [Config -> {"none", "alive", "freed"}]
      /\ request_mutex \in [Config -> Thread \cup {NoThread}]
      /\ curl_lock \in Thread \cup {NoThread}
      /\ pc \in [Thread -> Places]
      /\ config \in [Thread -> Config \cup {NoConfig}]
  BY DEF TypeOK
<1>f. ASSUME UNCHANGED <<life, pc, config, request_mutex, curl_lock>> PROVE LockInv'
  BY <1>f DEF LockInv, Places
<1>z. NoThread \notin Thread
  BY RequestAssumption
<1>1. ASSUME NEW c \in Config, initialize_request_config(c) PROVE LockInv'
  <2>1. /\ life[c] = "none"
        /\ life' = [life EXCEPT ![c] = "alive"]
        /\ UNCHANGED <<pc, config, request_mutex, curl_lock>>
    BY <1>1 DEF initialize_request_config, args, locks, curl
  <2>2. QED
    BY <1>t, <2>1 DEF LockInv, Places
<1>2. ASSUME NEW c \in Config, free_request_config(c) PROVE LockInv'
  <2>1. /\ life[c] = "alive"
        /\ \A t \in Thread : pc[t] = "idle" \/ config[t] # c
        /\ life' = [life EXCEPT ![c] = "freed"]
        /\ UNCHANGED <<pc, config, request_mutex, curl_lock>>
    BY <1>2 DEF free_request_config, FreeList, Busy, args, locks, curl
  <2>2. QED
    BY <1>t, <2>1 DEF LockInv, Places
<1>3. ASSUME NEW c \in Config, add_request_header(c) PROVE LockInv'
  BY <1>f, <1>3 DEF add_request_header, MayAdd, Busy, args, locks, curl
<1>4. ASSUME NEW c \in Config, add_request_param(c) PROVE LockInv'
  BY <1>f, <1>4 DEF add_request_param, MayAdd, Busy, args, locks, curl
<1>5. ASSUME NEW t \in Thread, NEW c \in Config, http_request(t, c) PROVE LockInv'
  <2>1. /\ pc[t] = "idle"
        /\ life[c] = "alive"
        /\ pc' = [pc EXCEPT ![t] = "lock"]
        /\ config' = [config EXCEPT ![t] = c]
        /\ UNCHANGED <<life, request_mutex, curl_lock>>
    BY <1>5 DEF http_request, Goto, args, locks, curl
  <2>2. \A u \in Thread : pc'[u] = IF u = t THEN "lock" ELSE pc[u]
    BY <1>t, <2>1
  <2>3. \A u \in Thread : pc'[u] # "idle" => config'[u] \in Config /\ life'[config'[u]] = "alive"
    BY <1>t, <2>1, <2>2 DEF LockInv
  <2>4. \A u \in Thread :
          pc'[u] \notin {"idle", "lock"} => request_mutex'[config'[u]] = u
    BY <1>t, <2>1, <2>2 DEF LockInv
  <2>5. \A u \in Thread : pc'[u] \in {"perform", "copy", "unlock curl"} <=> curl_lock' = u
    BY <1>t, <2>1, <2>2 DEF LockInv
  <2>6. QED
    BY <2>3, <2>4, <2>5 DEF LockInv
<1>6. ASSUME NEW t \in Thread, LockRequest(t) PROVE LockInv'
  <2>1. /\ pc[t] = "lock"
        /\ request_mutex[config[t]] = NoThread
        /\ pc' = [pc EXCEPT ![t] = "init"]
        /\ request_mutex' = [request_mutex EXCEPT ![config[t]] = t]
        /\ UNCHANGED <<life, config, curl_lock>>
    BY <1>6 DEF LockRequest, Goto, RequestUnlocked, args, locks, curl
  <2>2. \A u \in Thread : pc'[u] = IF u = t THEN "init" ELSE pc[u]
    BY <1>t, <2>1
  <2>3. \A u \in Thread : pc'[u] # "idle" => config'[u] \in Config /\ life'[config'[u]] = "alive"
    BY <1>t, <2>1, <2>2 DEF LockInv
  <2>4. ASSUME NEW u \in Thread, pc'[u] \notin {"idle", "lock"}
        PROVE  request_mutex'[config'[u]] = u
    <3>1. config[t] \in Config
      BY <2>1 DEF LockInv
    <3>2. CASE u = t
      BY <1>t, <2>1, <3>1, <3>2
    <3>3. CASE u # t
      <4>1. pc[u] \notin {"idle", "lock"}
        BY <2>2, <2>4, <3>3
      <4>2. config[u] \in Config /\ request_mutex[config[u]] = u
        BY <4>1 DEF LockInv
      <4>3. config[u] # config[t]
        BY <2>1, <4>2, <1>z
      <4>4. QED
        BY <1>t, <2>1, <4>2, <4>3
    <3>4. QED
      BY <3>2, <3>3
  <2>5. \A u \in Thread : pc'[u] \in {"perform", "copy", "unlock curl"} <=> curl_lock' = u
    BY <1>t, <2>1, <2>2 DEF LockInv
  <2>6. QED
    BY <2>3, <2>4, <2>5 DEF LockInv
<1>7. ASSUME NEW t \in Thread, InitFails(t) PROVE LockInv'
  <2>1. /\ pc[t] = "init"
        /\ pc' = [pc EXCEPT ![t] = "idle"]
        /\ UNCHANGED <<life, config, request_mutex, curl_lock>>
    BY <1>7 DEF InitFails, Goto, args, locks, curl
  <2>2. QED
    BY <1>t, <2>1, Within DEF Held
<1>8. ASSUME NEW t \in Thread, LockCurl(t) PROVE LockInv'
  <2>1. /\ pc[t] = "configure"
        /\ curl_lock = NoThread
        /\ pc' = [pc EXCEPT ![t] = "perform"]
        /\ curl_lock' = t
        /\ UNCHANGED <<life, config, request_mutex>>
    BY <1>8 DEF LockCurl, Goto, CurlUnlocked, args, locks, curl
  <2>2. \A u \in Thread : pc'[u] = IF u = t THEN "perform" ELSE pc[u]
    BY <1>t, <2>1
  <2>3. \A u \in Thread : pc'[u] # "idle" => config'[u] \in Config /\ life'[config'[u]] = "alive"
    BY <1>t, <2>1, <2>2 DEF LockInv
  <2>4. \A u \in Thread :
          pc'[u] \notin {"idle", "lock"} => request_mutex'[config'[u]] = u
    BY <1>t, <2>1, <2>2 DEF LockInv
  <2>5. ASSUME NEW u \in Thread
        PROVE  pc'[u] \in {"perform", "copy", "unlock curl"} <=> curl_lock' = u
    <3>1. CASE u = t
      BY <2>1, <2>2, <3>1
    <3>2. CASE u # t
      <4>1. pc[u] \notin {"perform", "copy", "unlock curl"}
        BY <1>z, <2>1 DEF LockInv
      <4>2. QED
        BY <2>1, <2>2, <3>2, <4>1
    <3>3. QED
      BY <3>1, <3>2
  <2>6. QED
    BY <2>3, <2>4, <2>5 DEF LockInv
<1>9. ASSUME NEW t \in Thread, Copy(t) PROVE LockInv'
  <2>1. /\ pc[t] = "copy"
        /\ pc' = [pc EXCEPT ![t] = "perform"]
        /\ UNCHANGED <<life, config, request_mutex, curl_lock>>
    BY <1>9 DEF Copy, Goto, args, locks, curl
  <2>2. QED
    BY <1>t, <2>1, Within DEF Held
<1>10. ASSUME NEW t \in Thread, UnlockCurl(t) PROVE LockInv'
  <2>1. /\ pc[t] = "unlock curl"
        /\ pc' = [pc EXCEPT ![t] = "finalize"]
        /\ curl_lock' = NoThread
        /\ UNCHANGED <<life, config, request_mutex>>
    BY <1>10 DEF UnlockCurl, Goto, args, locks, curl
  <2>2. \A u \in Thread : pc'[u] = IF u = t THEN "finalize" ELSE pc[u]
    BY <1>t, <2>1
  <2>3. \A u \in Thread : pc'[u] # "idle" => config'[u] \in Config /\ life'[config'[u]] = "alive"
    BY <1>t, <2>1, <2>2 DEF LockInv
  <2>4. \A u \in Thread :
          pc'[u] \notin {"idle", "lock"} => request_mutex'[config'[u]] = u
    BY <1>t, <2>1, <2>2 DEF LockInv
  <2>5. ASSUME NEW u \in Thread
        PROVE  pc'[u] \in {"perform", "copy", "unlock curl"} <=> curl_lock' = u
    <3>1. pc'[u] \notin {"perform", "copy", "unlock curl"}
      <4>1. curl_lock = t
        BY <2>1 DEF LockInv
      <4>2. u # t => pc[u] \notin {"perform", "copy", "unlock curl"}
        BY <4>1 DEF LockInv
      <4>3. QED
        BY <2>2, <4>2
    <3>2. curl_lock' # u
      BY <2>1, <1>z
    <3>3. QED
      BY <3>1, <3>2
  <2>6. QED
    BY <2>3, <2>4, <2>5 DEF LockInv
<1>11. ASSUME NEW t \in Thread, Finalize(t) PROVE LockInv'
  <2>1. /\ pc[t] = "finalize"
        /\ pc' = [pc EXCEPT ![t] = "unlock"]
        /\ UNCHANGED <<life, config, request_mutex, curl_lock>>
    BY <1>11 DEF Finalize, Goto, finalize_configure_curl, FreeList, args, locks, curl
  <2>2. QED
    BY <1>t, <2>1, Within DEF Held
<1>12. ASSUME NEW t \in Thread, UnlockRequest(t) PROVE LockInv'
  <2>1. /\ pc[t] = "unlock"
        /\ pc' = [pc EXCEPT ![t] = "idle"]
        /\ request_mutex' = [request_mutex EXCEPT ![config[t]] = NoThread]
        /\ UNCHANGED <<life, config, curl_lock>>
    BY <1>12 DEF UnlockRequest, Goto, Unlock, args, locks, curl
  <2>2. \A u \in Thread : pc'[u] = IF u = t THEN "idle" ELSE pc[u]
    BY <1>t, <2>1
  <2>3. \A u \in Thread : pc'[u] # "idle" => config'[u] \in Config /\ life'[config'[u]] = "alive"
    BY <1>t, <2>1, <2>2 DEF LockInv
  <2>4. ASSUME NEW u \in Thread, pc'[u] \notin {"idle", "lock"}
        PROVE  request_mutex'[config'[u]] = u
    <3>1. u # t /\ pc[u] \notin {"idle", "lock"}
      BY <2>2, <2>4
    <3>2. config[u] \in Config /\ request_mutex[config[u]] = u
      BY <3>1 DEF LockInv
    <3>3. config[u] # config[t]
      BY <2>1, <3>1, Exclusive
    <3>4. QED
      BY <1>t, <2>1, <3>2, <3>3
  <2>5. \A u \in Thread : pc'[u] \in {"perform", "copy", "unlock curl"} <=> curl_lock' = u
    BY <1>t, <2>1, <2>2 DEF LockInv
  <2>6. QED
    BY <2>3, <2>4, <2>5 DEF LockInv
<1>13. ASSUME NEW t \in Thread, Chunk(t) PROVE LockInv'
  <2>1. /\ pc[t] = "perform"
        /\ pc' = [pc EXCEPT ![t] = "copy"]
        /\ UNCHANGED <<life, config, request_mutex, curl_lock>>
    BY <1>13 DEF Chunk, Goto, args, locks, curl
  <2>2. QED
    BY <1>t, <2>1, Within DEF Held
<1>14. ASSUME NEW t \in Thread, Performed(t) PROVE LockInv'
  <2>1. /\ pc[t] = "perform"
        /\ pc' = [pc EXCEPT ![t] = "unlock curl"]
        /\ UNCHANGED <<life, config, request_mutex, curl_lock>>
    BY <1>14 DEF Performed, Goto, args, locks, curl
  <2>2. QED
    BY <1>t, <2>1, Within DEF Held
<1>15. ASSUME NEW t \in Thread, Quiet(t) PROVE LockInv'
  <2>1. PICK p \in {"configure", "params", "headers"} :
          /\ pc[t] \in {"init", "configure", "params", "headers"}
          /\ pc' = [pc EXCEPT ![t] = p] /\ UNCHANGED <<life, config, request_mutex, curl_lock>>
    BY <1>15, QuietSteps
  <2>2. QED
    BY <1>t, <2>1, Within DEF Held
<1>. QED
  BY <1>1, <1>2, <1>3, <1>4, <1>5, <1>6, <1>7, <1>8, <1>9, <1>10, <1>11, <1>12, <1>13, <1>14,
     <1>15 DEF Call, Run, Peer, Quiet


\* Every action keeps what is known of the header lists.
LEMMA ListKept ==
  ASSUME TypeOK, LockInv, ListInv, fault = NoConfig,
         Call \/ \E t \in Thread : Run(t) \/ Peer(t)
  PROVE  ListInv'
<1>t. /\ headers \in [Config -> Nat]
      /\ served \in [Config -> Nat]
      /\ next \in [Config -> [headers : Nat, params : Nat]]
      /\ list \in [Config -> [at : {"null", "live", "freed"}, items : Seq(Nat)]]
      /\ pc \in [Thread -> Places]
      /\ config \in [Thread -> Config \cup {NoConfig}]
  BY DEF TypeOK
<1>f. ASSUME UNCHANGED <<list, pc, config, headers, served>> PROVE ListInv'
  BY <1>f DEF ListInv
<1>1. ASSUME NEW c \in Config, initialize_request_config(c) PROVE ListInv'
  BY <1>f, <1>1 DEF initialize_request_config, args, locks, curl
<1>2. ASSUME NEW c \in Config, free_request_config(c) PROVE ListInv'
  <2>1. CASE list[c].at = "null"
    BY <1>f, <1>2, <2>1 DEF free_request_config, FreeList, Busy, args, locks, curl
  <2>2. CASE list[c].at = "freed"
    BY <1>f, <1>2, <2>2 DEF free_request_config, FreeList, Busy, args, locks, curl
  <2>3. CASE list[c].at \notin {"null", "freed"}
    <3>1. /\ list[c].at \notin {"null", "freed"}
          /\ \A t \in Thread : pc[t] = "idle" \/ config[t] # c
          /\ list' = [list EXCEPT ![c] = [at |-> "freed", items |-> <<>>]]
          /\ UNCHANGED <<pc, config, headers, served>>
      BY <1>2, <2>3 DEF free_request_config, FreeList, Busy, args, locks, curl
    <3>2. list[c].at = "live"
      BY <1>t, <3>1
    <3>3. \E t \in Thread : config[t] = c /\ pc[t] \in Listing
      BY <3>2 DEF ListInv
    <3>4. QED
      BY <3>1, <3>3 DEF Listing
  <2>4. QED
    BY <2>1, <2>2, <2>3, <1>2 DEF free_request_config
<1>3. ASSUME NEW c \in Config, add_request_header(c) PROVE ListInv'
  <2>1. /\ headers' = [headers EXCEPT ![c] = @ + 1]
        /\ UNCHANGED <<list, pc, config, served>>
    BY <1>3 DEF add_request_header, MayAdd, Busy, args, locks, curl
  <2>2. \A d \in Config : headers[d] >= 1 => headers'[d] >= 1
    BY <1>t, <2>1
  <2>3. QED
    BY <2>1, <2>2 DEF ListInv
<1>4. ASSUME NEW c \in Config, add_request_param(c) PROVE ListInv'
  BY <1>f, <1>4 DEF add_request_param, MayAdd, Busy, args, locks, curl
<1>5. ASSUME NEW t \in Thread, NEW c \in Config, http_request(t, c) PROVE ListInv'
  <2>1. /\ pc[t] = "idle"
        /\ pc' = [pc EXCEPT ![t] = "lock"]
        /\ config' = [config EXCEPT ![t] = c]
        /\ UNCHANGED <<list, headers, served>>
    BY <1>5 DEF http_request, Goto, args, locks, curl
  <2>2. \A u \in Thread : pc[u] \in Listing \cup {"unlock"} =>
          pc'[u] = pc[u] /\ config'[u] = config[u]
    BY <1>t, <2>1 DEF Listing
  <2>3. QED
    BY <2>1, <2>2 DEF ListInv
<1>6. ASSUME NEW t \in Thread, LockRequest(t) PROVE ListInv'
  <2>1. /\ pc[t] = "lock"
        /\ pc' = [pc EXCEPT ![t] = "init"]
        /\ UNCHANGED <<list, config, headers, served>>
    BY <1>6 DEF LockRequest, Goto, RequestUnlocked, args, locks, curl
  <2>2. QED
    BY <1>t, <2>1, ListsStay DEF Listing
<1>7. ASSUME NEW t \in Thread, InitFails(t) PROVE ListInv'
  <2>1. /\ pc[t] = "init"
        /\ pc' = [pc EXCEPT ![t] = "idle"]
        /\ UNCHANGED <<list, config, headers, served>>
    BY <1>7 DEF InitFails, Goto, args, locks, curl
  <2>2. QED
    BY <1>t, <2>1, ListsStay DEF Listing
<1>8. ASSUME NEW t \in Thread, YieldHeader(t) PROVE ListInv'
  <2>c. config[t] \in Config
    BY <1>8 DEF LockInv, YieldHeader
  <2>1. CASE next[config[t]].headers < 0 \/ next[config[t]].headers >= headers[config[t]]
    <3>1. /\ next[config[t]].headers < 0 \/ next[config[t]].headers >= headers[config[t]]
          /\ pc[t] = "headers"
          /\ pc' = [pc EXCEPT ![t] = "configure"]
          /\ UNCHANGED <<list, config, headers, served>>
      BY <1>8, <2>1 DEF YieldHeader, Goto, EndWalk, yield_increment, args, locks, curl
    <3>2. QED
      BY <1>t, <3>1, ListsStay DEF Listing
  <2>2. CASE ~(next[config[t]].headers < 0 \/ next[config[t]].headers >= headers[config[t]])
              /\ list[config[t]].at = "freed"
    BY <1>f, <1>8, <2>2 DEF YieldHeader, Goto, EndWalk, yield_increment, args, locks, curl
  <2>3. CASE ~(next[config[t]].headers < 0 \/ next[config[t]].headers >= headers[config[t]])
              /\ list[config[t]].at # "freed"
    <3>1. /\ ~(next[config[t]].headers < 0 \/ next[config[t]].headers >= headers[config[t]])
          /\ list[config[t]].at # "freed"
          /\ pc[t] = "headers"
          /\ list' = [list EXCEPT ![config[t]] =
                         [at |-> "live", items |-> Append(@.items, next[config[t]].headers)]]
          /\ UNCHANGED <<pc, config, headers, served>>
      BY <1>8, <2>3 DEF YieldHeader, Goto, EndWalk, yield_increment, args, locks, curl
    <3>2. headers[config[t]] >= 1 /\ pc[t] \in Listing
      BY <1>t, <2>c, <3>1 DEF Listing
    <3>3. \A d \in Config : d # config[t] => list'[d] = list[d]
      BY <1>t, <3>1
    <3>4. list'[config[t]].at = "live"
      BY <1>t, <2>c, <3>1
    <3>5. QED
      BY <3>1, <3>2, <3>3, <3>4 DEF ListInv
  <2>4. QED
    BY <2>1, <2>2, <2>3, <1>8 DEF YieldHeader
<1>9. ASSUME NEW t \in Thread, LockCurl(t) PROVE ListInv'
  <2>1. /\ pc[t] = "configure"
        /\ pc' = [pc EXCEPT ![t] = "perform"]
        /\ UNCHANGED <<list, config, headers, served>>
    BY <1>9 DEF LockCurl, Goto, CurlUnlocked, args, locks, curl
  <2>2. QED
    BY <1>t, <2>1, ListsStay DEF Listing
<1>10. ASSUME NEW t \in Thread, Copy(t) PROVE ListInv'
  <2>1. /\ pc[t] = "copy"
        /\ pc' = [pc EXCEPT ![t] = "perform"]
        /\ UNCHANGED <<list, config, headers, served>>
    BY <1>10 DEF Copy, Goto, args, locks, curl
  <2>2. QED
    BY <1>t, <2>1, ListsStay DEF Listing
<1>11. ASSUME NEW t \in Thread, UnlockCurl(t) PROVE ListInv'
  <2>1. /\ pc[t] = "unlock curl"
        /\ pc' = [pc EXCEPT ![t] = "finalize"]
        /\ UNCHANGED <<list, config, headers, served>>
    BY <1>11 DEF UnlockCurl, Goto, args, locks, curl
  <2>2. QED
    BY <1>t, <2>1, ListsStay DEF Listing
<1>12. ASSUME NEW t \in Thread, Finalize(t) PROVE ListInv'
  <2>c. config[t] \in Config
    BY <1>12 DEF LockInv, Finalize
  <2>1. CASE list[config[t]].at = "null"
    <3>1. /\ list[config[t]].at = "null"
          /\ pc[t] = "finalize"
          /\ pc' = [pc EXCEPT ![t] = "unlock"]
          /\ UNCHANGED <<list, config, headers, served>>
      BY <1>12, <2>1 DEF Finalize, Goto, finalize_configure_curl, FreeList, args, locks, curl
    <3>2. QED
      BY <1>t, <3>1, ListsStay DEF Listing
  <2>2. CASE list[config[t]].at = "freed"
    <3>1. /\ list[config[t]].at = "freed"
          /\ pc[t] = "finalize"
          /\ pc' = [pc EXCEPT ![t] = "unlock"]
          /\ UNCHANGED <<list, config, headers, served>>
      BY <1>12, <2>2 DEF Finalize, Goto, finalize_configure_curl, FreeList, args, locks, curl
    <3>2. QED
      BY <1>t, <3>1, ListsStay DEF Listing
  <2>3. CASE list[config[t]].at \notin {"null", "freed"}
    <3>1. /\ list[config[t]].at \notin {"null", "freed"}
          /\ pc[t] = "finalize"
          /\ list' = [list EXCEPT ![config[t]] = [at |-> "freed", items |-> <<>>]]
          /\ pc' = [pc EXCEPT ![t] = "unlock"]
          /\ UNCHANGED <<config, headers, served>>
      BY <1>12, <2>3 DEF Finalize, Goto, finalize_configure_curl, FreeList, args, locks, curl
    <3>2. list[config[t]].at = "live"
      BY <1>t, <2>c, <3>1
    <3>3. headers[config[t]] >= 1
      BY <3>2, <2>c DEF ListInv
    <3>4. \A d \in Config : d # config[t] => list'[d] = list[d]
      BY <1>t, <3>1
    <3>5. list'[config[t]].at = "freed" /\ list'[config[t]].items = <<>>
      BY <1>t, <2>c, <3>1
    <3>6. \A u \in Thread : pc'[u] = IF u = t THEN "unlock" ELSE pc[u]
      BY <1>t, <3>1
    <3>7. ASSUME NEW d \in Config
          PROVE  /\ list'[d].at = "live" => \E u \in Thread : config[u] = d /\ pc'[u] \in Listing
                 /\ list'[d].at # "null" => headers[d] >= 1
                 /\ list'[d].at = "freed" =>
                      served[d] >= 1 \/ \E u \in Thread : config[u] = d /\ pc'[u] = "unlock"
                 /\ list'[d].at # "live" => list'[d].items = <<>>
      <4>1. CASE d = config[t]
        BY <3>3, <3>5, <3>6, <4>1
      <4>2. CASE d # config[t]
        <5>1. list'[d] = list[d]
          BY <3>4, <4>2
        <5>2. list[d].at = "live" => \E u \in Thread : config[u] = d /\ pc'[u] \in Listing
          BY <3>6, <4>2 DEF ListInv
        <5>3. list[d].at = "freed" =>
               served[d] >= 1 \/ \E u \in Thread : config[u] = d /\ pc'[u] = "unlock"
          BY <3>1, <3>6 DEF ListInv
        <5>4. QED
          BY <5>1, <5>2, <5>3 DEF ListInv
      <4>3. QED
        BY <4>1, <4>2
    <3>8. QED
      BY <3>1, <3>7 DEF ListInv
  <2>4. QED
    BY <2>1, <2>2, <2>3, <1>12 DEF Finalize
<1>13. ASSUME NEW t \in Thread, UnlockRequest(t) PROVE ListInv'
  <2>c. config[t] \in Config
    BY <1>13 DEF LockInv, UnlockRequest
  <2>1. /\ pc[t] = "unlock"
        /\ pc' = [pc EXCEPT ![t] = "idle"]
        /\ served' = [served EXCEPT ![config[t]] = @ + 1]
        /\ UNCHANGED <<list, config, headers>>
    BY <1>13 DEF UnlockRequest, Goto, Unlock, args, locks, curl
  <2>2. \A u \in Thread : u # t => pc'[u] = pc[u]
    BY <1>t, <2>1
  <2>3. ASSUME NEW d \in Config, list[d].at = "live"
        PROVE  \E u \in Thread : config[u] = d /\ pc'[u] \in Listing
    <3>1. PICK u \in Thread : config[u] = d /\ pc[u] \in Listing
      BY <2>3 DEF ListInv
    <3>2. "unlock" \notin Listing
      BY DEF Listing
    <3>3. u # t
      BY <2>1, <3>1, <3>2
    <3>4. pc'[u] = pc[u]
      BY <2>2, <3>3
    <3>5. QED
      BY <3>1, <3>4
  <2>4. \A d \in Config : d # config[t] => served'[d] = served[d]
    BY <1>t, <2>1
  <2>5. served'[config[t]] >= 1
    BY <1>t, <2>c, <2>1
  <2>6. \A d \in Config : list[d].at = "freed" =>
          served'[d] >= 1 \/ \E u \in Thread : config[u] = d /\ pc'[u] = "unlock"
    BY <2>1, <2>2, <2>4, <2>5 DEF ListInv
  <2>7. QED
    BY <2>1, <2>3, <2>6 DEF ListInv
<1>14. ASSUME NEW t \in Thread, Chunk(t) PROVE ListInv'
  <2>1. /\ pc[t] = "perform"
        /\ pc' = [pc EXCEPT ![t] = "copy"]
        /\ UNCHANGED <<list, config, headers, served>>
    BY <1>14 DEF Chunk, Goto, args, locks, curl
  <2>2. QED
    BY <1>t, <2>1, ListsStay DEF Listing
<1>15. ASSUME NEW t \in Thread, Performed(t) PROVE ListInv'
  <2>1. /\ pc[t] = "perform"
        /\ pc' = [pc EXCEPT ![t] = "unlock curl"]
        /\ UNCHANGED <<list, config, headers, served>>
    BY <1>15 DEF Performed, Goto, args, locks, curl
  <2>2. QED
    BY <1>t, <2>1, ListsStay DEF Listing
<1>16. ASSUME NEW t \in Thread, Quiet(t), UNCHANGED list PROVE ListInv'
  <2>1. PICK p \in {"configure", "params", "headers"} :
          /\ pc[t] \in {"init", "configure", "params", "headers"}
          /\ pc' = [pc EXCEPT ![t] = p] /\ UNCHANGED <<list, config, headers, served>>
    BY <1>16, QuietSteps
  <2>2. QED
    BY <1>t, <2>1, ListsStay DEF Listing
<1>. QED
  BY <1>1, <1>2, <1>3, <1>4, <1>5, <1>6, <1>7, <1>8, <1>9, <1>10, <1>11, <1>12, <1>13, <1>14,
     <1>15, <1>16, QuietLists DEF Call, Run, Peer, Quiet


\* Every action keeps what a request has sent.
LEMMA WalkKept ==
  ASSUME TypeOK, LockInv, ListInv, WalkInv, fault = NoConfig,
         Call \/ \E t \in Thread : Run(t) \/ Peer(t)
  PROVE  WalkInv'
<1>t. /\ headers \in [Config -> Nat]
      /\ params \in [Config -> Nat]
      /\ next \in [Config -> [headers : Nat, params : Nat]]
      /\ list \in [Config -> [at : {"null", "live", "freed"}, items : Seq(Nat)]]
      /\ pc \in [Thread -> Places]
      /\ config \in [Thread -> Config \cup {NoConfig}]
      /\ option \in [Thread -> 1 .. Len(basic_post_query) + 1]
      /\ query \in [Thread -> Seq([param : Nat, separator : {"=", "%3D"}])]
      /\ fault \in Config \cup {NoConfig}
  BY DEF TypeOK
<1>f. ASSUME UNCHANGED <<fault, pc, config, option, query, params, list, next,
                         headers>> PROVE WalkInv'
  BY <1>f DEF WalkInv, Walk, InTransfer, Sent, Script
<1>y. NoConfig \notin Config
  BY RequestAssumption
<1>1. ASSUME NEW c \in Config, initialize_request_config(c) PROVE WalkInv'
  BY <1>f, <1>1 DEF initialize_request_config, args, locks, curl
<1>2. ASSUME NEW c \in Config, free_request_config(c) PROVE WalkInv'
  <2>1. CASE list[c].at = "null"
    <3>1. /\ list[c].at = "null"
          /\ \A t \in Thread : pc[t] = "idle" \/ config[t] # c
          /\ UNCHANGED <<fault, pc, config, option, query, params, list, next, headers>>
      BY <1>2, <2>1 DEF free_request_config, FreeList, Busy, args, locks, curl
    <3>2. \A d \in Config : d # c => list'[d] = list[d]
      BY <1>t, <3>1
    <3>3. QED
      BY <3>1, <3>2, OwnersWalk
  <2>2. CASE list[c].at = "freed"
    <3>1. /\ list[c].at = "freed"
          /\ \A t \in Thread : pc[t] = "idle" \/ config[t] # c
          /\ fault' = c
          /\ UNCHANGED <<pc, config, option, query, params, list, next, headers>>
      BY <1>2, <2>2 DEF free_request_config, FreeList, Busy, args, locks, curl
    <3>2. \A d \in Config : d # c => list'[d] = list[d]
      BY <1>t, <3>1
    <3>3. QED
      BY <3>1, <3>2, OwnersWalk
  <2>3. CASE list[c].at \notin {"null", "freed"}
    <3>1. /\ list[c].at \notin {"null", "freed"}
          /\ \A t \in Thread : pc[t] = "idle" \/ config[t] # c
          /\ list' = [list EXCEPT ![c] = [at |-> "freed", items |-> <<>>]]
          /\ UNCHANGED <<fault, pc, config, option, query, params, next, headers>>
      BY <1>2, <2>3 DEF free_request_config, FreeList, Busy, args, locks, curl
    <3>2. \A d \in Config : d # c => list'[d] = list[d]
      BY <1>t, <3>1
    <3>3. QED
      BY <3>1, <3>2, OwnersWalk
  <2>4. QED
    BY <2>1, <2>2, <2>3, <1>2 DEF free_request_config
<1>3. ASSUME NEW c \in Config, add_request_header(c) PROVE WalkInv'
  <2>1. /\ \A t \in Thread : pc[t] = "idle" \/ config[t] # c
        /\ headers' = [headers EXCEPT ![c] = @ + 1]
        /\ UNCHANGED <<fault, pc, config, option, query, params, list, next>>
    BY <1>3 DEF add_request_header, MayAdd, Busy, args, locks, curl
  <2>2. \A d \in Config : d # c => headers'[d] = headers[d]
    BY <1>t, <2>1
  <2>3. QED
    BY <2>1, <2>2, OwnersWalk
<1>4. ASSUME NEW c \in Config, add_request_param(c) PROVE WalkInv'
  <2>1. /\ \A t \in Thread : pc[t] = "idle" \/ config[t] # c
        /\ params' = [params EXCEPT ![c] = @ + 1]
        /\ UNCHANGED <<fault, pc, config, option, query, list, next, headers>>
    BY <1>4 DEF add_request_param, MayAdd, Busy, args, locks, curl
  <2>2. \A d \in Config : d # c => params'[d] = params[d]
    BY <1>t, <2>1
  <2>3. QED
    BY <2>1, <2>2, OwnersWalk
<1>5. ASSUME NEW t \in Thread, NEW c \in Config, http_request(t, c) PROVE WalkInv'
  <2>1. /\ pc[t] = "idle"
        /\ pc' = [pc EXCEPT ![t] = "lock"]
        /\ config' = [config EXCEPT ![t] = c]
        /\ UNCHANGED <<fault, option, query, params, list, next, headers>>
    BY <1>5 DEF http_request, Goto, args, locks, curl
  <2>2. \A u \in Thread : u # t =>
          /\ config'[u] = config[u] /\ pc'[u] = pc[u]
          /\ option'[u] = option[u] /\ query'[u] = query[u]
    BY <1>t, <2>1
  <2>3. pc'[t] = "lock"
    BY <1>t, <2>1
  <2>4. Walk(t)'
    BY <2>3 DEF Walk, InTransfer
  <2>5. QED
    BY <2>1, <2>2, <2>4, OthersWalk
<1>6. ASSUME NEW t \in Thread, LockRequest(t) PROVE WalkInv'
  <2>1. /\ pc[t] = "lock"
        /\ pc' = [pc EXCEPT ![t] = "init"]
        /\ UNCHANGED <<fault, config, option, query, params, list, next, headers>>
    BY <1>6 DEF LockRequest, Goto, RequestUnlocked, args, locks, curl
  <2>2. \A u \in Thread : u # t =>
          /\ config'[u] = config[u] /\ pc'[u] = pc[u]
          /\ option'[u] = option[u] /\ query'[u] = query[u]
    BY <1>t, <2>1
  <2>3. pc'[t] = "init"
    BY <1>t, <2>1
  <2>4. Walk(t)'
    BY <2>3 DEF Walk, InTransfer
  <2>5. QED
    BY <2>1, <2>2, <2>4, OthersWalk
<1>7. ASSUME NEW t \in Thread, InitCurl(t) PROVE WalkInv'
  <2>c. config[t] \in Config
    BY <1>7 DEF LockInv, InitCurl
  <2>1. /\ pc[t] = "init"
        /\ pc' = [pc EXCEPT ![t] = "configure"]
        /\ option' = [option EXCEPT ![t] = 1]
        /\ query' = [query EXCEPT ![t] = <<>>]
        /\ UNCHANGED <<fault, config, params, list, next, headers>>
    BY <1>7 DEF InitCurl, Goto, args, locks, curl
  <2>2. \A u \in Thread : u # t =>
          /\ config'[u] = config[u] /\ pc'[u] = pc[u]
          /\ option'[u] = option[u] /\ query'[u] = query[u]
    BY <1>t, <2>1
  <2>3. pc'[t] = "configure" /\ option'[t] = 1 /\ query'[t] = <<>>
    BY <1>t, <2>1
  <2>4. list[config[t]].at # "live"
    <3>1. ASSUME NEW u \in Thread, config[u] = config[t], pc[u] \in Listing
          PROVE  FALSE
      BY <2>1, <3>1, Exclusive DEF Listing
    <3>2. QED
      BY <3>1, <2>c DEF ListInv
  <2>5. 1 <= Len(Script(config[t])) + 1
    BY <2>c, Position
  <2>6. config'[t] = config[t]
    BY <2>1
  <2>7. Walk(t)'
    BY <2>1, <2>3, <2>4, <2>5, <2>6 DEF Walk, InTransfer
  <2>8. QED
    BY <2>1, <2>2, <2>7, OthersWalk
<1>8. ASSUME NEW t \in Thread, InitFails(t) PROVE WalkInv'
  <2>1. /\ pc[t] = "init"
        /\ pc' = [pc EXCEPT ![t] = "idle"]
        /\ UNCHANGED <<fault, config, option, query, params, list, next, headers>>
    BY <1>8 DEF InitFails, Goto, args, locks, curl
  <2>2. \A u \in Thread : u # t =>
          /\ config'[u] = config[u] /\ pc'[u] = pc[u]
          /\ option'[u] = option[u] /\ query'[u] = query[u]
    BY <1>t, <2>1
  <2>3. pc'[t] = "idle"
    BY <1>t, <2>1
  <2>4. Walk(t)'
    BY <2>3 DEF Walk, InTransfer
  <2>5. QED
    BY <2>1, <2>2, <2>4, OthersWalk
<1>9. ASSUME NEW t \in Thread, Configure(t) PROVE WalkInv'
  <2>c. config[t] \in Config
    BY <1>9 DEF LockInv, Configure
  <2>1. /\ pc[t] = "configure"
        /\ option[t] <= Len(Script(config[t]))
        /\ Option(t) \notin {"URL", "HTTPHEADER"}
        /\ option' = [option EXCEPT ![t] = @ + 1]
        /\ UNCHANGED <<fault, pc, config, query, params, list, next, headers>>
    BY <1>9 DEF Configure, args, locks, curl
  <2>2. \A u \in Thread : u # t =>
          /\ config'[u] = config[u] /\ pc'[u] = pc[u]
          /\ option'[u] = option[u] /\ query'[u] = query[u]
    BY <1>t, <2>1
  <2>3. Walk(t)
    BY AllWalk
  <2>4. /\ option[t] \in Nat /\ option[t] # 3 /\ option[t] # 8
        /\ option[t] + 1 <= Len(Script(config[t])) + 1
    BY <2>c, <2>1, Position
  <2>5. option'[t] = option[t] + 1
    BY <1>t, <2>1
  <2>6. Sent(t)' = Sent(t)
    BY <2>1 DEF Sent
  <2>7. /\ IF option'[t] <= 3 THEN query[t] = <<>> ELSE Sent(t) = UpTo(params[config[t]])
        /\ IF option'[t] <= 8 THEN list[config[t]].at # "live"
                               ELSE list[config[t]].items = UpTo(headers[config[t]])
    BY <2>1, <2>3, <2>4, <2>5 DEF Walk
  <2>8. Walk(t)'
    BY <2>1, <2>4, <2>5, <2>6, <2>7 DEF Walk, InTransfer
  <2>9. QED
    BY <2>1, <2>2, <2>8, OthersWalk
<1>10. ASSUME NEW t \in Thread, StartWalk(t) PROVE WalkInv'
  <2>c. config[t] \in Config
    BY <1>10 DEF LockInv, StartWalk
  <2>1. CASE Option(t) = "URL" /\ params[config[t]] > 0
    <3>1. /\ Option(t) = "URL" /\ params[config[t]] > 0
          /\ pc[t] = "configure"
          /\ option[t] <= Len(Script(config[t]))
          /\ pc' = [pc EXCEPT ![t] = "params"]
          /\ next' = [next EXCEPT ![config[t]].params = 0]
          /\ UNCHANGED <<fault, config, option, query, params, list, headers>>
      BY <1>10, <2>1 DEF StartWalk, Goto, EndWalk, args, locks, curl
    <3>2. \A u \in Thread : u # t =>
            /\ config'[u] = config[u] /\ pc'[u] = pc[u]
            /\ option'[u] = option[u] /\ query'[u] = query[u]
      BY <1>t, <3>1
    <3>3. \A d \in Config : d # config[t] => next'[d] = next[d] /\ list'[d] = list[d]
      BY <1>t, <2>c, <3>1
    <3>4. Walk(t)
      BY AllWalk
    <3>5. option[t] = 3
      BY <2>c, <3>1, Position
    <3>6. pc'[t] = "params" /\ next'[config[t]].params = 0 /\ params[config[t]] \in Nat
      BY <1>t, <2>c, <3>1
    <3>7. query[t] = <<>> /\ list[config[t]].at # "live"
      BY <3>1, <3>4, <3>5 DEF Walk
    <3>8. Sent(t)' = UpTo(0)
      BY <3>1, <3>7, Nothing DEF Sent
    <3>9. Walk(t)'
      BY <3>1, <3>5, <3>6, <3>7, <3>8 DEF Walk, InTransfer
    <3>10. QED
      BY <3>1, <3>2, <3>3, <3>9, OthersWalk
  <2>2. CASE Option(t) = "URL" /\ params[config[t]] = 0
    <3>1. /\ Option(t) = "URL" /\ params[config[t]] = 0
          /\ pc[t] = "configure"
          /\ option[t] <= Len(Script(config[t]))
          /\ pc' = [pc EXCEPT ![t] = "configure"]
          /\ option' = [option EXCEPT ![t] = @ + 1]
          /\ UNCHANGED <<fault, config, query, params, list, next, headers>>
      BY <1>10, <2>2 DEF StartWalk, Goto, EndWalk, args, locks, curl
    <3>2. \A u \in Thread : u # t =>
            /\ config'[u] = config[u] /\ pc'[u] = pc[u]
            /\ option'[u] = option[u] /\ query'[u] = query[u]
      BY <1>t, <3>1
    <3>3. \A d \in Config : d # config[t] => next'[d] = next[d] /\ list'[d] = list[d]
      BY <1>t, <2>c, <3>1
    <3>4. Walk(t)
      BY AllWalk
    <3>5. option[t] = 3
      BY <2>c, <3>1, Position
    <3>6. pc'[t] = "configure" /\ option'[t] = 4
      BY <1>t, <3>1, <3>5
    <3>7. query[t] = <<>> /\ list[config[t]].at # "live"
      BY <3>1, <3>4, <3>5 DEF Walk
    <3>8. Sent(t)' = UpTo(params[config[t]])
      BY <3>1, <3>7, Nothing DEF Sent
    <3>9. 4 <= Len(Script(config[t])) + 1 /\ 9 <= Len(Script(config[t])) + 1
      BY <2>c, Position
    <3>10. Walk(t)'
      BY <3>1, <3>6, <3>7, <3>8, <3>9 DEF Walk, InTransfer
    <3>11. QED
      BY <3>1, <3>2, <3>3, <3>10, OthersWalk
  <2>3. CASE Option(t) = "HTTPHEADER"
    <3>1. /\ Option(t) = "HTTPHEADER"
          /\ pc[t] = "configure"
          /\ option[t] <= Len(Script(config[t]))
          /\ pc' = [pc EXCEPT ![t] = "headers"]
          /\ next' = [next EXCEPT ![config[t]].headers = 0]
          /\ UNCHANGED <<fault, config, option, query, params, list, headers>>
      BY <1>10, <2>3 DEF StartWalk, Goto, EndWalk, args, locks, curl
    <3>2. \A u \in Thread : u # t =>
            /\ config'[u] = config[u] /\ pc'[u] = pc[u]
            /\ option'[u] = option[u] /\ query'[u] = query[u]
      BY <1>t, <3>1
    <3>3. \A d \in Config : d # config[t] => next'[d] = next[d] /\ list'[d] = list[d]
      BY <1>t, <2>c, <3>1
    <3>4. Walk(t)
      BY AllWalk
    <3>5. option[t] = 8
      BY <2>c, <3>1, Position
    <3>6. pc'[t] = "headers" /\ next'[config[t]].headers = 0 /\ headers[config[t]] \in Nat
      BY <1>t, <2>c, <3>1
    <3>7. Sent(t) = UpTo(params[config[t]]) /\ list[config[t]].at # "live"
      BY <3>1, <3>4, <3>5 DEF Walk
    <3>8. list[config[t]].items = UpTo(0)
      BY <2>c, <3>7, Nothing DEF ListInv
    <3>9. Sent(t)' = Sent(t)
      BY <3>1 DEF Sent
    <3>10. Walk(t)'
      BY <3>1, <3>5, <3>6, <3>7, <3>8, <3>9 DEF Walk, InTransfer
    <3>11. QED
      BY <3>1, <3>2, <3>3, <3>10, OthersWalk
  <2>4. QED
    BY <2>1, <2>2, <2>3, <1>10 DEF StartWalk
<1>11. ASSUME NEW t \in Thread, YieldParam(t) PROVE WalkInv'
  <2>c. config[t] \in Config
    BY <1>11 DEF LockInv, YieldParam
  <2>1. CASE 0 <= next[config[t]].params /\ next[config[t]].params < params[config[t]]
    <3>1. /\ 0 <= next[config[t]].params /\ next[config[t]].params < params[config[t]]
          /\ pc[t] = "params"
          /\ query' = [query EXCEPT ![t] =
                          Append(@, url_encode_string(
                              [param |-> next[config[t]].params, separator |-> "="]))]
          /\ next' = [next EXCEPT ![config[t]].params = @ + 1]
          /\ UNCHANGED <<fault, pc, config, option, params, list, headers>>
      BY <1>11, <2>1 DEF YieldParam, Goto, EndWalk, yield_increment, args, locks, curl
    <3>2. \A u \in Thread : u # t =>
            /\ config'[u] = config[u] /\ pc'[u] = pc[u]
            /\ option'[u] = option[u] /\ query'[u] = query[u]
      BY <1>t, <3>1
    <3>3. \A d \in Config : d # config[t] => next'[d] = next[d] /\ list'[d] = list[d]
      BY <1>t, <2>c, <3>1
    <3>4. Walk(t)
      BY AllWalk
    <3>5. PICK k \in Nat : k = next[config[t]].params
      BY <1>t, <2>c
    <3>6. /\ option[t] = 3 /\ list[config[t]].at # "live"
          /\ [i \in DOMAIN query[t] |-> query[t][i].param] = UpTo(k)
      BY <3>1, <3>4, <3>5 DEF Walk, Sent
    <3>7. pc'[t] = "params" /\ next'[config[t]].params = k + 1 /\ k + 1 <= params[config[t]]
      BY <1>t, <2>c, <3>1, <3>5
    <3>8. query'[t] = Append(query[t], [param |-> k, separator |-> "%3D"])
      BY <1>t, <3>1, <3>5, Encoded
    <3>9. Sent(t)' = UpTo(k + 1)
      <4>1. PICK q \in Seq([param : Nat, separator : {"=", "%3D"}]) : q = query[t]
        BY <1>t
      <4>2. [i \in DOMAIN q |-> q[i].param] = UpTo(k)
        BY <3>6, <4>1
      <4>3. PICK s : s = Append(q, [param |-> k, separator |-> "%3D"])
        OBVIOUS
      <4>4. [i \in DOMAIN s |-> s[i].param] = UpTo(k + 1)
        BY <4>2, <4>3, OneMoreParam
      <4>5. query'[t] = s
        BY <3>8, <4>1, <4>3
      <4>6. QED
        BY <4>4, <4>5 DEF Sent
    <3>10. Walk(t)'
      BY <3>1, <3>6, <3>7, <3>9 DEF Walk, InTransfer
    <3>11. QED
      BY <3>1, <3>2, <3>3, <3>10, OthersWalk
  <2>2. CASE ~(0 <= next[config[t]].params /\ next[config[t]].params < params[config[t]])
    <3>1. /\ ~(0 <= next[config[t]].params /\ next[config[t]].params < params[config[t]])
          /\ pc[t] = "params"
          /\ pc' = [pc EXCEPT ![t] = "configure"]
          /\ option' = [option EXCEPT ![t] = @ + 1]
          /\ next' = [next EXCEPT ![config[t]].params = @ + 1]
          /\ UNCHANGED <<fault, config, query, params, list, headers>>
      BY <1>11, <2>2 DEF YieldParam, Goto, EndWalk, yield_increment, args, locks, curl
    <3>2. \A u \in Thread : u # t =>
            /\ config'[u] = config[u] /\ pc'[u] = pc[u]
            /\ option'[u] = option[u] /\ query'[u] = query[u]
      BY <1>t, <3>1
    <3>3. \A d \in Config : d # config[t] => next'[d] = next[d] /\ list'[d] = list[d]
      BY <1>t, <2>c, <3>1
    <3>4. Walk(t)
      BY AllWalk
    <3>5. /\ option[t] = 3 /\ list[config[t]].at # "live"
          /\ next[config[t]].params <= params[config[t]] /\ Sent(t) = UpTo(next[config[t]].params)
      BY <3>1, <3>4 DEF Walk
    <3>6. next[config[t]].params = params[config[t]]
      BY <1>t, <2>c, <3>1, <3>5
    <3>7. pc'[t] = "configure" /\ option'[t] = 4
      BY <1>t, <3>1, <3>5
    <3>8. Sent(t)' = UpTo(params[config[t]])
      BY <3>1, <3>5, <3>6 DEF Sent
    <3>9. 4 <= Len(Script(config[t])) + 1 /\ 9 <= Len(Script(config[t])) + 1
      BY <2>c, Position
    <3>10. Walk(t)'
      BY <3>1, <3>5, <3>7, <3>8, <3>9 DEF Walk, InTransfer
    <3>11. QED
      BY <3>1, <3>2, <3>3, <3>10, OthersWalk
  <2>3. QED
    BY <2>1, <2>2, <1>11 DEF YieldParam
<1>12. ASSUME NEW t \in Thread, YieldHeader(t) PROVE WalkInv'
  <2>c. config[t] \in Config
    BY <1>12 DEF LockInv, YieldHeader
  <2>1. CASE next[config[t]].headers < 0 \/ next[config[t]].headers >= headers[config[t]]
    <3>1. /\ next[config[t]].headers < 0 \/ next[config[t]].headers >= headers[config[t]]
          /\ pc[t] = "headers"
          /\ pc' = [pc EXCEPT ![t] = "configure"]
          /\ option' = [option EXCEPT ![t] = @ + 1]
          /\ next' = [next EXCEPT ![config[t]].headers = @ + 1]
          /\ UNCHANGED <<fault, config, query, params, list, headers>>
      BY <1>12, <2>1 DEF YieldHeader, Goto, EndWalk, yield_increment, args, locks, curl
    <3>2. \A u \in Thread : u # t =>
            /\ config'[u] = config[u] /\ pc'[u] = pc[u]
            /\ option'[u] = option[u] /\ query'[u] = query[u]
      BY <1>t, <3>1
    <3>3. \A d \in Config : d # config[t] => next'[d] = next[d] /\ list'[d] = list[d]
      BY <1>t, <2>c, <3>1
    <3>4. Walk(t)
      BY AllWalk
    <3>5. /\ option[t] = 8 /\ Sent(t) = UpTo(params[config[t]])
          /\ next[config[t]].headers <= headers[config[t]]
          /\ list[config[t]].items = UpTo(next[config[t]].headers)
      BY <3>1, <3>4 DEF Walk
    <3>6. next[config[t]].headers = headers[config[t]]
      BY <1>t, <2>c, <3>1, <3>5
    <3>7. pc'[t] = "configure" /\ option'[t] = 9
      BY <1>t, <3>1, <3>5
    <3>8. Sent(t)' = Sent(t)
      BY <3>1 DEF Sent
    <3>9. 4 <= Len(Script(config[t])) + 1 /\ 9 <= Len(Script(config[t])) + 1
      BY <2>c, Position
    <3>10. Walk(t)'
      BY <3>1, <3>5, <3>6, <3>7, <3>8, <3>9 DEF Walk, InTransfer
    <3>11. QED
      BY <3>1, <3>2, <3>3, <3>10, OthersWalk
  <2>2. CASE ~(next[config[t]].headers < 0 \/ next[config[t]].headers >= headers[config[t]])
              /\ list[config[t]].at = "freed"
    <3>1. /\ ~(next[config[t]].headers < 0 \/ next[config[t]].headers >= headers[config[t]])
          /\ list[config[t]].at = "freed"
          /\ pc[t] = "headers"
          /\ fault' = config[t]
          /\ next' = [next EXCEPT ![config[t]].headers = @ + 1]
          /\ UNCHANGED <<pc, config, option, query, params, list, headers>>
      BY <1>12, <2>2 DEF YieldHeader, Goto, EndWalk, yield_increment, args, locks, curl
    <3>2. \A u \in Thread : u # t =>
            /\ config'[u] = config[u] /\ pc'[u] = pc[u]
            /\ option'[u] = option[u] /\ query'[u] = query[u]
      BY <1>t, <3>1
    <3>3. \A d \in Config : d # config[t] => next'[d] = next[d] /\ list'[d] = list[d]
      BY <1>t, <2>c, <3>1
    <3>4. QED
      BY <3>1, <3>2, <3>3, OthersWalk
  <2>3. CASE ~(next[config[t]].headers < 0 \/ next[config[t]].headers >= headers[config[t]])
              /\ list[config[t]].at # "freed"
    <3>1. /\ ~(next[config[t]].headers < 0 \/ next[config[t]].headers >= headers[config[t]])
          /\ list[config[t]].at # "freed"
          /\ pc[t] = "headers"
          /\ list' = [list EXCEPT ![config[t]] =
                         [at |-> "live", items |-> Append(@.items, next[config[t]].headers)]]
          /\ next' = [next EXCEPT ![config[t]].headers = @ + 1]
          /\ UNCHANGED <<fault, pc, config, option, query, params, headers>>
      BY <1>12, <2>3 DEF YieldHeader, Goto, EndWalk, yield_increment, args, locks, curl
    <3>2. \A u \in Thread : u # t =>
            /\ config'[u] = config[u] /\ pc'[u] = pc[u]
            /\ option'[u] = option[u] /\ query'[u] = query[u]
      BY <1>t, <3>1
    <3>3. \A d \in Config : d # config[t] => next'[d] = next[d] /\ list'[d] = list[d]
      BY <1>t, <2>c, <3>1
    <3>4. Walk(t)
      BY AllWalk
    <3>5. PICK k \in Nat : k = next[config[t]].headers
      BY <1>t, <2>c
    <3>6. /\ option[t] = 8 /\ Sent(t) = UpTo(params[config[t]])
          /\ list[config[t]].items = UpTo(k)
      BY <3>1, <3>4, <3>5 DEF Walk
    <3>7. pc'[t] = "headers" /\ next'[config[t]].headers = k + 1 /\ k + 1 <= headers[config[t]]
      BY <1>t, <2>c, <3>1, <3>5
    <3>8. list'[config[t]].items = UpTo(k + 1)
      <4>1. list'[config[t]].items = Append(list[config[t]].items, k)
        BY <1>t, <2>c, <3>1, <3>5
      <4>2. QED
        BY <3>6, <4>1, OneMore
    <3>9. Sent(t)' = Sent(t)
      BY <3>1 DEF Sent
    <3>10. Walk(t)'
      BY <3>1, <3>6, <3>7, <3>8, <3>9 DEF Walk, InTransfer
    <3>11. QED
      BY <3>1, <3>2, <3>3, <3>10, OthersWalk
  <2>4. QED
    BY <2>1, <2>2, <2>3, <1>12 DEF YieldHeader
<1>13. ASSUME NEW t \in Thread, LockCurl(t) PROVE WalkInv'
  <2>c. config[t] \in Config
    BY <1>13 DEF LockInv, LockCurl
  <2>1. /\ pc[t] = "configure"
        /\ option[t] > Len(Script(config[t]))
        /\ pc' = [pc EXCEPT ![t] = "perform"]
        /\ UNCHANGED <<fault, config, option, query, params, list, next, headers>>
    BY <1>13 DEF LockCurl, Goto, CurlUnlocked, args, locks, curl
  <2>2. \A u \in Thread : u # t =>
          /\ config'[u] = config[u] /\ pc'[u] = pc[u]
          /\ option'[u] = option[u] /\ query'[u] = query[u]
    BY <1>t, <2>1
  <2>3. Walk(t)
    BY AllWalk
  <2>4. option[t] \in Nat /\ option[t] > 8
    BY <2>c, <2>1, Position
  <2>5. pc'[t] = "perform" /\ Sent(t)' = Sent(t)
    BY <1>t, <2>1 DEF Sent
  <2>6. Sent(t) = UpTo(params[config[t]]) /\ list[config[t]].items = UpTo(headers[config[t]])
    BY <2>1, <2>3, <2>4 DEF Walk
  <2>7. Walk(t)'
    BY <2>1, <2>5, <2>6 DEF Walk, InTransfer
  <2>8. QED
    BY <2>1, <2>2, <2>7, OthersWalk
<1>14. ASSUME NEW t \in Thread, Copy(t) PROVE WalkInv'
  <2>1. /\ pc[t] = "copy"
        /\ pc' = [pc EXCEPT ![t] = "perform"]
        /\ UNCHANGED <<fault, config, option, query, params, list, next, headers>>
    BY <1>14 DEF Copy, Goto, args, locks, curl
  <2>2. \A u \in Thread : u # t =>
          /\ config'[u] = config[u] /\ pc'[u] = pc[u]
          /\ option'[u] = option[u] /\ query'[u] = query[u]
    BY <1>t, <2>1
  <2>3. Walk(t)
    BY AllWalk
  <2>4. pc'[t] = "perform" /\ Sent(t)' = Sent(t)
    BY <1>t, <2>1 DEF Sent
  <2>5. Walk(t)'
    BY <2>1, <2>3, <2>4 DEF Walk, InTransfer
  <2>6. QED
    BY <2>1, <2>2, <2>5, OthersWalk
<1>15. ASSUME NEW t \in Thread, UnlockCurl(t) PROVE WalkInv'
  <2>1. /\ pc[t] = "unlock curl"
        /\ pc' = [pc EXCEPT ![t] = "finalize"]
        /\ UNCHANGED <<fault, config, option, query, params, list, next, headers>>
    BY <1>15 DEF UnlockCurl, Goto, args, locks, curl
  <2>2. \A u \in Thread : u # t =>
          /\ config'[u] = config[u] /\ pc'[u] = pc[u]
          /\ option'[u] = option[u] /\ query'[u] = query[u]
    BY <1>t, <2>1
  <2>3. pc'[t] = "finalize"
    BY <1>t, <2>1
  <2>4. Walk(t)'
    BY <2>3 DEF Walk, InTransfer
  <2>5. QED
    BY <2>1, <2>2, <2>4, OthersWalk
<1>16. ASSUME NEW t \in Thread, Finalize(t) PROVE WalkInv'
  <2>c. config[t] \in Config
    BY <1>16 DEF LockInv, Finalize
  <2>1. CASE list[config[t]].at = "null"
    <3>1. /\ list[config[t]].at = "null"
          /\ pc[t] = "finalize"
          /\ pc' = [pc EXCEPT ![t] = "unlock"]
          /\ query' = [query EXCEPT ![t] = <<>>]
          /\ UNCHANGED <<fault, config, option, params, list, next, headers>>
      BY <1>16, <2>1 DEF Finalize, Goto, finalize_configure_curl, FreeList, args, locks, curl
    <3>2. \A u \in Thread : u # t =>
            /\ config'[u] = config[u] /\ pc'[u] = pc[u]
            /\ option'[u] = option[u] /\ query'[u] = query[u]
      BY <1>t, <3>1
    <3>3. \A d \in Config : d # config[t] => next'[d] = next[d] /\ list'[d] = list[d]
      BY <1>t, <2>c, <3>1
    <3>4. pc'[t] = "unlock"
      BY <1>t, <3>1
    <3>5. Walk(t)'
      BY <3>4 DEF Walk, InTransfer
    <3>6. QED
      BY <3>1, <3>2, <3>3, <3>5, OthersWalk
  <2>2. CASE list[config[t]].at = "freed"
    <3>1. /\ list[config[t]].at = "freed"
          /\ pc[t] = "finalize"
          /\ fault' = config[t]
          /\ pc' = [pc EXCEPT ![t] = "unlock"]
          /\ query' = [query EXCEPT ![t] = <<>>]
          /\ UNCHANGED <<config, option, params, list, next, headers>>
      BY <1>16, <2>2 DEF Finalize, Goto, finalize_configure_curl, FreeList, args, locks, curl
    <3>2. \A u \in Thread : u # t =>
            /\ config'[u] = config[u] /\ pc'[u] = pc[u]
            /\ option'[u] = option[u] /\ query'[u] = query[u]
      BY <1>t, <3>1
    <3>3. \A d \in Config : d # config[t] => next'[d] = next[d] /\ list'[d] = list[d]
      BY <1>t, <2>c, <3>1
    <3>4. pc'[t] = "unlock"
      BY <1>t, <3>1
    <3>5. Walk(t)'
      BY <3>4 DEF Walk, InTransfer
    <3>6. QED
      BY <3>1, <3>2, <3>3, <3>5, OthersWalk
  <2>3. CASE list[config[t]].at \notin {"null", "freed"}
    <3>1. /\ list[config[t]].at \notin {"null", "freed"}
          /\ pc[t] = "finalize"
          /\ pc' = [pc EXCEPT ![t] = "unlock"]
          /\ query' = [query EXCEPT ![t] = <<>>]
          /\ list' = [list EXCEPT ![config[t]] = [at |-> "freed", items |-> <<>>]]
          /\ UNCHANGED <<fault, config, option, params, next, headers>>
      BY <1>16, <2>3 DEF Finalize, Goto, finalize_configure_curl, FreeList, args, locks, curl
    <3>2. \A u \in Thread : u # t =>
            /\ config'[u] = config[u] /\ pc'[u] = pc[u]
            /\ option'[u] = option[u] /\ query'[u] = query[u]
      BY <1>t, <3>1
    <3>3. \A d \in Config : d # config[t] => next'[d] = next[d] /\ list'[d] = list[d]
      BY <1>t, <2>c, <3>1
    <3>4. pc'[t] = "unlock"
      BY <1>t, <3>1
    <3>5. Walk(t)'
      BY <3>4 DEF Walk, InTransfer
    <3>6. QED
      BY <3>1, <3>2, <3>3, <3>5, OthersWalk
  <2>4. QED
    BY <2>1, <2>2, <2>3, <1>16 DEF Finalize
<1>17. ASSUME NEW t \in Thread, UnlockRequest(t) PROVE WalkInv'
  <2>1. /\ pc[t] = "unlock"
        /\ pc' = [pc EXCEPT ![t] = "idle"]
        /\ UNCHANGED <<fault, config, option, query, params, list, next, headers>>
    BY <1>17 DEF UnlockRequest, Goto, Unlock, args, locks, curl
  <2>2. \A u \in Thread : u # t =>
          /\ config'[u] = config[u] /\ pc'[u] = pc[u]
          /\ option'[u] = option[u] /\ query'[u] = query[u]
    BY <1>t, <2>1
  <2>3. pc'[t] = "idle"
    BY <1>t, <2>1
  <2>4. Walk(t)'
    BY <2>3 DEF Walk, InTransfer
  <2>5. QED
    BY <2>1, <2>2, <2>4, OthersWalk
<1>18. ASSUME NEW t \in Thread, Chunk(t) PROVE WalkInv'
  <2>1. /\ pc[t] = "perform"
        /\ pc' = [pc EXCEPT ![t] = "copy"]
        /\ UNCHANGED <<fault, config, option, query, params, list, next, headers>>
    BY <1>18 DEF Chunk, Goto, args, locks, curl
  <2>2. \A u \in Thread : u # t =>
          /\ config'[u] = config[u] /\ pc'[u] = pc[u]
          /\ option'[u] = option[u] /\ query'[u] = query[u]
    BY <1>t, <2>1
  <2>3. Walk(t)
    BY AllWalk
  <2>4. pc'[t] = "copy" /\ Sent(t)' = Sent(t)
    BY <1>t, <2>1 DEF Sent
  <2>5. Walk(t)'
    BY <2>1, <2>3, <2>4 DEF Walk, InTransfer
  <2>6. QED
    BY <2>1, <2>2, <2>5, OthersWalk
<1>19. ASSUME NEW t \in Thread, Performed(t) PROVE WalkInv'
  <2>1. /\ pc[t] = "perform"
        /\ pc' = [pc EXCEPT ![t] = "unlock curl"]
        /\ UNCHANGED <<fault, config, option, query, params, list, next, headers>>
    BY <1>19 DEF Performed, Goto, args, locks, curl
  <2>2. \A u \in Thread : u # t =>
          /\ config'[u] = config[u] /\ pc'[u] = pc[u]
          /\ option'[u] = option[u] /\ query'[u] = query[u]
    BY <1>t, <2>1
  <2>3. pc'[t] = "unlock curl"
    BY <1>t, <2>1
  <2>4. Walk(t)'
    BY <2>3 DEF Walk, InTransfer
  <2>5. QED
    BY <2>1, <2>2, <2>4, OthersWalk
<1>. QED
  BY <1>1, <1>2, <1>3, <1>4, <1>5, <1>6, <1>7, <1>8, <1>9, <1>10, <1>11, <1>12, <1>13, <1>14,
     <1>15, <1>16, <1>17, <1>18, <1>19 DEF Call, Run, Peer


\* Every action keeps the chunks of the running transfer at the end.
LEMMA ChunksKept ==
  ASSUME TypeOK, LockInv, ChunkInv, fault = NoConfig,
         Call \/ \E t \in Thread : Run(t) \/ Peer(t)
  PROVE  ChunkInv'
<1>t. /\ curl_lock \in Thread \cup {NoThread}
      /\ memory \in [chunks : Seq(Thread \X Nat), room : Nat]
      /\ pc \in [Thread -> Places]
      /\ made \in [Thread -> Nat]
  BY DEF TypeOK
<1>f. ASSUME UNCHANGED <<memory, made, pc, curl_lock>> PROVE ChunkInv'
  BY <1>f DEF ChunkInv, ResponseFits, Transfer
<1>z. NoThread \notin Thread
  BY RequestAssumption
<1>1. ASSUME NEW c \in Config, initialize_request_config(c) PROVE ChunkInv'
  BY <1>f, <1>1 DEF initialize_request_config, args, locks, curl
<1>2. ASSUME NEW c \in Config, free_request_config(c) PROVE ChunkInv'
  BY <1>f, <1>2 DEF free_request_config, FreeList, Busy, args, locks, curl
<1>3. ASSUME NEW c \in Config, add_request_header(c) PROVE ChunkInv'
  BY <1>f, <1>3 DEF add_request_header, MayAdd, Busy, args, locks, curl
<1>4. ASSUME NEW c \in Config, add_request_param(c) PROVE ChunkInv'
  BY <1>f, <1>4 DEF add_request_param, MayAdd, Busy, args, locks, curl
<1>5. ASSUME NEW t \in Thread, NEW c \in Config, http_request(t, c) PROVE ChunkInv'
  <2>1. /\ pc[t] = "idle"
        /\ made' = [made EXCEPT ![t] = @ + 1]
        /\ pc' = [pc EXCEPT ![t] = "lock"]
        /\ UNCHANGED <<memory, curl_lock>>
    BY <1>5 DEF http_request, Goto, args, locks, curl
  <2>2. \A u \in Thread : u # t => pc'[u] = pc[u] /\ made'[u] = made[u]
    BY <1>t, <2>1
  <2>c. curl_lock # t
    BY <2>1 DEF LockInv
  <2>3. pc'[t] = "lock" /\ made'[t] = made[t] + 1 /\ curl_lock # t
    BY <1>t, <2>1, <2>c
  <2>4. PICK n \in Nat : n = made[t]
    BY <1>t
  <2>5. PICK s \in Seq(Thread \X Nat) : s = memory.chunks
    BY <1>t
  <2>6. ASSUME NEW i \in 1 .. Len(s)
        PROVE  s[i][2] <= made'[s[i][1]] /\ s[i] # Transfer(t)'
    <3>1. PICK u \in Thread, k \in Nat : s[i] = <<u, k>>
      BY <2>5
    <3>2. k <= made[u]
      BY <2>5, <3>1 DEF ChunkInv
    <3>3. CASE u = t
      BY <2>3, <2>4, <3>1, <3>2, <3>3 DEF Transfer
    <3>4. CASE u # t
      BY <2>2, <3>1, <3>2, <3>4 DEF Transfer
    <3>5. QED
      BY <3>3, <3>4
  <2>7. \A u \in Thread : u # t => Transfer(u)' = Transfer(u)
    BY <2>2 DEF Transfer
  <2>8. \A u \in Thread : pc'[u] \in Early =>
          \A i \in 1 .. Len(s) : s[i] # Transfer(u)'
    <3>1. \A u \in Thread : u # t /\ pc'[u] \in Early =>
            \A i \in 1 .. Len(s) : s[i] # Transfer(u)
      BY <2>2, <2>5 DEF ChunkInv, Early
    <3>2. QED
      BY <2>6, <2>7, <3>1
  <2>9. \A u \in Thread : curl_lock = u =>
          \A i, j \in 1 .. Len(s) : i < j /\ s[i] = Transfer(u)' => s[j] = Transfer(u)'
    BY <2>3, <2>5, <2>7 DEF ChunkInv
  <2>10. \A u \in Thread : pc'[u] = "copy" => memory.room = Len(memory.chunks) + 1
    BY <2>2, <2>3 DEF ChunkInv
  <2>11. QED
    BY <2>1, <2>5, <2>6, <2>8, <2>9, <2>10 DEF ChunkInv, Early, ResponseFits
<1>6. ASSUME NEW t \in Thread, LockRequest(t) PROVE ChunkInv'
  <2>1. /\ pc[t] = "lock"
        /\ pc' = [pc EXCEPT ![t] = "init"]
        /\ UNCHANGED <<memory, made, curl_lock>>
    BY <1>6 DEF LockRequest, Goto, RequestUnlocked, args, locks, curl
  <2>2. QED
    BY <1>t, <2>1, ChunksStay DEF Early
<1>7. ASSUME NEW t \in Thread, InitFails(t) PROVE ChunkInv'
  <2>1. /\ pc[t] = "init"
        /\ pc' = [pc EXCEPT ![t] = "idle"]
        /\ UNCHANGED <<memory, made, curl_lock>>
    BY <1>7 DEF InitFails, Goto, args, locks, curl
  <2>2. QED
    BY <1>t, <2>1, ChunksStay DEF Early
<1>8. ASSUME NEW t \in Thread, LockCurl(t) PROVE ChunkInv'
  <2>1. /\ pc[t] = "configure"
        /\ pc' = [pc EXCEPT ![t] = "perform"]
        /\ curl_lock' = t
        /\ UNCHANGED <<memory, made>>
    BY <1>8 DEF LockCurl, Goto, CurlUnlocked, args, locks, curl
  <2>2. \A u \in Thread : u # t => pc'[u] = pc[u]
    BY <1>t, <2>1
  <2>3. pc'[t] = "perform"
    BY <1>t, <2>1
  <2>4. \A i \in 1 .. Len(memory.chunks) : memory.chunks[i] # Transfer(t)
    BY <2>1 DEF ChunkInv
  <2>5. \A u \in Thread : Transfer(u)' = Transfer(u)
    BY <2>1 DEF Transfer
  <2>6. QED
    BY <2>1, <2>2, <2>3, <2>4, <2>5 DEF ChunkInv, ResponseFits
<1>9. ASSUME NEW t \in Thread, Copy(t) PROVE ChunkInv'
  <2>1. /\ pc[t] = "copy"
        /\ memory' = [memory EXCEPT !.chunks = Append(@, Transfer(t))]
        /\ pc' = [pc EXCEPT ![t] = "perform"]
        /\ UNCHANGED <<made, curl_lock>>
    BY <1>9 DEF Copy, Goto, args, locks, curl
  <2>2. curl_lock = t /\ \A u \in Thread : u # t => pc[u] # "copy"
    <3>1. curl_lock = t
      BY <2>1 DEF LockInv
    <3>2. QED
      BY <3>1 DEF LockInv
  <2>3. \A u \in Thread : pc'[u] = IF u = t THEN "perform" ELSE pc[u]
    BY <1>t, <2>1
  <2>4. PICK s \in Seq(Thread \X Nat) : s = memory.chunks
    BY <1>t
  <2>5. PICK x \in Thread \X Nat : x = Transfer(t)
    BY <1>t DEF Transfer
  <2>6. memory'.chunks = Append(s, x) /\ memory'.room = memory.room
    BY <1>t, <2>1, <2>4, <2>5
  <2>7. /\ Len(Append(s, x)) = Len(s) + 1
        /\ \A i \in 1 .. Len(s) : Append(s, x)[i] = s[i]
        /\ Append(s, x)[Len(s) + 1] = x
        /\ \A i, j \in 1 .. Len(s) + 1 : i < j /\ Append(s, x)[i] = x => Append(s, x)[j] = x
    <3>1. \A i, j \in 1 .. Len(s) : i < j /\ s[i] = x => s[j] = x
      BY <2>2, <2>4, <2>5 DEF ChunkInv
    <3>2. /\ Len(Append(s, x)) = Len(s) + 1 /\ Append(s, x)[Len(s) + 1] = x
          /\ \A i \in 1 .. Len(s) : Append(s, x)[i] = s[i]
      OBVIOUS
    <3>3. \A i, j \in 1 .. Len(s) + 1 : i < j /\ Append(s, x)[i] = x => Append(s, x)[j] = x
      BY <3>1, GrownTail
    <3>4. QED
      BY <3>2, <3>3
  <2>8. memory.room = Len(s) + 1
    BY <2>1, <2>4 DEF ChunkInv
  <2>9. Len(s) \in Nat
    OBVIOUS
  <2>10. ASSUME NEW i \in 1 .. Len(s) + 1
         PROVE  /\ Append(s, x)[i][2] <= made[Append(s, x)[i][1]]
                /\ \A u \in Thread : pc'[u] \in Early => Append(s, x)[i] # Transfer(u)
    <3>1. CASE i \in 1 .. Len(s)
      <4>1. Append(s, x)[i] = s[i]
        BY <2>7, <3>1
      <4>2. s[i][2] <= made[s[i][1]]
        BY <2>4, <3>1 DEF ChunkInv
      <4>3. \A u \in Thread : pc'[u] \in Early => pc[u] \in Early
        BY <2>3 DEF Early
      <4>4. \A u \in Thread : pc[u] \in Early => s[i] # Transfer(u)
        BY <2>4, <3>1 DEF ChunkInv, Early
      <4>5. QED
        BY <4>1, <4>2, <4>3, <4>4
    <3>2. CASE i = Len(s) + 1
      <4>1. Append(s, x)[i] = <<t, made[t]>> /\ made[t] \in Nat
        BY <1>t, <2>5, <2>7, <3>2 DEF Transfer
      <4>2. QED
        BY <2>3, <4>1 DEF Transfer, Early
    <3>3. QED
      BY <2>9, <3>1, <3>2
  <2>11. \A u \in Thread : Transfer(u)' = Transfer(u)
    BY <2>1 DEF Transfer
  <2>12. \A u \in Thread : pc'[u] # "copy" /\ (curl_lock = u => u = t)
    BY <2>2, <2>3
  <2>13. \A u \in Thread : curl_lock = u => Transfer(u) = x
    BY <2>5, <2>12
  <2>14. QED
    <3>1. \A i \in 1 .. Len(memory'.chunks) :
            memory'.chunks[i][2] <= made'[memory'.chunks[i][1]]
      BY <2>1, <2>6, <2>7, <2>10
    <3>2. \A u \in Thread : pc'[u] \in Early =>
            \A i \in 1 .. Len(memory'.chunks) : memory'.chunks[i] # Transfer(u)'
      BY <2>6, <2>7, <2>10, <2>11
    <3>3. \A u \in Thread : curl_lock' = u =>
            \A i, j \in 1 .. Len(memory'.chunks) :
              i < j /\ memory'.chunks[i] = Transfer(u)' => memory'.chunks[j] = Transfer(u)'
      <4>1. ASSUME NEW u \in Thread, curl_lock' = u
            PROVE  Transfer(u)' = x
        BY <2>1, <2>11, <2>13, <4>1
      <4>2. Len(memory'.chunks) = Len(s) + 1
        BY <2>6, <2>7
      <4>3. \A i, j \in 1 .. Len(s) + 1 :
              i < j /\ memory'.chunks[i] = x => memory'.chunks[j] = x
        BY <2>6, <2>7
      <4>4. QED
        BY <4>1, <4>2, <4>3
    <3>4. Len(memory'.chunks) <= memory'.room
      BY <2>6, <2>7, <2>8, <2>9
    <3>5. QED
      BY <2>12, <3>1, <3>2, <3>3, <3>4 DEF ChunkInv, Early, ResponseFits
<1>10. ASSUME NEW t \in Thread, UnlockCurl(t) PROVE ChunkInv'
  <2>1. /\ pc[t] = "unlock curl"
        /\ pc' = [pc EXCEPT ![t] = "finalize"]
        /\ curl_lock' = NoThread
        /\ UNCHANGED <<memory, made>>
    BY <1>10 DEF UnlockCurl, Goto, args, locks, curl
  <2>2. \A u \in Thread : u # t => pc'[u] = pc[u]
    BY <1>t, <2>1
  <2>3. pc'[t] = "finalize"
    BY <1>t, <2>1
  <2>4. \A u \in Thread : curl_lock' # u
    BY <2>1, <1>z
  <2>5. QED
    BY <2>1, <2>2, <2>3, <2>4 DEF ChunkInv, ResponseFits, Transfer
<1>11. ASSUME NEW t \in Thread, Finalize(t) PROVE ChunkInv'
  <2>1. /\ pc[t] = "finalize"
        /\ pc' = [pc EXCEPT ![t] = "unlock"]
        /\ UNCHANGED <<memory, made, curl_lock>>
    BY <1>11 DEF Finalize, Goto, finalize_configure_curl, FreeList, args, locks, curl
  <2>2. QED
    BY <1>t, <2>1, ChunksStay DEF Early
<1>12. ASSUME NEW t \in Thread, UnlockRequest(t) PROVE ChunkInv'
  <2>1. /\ pc[t] = "unlock"
        /\ pc' = [pc EXCEPT ![t] = "idle"]
        /\ UNCHANGED <<memory, made, curl_lock>>
    BY <1>12 DEF UnlockRequest, Goto, Unlock, args, locks, curl
  <2>2. QED
    BY <1>t, <2>1, ChunksStay DEF Early
<1>13. ASSUME NEW t \in Thread, Chunk(t) PROVE ChunkInv'
  <2>1. /\ pc[t] = "perform"
        /\ memory' = [memory EXCEPT !.room = Len(memory.chunks) + 1]
        /\ pc' = [pc EXCEPT ![t] = "copy"]
        /\ UNCHANGED <<made, curl_lock>>
    BY <1>13 DEF Chunk, Goto, args, locks, curl
  <2>2. curl_lock = t /\ \A u \in Thread : u # t => pc[u] # "copy"
    BY <2>1 DEF LockInv
  <2>3. \A u \in Thread : pc'[u] = IF u = t THEN "copy" ELSE pc[u]
    BY <1>t, <2>1
  <2>4. memory'.chunks = memory.chunks /\ memory'.room = Len(memory.chunks) + 1
    BY <1>t, <2>1
  <2>5. Len(memory.chunks) \in Nat
    BY <1>t
  <2>6. Len(memory'.chunks) <= memory'.room
    BY <2>4, <2>5
  <2>7. \A u \in Thread : Transfer(u)' = Transfer(u)
    BY <2>1 DEF Transfer
  <2>8. QED
    BY <2>1, <2>2, <2>3, <2>4, <2>6, <2>7 DEF ChunkInv, ResponseFits
<1>14. ASSUME NEW t \in Thread, Performed(t) PROVE ChunkInv'
  <2>1. /\ pc[t] = "perform"
        /\ pc' = [pc EXCEPT ![t] = "unlock curl"]
        /\ UNCHANGED <<memory, made, curl_lock>>
    BY <1>14 DEF Performed, Goto, args, locks, curl
  <2>2. QED
    BY <1>t, <2>1, ChunksStay DEF Early
<1>15. ASSUME NEW t \in Thread, Quiet(t) PROVE ChunkInv'
  <2>1. PICK p \in {"configure", "params", "headers"} :
          /\ pc[t] \in {"init", "configure", "params", "headers"}
          /\ pc' = [pc EXCEPT ![t] = p] /\ UNCHANGED <<memory, made, curl_lock>>
    BY <1>15, QuietSteps
  <2>2. QED
    BY <1>t, <2>1, ChunksStay DEF Early
<1>. QED
  BY <1>1, <1>2, <1>3, <1>4, <1>5, <1>6, <1>7, <1>8, <1>9, <1>10, <1>11, <1>12, <1>13, <1>14,
     <1>15 DEF Call, Run, Peer, Quiet


\* A first request meets no fault.
LEMMA FaultKept ==
  ASSUME TypeOK, LockInv, ListInv, FaultInv, fault = NoConfig,
         Call \/ \E t \in Thread : Run(t) \/ Peer(t)
  PROVE  FaultInv'
<1>t. /\ headers \in [Config -> Nat]
      /\ served \in [Config -> Nat]
      /\ next \in [Config -> [headers : Nat, params : Nat]]
      /\ list \in [Config -> [at : {"null", "live", "freed"}, items : Seq(Nat)]]
      /\ pc \in [Thread -> Places]
      /\ config \in [Thread -> Config \cup {NoConfig}]
      /\ fault \in Config \cup {NoConfig}
  BY DEF TypeOK
<1>f. ASSUME UNCHANGED <<pc, config, fault, served, headers>> PROVE FaultInv'
  BY <1>f DEF FaultInv, FirstRequestSound, InTransfer
<1>y. NoConfig \notin Config
  BY RequestAssumption
<1>1. ASSUME NEW c \in Config, initialize_request_config(c) PROVE FaultInv'
  BY <1>f, <1>1 DEF initialize_request_config, args, locks, curl
<1>2. ASSUME NEW c \in Config, free_request_config(c) PROVE FaultInv'
  <2>1. CASE list[c].at = "null"
    BY <1>f, <1>2, <2>1 DEF free_request_config, FreeList, Busy, args, locks, curl
  <2>2. CASE list[c].at = "freed"
    <3>1. /\ list[c].at = "freed"
          /\ \A t \in Thread : pc[t] = "idle" \/ config[t] # c
          /\ fault' = c
          /\ UNCHANGED <<pc, config, served, headers>>
      BY <1>2, <2>2 DEF free_request_config, FreeList, Busy, args, locks, curl
    <3>2. served[c] >= 1 /\ headers[c] >= 1
      <4>1. list[c].at = "freed" /\ c \in Config
        BY <3>1
      <4>2. ~ \E u \in Thread : config[u] = c /\ pc[u] = "unlock"
        BY <3>1
      <4>3. QED
        BY <4>1, <4>2 DEF ListInv
    <3>3. \A u \in Thread : InTransfer(u)' => config[u] # c
      BY <3>1, <1>t DEF InTransfer
    <3>4. QED
      BY <3>1, <3>2, <3>3, <1>t DEF FaultInv, FirstRequestSound
  <2>3. CASE list[c].at \notin {"null", "freed"}
    BY <1>f, <1>2, <2>3 DEF free_request_config, FreeList, Busy, args, locks, curl
  <2>4. QED
    BY <2>1, <2>2, <2>3, <1>2 DEF free_request_config
<1>3. ASSUME NEW c \in Config, add_request_header(c) PROVE FaultInv'
  <2>1. /\ headers' = [headers EXCEPT ![c] = @ + 1]
        /\ UNCHANGED <<pc, config, fault, served>>
    BY <1>3 DEF add_request_header, MayAdd, Busy, args, locks, curl
  <2>2. QED
    BY <1>t, <2>1 DEF FaultInv, FirstRequestSound, InTransfer
<1>4. ASSUME NEW c \in Config, add_request_param(c) PROVE FaultInv'
  BY <1>f, <1>4 DEF add_request_param, MayAdd, Busy, args, locks, curl
<1>5. ASSUME NEW t \in Thread, NEW c \in Config, http_request(t, c) PROVE FaultInv'
  <2>1. /\ pc[t] = "idle"
        /\ pc' = [pc EXCEPT ![t] = "lock"]
        /\ config' = [config EXCEPT ![t] = c]
        /\ UNCHANGED <<fault, served, headers>>
    BY <1>5 DEF http_request, Goto, args, locks, curl
  <2>2. QED
    BY <1>t, <2>1 DEF FaultInv, FirstRequestSound, InTransfer
<1>6. ASSUME NEW t \in Thread, LockRequest(t) PROVE FaultInv'
  <2>1. /\ pc[t] = "lock"
        /\ pc' = [pc EXCEPT ![t] = "init"]
        /\ UNCHANGED <<config, fault, served, headers>>
    BY <1>6 DEF LockRequest, Goto, RequestUnlocked, args, locks, curl
  <2>2. QED
    BY <1>t, <2>1 DEF FaultInv, FirstRequestSound, InTransfer
<1>7. ASSUME NEW t \in Thread, InitFails(t) PROVE FaultInv'
  <2>1. /\ pc[t] = "init"
        /\ pc' = [pc EXCEPT ![t] = "idle"]
        /\ UNCHANGED <<config, fault, served, headers>>
    BY <1>7 DEF InitFails, Goto, args, locks, curl
  <2>2. QED
    BY <1>t, <2>1 DEF FaultInv, FirstRequestSound, InTransfer
<1>8. ASSUME NEW t \in Thread, YieldHeader(t) PROVE FaultInv'
  <2>c. config[t] \in Config
    BY <1>8 DEF LockInv, YieldHeader
  <2>1. CASE next[config[t]].headers < 0 \/ next[config[t]].headers >= headers[config[t]]
    <3>1. /\ next[config[t]].headers < 0 \/ next[config[t]].headers >= headers[config[t]]
          /\ pc[t] = "headers"
          /\ pc' = [pc EXCEPT ![t] = "configure"]
          /\ UNCHANGED <<config, fault, served, headers>>
      BY <1>8, <2>1 DEF YieldHeader, Goto, EndWalk, yield_increment, args, locks, curl
    <3>2. QED
      BY <1>t, <3>1 DEF FaultInv, FirstRequestSound, InTransfer
  <2>2. CASE ~(next[config[t]].headers < 0 \/ next[config[t]].headers >= headers[config[t]])
              /\ list[config[t]].at = "freed"
    <3>1. /\ ~(next[config[t]].headers < 0 \/ next[config[t]].headers >= headers[config[t]])
          /\ list[config[t]].at = "freed"
          /\ pc[t] = "headers"
          /\ fault' = config[t]
          /\ UNCHANGED <<pc, config, served, headers>>
      BY <1>8, <2>2 DEF YieldHeader, Goto, EndWalk, yield_increment, args, locks, curl
    <3>2. served[config[t]] >= 1 /\ headers[config[t]] >= 1
      <4>1. list[config[t]].at = "freed" /\ config[t] \in Config
        BY <3>1, <2>c
      <4>2. ~ \E u \in Thread : config[u] = config[t] /\ pc[u] = "unlock"
        BY <3>1, <2>c, Exclusive
      <4>3. QED
        BY <4>1, <4>2 DEF ListInv
    <3>3. \A u \in Thread : InTransfer(u)' => config[u] # config[t]
      BY <3>1, <2>c, <1>t, Exclusive DEF InTransfer
    <3>4. QED
      BY <3>1, <3>2, <3>3, <1>t DEF FaultInv, FirstRequestSound
  <2>3. CASE ~(next[config[t]].headers < 0 \/ next[config[t]].headers >= headers[config[t]])
              /\ list[config[t]].at # "freed"
    BY <1>f, <1>8, <2>3 DEF YieldHeader, Goto, EndWalk, yield_increment, args, locks, curl
  <2>4. QED
    BY <2>1, <2>2, <2>3, <1>8 DEF YieldHeader
<1>9. ASSUME NEW t \in Thread, LockCurl(t) PROVE FaultInv'
  <2>c. config[t] \in Config
    BY <1>9 DEF LockInv, LockCurl
  <2>1. /\ pc[t] = "configure"
        /\ pc' = [pc EXCEPT ![t] = "perform"]
        /\ UNCHANGED <<config, fault, served, headers>>
    BY <1>9 DEF LockCurl, Goto, CurlUnlocked, args, locks, curl
  <2>2. \A u \in Thread : u # t => (InTransfer(u)' <=> InTransfer(u))
    BY <1>t, <2>1 DEF InTransfer
  <2>3. config[t] # fault
    BY <2>1, <1>y, <2>c
  <2>4. QED
    BY <2>1, <2>2, <2>3 DEF FaultInv, FirstRequestSound
<1>10. ASSUME NEW t \in Thread, Copy(t) PROVE FaultInv'
  <2>1. /\ pc[t] = "copy"
        /\ pc' = [pc EXCEPT ![t] = "perform"]
        /\ UNCHANGED <<config, fault, served, headers>>
    BY <1>10 DEF Copy, Goto, args, locks, curl
  <2>2. QED
    BY <1>t, <2>1 DEF FaultInv, FirstRequestSound, InTransfer
<1>11. ASSUME NEW t \in Thread, UnlockCurl(t) PROVE FaultInv'
  <2>1. /\ pc[t] = "unlock curl"
        /\ pc' = [pc EXCEPT ![t] = "finalize"]
        /\ UNCHANGED <<config, fault, served, headers>>
    BY <1>11 DEF UnlockCurl, Goto, args, locks, curl
  <2>2. QED
    BY <1>t, <2>1 DEF FaultInv, FirstRequestSound, InTransfer
<1>12. ASSUME NEW t \in Thread, Finalize(t) PROVE FaultInv'
  <2>c. config[t] \in Config
    BY <1>12 DEF LockInv, Finalize
  <2>1. CASE list[config[t]].at = "null"
    <3>1. /\ list[config[t]].at = "null"
          /\ pc[t] = "finalize"
          /\ pc' = [pc EXCEPT ![t] = "unlock"]
          /\ UNCHANGED <<config, fault, served, headers>>
      BY <1>12, <2>1 DEF Finalize, Goto, finalize_configure_curl, FreeList, args, locks, curl
    <3>2. QED
      BY <1>t, <3>1 DEF FaultInv, FirstRequestSound, InTransfer
  <2>2. CASE list[config[t]].at = "freed"
    <3>1. /\ list[config[t]].at = "freed"
          /\ pc[t] = "finalize"
          /\ pc' = [pc EXCEPT ![t] = "unlock"]
          /\ fault' = config[t]
          /\ UNCHANGED <<config, served, headers>>
      BY <1>12, <2>2 DEF Finalize, Goto, finalize_configure_curl, FreeList, args, locks, curl
    <3>2. served[config[t]] >= 1 /\ headers[config[t]] >= 1
      <4>1. list[config[t]].at = "freed" /\ config[t] \in Config
        BY <3>1, <2>c
      <4>2. ~ \E u \in Thread : config[u] = config[t] /\ pc[u] = "unlock"
        BY <3>1, <2>c, Exclusive
      <4>3. QED
        BY <4>1, <4>2 DEF ListInv
    <3>3. \A u \in Thread : InTransfer(u)' => config[u] # config[t]
      BY <3>1, <2>c, <1>t, Exclusive DEF InTransfer
    <3>4. QED
      BY <3>1, <3>2, <3>3, <1>t DEF FaultInv, FirstRequestSound
  <2>3. CASE list[config[t]].at \notin {"null", "freed"}
    <3>1. /\ list[config[t]].at \notin {"null", "freed"}
          /\ pc[t] = "finalize"
          /\ pc' = [pc EXCEPT ![t] = "unlock"]
          /\ UNCHANGED <<config, fault, served, headers>>
      BY <1>12, <2>3 DEF Finalize, Goto, finalize_configure_curl, FreeList, args, locks, curl
    <3>2. QED
      BY <1>t, <3>1 DEF FaultInv, FirstRequestSound, InTransfer
  <2>4. QED
    BY <2>1, <2>2, <2>3, <1>12 DEF Finalize
<1>13. ASSUME NEW t \in Thread, UnlockRequest(t) PROVE FaultInv'
  <2>1. /\ pc[t] = "unlock"
        /\ pc' = [pc EXCEPT ![t] = "idle"]
        /\ served' = [served EXCEPT ![config[t]] = @ + 1]
        /\ UNCHANGED <<config, fault, headers>>
    BY <1>13 DEF UnlockRequest, Goto, Unlock, args, locks, curl
  <2>2. QED
    BY <1>t, <2>1 DEF FaultInv, FirstRequestSound, InTransfer
<1>14. ASSUME NEW t \in Thread, Chunk(t) PROVE FaultInv'
  <2>1. /\ pc[t] = "perform"
        /\ pc' = [pc EXCEPT ![t] = "copy"]
        /\ UNCHANGED <<config, fault, served, headers>>
    BY <1>14 DEF Chunk, Goto, args, locks, curl
  <2>2. QED
    BY <1>t, <2>1 DEF FaultInv, FirstRequestSound, InTransfer
<1>15. ASSUME NEW t \in Thread, Performed(t) PROVE FaultInv'
  <2>1. /\ pc[t] = "perform"
        /\ pc' = [pc EXCEPT ![t] = "unlock curl"]
        /\ UNCHANGED <<config, fault, served, headers>>
    BY <1>15 DEF Performed, Goto, args, locks, curl
  <2>2. QED
    BY <1>t, <2>1 DEF FaultInv, FirstRequestSound, InTransfer
<1>16. ASSUME NEW t \in Thread, Quiet(t), UNCHANGED fault PROVE FaultInv'
  <2>1. PICK p \in {"configure", "params", "headers"} :
          /\ pc[t] \in {"init", "configure", "params", "headers"}
          /\ pc' = [pc EXCEPT ![t] = p] /\ UNCHANGED <<config, fault, served, headers>>
    BY <1>16, QuietSteps
  <2>2. QED
    BY <1>t, <2>1 DEF FaultInv, FirstRequestSound, InTransfer
<1>. QED
  BY <1>1, <1>2, <1>3, <1>4, <1>5, <1>6, <1>7, <1>8, <1>9, <1>10, <1>11, <1>12, <1>13, <1>14,
     <1>15, <1>16, QuietLists DEF Call, Run, Peer, Quiet


\* Every action keeps the transfers whole.
LEMMA WholeKept ==
  ASSUME TypeOK, LockInv, ChunkInv, ResponseWhole, fault = NoConfig,
         Call \/ \E t \in Thread : Run(t) \/ Peer(t)
  PROVE  ResponseWhole'
<1>t. /\ memory \in [chunks : Seq(Thread \X Nat), room : Nat]
  BY DEF TypeOK
<1>f. ASSUME UNCHANGED <<memory>> PROVE ResponseWhole'
  BY <1>f DEF ResponseWhole
<1>1. ASSUME NEW c \in Config, initialize_request_config(c) PROVE ResponseWhole'
  BY <1>f, <1>1 DEF initialize_request_config, args, locks, curl
<1>2. ASSUME NEW c \in Config, free_request_config(c) PROVE ResponseWhole'
  BY <1>f, <1>2 DEF free_request_config, FreeList, Busy, args, locks, curl
<1>3. ASSUME NEW c \in Config, add_request_header(c) PROVE ResponseWhole'
  BY <1>f, <1>3 DEF add_request_header, MayAdd, Busy, args, locks, curl
<1>4. ASSUME NEW c \in Config, add_request_param(c) PROVE ResponseWhole'
  BY <1>f, <1>4 DEF add_request_param, MayAdd, Busy, args, locks, curl
<1>5. ASSUME NEW t \in Thread, NEW c \in Config, http_request(t, c) PROVE ResponseWhole'
  BY <1>f, <1>5 DEF http_request, Goto, args, locks, curl
<1>6. ASSUME NEW t \in Thread, LockRequest(t) PROVE ResponseWhole'
  BY <1>f, <1>6 DEF LockRequest, Goto, RequestUnlocked, args, locks, curl
<1>7. ASSUME NEW t \in Thread, InitFails(t) PROVE ResponseWhole'
  BY <1>f, <1>7 DEF InitFails, Goto, args, locks, curl
<1>8. ASSUME NEW t \in Thread, LockCurl(t) PROVE ResponseWhole'
  BY <1>f, <1>8 DEF LockCurl, Goto, CurlUnlocked, args, locks, curl
<1>9. ASSUME NEW t \in Thread, Copy(t) PROVE ResponseWhole'
  <2>1. /\ pc[t] = "copy"
        /\ memory' = [memory EXCEPT !.chunks = Append(@, Transfer(t))]
    BY <1>9 DEF Copy, Goto, args, locks, curl
  <2>2. curl_lock = t
    BY <2>1 DEF LockInv
  <2>3. PICK s \in Seq(Thread \X Nat) : s = memory.chunks
    BY <1>t
  <2>4. PICK x \in Thread \X Nat : x = Transfer(t)
    BY DEF TypeOK, Transfer
  <2>5. memory'.chunks = Append(s, x)
    BY <1>t, <2>1, <2>3, <2>4
  <2>6. \A i, j, k \in 1 .. Len(s) : i < j /\ j < k /\ s[i] = s[k] => s[j] = s[i]
    <3>1. DOMAIN s = 1 .. Len(s)
      OBVIOUS
    <3>2. \A i, j, k \in DOMAIN s : i < j /\ j < k /\ s[i] = s[k] => s[j] = s[i]
      BY <2>3 DEF ResponseWhole
    <3>3. QED
      BY <3>1, <3>2
  <2>7. \A i, j \in 1 .. Len(s) : i < j /\ s[i] = x => s[j] = x
    BY <2>2, <2>3, <2>4 DEF ChunkInv
  <2>8. DOMAIN Append(s, x) = 1 .. Len(s) + 1
    OBVIOUS
  <2>9. \A i, j, k \in 1 .. Len(s) + 1 :
          i < j /\ j < k /\ Append(s, x)[i] = Append(s, x)[k]
            => Append(s, x)[j] = Append(s, x)[i]
    BY <2>6, <2>7, GrownWhole
  <2>10. QED
    BY <2>5, <2>8, <2>9 DEF ResponseWhole
<1>10. ASSUME NEW t \in Thread, UnlockCurl(t) PROVE ResponseWhole'
  BY <1>f, <1>10 DEF UnlockCurl, Goto, args, locks, curl
<1>11. ASSUME NEW t \in Thread, Finalize(t) PROVE ResponseWhole'
  BY <1>f, <1>11 DEF Finalize, Goto, finalize_configure_curl, FreeList, args, locks, curl
<1>12. ASSUME NEW t \in Thread, UnlockRequest(t) PROVE ResponseWhole'
  BY <1>f, <1>12 DEF UnlockRequest, Goto, Unlock, args, locks, curl
<1>13. ASSUME NEW t \in Thread, Chunk(t) PROVE ResponseWhole'
  <2>1. /\ pc[t] = "perform"
        /\ memory' = [memory EXCEPT !.room = Len(memory.chunks) + 1]
    BY <1>13 DEF Chunk, Goto, args, locks, curl
  <2>2. memory'.chunks = memory.chunks
    BY <1>t, <2>1
  <2>3. QED
    BY <2>2 DEF ResponseWhole
<1>14. ASSUME NEW t \in Thread, Performed(t) PROVE ResponseWhole'
  BY <1>f, <1>14 DEF Performed, Goto, args, locks, curl
<1>15. ASSUME NEW t \in Thread, Quiet(t) PROVE ResponseWhole'
  BY <1>f, <1>15, QuietSteps
<1>. QED
  BY <1>1, <1>2, <1>3, <1>4, <1>5, <1>6, <1>7, <1>8, <1>9, <1>10, <1>11, <1>12, <1>13, <1>14,
     <1>15 DEF Call, Run, Peer, Quiet


-----------------------------------------------------------------------------
(* The invariant. *)

LEMMA Initially == Init => IInv
<1>. SUFFICES ASSUME Init PROVE IInv
  OBVIOUS
<1>1. TypeOK
  <2>1. next \in [Config -> [headers : Nat, params : Nat]]
    BY DEF Init
  <2>2. list \in [Config -> [at : {"null", "live", "freed"}, items : Seq(Nat)]]
    BY DEF Init
  <2>3. memory \in [chunks : Seq(Thread \X Nat), room : Nat]
    BY DEF Init
  <2>4. option \in [Thread -> 1 .. Len(basic_post_query) + 1]
    <3>1. Len(basic_post_query) = 15
      BY DEF basic_post_query
    <3>2. 1 \in 1 .. Len(basic_post_query) + 1
      BY <3>1
    <3>3. QED
      BY <3>2 DEF Init
  <2>5. handle \in [Thread -> [Options -> {"unset", "own", "body", "size"}]]
    BY DEF Init, NewHandle
  <2>6. query \in [Thread -> Seq([param : Nat, separator : {"=", "%3D"}])]
    BY DEF Init
  <2>7. pc \in [Thread -> Places]
    BY DEF Init, Places
  <2>8. QED
    BY <2>1, <2>2, <2>3, <2>4, <2>5, <2>6, <2>7 DEF Init, TypeOK
<1>2. \A t \in Thread : pc[t] = "idle" /\ curl_lock # t
  BY RequestAssumption DEF Init
<1>3. LockInv
  BY <1>2 DEF LockInv
<1>4. ListInv
  BY DEF Init, ListInv
<1>5. WalkInv
  BY <1>2 DEF WalkInv, Walk, InTransfer
<1>6. memory.chunks = <<>> /\ memory.room = 0
  BY DEF Init
<1>7. ChunkInv
  BY <1>2, <1>6 DEF ChunkInv, ResponseFits
<1>8. FaultInv
  BY <1>2 DEF Init, FaultInv, FirstRequestSound, InTransfer
<1>9. ResponseWhole
  BY <1>6 DEF ResponseWhole
<1>10. QED
  BY <1>1, <1>3, <1>4, <1>5, <1>7, <1>8, <1>9 DEF IInv

LEMMA Inductive == IInv /\ [Next]_vars => IInv'
<1>. SUFFICES ASSUME IInv, [Next]_vars PROVE IInv'
  OBVIOUS
<1>1. CASE fault = NoConfig /\ (Call \/ \E t \in Thread : Run(t) \/ Peer(t))
  BY <1>1, TypeKept, LockKept, ListKept, WalkKept, ChunksKept, FaultKept, WholeKept DEF IInv
<1>2. CASE UNCHANGED vars
  <2>1. /\ UNCHANGED <<life, headers, params, served, failed, next, list>>
        /\ UNCHANGED <<request_mutex, curl_lock, memory, pc, config, option, handle>>
        /\ UNCHANGED <<query, received, made, fault>>
    BY <1>2 DEF vars, args, locks, curl
  <2>2. TypeOK'
    BY <2>1 DEF IInv, TypeOK
  <2>3. LockInv'
    BY <2>1 DEF IInv, LockInv
  <2>4. ListInv'
    BY <2>1 DEF IInv, ListInv
  <2>5. WalkInv'
    BY <2>1 DEF IInv, WalkInv, Walk, InTransfer, Sent, Script
  <2>6. ChunkInv'
    BY <2>1 DEF IInv, ChunkInv, ResponseFits, Transfer
  <2>7. FaultInv'
    BY <2>1 DEF IInv, FaultInv, FirstRequestSound, InTransfer
  <2>8. ResponseWhole'
    BY <2>1 DEF IInv, ResponseWhole
  <2>9. QED
    BY <2>2, <2>3, <2>4, <2>5, <2>6, <2>7, <2>8 DEF IInv
<1>3. QED
  BY <1>1, <1>2 DEF Next, Terminated

\* The inductive invariant holds in every reachable state of the client.
THEOREM Invariance == Spec => []IInv
<1>1. Init => IInv
  BY Initially
<1>2. IInv /\ [Next]_vars => IInv'
  BY Inductive
<1>3. QED
  BY <1>1, <1>2, PTL DEF Spec

-----------------------------------------------------------------------------
(* The theorems. *)

\* Every variable keeps its type, whatever the threads and the configs.
THEOREM TypeCorrect == Spec => []TypeOK
<1>1. IInv => TypeOK
  BY DEF IInv
<1>2. QED
  BY <1>1, Invariance, PTL

\* Two transfers never run at the same time, and two requests never run past the
\* mutex of one config (http_request).
OneAtATime ==
  \A t, u \in Thread : t # u =>
    /\ ~(InTransfer(t) /\ InTransfer(u))
    /\ pc[t] \notin {"idle", "lock"} /\ pc[u] \notin {"idle", "lock"} => config[t] # config[u]

\* The two locks exclude what they are there to exclude.
THEOREM LocksExclude == Spec => []OneAtATime
<1>1. IInv => OneAtATime
  <2>. SUFFICES ASSUME IInv, NEW t \in Thread, NEW u \in Thread, t # u
       PROVE  /\ ~(InTransfer(t) /\ InTransfer(u))
              /\ pc[t] \notin {"idle", "lock"} /\ pc[u] \notin {"idle", "lock"}
                   => config[t] # config[u]
    BY DEF OneAtATime
  <2>1. LockInv
    BY DEF IInv
  <2>2. InTransfer(t) => curl_lock = t
    BY <2>1 DEF LockInv, InTransfer
  <2>3. InTransfer(u) => curl_lock = u
    BY <2>1 DEF LockInv, InTransfer
  <2>4. QED
    BY <2>1, <2>2, <2>3, Exclusive
<1>2. QED
  BY <1>1, Invariance, PTL

\* What a transfer sends is all the parameters and all the headers of its config,
\* each once, in the order they were added.
THEOREM RequestsSentComplete == Spec => []SentComplete
<1>1. IInv => SentComplete
  <2>. SUFFICES ASSUME IInv, NEW t \in Thread, InTransfer(t)
       PROVE  /\ Sent(t) = UpTo(params[config[t]])
              /\ list[config[t]].items = UpTo(headers[config[t]])
    BY DEF SentComplete, Sent, UpTo
  <2>1. config[t] # fault
    BY DEF IInv, FaultInv
  <2>2. Walk(t)
    BY <2>1 DEF IInv, WalkInv
  <2>3. QED
    BY <2>2 DEF Walk
<1>2. QED
  BY <1>1, Invariance, PTL

\* The chunks of a transfer are never separated by another's.
THEOREM ResponsesAreWhole == Spec => []ResponseWhole
<1>1. IInv => ResponseWhole
  BY DEF IInv
<1>2. QED
  BY <1>1, Invariance, PTL

\* What is copied fits what was last allocated, although the allocation and the
\* copy are two steps and the response is shared.
THEOREM ResponsesFit == Spec => []ResponseFits
<1>1. IInv => ResponseFits
  BY DEF IInv, ChunkInv
<1>2. QED
  BY <1>1, Invariance, PTL

\* A dangling header list is only met on a config that has a header, by a call
\* that follows a request that ended.
THEOREM FirstRequestIsSound == Spec => []FirstRequestSound
<1>1. IInv => FirstRequestSound
  BY DEF IInv, FaultInv
<1>2. QED
  BY <1>1, Invariance, PTL

\* A live header list is of a request that holds the mutex of the config.
THEOREM ListsEndWithRequests == Spec => []ListEndsWithRequest
<1>1. IInv => ListEndsWithRequest
  <2>. SUFFICES ASSUME IInv, NEW c \in Config, list[c].at = "live"
       PROVE  request_mutex[c] # NoThread
    BY DEF ListEndsWithRequest
  <2>1. PICK t \in Thread : config[t] = c /\ pc[t] \in Listing
    BY DEF IInv, ListInv
  <2>2. request_mutex[c] = t
    BY <2>1 DEF IInv, LockInv, Listing
  <2>3. QED
    BY <2>2, RequestAssumption
<1>2. QED
  BY <1>1, Invariance, PTL


-----------------------------------------------------------------------------
(* Waiting. *)

Inside(t) == pc[t] \notin {"idle", "lock"}

\* A mutex that is locked is held by a request that is inside, or was left so.
MutexInv ==
  \A c \in Config :
    request_mutex[c] # NoThread => c \in failed \/ \E t \in Thread : Inside(t) /\ config[t] = c

\* A request waits for another one that is inside its config, unless an earlier
\* one on that config failed to start, and then for one in its transfer.
WaitsEnd ==
  \A t \in Thread :
    /\ AwaitsMutex(t) =>
         \/ config[t] \in failed
         \/ \E u \in Thread : Inside(u) /\ config[u] = config[t] /\ ~AwaitsMutex(u)
    /\ AwaitsCurl(t) =>
         \E u \in Thread :
           pc[u] \in {"perform", "copy", "unlock curl"} /\ ~AwaitsMutex(u) /\ ~AwaitsCurl(u)

\* Steps that take no request out of its config.
LEMMA MutexStays ==
  ASSUME MutexInv, request_mutex' = request_mutex, failed \subseteq failed',
         \A t \in Thread : Inside(t) => Inside(t)' /\ config'[t] = config[t]
  PROVE  MutexInv'
  BY DEF MutexInv

LEMMA MutexKept ==
  ASSUME IInv, MutexInv, [Next]_vars PROVE MutexInv'
<1>t. /\ request_mutex \in [Config -> Thread \cup {NoThread}]
      /\ pc \in [Thread -> Places]
      /\ config \in [Thread -> Config \cup {NoConfig}]
      /\ LockInv
  BY DEF IInv, TypeOK
<1>p. ASSUME NEW t \in Thread, NEW p, p \notin {"idle", "lock"}, Inside(t),
             pc' = [pc EXCEPT ![t] = p], UNCHANGED <<request_mutex, config, failed>>
      PROVE  MutexInv'
  <2>1. \A u \in Thread : Inside(u) => Inside(u)' /\ config'[u] = config[u]
    BY <1>t, <1>p DEF Inside
  <2>2. QED
    BY <1>p, <2>1, MutexStays
<1>1. ASSUME UNCHANGED <<request_mutex, pc, config, failed>> PROVE MutexInv'
  BY <1>1, MutexStays DEF Inside
<1>2. CASE \E c \in Config : initialize_request_config(c) \/ free_request_config(c)
                               \/ add_request_header(c) \/ add_request_param(c)
  BY <1>1, <1>2 DEF initialize_request_config, free_request_config, add_request_header,
     add_request_param, args, locks
<1>3. ASSUME NEW t \in Thread, NEW c \in Config, http_request(t, c) PROVE MutexInv'
  <2>1. /\ pc[t] = "idle" /\ pc' = [pc EXCEPT ![t] = "lock"]
        /\ config' = [config EXCEPT ![t] = c] /\ UNCHANGED <<request_mutex, failed>>
    BY <1>3 DEF http_request, Goto, args, locks
  <2>2. \A u \in Thread : Inside(u) => Inside(u)' /\ config'[u] = config[u]
    BY <1>t, <2>1 DEF Inside
  <2>3. QED
    BY <2>1, <2>2, MutexStays
<1>4. ASSUME NEW t \in Thread, LockRequest(t) PROVE MutexInv'
  <2>1. /\ pc[t] = "lock" /\ pc' = [pc EXCEPT ![t] = "init"]
        /\ request_mutex' = [request_mutex EXCEPT ![config[t]] = t]
        /\ UNCHANGED <<config, failed>>
    BY <1>4 DEF LockRequest, Goto, args
  <2>2. \A u \in Thread : Inside(u) => Inside(u)'
    BY <1>t, <2>1 DEF Inside
  <2>3. Inside(t)'
    BY <1>t, <2>1 DEF Inside
  <2>4. \A c \in Config : c # config[t] => request_mutex'[c] = request_mutex[c]
    BY <1>t, <2>1
  <2>5. QED
    BY <2>1, <2>2, <2>3, <2>4 DEF MutexInv
<1>5. ASSUME NEW t \in Thread, InitFails(t) PROVE MutexInv'
  <2>1. /\ pc' = [pc EXCEPT ![t] = "idle"] /\ failed' = failed \cup {config[t]}
        /\ UNCHANGED <<request_mutex, config>>
    BY <1>5 DEF InitFails, Goto, locks
  <2>2. \A u \in Thread : u # t /\ Inside(u) => Inside(u)'
    BY <1>t, <2>1 DEF Inside
  <2>3. QED
    BY <2>1, <2>2 DEF MutexInv
<1>6. ASSUME NEW t \in Thread, UnlockRequest(t) PROVE MutexInv'
  <2>1. /\ pc[t] = "unlock" /\ pc' = [pc EXCEPT ![t] = "idle"]
        /\ request_mutex' = [request_mutex EXCEPT ![config[t]] = NoThread]
        /\ UNCHANGED <<config, failed>>
    BY <1>6 DEF UnlockRequest, Goto, Unlock
  <2>2. \A u \in Thread : u # t /\ Inside(u) => Inside(u)'
    BY <1>t, <2>1 DEF Inside
  <2>3. config[t] \in Config
    BY <1>t, <2>1 DEF LockInv
  <2>4. \A c \in Config :
          request_mutex'[c] = IF c = config[t] THEN NoThread ELSE request_mutex[c]
    BY <1>t, <2>1, <2>3
  <2>5. QED
    BY <2>1, <2>2, <2>4 DEF MutexInv
<1>7. ASSUME NEW t \in Thread,
             LockCurl(t) \/ Copy(t) \/ UnlockCurl(t) \/ Finalize(t) \/ Peer(t)
      PROVE  MutexInv'
  <2>1. PICK p \in {"perform", "copy", "unlock curl", "finalize", "unlock"} :
          /\ Inside(t) /\ pc' = [pc EXCEPT ![t] = p]
          /\ UNCHANGED <<request_mutex, config, failed>>
    BY <1>7 DEF LockCurl, Copy, UnlockCurl, Finalize, Peer, Chunk, Performed, Goto, Inside,
       args, locks
  <2>2. QED
    BY <1>p, <2>1
<1>8. ASSUME NEW t \in Thread, Quiet(t) PROVE MutexInv'
  <2>1. PICK p \in {"configure", "params", "headers"} :
          /\ pc[t] \in {"init", "configure", "params", "headers"}
          /\ pc' = [pc EXCEPT ![t] = p] /\ UNCHANGED <<request_mutex, config, failed>>
    BY <1>8, QuietSteps DEF IInv
  <2>2. Inside(t)
    BY <2>1 DEF Inside
  <2>3. QED
    BY <1>p, <2>1, <2>2
<1>9. CASE UNCHANGED vars
  BY <1>1, <1>9 DEF vars, args, locks
<1>10. QED
  BY <1>2, <1>3, <1>4, <1>5, <1>6, <1>7, <1>8, <1>9
     DEF Next, Call, Run, Terminated, Quiet

LEMMA MutexFirst == Init => MutexInv
  BY DEF Init, MutexInv

LEMMA MutexInvariant == Spec => []MutexInv
<1>1. IInv /\ MutexInv /\ [Next]_vars => MutexInv'
  BY MutexKept
<1>2. QED
  BY MutexFirst, Invariance, <1>1, PTL DEF Spec

LEMMA Waits == IInv /\ MutexInv => WaitsEnd
<1> SUFFICES ASSUME IInv, MutexInv, NEW t \in Thread
             PROVE  /\ AwaitsMutex(t) =>
                         \/ config[t] \in failed
                         \/ \E u \in Thread :
                              Inside(u) /\ config[u] = config[t] /\ ~AwaitsMutex(u)
                    /\ AwaitsCurl(t) =>
                         \E u \in Thread :
                           /\ pc[u] \in {"perform", "copy", "unlock curl"}
                           /\ ~AwaitsMutex(u) /\ ~AwaitsCurl(u)
  BY DEF WaitsEnd
<1>1. ASSUME AwaitsMutex(t), config[t] \notin failed
      PROVE  \E u \in Thread : Inside(u) /\ config[u] = config[t] /\ ~AwaitsMutex(u)
  <2>1. config[t] \in Config /\ request_mutex[config[t]] # NoThread
    BY <1>1 DEF AwaitsMutex, RequestUnlocked, IInv, LockInv
  <2>2. PICK u \in Thread : Inside(u) /\ config[u] = config[t]
    BY <1>1, <2>1 DEF MutexInv
  <2>3. ~AwaitsMutex(u)
    BY <2>2 DEF Inside, AwaitsMutex
  <2>4. QED
    BY <2>2, <2>3
<1>2. ASSUME AwaitsCurl(t)
      PROVE  \E u \in Thread :
               pc[u] \in {"perform", "copy", "unlock curl"} /\ ~AwaitsMutex(u) /\ ~AwaitsCurl(u)
  <2>1. curl_lock \in Thread
    BY <1>2 DEF AwaitsCurl, CurlUnlocked, IInv, TypeOK
  <2>2. pc[curl_lock] \in {"perform", "copy", "unlock curl"}
    BY <2>1 DEF IInv, LockInv
  <2>3. ~AwaitsMutex(curl_lock) /\ ~AwaitsCurl(curl_lock)
    BY <2>2 DEF AwaitsMutex, AwaitsCurl
  <2>4. QED
    BY <2>1, <2>2, <2>3
<1>3. QED
  BY <1>1, <1>2

\* Whoever waits for the mutex of a config waits for a request that is inside, and
\* whoever waits for curl_lock for a transfer, which waits for nobody (http_request).
THEOREM WaitsAreShort == Spec => []WaitsEnd
  BY Waits, Invariance, MutexInvariant, PTL

\* Some request that is under way need not wait, whatever the threads and configs,
\* unless curl_easy_init failed on the config of every one (http_request).
THEOREM NoDeadlock == Spec => []NeverAllWait
<1>1. WaitsEnd => NeverAllWait
  <2> SUFFICES ASSUME WaitsEnd, NEW t \in Thread, pc[t] # "idle", config[t] \notin failed
               PROVE  \E u \in Thread : pc[u] # "idle" /\ ~AwaitsMutex(u) /\ ~AwaitsCurl(u)
    BY DEF NeverAllWait
  <2>1. CASE AwaitsCurl(t)
    <3>1. PICK u \in Thread :
            pc[u] \in {"perform", "copy", "unlock curl"} /\ ~AwaitsMutex(u) /\ ~AwaitsCurl(u)
      BY <2>1 DEF WaitsEnd
    <3>2. pc[u] # "idle"
      BY <3>1
    <3>3. QED
      BY <3>1, <3>2
  <2>2. CASE AwaitsMutex(t)
    <3>1. PICK u \in Thread : Inside(u) /\ ~AwaitsMutex(u)
      BY <2>2 DEF WaitsEnd
    <3>2. pc[u] # "idle"
      BY <3>1 DEF Inside
    <3>3. CASE ~AwaitsCurl(u)
      BY <3>1, <3>2, <3>3
    <3>4. CASE AwaitsCurl(u)
      <4>1. PICK v \in Thread :
              pc[v] \in {"perform", "copy", "unlock curl"} /\ ~AwaitsMutex(v) /\ ~AwaitsCurl(v)
        BY <3>4 DEF WaitsEnd
      <4>2. pc[v] # "idle"
        BY <4>1
      <4>3. QED
        BY <4>1, <4>2
    <3>5. QED
      BY <3>3, <3>4
  <2>3. CASE ~AwaitsCurl(t) /\ ~AwaitsMutex(t)
    BY <2>3
  <2>4. QED
    BY <2>1, <2>2, <2>3
<1>2. QED
  BY WaitsAreShort, <1>1, PTL


-----------------------------------------------------------------------------
(* Requests end. *)

Scripting == {"configure", "params", "headers"}

\* No option of the script takes more steps: one to begin its walk, one for each item,
\* one to find that there are no more.
StepsOfOption(c) == params[c] + headers[c] + 3

\* How many of them the present option has taken.
Taken(t) ==
  CASE pc[t] = "params"  -> 1 + next[config[t]].params
    [] pc[t] = "headers" -> 1 + next[config[t]].headers
    [] OTHER             -> 0

ChunksLeft(t) == IF received[t] < ChunkBound THEN ChunkBound - received[t] ELSE 0

\* What is left to do once the script is done.
AfterScript == 6 + 2 * ChunkBound

\* A bound on the steps left of the request of t, waiting not counted.
WorkOf(t) ==
  LET s == StepsOfOption(config[t])
  IN CASE pc[t] = "lock"        -> AfterScript + 17 * s + 1
       [] pc[t] = "init"        -> AfterScript + 17 * s
       [] pc[t] \in Scripting   -> AfterScript + (17 - option[t]) * s - Taken(t)
       [] pc[t] = "copy"        -> 5 + 2 * ChunksLeft(t)
       [] pc[t] = "perform"     -> 4 + 2 * ChunksLeft(t)
       [] pc[t] = "unlock curl" -> 3
       [] pc[t] = "finalize"    -> 2
       [] pc[t] = "unlock"      -> 1
       [] OTHER                 -> 0

LessWorkOf(t) == WorkOf(t) \in Nat /\ WorkOf(t)' \in Nat /\ WorkOf(t)' < WorkOf(t)

\* The steps of http_request in t, and those of libcurl in its transfer, bring its end
\* nearer; no step of another thread or of an owner of configs puts it off.
Advances(t) ==
  /\ Run(t) \/ Peer(t) => LessWorkOf(t)
  /\ pc[t] # "idle" => WorkOf(t)' <= WorkOf(t)

\* One option less.
LEMMA OptionDone ==
  ASSUME NEW o \in 1 .. 16, NEW s \in Nat
  PROVE  (17 - o) * s = (17 - (o + 1)) * s + s
<1>1. PICK k \in 0 .. 15 : k = 17 - (o + 1)
  OBVIOUS
<1>2. (k + 1) * s = k * s + s
  OBVIOUS
<1>3. 17 - o = k + 1
  BY <1>1
<1>4. QED
  BY <1>1, <1>2, <1>3

\* What is known of a request under way.
LEMMA UnderWay ==
  ASSUME IInv, fault = NoConfig, NEW t \in Thread, pc[t] # "idle"
  PROVE  /\ config[t] \in Config /\ option[t] \in 1 .. 16
         /\ params[config[t]] \in Nat /\ headers[config[t]] \in Nat
         /\ AfterScript \in Nat /\ AfterScript > 5 + 2 * ChunkBound
         /\ Taken(t) \in 0 .. StepsOfOption(config[t]) - 2
         /\ StepsOfOption(config[t]) \in Nat /\ StepsOfOption(config[t]) >= 3
<1>1. config[t] \in Config /\ Walk(t)
  <2>1. config[t] \in Config
    BY DEF IInv, LockInv
  <2>2. config[t] # fault
    BY <2>1, RequestAssumption
  <2>3. QED
    BY <2>1, <2>2 DEF IInv, WalkInv
<1>2. Len(basic_post_query) = 15
  BY <1>1, Scripts
<1>3. /\ option[t] \in 1 .. 16
      /\ params[config[t]] \in Nat /\ headers[config[t]] \in Nat
      /\ next[config[t]].params \in Nat /\ next[config[t]].headers \in Nat
  BY <1>1, <1>2 DEF IInv, TypeOK
<1>4. /\ pc[t] = "params" => next[config[t]].params <= params[config[t]]
      /\ pc[t] = "headers" => next[config[t]].headers <= headers[config[t]]
  BY <1>1 DEF Walk
<1>5. Taken(t) \in 0 .. StepsOfOption(config[t]) - 2
  BY <1>3, <1>4 DEF Taken, StepsOfOption
<1>6. AfterScript \in Nat /\ AfterScript > 5 + 2 * ChunkBound
  BY RequestAssumption DEF AfterScript
<1>7. StepsOfOption(config[t]) \in Nat /\ StepsOfOption(config[t]) >= 3
  BY <1>3 DEF StepsOfOption
<1>8. QED
  BY <1>1, <1>3, <1>5, <1>6, <1>7

LEMMA WorkIsNatural ==
  ASSUME IInv, fault = NoConfig, NEW t \in Thread, pc[t] # "idle"
  PROVE  WorkOf(t) \in Nat
<1>1. PICK o \in 1 .. 16 : o = option[t]
  BY UnderWay
<1>2. PICK s \in Nat : s = StepsOfOption(config[t]) /\ s >= 3
  BY UnderWay
<1>3. PICK d \in 0 .. s - 2 : d = Taken(t)
  BY <1>2, UnderWay
<1>4. PICK a \in Nat : a = AfterScript
  BY UnderWay
<1>5. PICK k \in 1 .. 16 : k = 17 - o
  OBVIOUS
<1>6. PICK m \in Nat : m = k * s /\ m >= s
  <2>1. PICK j \in Nat : k = j + 1
    BY <1>5
  <2>2. (j + 1) * s = j * s + s /\ j * s \in Nat
    OBVIOUS
  <2>3. QED
    BY <2>1, <2>2
<1>7. ChunksLeft(t) \in Nat
  BY RequestAssumption DEF ChunksLeft, IInv, TypeOK
<1>8. CASE pc[t] \in {"lock", "init"}
  <2>1. WorkOf(t) = a + 17 * s + 1 \/ WorkOf(t) = a + 17 * s
    BY <1>2, <1>4, <1>8 DEF WorkOf, Scripting
  <2>2. QED
    BY <2>1
<1>9. CASE pc[t] \in Scripting
  <2>1. WorkOf(t) = a + m - d
    BY <1>1, <1>2, <1>3, <1>4, <1>5, <1>6, <1>9 DEF WorkOf, Scripting
  <2>2. QED
    BY <1>3, <1>6, <2>1
<1>10. CASE pc[t] \notin {"lock", "init"} \cup Scripting
  <2>1. \/ WorkOf(t) = 5 + 2 * ChunksLeft(t) \/ WorkOf(t) = 4 + 2 * ChunksLeft(t)
        \/ WorkOf(t) = 3 \/ WorkOf(t) = 2 \/ WorkOf(t) = 1 \/ WorkOf(t) = 0
    BY <1>10 DEF WorkOf, Scripting
  <2>2. QED
    BY <1>7, <2>1
<1>11. QED
  BY <1>8, <1>9, <1>10

\* The script goes on to its next option.
LEMMA NextOption ==
  ASSUME IInv, fault = NoConfig, NEW t \in Thread,
         pc[t] \in Scripting, pc'[t] = "configure", option[t] <= 15,
         option'[t] = option[t] + 1, config'[t] = config[t],
         UNCHANGED <<params, headers>>
  PROVE  LessWorkOf(t)
<1>0. pc[t] # "idle"
  BY DEF Scripting
<1>1. PICK o \in 1 .. 15 : o = option[t]
  BY <1>0, UnderWay
<1>2. PICK s \in Nat : s = StepsOfOption(config[t]) /\ s >= 3
  BY <1>0, UnderWay
<1>3. PICK d \in 0 .. s - 2 : d = Taken(t)
  BY <1>0, <1>2, UnderWay
<1>4. PICK a \in Nat : a = AfterScript
  BY <1>0, UnderWay
<1>5. PICK m \in Nat : m = (17 - (o + 1)) * s
  <2>1. 17 - (o + 1) \in Nat
    OBVIOUS
  <2>2. (17 - (o + 1)) * s \in Nat
    BY <2>1
  <2>3. QED
    BY <2>2
<1>6. (17 - o) * s = m + s
  BY <1>5, OptionDone
<1>7. WorkOf(t) = a + (m + s) - d
  BY <1>1, <1>2, <1>3, <1>4, <1>6 DEF WorkOf, Scripting
<1>8. StepsOfOption(config[t])' = s /\ Taken(t)' = 0 /\ AfterScript' = a
  BY <1>2, <1>4 DEF StepsOfOption, Taken, AfterScript
<1>9. WorkOf(t)' = a + m
  BY <1>1, <1>5, <1>8 DEF WorkOf, Scripting
<1>10. QED
  BY <1>7, <1>9 DEF LessWorkOf

\* A walk begins or goes on.
LEMMA WalkOn ==
  ASSUME IInv, fault = NoConfig, NEW t \in Thread,
         pc[t] \in Scripting, pc'[t] \in Scripting,
         option'[t] = option[t], config'[t] = config[t], UNCHANGED <<params, headers>>,
         Taken(t)' = Taken(t) + 1
  PROVE  LessWorkOf(t)
<1>0. pc[t] # "idle"
  BY DEF Scripting
<1>1. PICK o \in 1 .. 16 : o = option[t]
  BY <1>0, UnderWay
<1>2. PICK s \in Nat : s = StepsOfOption(config[t]) /\ s >= 3
  BY <1>0, UnderWay
<1>3. PICK d \in 0 .. s - 2 : d = Taken(t)
  BY <1>0, <1>2, UnderWay
<1>4. PICK a \in Nat : a = AfterScript
  BY <1>0, UnderWay
<1>5. PICK k \in 1 .. 16 : k = 17 - o
  OBVIOUS
<1>6. k * s \in Nat /\ k * s >= s
  <2>1. PICK j \in Nat : k = j + 1
    BY <1>5
  <2>2. (j + 1) * s = j * s + s /\ j * s \in Nat
    OBVIOUS
  <2>3. QED
    BY <2>1, <2>2
<1>7. PICK m \in Nat : m = k * s /\ m >= s
  BY <1>6
<1>8. WorkOf(t) = a + m - d
  BY <1>1, <1>2, <1>3, <1>4, <1>5, <1>7 DEF WorkOf, Scripting
<1>9. StepsOfOption(config[t])' = s /\ Taken(t)' = d + 1 /\ AfterScript' = a
  BY <1>2, <1>3, <1>4 DEF StepsOfOption, AfterScript
<1>10. WorkOf(t)' = a + m - (d + 1)
  BY <1>1, <1>5, <1>7, <1>9 DEF WorkOf, Scripting
<1>11. QED
  BY <1>7, <1>8, <1>10 DEF LessWorkOf

LEMMA ScriptSteps ==
  ASSUME IInv, fault = NoConfig, NEW t \in Thread,
         Configure(t) \/ StartWalk(t) \/ YieldParam(t) \/ YieldHeader(t)
  PROVE  LessWorkOf(t)
<1>1. pc[t] \in Scripting /\ (pc[t] = "configure" => option[t] <= Len(Script(config[t])))
  BY DEF Configure, StartWalk, YieldParam, YieldHeader, Scripting
<1>2. config[t] \in Config /\ option[t] \in 1 .. 15
  <2>1. config[t] \in Config /\ option[t] \in 1 .. Len(Script(config[t]))
    BY <1>1, Reading DEF IInv, Scripting
  <2>2. PICK n \in 13 .. 15 : n = Len(Script(config[t]))
    BY <2>1, Scripts
  <2>3. PICK o \in 1 .. n : o = option[t]
    BY <2>1, <2>2
  <2>4. o \in 1 .. 15
    OBVIOUS
  <2>5. QED
    BY <2>1, <2>3, <2>4
<1>3. /\ pc \in [Thread -> Places]
      /\ option \in [Thread -> 1 .. Len(basic_post_query) + 1]
      /\ next \in [Config -> [headers : Nat, params : Nat]]
      /\ params[config[t]] \in Nat /\ headers[config[t]] \in Nat
  BY <1>2 DEF IInv, TypeOK
<1>4. UNCHANGED <<params, headers, config>>
  BY DEF Configure, StartWalk, YieldParam, YieldHeader, args
<1>5. ASSUME option' = [option EXCEPT ![t] = @ + 1], pc'[t] = "configure" PROVE LessWorkOf(t)
  <2>1. option'[t] = option[t] + 1
    BY <1>3, <1>5
  <2>2. option[t] <= 15 /\ config'[t] = config[t]
    BY <1>2, <1>4
  <2>3. QED
    BY <1>1, <1>4, <1>5, <2>1, <2>2, NextOption
<1>6. ASSUME EndWalk(t) PROVE LessWorkOf(t)
  <2>1. option' = [option EXCEPT ![t] = @ + 1] /\ pc' = [pc EXCEPT ![t] = "configure"]
    BY <1>6 DEF EndWalk, Goto
  <2>2. pc'[t] = "configure"
    BY <1>3, <2>1
  <2>3. QED
    BY <1>5, <2>1, <2>2
<1>7. ASSUME UNCHANGED option, pc'[t] \in Scripting, Taken(t)' = Taken(t) + 1
      PROVE  LessWorkOf(t)
  <2>1. option'[t] = option[t] /\ config'[t] = config[t]
    BY <1>4, <1>7
  <2>2. QED
    BY <1>1, <1>4, <1>7, <2>1, WalkOn
<1>8. CASE Configure(t)
  <2>1. /\ pc[t] = "configure" /\ pc' = pc
        /\ option' = [option EXCEPT ![t] = @ + 1]
    BY <1>8 DEF Configure
  <2>2. QED
    BY <1>5, <2>1
<1>9. CASE StartWalk(t)
  <2>1. CASE EndWalk(t)
    BY <1>6, <2>1
  <2>2. CASE ~EndWalk(t)
    <3>1. /\ pc[t] = "configure" /\ UNCHANGED option
          /\ \/ /\ next' = [next EXCEPT ![config[t]].params = 0]
                /\ pc' = [pc EXCEPT ![t] = "params"]
             \/ /\ next' = [next EXCEPT ![config[t]].headers = 0]
                /\ pc' = [pc EXCEPT ![t] = "headers"]
      BY <1>9, <2>2 DEF StartWalk, Goto
    <3>2. /\ pc'[t] \in {"params", "headers"}
          /\ pc'[t] = "params" => next'[config[t]].params = 0
          /\ pc'[t] = "headers" => next'[config[t]].headers = 0
      BY <1>2, <1>3, <3>1
    <3>3. Taken(t) = 0 /\ Taken(t)' = 1
      BY <1>4, <3>1, <3>2 DEF Taken
    <3>4. QED
      BY <1>7, <3>1, <3>2, <3>3 DEF Scripting
  <2>3. QED
    BY <2>1, <2>2
<1>10. CASE YieldParam(t)
  <2>1. CASE EndWalk(t)
    BY <1>6, <2>1
  <2>2. CASE ~EndWalk(t)
    <3>1. /\ pc[t] = "params" /\ UNCHANGED <<option, pc>>
          /\ next' = [next EXCEPT ![config[t]].params = @ + 1]
      BY <1>10, <2>2 DEF YieldParam, yield_increment
    <3>2. /\ next[config[t]].params \in Nat
          /\ next'[config[t]].params = next[config[t]].params + 1
      BY <1>2, <1>3, <3>1
    <3>3. Taken(t)' = Taken(t) + 1
      BY <1>4, <3>1, <3>2 DEF Taken
    <3>4. QED
      BY <1>1, <1>7, <3>1, <3>3
  <2>3. QED
    BY <2>1, <2>2
<1>11. CASE YieldHeader(t)
  <2>1. CASE EndWalk(t)
    BY <1>6, <2>1
  <2>2. CASE ~EndWalk(t)
    <3>1. /\ pc[t] = "headers" /\ UNCHANGED <<option, pc>>
          /\ next' = [next EXCEPT ![config[t]].headers = @ + 1]
      BY <1>11, <2>2 DEF YieldHeader, yield_increment
    <3>2. /\ next[config[t]].headers \in Nat
          /\ next'[config[t]].headers = next[config[t]].headers + 1
      BY <1>2, <1>3, <3>1
    <3>3. Taken(t)' = Taken(t) + 1
      BY <1>4, <3>1, <3>2 DEF Taken
    <3>4. QED
      BY <1>1, <1>7, <3>1, <3>3
  <2>3. QED
    BY <2>1, <2>2
<1>12. QED
  BY <1>8, <1>9, <1>10, <1>11

LEMMA OwnSteps ==
  ASSUME IInv, fault = NoConfig, NEW t \in Thread, Run(t) \/ Peer(t)
  PROVE  LessWorkOf(t)
<1>1. /\ pc \in [Thread -> Places] /\ pc[t] # "idle"
      /\ option \in [Thread -> 1 .. Len(basic_post_query) + 1]
      /\ received \in [Thread -> Nat] /\ received[t] \in Nat /\ ChunkBound \in Nat
  BY RequestAssumption DEF IInv, TypeOK, Run, Peer, LockRequest, InitCurl, InitFails,
     Configure, StartWalk, YieldParam, YieldHeader, LockCurl, Copy, UnlockCurl, Finalize,
     UnlockRequest, Chunk, Performed
<1>2. PICK s \in Nat : s = StepsOfOption(config[t]) /\ s >= 3
  BY <1>1, UnderWay
<1>3. PICK a \in Nat : a = AfterScript /\ a > 5 + 2 * ChunkBound
  BY <1>1, UnderWay
<1>4. ChunksLeft(t) \in 0 .. ChunkBound
  BY <1>1 DEF ChunksLeft
<1>5. AfterScript' = a
  BY <1>3 DEF AfterScript
<1>6. CASE LockRequest(t)
  <2>1. /\ pc[t] = "lock" /\ pc' = [pc EXCEPT ![t] = "init"]
        /\ UNCHANGED <<config, params, headers>>
    BY <1>6 DEF LockRequest, Goto, args
  <2>2. pc'[t] = "init" /\ StepsOfOption(config[t])' = s
    BY <1>1, <1>2, <2>1 DEF StepsOfOption
  <2>3. WorkOf(t) = a + 17 * s + 1
    BY <1>2, <1>3, <2>1 DEF WorkOf, Scripting
  <2>4. WorkOf(t)' = a + 17 * s
    BY <1>5, <2>2 DEF WorkOf, Scripting
  <2>5. QED
    BY <2>3, <2>4 DEF LessWorkOf
<1>7. CASE InitCurl(t)
  <2>1. /\ pc[t] = "init" /\ pc' = [pc EXCEPT ![t] = "configure"]
        /\ option' = [option EXCEPT ![t] = 1]
        /\ UNCHANGED <<config, params, headers>>
    BY <1>7 DEF InitCurl, Goto, args
  <2>2. pc'[t] = "configure" /\ option'[t] = 1 /\ StepsOfOption(config[t])' = s
    BY <1>1, <1>2, <2>1 DEF StepsOfOption
  <2>3. Taken(t)' = 0
    BY <2>2 DEF Taken
  <2>4. WorkOf(t) = a + 17 * s
    BY <1>2, <1>3, <2>1 DEF WorkOf, Scripting
  <2>5. WorkOf(t)' = a + 16 * s
    BY <1>5, <2>2, <2>3 DEF WorkOf, Scripting
  <2>6. QED
    BY <1>2, <2>4, <2>5 DEF LessWorkOf
<1>8. CASE InitFails(t)
  <2>1. pc[t] = "init" /\ pc' = [pc EXCEPT ![t] = "idle"]
    BY <1>8 DEF InitFails, Goto
  <2>2. pc'[t] = "idle"
    BY <1>1, <2>1
  <2>3. WorkOf(t) = a + 17 * s
    BY <1>2, <1>3, <2>1 DEF WorkOf, Scripting
  <2>4. WorkOf(t)' = 0
    BY <2>2 DEF WorkOf, Scripting
  <2>5. QED
    BY <1>2, <2>3, <2>4 DEF LessWorkOf
<1>9. CASE LockCurl(t)
  <2>1. /\ pc[t] = "configure" /\ pc' = [pc EXCEPT ![t] = "perform"]
        /\ received' = [received EXCEPT ![t] = 0]
    BY <1>9 DEF LockCurl, Goto
  <2>2. pc'[t] = "perform" /\ received'[t] = 0
    BY <1>1, <2>1
  <2>3. ChunksLeft(t)' \in 0 .. ChunkBound
    BY <1>1, <2>2 DEF ChunksLeft
  <2>4. WorkOf(t)' = 4 + 2 * ChunksLeft(t)'
    BY <2>2 DEF WorkOf, Scripting
  <2>5. PICK o \in 1 .. 16 : o = option[t]
    BY <1>1, UnderWay
  <2>6. Taken(t) = 0
    BY <2>1 DEF Taken
  <2>7. PICK k \in 1 .. 16 : k = 17 - o
    OBVIOUS
  <2>8. PICK m \in Nat : m = k * s
    OBVIOUS
  <2>9. WorkOf(t) = a + m
    BY <1>2, <1>3, <2>1, <2>5, <2>6, <2>7, <2>8 DEF WorkOf, Scripting
  <2>10. QED
    BY <1>1, <1>3, <2>3, <2>4, <2>9 DEF LessWorkOf
<1>10. CASE Chunk(t)
  <2>1. /\ pc[t] = "perform" /\ pc' = [pc EXCEPT ![t] = "copy"]
        /\ received[t] < ChunkBound /\ received' = [received EXCEPT ![t] = @ + 1]
    BY <1>10 DEF Chunk, Goto
  <2>2. pc'[t] = "copy" /\ received'[t] = received[t] + 1
    BY <1>1, <2>1
  <2>3. ChunksLeft(t)' = ChunksLeft(t) - 1 /\ ChunksLeft(t)' \in Nat
    BY <1>1, <2>1, <2>2 DEF ChunksLeft
  <2>4. WorkOf(t) = 4 + 2 * ChunksLeft(t) /\ WorkOf(t)' = 5 + 2 * ChunksLeft(t)'
    BY <2>1, <2>2 DEF WorkOf, Scripting
  <2>5. QED
    BY <1>4, <2>3, <2>4 DEF LessWorkOf
<1>11. CASE Copy(t)
  <2>1. pc[t] = "copy" /\ pc' = [pc EXCEPT ![t] = "perform"] /\ UNCHANGED received
    BY <1>11 DEF Copy, Goto
  <2>2. pc'[t] = "perform" /\ ChunksLeft(t)' = ChunksLeft(t)
    BY <1>1, <2>1 DEF ChunksLeft
  <2>3. WorkOf(t) = 5 + 2 * ChunksLeft(t) /\ WorkOf(t)' = 4 + 2 * ChunksLeft(t)'
    BY <2>1, <2>2 DEF WorkOf, Scripting
  <2>4. QED
    BY <1>4, <2>2, <2>3 DEF LessWorkOf
<1>12. CASE Performed(t)
  <2>1. pc[t] = "perform" /\ pc' = [pc EXCEPT ![t] = "unlock curl"]
    BY <1>12 DEF Performed, Goto
  <2>2. pc'[t] = "unlock curl"
    BY <1>1, <2>1
  <2>3. WorkOf(t) = 4 + 2 * ChunksLeft(t) /\ WorkOf(t)' = 3
    BY <2>1, <2>2 DEF WorkOf, Scripting
  <2>4. QED
    BY <1>4, <2>3 DEF LessWorkOf
<1>13. CASE UnlockCurl(t) \/ Finalize(t) \/ UnlockRequest(t)
  <2>1. \/ pc[t] = "unlock curl" /\ pc' = [pc EXCEPT ![t] = "finalize"]
        \/ pc[t] = "finalize" /\ pc' = [pc EXCEPT ![t] = "unlock"]
        \/ pc[t] = "unlock" /\ pc' = [pc EXCEPT ![t] = "idle"]
    BY <1>13 DEF UnlockCurl, Finalize, UnlockRequest, Goto
  <2>2. \/ pc[t] = "unlock curl" /\ pc'[t] = "finalize"
        \/ pc[t] = "finalize" /\ pc'[t] = "unlock"
        \/ pc[t] = "unlock" /\ pc'[t] = "idle"
    BY <1>1, <2>1
  <2>3. \/ WorkOf(t) = 3 /\ WorkOf(t)' = 2
        \/ WorkOf(t) = 2 /\ WorkOf(t)' = 1
        \/ WorkOf(t) = 1 /\ WorkOf(t)' = 0
    BY <2>2 DEF WorkOf, Scripting
  <2>4. QED
    BY <2>3 DEF LessWorkOf
<1>14. QED
  BY <1>6, <1>7, <1>8, <1>9, <1>10, <1>11, <1>12, <1>13, ScriptSteps DEF Run, Peer

\* Nothing that the measure of u reads has changed.
LEMMA Unmoved ==
  ASSUME NEW u \in Thread,
         pc'[u] = pc[u], config'[u] = config[u], option'[u] = option[u],
         received'[u] = received[u],
         params'[config[u]] = params[config[u]], headers'[config[u]] = headers[config[u]],
         pc[u] \in {"params", "headers"} => next'[config[u]] = next[config[u]]
  PROVE  WorkOf(u)' = WorkOf(u)
<1>1. StepsOfOption(config[u])' = StepsOfOption(config[u])
  BY DEF StepsOfOption
<1>2. Taken(u)' = Taken(u) /\ ChunksLeft(u)' = ChunksLeft(u) /\ AfterScript' = AfterScript
  BY DEF Taken, ChunksLeft, AfterScript
<1>3. QED
  BY <1>1, <1>2 DEF WorkOf

LEMMA OthersSteps ==
  ASSUME IInv, fault = NoConfig, NEW t \in Thread, Run(t) \/ Peer(t),
         NEW u \in Thread, u # t, pc[u] # "idle"
  PROVE  WorkOf(u)' = WorkOf(u)
<1>1. /\ pc \in [Thread -> Places] /\ config \in [Thread -> Config \cup {NoConfig}]
      /\ option \in [Thread -> 1 .. Len(basic_post_query) + 1]
      /\ received \in [Thread -> Nat]
      /\ next \in [Config -> [headers : Nat, params : Nat]]
  BY DEF IInv, TypeOK
<1>2. UNCHANGED <<params, headers, config>>
  BY DEF Run, Peer, LockRequest, InitCurl, InitFails, Configure, StartWalk, YieldParam,
     YieldHeader, LockCurl, Copy, UnlockCurl, Finalize, UnlockRequest, Chunk, Performed, args
<1>3. /\ pc' = pc \/ \E p : pc' = [pc EXCEPT ![t] = p]
      /\ option' = option \/ \E o : option' = [option EXCEPT ![t] = o]
      /\ received' = received \/ \E r : received' = [received EXCEPT ![t] = r]
  <2>1. CASE Configure(t) \/ StartWalk(t) \/ YieldParam(t) \/ YieldHeader(t)
    BY <2>1 DEF Configure, StartWalk, YieldParam, YieldHeader, EndWalk, Goto
  <2>2. CASE LockRequest(t) \/ InitCurl(t) \/ InitFails(t) \/ LockCurl(t) \/ Copy(t)
    BY <2>2 DEF LockRequest, InitCurl, InitFails, LockCurl, Copy, Goto, curl
  <2>3. CASE UnlockCurl(t) \/ Finalize(t) \/ UnlockRequest(t) \/ Peer(t)
    BY <2>3 DEF UnlockCurl, Finalize, UnlockRequest, Peer, Chunk, Performed, Goto, curl
  <2>4. QED
    BY <2>1, <2>2, <2>3 DEF Run
<1>4. pc'[u] = pc[u] /\ option'[u] = option[u] /\ received'[u] = received[u]
  BY <1>1, <1>3
<1>5. \/ next' = next
      \/ /\ pc[t] \notin {"idle", "lock"}
         /\ \E x : \/ next' = [next EXCEPT ![config[t]].params = x]
                   \/ next' = [next EXCEPT ![config[t]].headers = x]
  <2>1. CASE StartWalk(t) \/ YieldParam(t) \/ YieldHeader(t)
    BY <2>1 DEF StartWalk, YieldParam, YieldHeader
  <2>2. CASE ~(StartWalk(t) \/ YieldParam(t) \/ YieldHeader(t))
    BY <2>2 DEF Run, Peer, LockRequest, InitCurl, InitFails, Configure, LockCurl, Copy,
       UnlockCurl, Finalize, UnlockRequest, Chunk, Performed
  <2>3. QED
    BY <2>1, <2>2
<1>6. ASSUME pc[u] \in {"params", "headers"} PROVE next'[config[u]] = next[config[u]]
  <2>1. CASE next' = next
    BY <2>1
  <2>2. CASE next' # next
    <3>1. pc[t] \notin {"idle", "lock"} /\ pc[u] \notin {"idle", "lock"}
      BY <1>5, <1>6, <2>2
    <3>2. config[u] # config[t]
      BY <3>1, Exclusive DEF IInv
    <3>3. config[u] \in Config
      BY DEF IInv, LockInv
    <3>4. QED
      BY <1>1, <1>5, <2>2, <3>2, <3>3
  <2>3. QED
    BY <2>1, <2>2
<1>7. QED
  BY <1>2, <1>4, <1>6, Unmoved

LEMMA CallersSteps ==
  ASSUME IInv, Call, NEW u \in Thread, pc[u] # "idle"
  PROVE  WorkOf(u)' = WorkOf(u)
<1>1. /\ pc \in [Thread -> Places] /\ config \in [Thread -> Config \cup {NoConfig}]
      /\ params \in [Config -> Nat] /\ headers \in [Config -> Nat]
      /\ config[u] \in Config
  BY DEF IInv, TypeOK, LockInv
<1>2. UNCHANGED <<option, received, next>>
  BY DEF Call, initialize_request_config, free_request_config, add_request_header,
     add_request_param, http_request, curl
<1>3. CASE \E c \in Config : initialize_request_config(c) \/ free_request_config(c)
  <2>1. UNCHANGED <<params, headers, pc, config>>
    BY <1>3 DEF initialize_request_config, free_request_config
  <2>2. QED
    BY <1>2, <2>1, Unmoved
<1>4. ASSUME NEW c \in Config, add_request_header(c) \/ add_request_param(c)
      PROVE  WorkOf(u)' = WorkOf(u)
  <2>1. /\ ~Busy(c) /\ UNCHANGED <<pc, config>>
        /\ params' = params \/ params' = [params EXCEPT ![c] = @ + 1]
        /\ headers' = headers \/ headers' = [headers EXCEPT ![c] = @ + 1]
    BY <1>4 DEF add_request_header, add_request_param, MayAdd
  <2>2. config[u] # c
    BY <2>1 DEF Busy
  <2>3. params'[config[u]] = params[config[u]] /\ headers'[config[u]] = headers[config[u]]
    BY <1>1, <2>1, <2>2
  <2>4. QED
    BY <1>2, <2>1, <2>3, Unmoved
<1>5. ASSUME NEW t \in Thread, NEW c \in Config, http_request(t, c)
      PROVE  WorkOf(u)' = WorkOf(u)
  <2>1. /\ pc[t] = "idle" /\ pc' = [pc EXCEPT ![t] = "lock"]
        /\ config' = [config EXCEPT ![t] = c] /\ UNCHANGED <<params, headers>>
    BY <1>5 DEF http_request, Goto, args
  <2>2. u # t
    BY <2>1
  <2>3. pc'[u] = pc[u] /\ config'[u] = config[u]
    BY <1>1, <2>1, <2>2
  <2>4. QED
    BY <1>2, <2>1, <2>3, Unmoved
<1>6. QED
  BY <1>3, <1>4, <1>5 DEF Call

\* Every step of a request, its transfer included, brings its return nearer, and nobody
\* else's step puts it off: besides waiting for the two locks it takes at most
\* 7 + 2 * ChunkBound + 17 * (params + headers + 3) steps (http_request).
THEOREM RequestsAdvance == Spec => [][\A t \in Thread : Advances(t)]_vars
<1>1. IInv /\ [Next]_vars => [\A t \in Thread : Advances(t)]_vars
  <2> SUFFICES ASSUME IInv, Next, vars' # vars, NEW t \in Thread PROVE Advances(t)
    OBVIOUS
  <2>1. fault = NoConfig /\ (Call \/ \E u \in Thread : Run(u) \/ Peer(u))
    BY DEF Next, Terminated
  <2>2. Run(t) \/ Peer(t) => LessWorkOf(t)
    BY <2>1, OwnSteps
  <2>3. ASSUME pc[t] # "idle" PROVE WorkOf(t)' <= WorkOf(t)
    <3>1. CASE Run(t) \/ Peer(t)
      BY <2>2, <3>1 DEF LessWorkOf
    <3>2. CASE ~(Run(t) \/ Peer(t))
      <4>1. WorkOf(t)' = WorkOf(t)
        BY <2>1, <2>3, <3>2, CallersSteps, OthersSteps
      <4>2. WorkOf(t) \in Int
        BY <2>1, <2>3, WorkIsNatural
      <4>3. QED
        BY <4>1, <4>2
    <3>3. QED
      BY <3>1, <3>2
  <2>4. QED
    BY <2>2, <2>3 DEF Advances
<1>2. QED
  BY Invariance, <1>1, PTL DEF Spec

-----------------------------------------------------------------------------
(* The body of a POST. *)

\* What curl is told of the body: the size goes there as option 10 of a POST.
PostPointer(t) ==
  LET sized == Method[config[t]] = "POST"
  IN /\ pc[t] \in Scripting =>
          handle[t]["POSTFIELDS"] = IF sized /\ option[t] > 10 THEN "size" ELSE "unset"
     /\ InTransfer(t) => handle[t]["POSTFIELDS"] = IF sized THEN "size" ELSE "unset"

PostInv == \A t \in Thread : PostPointer(t)

\* The size is set by option 10 of a POST, and by no other call.
LEMMA PostOption ==
  ASSUME NEW c \in Config
  PROVE  /\ \A k \in 1 .. Len(Script(c)) :
              Script(c)[k] = "POSTFIELDSIZE" <=> Method[c] = "POST" /\ k = 10
         /\ Method[c] = "POST" => Len(Script(c)) = 15
<1>1. CASE Method[c] = "GET"
  BY <1>1 DEF Script, basic_get_query
<1>2. CASE Method[c] = "POST"
  BY <1>2 DEF Script, basic_post_query
<1>3. QED
  BY <1>1, <1>2, RequestAssumption

LEMMA PostConfigured ==
  ASSUME NEW h \in [Options -> {"unset", "own", "body", "size"}],
         NEW o \in Options, NEW c \in Config
  PROVE  configure_curl(h, o, c)["POSTFIELDS"] =
           IF o = "POSTFIELDSIZE" THEN "size" ELSE h["POSTFIELDS"]
  BY DEF configure_curl, Options, OptionalArguments

\* One call of configure_curl in the script.
LEMMA PostNext ==
  ASSUME IInv, PostInv, fault = NoConfig, NEW t \in Thread,
         \/ pc[t] = "configure" /\ option[t] <= Len(Script(config[t]))
         \/ pc[t] \in {"params", "headers"},
         handle' = [handle EXCEPT ![t] = configure_curl(@, Option(t), config[t])],
         option' = [option EXCEPT ![t] = @ + 1], config'[t] = config[t],
         pc'[t] = "configure"
  PROVE  PostPointer(t)'
<1>1. /\ config[t] \in Config /\ option[t] \in 1 .. Len(Script(config[t]))
      /\ Option(t) \in Options
  BY Reading DEF IInv
<1>2. PICK n \in 13 .. 15 : n = Len(Script(config[t]))
  BY <1>1, Scripts
<1>3. PICK k \in 1 .. n : k = option[t]
  BY <1>1, <1>2
<1>4. Option(t) = "POSTFIELDSIZE" <=> Method[config[t]] = "POST" /\ k = 10
  BY <1>1, <1>3, PostOption DEF Option
<1>5. handle'[t] = configure_curl(handle[t], Option(t), config[t]) /\ option'[t] = k + 1
  BY <1>3 DEF IInv, TypeOK
<1>6. handle'[t]["POSTFIELDS"] =
        IF Option(t) = "POSTFIELDSIZE" THEN "size" ELSE handle[t]["POSTFIELDS"]
  <2>1. handle[t] \in [Options -> {"unset", "own", "body", "size"}]
    BY DEF IInv, TypeOK
  <2>2. configure_curl(handle[t], Option(t), config[t])["POSTFIELDS"] =
          IF Option(t) = "POSTFIELDSIZE" THEN "size" ELSE handle[t]["POSTFIELDS"]
    BY <1>1, <2>1, PostConfigured
  <2>3. QED
    BY <1>5, <2>2
<1>7. handle[t]["POSTFIELDS"] =
        IF Method[config[t]] = "POST" /\ k > 10 THEN "size" ELSE "unset"
  BY <1>3 DEF PostInv, PostPointer, Scripting
<1>8. handle'[t]["POSTFIELDS"] =
        IF Method[config[t]] = "POST" /\ k + 1 > 10 THEN "size" ELSE "unset"
  <2>1. k + 1 > 10 <=> k > 10 \/ k = 10
    BY <1>3
  <2>2. QED
    BY <1>4, <1>6, <1>7, <2>1
<1>9. QED
  BY <1>5, <1>8 DEF PostPointer, Scripting, InTransfer

LEMMA PostRun ==
  ASSUME IInv, PostInv, fault = NoConfig, NEW t \in Thread, Run(t) \/ Peer(t)
  PROVE  PostPointer(t)'
<1>1. /\ pc \in [Thread -> Places] /\ config' = config
      /\ option \in [Thread -> 1 .. Len(basic_post_query) + 1]
      /\ handle \in [Thread -> [Options -> {"unset", "own", "body", "size"}]]
      /\ PostPointer(t)
  BY DEF IInv, TypeOK, PostInv, Run, Peer, LockRequest, InitCurl, InitFails, Configure,
     StartWalk, YieldParam, YieldHeader, LockCurl, Copy, UnlockCurl, Finalize, UnlockRequest,
     Chunk, Performed
<1>2. ASSUME NEW p \in {"idle", "init", "unlock curl", "finalize", "unlock"}, Goto(t, p)
      PROVE  PostPointer(t)'
  <2>1. pc'[t] = p
    BY <1>1, <1>2 DEF Goto
  <2>2. QED
    BY <2>1 DEF PostPointer, Scripting, InTransfer
<1>3. ASSUME pc[t] \in Scripting, pc'[t] \in Scripting, UNCHANGED <<option, handle>>
      PROVE  PostPointer(t)'
  BY <1>1, <1>3 DEF PostPointer, Scripting, InTransfer
<1>4. ASSUME EndWalk(t), \/ pc[t] = "configure" /\ option[t] <= Len(Script(config[t]))
                         \/ pc[t] \in {"params", "headers"}
      PROVE  PostPointer(t)'
  <2>1. /\ handle' = [handle EXCEPT ![t] = configure_curl(@, Option(t), config[t])]
        /\ option' = [option EXCEPT ![t] = @ + 1] /\ pc' = [pc EXCEPT ![t] = "configure"]
    BY <1>4 DEF EndWalk, Goto
  <2>2. pc'[t] = "configure" /\ config'[t] = config[t]
    BY <1>1, <2>1
  <2>3. QED
    BY <1>4, <2>1, <2>2, PostNext
<1>5. CASE LockRequest(t) \/ InitFails(t) \/ Performed(t) \/ UnlockCurl(t) \/ Finalize(t)
             \/ UnlockRequest(t)
  BY <1>2, <1>5 DEF LockRequest, InitFails, Performed, UnlockCurl, Finalize, UnlockRequest
<1>6. CASE InitCurl(t)
  <2>1. pc'[t] = "configure" /\ option'[t] = 1 /\ handle'[t] = NewHandle
    BY <1>1, <1>6 DEF InitCurl, Goto
  <2>2. handle'[t]["POSTFIELDS"] = "unset"
    BY <2>1 DEF NewHandle, Options, OptionalArguments
  <2>3. QED
    BY <2>1, <2>2 DEF PostPointer, Scripting, InTransfer
<1>7. CASE Configure(t)
  <2>1. /\ pc[t] = "configure" /\ option[t] <= Len(Script(config[t])) /\ pc' = pc
        /\ handle' = [handle EXCEPT ![t] = configure_curl(@, Option(t), config[t])]
        /\ option' = [option EXCEPT ![t] = @ + 1] /\ config'[t] = config[t]
    BY <1>1, <1>7 DEF Configure
  <2>2. QED
    BY <2>1, PostNext
<1>8. CASE StartWalk(t)
  <2>1. CASE EndWalk(t)
    BY <1>4, <1>8, <2>1 DEF StartWalk
  <2>2. CASE ~EndWalk(t)
    <3>1. /\ pc[t] = "configure" /\ UNCHANGED <<option, handle>>
          /\ Goto(t, "params") \/ Goto(t, "headers")
      BY <1>8, <2>2 DEF StartWalk
    <3>2. pc'[t] \in {"params", "headers"}
      BY <1>1, <3>1 DEF Goto
    <3>3. QED
      BY <1>3, <3>1, <3>2 DEF Scripting
  <2>3. QED
    BY <2>1, <2>2
<1>9. CASE YieldParam(t) \/ YieldHeader(t)
  <2>1. CASE EndWalk(t)
    BY <1>4, <1>9, <2>1 DEF YieldParam, YieldHeader
  <2>2. CASE ~EndWalk(t)
    BY <1>3, <1>9, <2>2 DEF YieldParam, YieldHeader, Scripting
  <2>3. QED
    BY <2>1, <2>2
<1>10. CASE LockCurl(t)
  <2>1. /\ pc[t] = "configure" /\ option[t] > Len(Script(config[t]))
        /\ UNCHANGED <<option, handle>> /\ pc'[t] = "perform"
    BY <1>1, <1>10 DEF LockCurl, Goto, curl
  <2>2. Method[config[t]] = "POST" => option[t] > 15
    BY <2>1, PostOption DEF IInv, LockInv
  <2>3. option[t] > 15 => option[t] > 10
    <3>1. option[t] \in Int
      BY <1>1
    <3>2. QED
      BY <3>1
  <2>4. handle[t]["POSTFIELDS"] = IF Method[config[t]] = "POST" THEN "size" ELSE "unset"
    BY <1>1, <2>1, <2>2, <2>3 DEF PostPointer, Scripting
  <2>5. QED
    BY <1>1, <2>1, <2>4 DEF PostPointer, Scripting, InTransfer
<1>11. CASE Chunk(t) \/ Copy(t)
  <2>1. InTransfer(t) /\ pc'[t] \in {"perform", "copy"} /\ UNCHANGED handle
    BY <1>1, <1>11 DEF Chunk, Copy, Goto, InTransfer, curl
  <2>2. QED
    BY <1>1, <2>1 DEF PostPointer, Scripting, InTransfer
<1>12. QED
  BY <1>5, <1>6, <1>7, <1>8, <1>9, <1>10, <1>11 DEF Run, Peer

\* A step of t, or of a caller, says nothing to the handle of u.
LEMMA PostOthers ==
  ASSUME PostInv, NEW u \in Thread, handle'[u] = handle[u],
         \/ pc'[u] = "lock"
         \/ pc'[u] = pc[u] /\ config'[u] = config[u] /\ option'[u] = option[u]
  PROVE  PostPointer(u)'
<1>1. CASE pc'[u] = "lock"
  BY <1>1 DEF PostPointer, Scripting, InTransfer
<1>2. CASE pc'[u] = pc[u] /\ config'[u] = config[u] /\ option'[u] = option[u]
  BY <1>2 DEF PostInv, PostPointer, InTransfer
<1>3. QED
  BY <1>1, <1>2

LEMMA PostKept ==
  ASSUME IInv, PostInv, [Next]_vars PROVE PostInv'
<1>1. /\ pc \in [Thread -> Places] /\ config \in [Thread -> Config \cup {NoConfig}]
      /\ option \in [Thread -> 1 .. Len(basic_post_query) + 1]
      /\ handle \in [Thread -> [Options -> {"unset", "own", "body", "size"}]]
  BY DEF IInv, TypeOK
<1>2. CASE UNCHANGED vars
  <2>1. UNCHANGED <<pc, config, option, handle>>
    BY <1>2 DEF vars, curl
  <2>2. QED
    BY <2>1, PostOthers DEF PostInv
<1>3. CASE fault = NoConfig /\ Call
  <2>1. UNCHANGED <<option, handle>>
    BY <1>3 DEF Call, initialize_request_config, free_request_config, add_request_header,
       add_request_param, http_request, curl
  <2>2. CASE UNCHANGED <<pc, config>>
    BY <2>1, <2>2, PostOthers DEF PostInv
  <2>3. ASSUME NEW t \in Thread, NEW c \in Config, http_request(t, c) PROVE PostInv'
    <3>1. pc' = [pc EXCEPT ![t] = "lock"] /\ config' = [config EXCEPT ![t] = c]
      BY <2>3 DEF http_request, Goto
    <3>2. \A u \in Thread : \/ pc'[u] = "lock"
                            \/ pc'[u] = pc[u] /\ config'[u] = config[u]
      BY <1>1, <3>1
    <3>3. QED
      BY <2>1, <3>2, PostOthers DEF PostInv
  <2>4. QED
    BY <1>3, <2>2, <2>3 DEF Call, initialize_request_config, free_request_config,
       add_request_header, add_request_param
<1>4. ASSUME fault = NoConfig, NEW t \in Thread, Run(t) \/ Peer(t) PROVE PostInv'
  <2>1. PostPointer(t)'
    BY <1>4, PostRun
  <2>2. ASSUME NEW u \in Thread, u # t PROVE PostPointer(u)'
    <3>1. /\ pc' = pc \/ \E p : pc' = [pc EXCEPT ![t] = p]
          /\ option' = option \/ \E o : option' = [option EXCEPT ![t] = o]
          /\ handle' = handle \/ \E h : handle' = [handle EXCEPT ![t] = h]
          /\ config' = config
      <4>1. CASE Configure(t) \/ StartWalk(t) \/ YieldParam(t) \/ YieldHeader(t)
        BY <4>1 DEF Configure, StartWalk, YieldParam, YieldHeader, EndWalk, Goto
      <4>2. CASE LockRequest(t) \/ InitCurl(t) \/ InitFails(t) \/ LockCurl(t) \/ Copy(t)
        BY <4>2 DEF LockRequest, InitCurl, InitFails, LockCurl, Copy, Goto, curl
      <4>3. CASE UnlockCurl(t) \/ Finalize(t) \/ UnlockRequest(t) \/ Peer(t)
        BY <4>3 DEF UnlockCurl, Finalize, UnlockRequest, Peer, Chunk, Performed, Goto, curl
      <4>4. QED
        BY <1>4, <4>1, <4>2, <4>3 DEF Run
    <3>2. /\ pc'[u] = pc[u] /\ config'[u] = config[u] /\ option'[u] = option[u]
          /\ handle'[u] = handle[u]
      BY <1>1, <2>2, <3>1
    <3>3. QED
      BY <3>2, PostOthers
  <2>3. QED
    BY <2>1, <2>2 DEF PostInv
<1>5. QED
  BY <1>2, <1>3, <1>4 DEF Next, Terminated

\* No POST ever sends its body: in every transfer of one, what curl is to read the body
\* from is the body's size (the POSTFIELDS and POSTFIELDSIZE cases of configure_curl).
THEOREM BodyIsNeverSent ==
  Spec => [](\A t \in Thread :
               InTransfer(t) /\ Method[config[t]] = "POST" =>
                 handle[t]["POSTFIELDS"] = "size")
<1>1. Init => PostInv
  BY DEF Init, PostInv, PostPointer, Scripting, InTransfer
<1>2. IInv /\ PostInv /\ [Next]_vars => PostInv'
  BY PostKept
<1>3. PostInv => \A t \in Thread :
                   InTransfer(t) /\ Method[config[t]] = "POST" =>
                     handle[t]["POSTFIELDS"] = "size"
  BY DEF PostInv, PostPointer
<1>4. QED
  BY <1>1, <1>2, <1>3, Invariance, PTL DEF Spec

-----------------------------------------------------------------------------
(* The header list of a config that has served a request. *)

\* When the transfer is over the list is there, if there are headers; then it is freed.
Spent(t) ==
  headers[config[t]] >= 1 =>
    /\ pc[t] \in {"unlock curl", "finalize"} => list[config[t]].at = "live"
    /\ pc[t] = "unlock" => list[config[t]].at = "freed"

SpentInv == \A t \in Thread : Spent(t)

\* A request that had a header leaves a dangling list, which stays; freeing the config
\* frees it again, and the next header of another request follows it.
DanglesForGood(c) ==
  /\ list[c].at = "freed" => list'[c].at = "freed"
  /\ headers[c] >= 1 /\ (\E t \in Thread : config[t] = c /\ UnlockRequest(t)) =>
       list'[c].at = "freed"
  /\ list[c].at = "freed" /\ free_request_config(c) => fault' = c
  /\ list[c].at = "freed"
       /\ (\E t \in Thread : config[t] = c /\ YieldHeader(t) /\ pc'[t] = "headers") =>
       fault' = c

\* A step that leaves the request of u and its list alone, or takes it elsewhere.
LEMMA SpentStays ==
  ASSUME SpentInv, NEW u \in Thread,
         \/ pc'[u] \notin {"unlock curl", "finalize", "unlock"}
         \/ /\ pc'[u] = pc[u] /\ config'[u] = config[u]
            /\ headers'[config[u]] = headers[config[u]] /\ list'[config[u]] = list[config[u]]
  PROVE  Spent(u)'
  BY DEF SpentInv, Spent

\* Which lists the steps of a request change.
LEMMA OwnList ==
  ASSUME NEW t \in Thread, Run(t) \/ Peer(t)
  PROVE  /\ UNCHANGED <<config, headers>>
         /\ \E p : pc' = [pc EXCEPT ![t] = p] \/ pc' = pc
         /\ \/ list' = list
            \/ /\ pc[t] \notin {"idle", "lock"}
               /\ \E l : list' = [list EXCEPT ![config[t]] = l]
<1>1. CASE Configure(t) \/ StartWalk(t) \/ YieldParam(t)
  BY <1>1 DEF Configure, StartWalk, YieldParam, EndWalk, Goto, args
<1>2. CASE YieldHeader(t)
  BY <1>2 DEF YieldHeader, EndWalk, Goto, args
<1>3. CASE LockRequest(t) \/ InitCurl(t) \/ InitFails(t) \/ LockCurl(t) \/ Copy(t)
  BY <1>3 DEF LockRequest, InitCurl, InitFails, LockCurl, Copy, Goto, args
<1>4. CASE UnlockCurl(t) \/ UnlockRequest(t) \/ Peer(t)
  BY <1>4 DEF UnlockCurl, UnlockRequest, Peer, Chunk, Performed, Goto, args
<1>5. CASE Finalize(t)
  BY <1>5 DEF Finalize, finalize_configure_curl, FreeList, Goto, args
<1>6. QED
  BY <1>1, <1>2, <1>3, <1>4, <1>5 DEF Run, Peer

LEMMA SpentRun ==
  ASSUME IInv, SpentInv, fault = NoConfig, NEW t \in Thread, Run(t) \/ Peer(t)
  PROVE  Spent(t)'
<1>1. /\ pc \in [Thread -> Places] /\ UNCHANGED <<config, headers>>
      /\ list \in [Config -> [at : {"null", "live", "freed"}, items : Seq(Nat)]]
      /\ pc[t] # "idle" => config[t] \in Config
  BY OwnList DEF IInv, TypeOK, LockInv
<1>2. CASE Performed(t)
  <2>1. pc[t] = "perform" /\ pc'[t] = "unlock curl" /\ UNCHANGED list
    BY <1>1, <1>2 DEF Performed, Goto
  <2>2. list[config[t]].items = UpTo(headers[config[t]])
    BY <2>1, AllWalk DEF IInv, Walk, InTransfer
  <2>3. ASSUME headers[config[t]] >= 1 PROVE list[config[t]].at = "live"
    <3>1. headers[config[t]] \in Nat
      BY <1>1, <2>1 DEF IInv, TypeOK
    <3>2. 1 \in DOMAIN UpTo(headers[config[t]])
      BY <2>3, <3>1 DEF UpTo
    <3>3. UpTo(headers[config[t]]) # <<>>
      BY <3>2
    <3>4. QED
      BY <1>1, <2>1, <2>2, <3>3 DEF IInv, ListInv
  <2>4. QED
    BY <1>1, <2>1, <2>3 DEF Spent
<1>3. CASE UnlockCurl(t)
  <2>1. pc[t] = "unlock curl" /\ pc'[t] = "finalize" /\ UNCHANGED list
    BY <1>1, <1>3 DEF UnlockCurl, Goto
  <2>2. QED
    BY <1>1, <2>1 DEF SpentInv, Spent
<1>4. CASE Finalize(t)
  <2>1. pc[t] = "finalize" /\ pc'[t] = "unlock" /\ FreeList(config[t])
    BY <1>1, <1>4 DEF Finalize, Goto, finalize_configure_curl
  <2>2. ASSUME headers[config[t]] >= 1 PROVE list'[config[t]].at = "freed"
    <3>1. list[config[t]].at = "live"
      BY <2>1, <2>2 DEF SpentInv, Spent
    <3>2. list' = [list EXCEPT ![config[t]] = [at |-> "freed", items |-> <<>>]]
      BY <2>1, <3>1 DEF FreeList
    <3>3. QED
      BY <1>1, <2>1, <3>2
  <2>3. QED
    BY <1>1, <2>1, <2>2 DEF Spent
<1>5. ASSUME pc'[t] \notin {"unlock curl", "finalize", "unlock"} PROVE Spent(t)'
  BY <1>5, SpentStays
<1>6. CASE Configure(t) \/ StartWalk(t) \/ YieldParam(t) \/ YieldHeader(t)
  <2>1. pc'[t] \in {"configure", "params", "headers"}
    BY <1>1, <1>6 DEF Configure, StartWalk, YieldParam, YieldHeader, EndWalk, Goto
  <2>2. QED
    BY <1>5, <2>1
<1>7. CASE LockRequest(t) \/ InitCurl(t) \/ InitFails(t) \/ LockCurl(t) \/ Copy(t)
             \/ UnlockRequest(t) \/ Chunk(t)
  <2>1. pc'[t] \in {"init", "configure", "idle", "perform", "copy"}
    BY <1>1, <1>7 DEF LockRequest, InitCurl, InitFails, LockCurl, Copy, UnlockRequest, Chunk,
       Goto
  <2>2. QED
    BY <1>5, <2>1
<1>8. QED
  BY <1>2, <1>3, <1>4, <1>6, <1>7 DEF Run, Peer

LEMMA SpentKept ==
  ASSUME IInv, SpentInv, [Next]_vars PROVE SpentInv'
<1>1. /\ pc \in [Thread -> Places] /\ config \in [Thread -> Config \cup {NoConfig}]
      /\ headers \in [Config -> Nat]
      /\ list \in [Config -> [at : {"null", "live", "freed"}, items : Seq(Nat)]]
      /\ \A u \in Thread : pc[u] # "idle" => config[u] \in Config
  BY DEF IInv, TypeOK, LockInv
<1>2. CASE UNCHANGED vars
  <2>1. UNCHANGED <<pc, config, headers, list>>
    BY <1>2 DEF vars, args
  <2>2. QED
    BY <2>1, SpentStays DEF SpentInv
<1>3. ASSUME NEW t \in Thread, NEW c \in Config, http_request(t, c) PROVE SpentInv'
  <2>1. /\ pc' = [pc EXCEPT ![t] = "lock"] /\ config' = [config EXCEPT ![t] = c]
        /\ UNCHANGED <<headers, list>>
    BY <1>3 DEF http_request, Goto, args
  <2>2. \A u \in Thread : \/ pc'[u] = "lock"
                          \/ pc'[u] = pc[u] /\ config'[u] = config[u]
    BY <1>1, <2>1
  <2>3. QED
    BY <2>1, <2>2, SpentStays DEF SpentInv
<1>4. ASSUME NEW c \in Config, \/ initialize_request_config(c) \/ free_request_config(c)
                               \/ add_request_header(c) \/ add_request_param(c)
      PROVE  SpentInv'
  <2>1. /\ UNCHANGED <<pc, config>>
        /\ \/ UNCHANGED <<headers, list>>
           \/ /\ ~Busy(c)
              /\ headers' = headers \/ headers' = [headers EXCEPT ![c] = @ + 1]
              /\ list' = list \/ list' = [list EXCEPT ![c] = [at |-> "freed", items |-> <<>>]]
    BY <1>4 DEF initialize_request_config, free_request_config, add_request_header,
       add_request_param, MayAdd, FreeList
  <2>2. CASE UNCHANGED <<headers, list>>
    BY <2>1, <2>2, SpentStays DEF SpentInv
  <2>3. ASSUME ~Busy(c),
               headers' = headers \/ headers' = [headers EXCEPT ![c] = @ + 1],
               list' = list \/ list' = [list EXCEPT ![c] = [at |-> "freed", items |-> <<>>]],
               NEW u \in Thread
        PROVE  Spent(u)'
    <3>1. CASE pc[u] = "idle"
      BY <2>1, <3>1, SpentStays
    <3>2. CASE pc[u] # "idle"
      <4>1. config[u] # c /\ config[u] \in Config
        BY <1>1, <2>3, <3>2 DEF Busy
      <4>2. headers'[config[u]] = headers[config[u]] /\ list'[config[u]] = list[config[u]]
        BY <1>1, <2>3, <4>1
      <4>3. QED
        BY <2>1, <4>2, SpentStays
    <3>3. QED
      BY <3>1, <3>2
  <2>4. QED
    BY <2>1, <2>2, <2>3 DEF SpentInv
<1>5. ASSUME fault = NoConfig, NEW t \in Thread, Run(t) \/ Peer(t) PROVE SpentInv'
  <2>1. Spent(t)'
    BY <1>5, SpentRun
  <2>2. ASSUME NEW u \in Thread, u # t PROVE Spent(u)'
    <3>1. /\ pc'[u] = pc[u] /\ UNCHANGED <<config, headers>>
      BY <1>1, <1>5, <2>2, OwnList
    <3>2. CASE pc[u] \in {"idle", "lock"}
      BY <3>1, <3>2, SpentStays
    <3>3. CASE pc[u] \notin {"idle", "lock"}
      <4>1. CASE list' = list
        BY <3>1, <4>1, SpentStays
      <4>2. CASE list' # list
        <5>1. PICK l : pc[t] \notin {"idle", "lock"} /\ list' = [list EXCEPT ![config[t]] = l]
          BY <1>5, <4>2, OwnList
        <5>2. config[u] # config[t] /\ config[u] \in Config
          BY <1>1, <2>2, <3>3, <5>1, Exclusive DEF IInv
        <5>3. list'[config[u]] = list[config[u]]
          BY <1>1, <5>1, <5>2
        <5>4. QED
          BY <3>1, <5>3, SpentStays
      <4>3. QED
        BY <4>1, <4>2
    <3>4. QED
      BY <3>2, <3>3
  <2>3. QED
    BY <2>1, <2>2 DEF SpentInv
<1>6. QED
  BY <1>2, <1>3, <1>4, <1>5 DEF Next, Call, Terminated

\* A freed list is never made again.
LEMMA FreedStays ==
  ASSUME IInv, Next, NEW c \in Config, list[c].at = "freed" PROVE list'[c].at = "freed"
<1>1. list \in [Config -> [at : {"null", "live", "freed"}, items : Seq(Nat)]]
  BY DEF IInv, TypeOK
<1>2. ASSUME NEW d, FreeList(d) PROVE list'[c].at = "freed"
  BY <1>1, <1>2 DEF FreeList
<1>3. CASE Call
  BY <1>2, <1>3 DEF Call, initialize_request_config, free_request_config,
     add_request_header, add_request_param, http_request
<1>4. CASE \E t \in Thread : Finalize(t)
  BY <1>2, <1>4 DEF Finalize, finalize_configure_curl
<1>5. ASSUME NEW t \in Thread, YieldHeader(t) PROVE list'[c].at = "freed"
  <2>1. CASE config[t] = c
    BY <1>5, <2>1 DEF YieldHeader
  <2>2. CASE config[t] # c
    BY <1>1, <1>5, <2>2 DEF YieldHeader
  <2>3. QED
    BY <2>1, <2>2
<1>6. ASSUME NEW t \in Thread, (Run(t) /\ ~YieldHeader(t) /\ ~Finalize(t)) \/ Peer(t)
      PROVE  list'[c].at = "freed"
  BY <1>6 DEF Run, Peer, LockRequest, InitCurl, InitFails, Configure, StartWalk, YieldParam,
     LockCurl, Copy, UnlockCurl, UnlockRequest, Chunk, Performed
<1>7. CASE UNCHANGED vars
  BY <1>7 DEF vars
<1>8. QED
  BY <1>3, <1>4, <1>5, <1>6, <1>7 DEF Next, Terminated

\* Every request that had a header leaves its config with a list that was freed, for
\* good, and the two uses that are left of it, another header and free_request_config,
\* are uses of a dangling pointer (finalize_configure_curl, free_request_config).  The
\* run http_double_free shows it of one request.
THEOREM ListsDangle == Spec => [][\A c \in Config : DanglesForGood(c)]_vars
<1>1. IInv /\ SpentInv /\ [Next]_vars => [\A c \in Config : DanglesForGood(c)]_vars
  <2> SUFFICES ASSUME IInv, SpentInv, Next, NEW c \in Config PROVE DanglesForGood(c)
    OBVIOUS
  <2>1. list[c].at = "freed" => list'[c].at = "freed"
    BY FreedStays
  <2>2. ASSUME headers[c] >= 1, NEW t \in Thread, config[t] = c, UnlockRequest(t)
        PROVE  list'[c].at = "freed"
    <3>1. pc[t] = "unlock"
      BY <2>2 DEF UnlockRequest
    <3>2. QED
      BY <2>1, <2>2, <3>1 DEF SpentInv, Spent
  <2>3. ASSUME list[c].at = "freed", free_request_config(c) PROVE fault' = c
    BY <2>3 DEF free_request_config, FreeList
  <2>4. ASSUME list[c].at = "freed", NEW t \in Thread, config[t] = c, YieldHeader(t),
               pc'[t] = "headers"
        PROVE  fault' = c
    <3>1. ~EndWalk(t)
      BY <2>4 DEF EndWalk, Goto, IInv, TypeOK
    <3>2. QED
      BY <2>4, <3>1 DEF YieldHeader
  <2>5. QED
    BY <2>1, <2>2, <2>3, <2>4 DEF DanglesForGood
<1>2. Init => SpentInv
  BY DEF Init, SpentInv, Spent
<1>3. IInv /\ SpentInv /\ [Next]_vars => SpentInv'
  BY SpentKept
<1>4. QED
  BY <1>1, <1>2, <1>3, Invariance, PTL DEF Spec

===============================================================================
