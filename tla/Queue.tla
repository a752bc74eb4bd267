-------------------------------- MODULE Queue --------------------------------
(***************************************************************************)
(* The doubly linked queue of lib/include/queue_piaabo.h, at the grain of  *)
(* one loop iteration per step: a caller enters an API function when pc is *)
(* "idle", the function's loops run one pointer move at a time, and the    *)
(* call is over when pc is "idle" again.  One queue object is followed     *)
(* from before queue_fabric() to after queue_destructor().  The queue has  *)
(* no lock; the handlers and the test programs keep each queue to the      *)
(* thread that made it, so calls do not overlap.                           *)
(*                                                                         *)
(* A definition marked "Fault:" is a wrong version of the one below it; no *)
(* behaviour of this module uses it, it is there to be put in its place.   *)
(***************************************************************************)
EXTENDS Integers, Sequences

CONSTANTS
  Node,             \* the cells malloc can return for a __queue_item_t
  NULL,             \* the null pointer
  YieldBound,       \* queue_yield is called while |yield_index| <= YieldBound
  EmptyBaseInsert,  \* may a caller insert on the base of an empty queue?
  NullData          \* may a caller insert an item whose data is NULL?

ASSUME QueueAssumption ==
  /\ NULL \notin Node
  /\ YieldBound \in Nat
  /\ EmptyBaseInsert \in BOOLEAN
  /\ NullData \in BOOLEAN

VARIABLES
  up, down,                      \* __up and __down of every cell
  blank,                         \* cells whose data pointer is NULL
  allocated,                     \* cells malloc'ed and not yet freed
  load_size, load_index, head,   \* fields of the __queue_t
  yield_index, yield_increment,
  pc,                            \* the loop being run, or "idle"
  op,                            \* the call being run, or the last one
  target,                        \* the index / current_index local
  ret,                           \* last __queue_item_t* returned
  verdict,                       \* last answer of queue_is_healty
  \* History variables: no guard reads them.
  chain,                         \* cells of the queue, base first
  drift,                         \* 1 when the first item went in on the base
  mark,                          \* load_index when the call was entered
  yielded,                       \* items yielded since the generator started
  watch                          \* "on": generator in use, "dry": it has
                                 \* returned NULL, "off": base moved under it

heap    == <<up, down, blank, allocated>>
cursor  == <<load_index, head>>
gen     == <<yield_index, yield_increment>>
history == <<chain, drift, yielded, watch>>
vars    == <<heap, load_size, cursor, gen, pc, op, target, ret, verdict,
             history, mark>>

Ptr == Node \cup {NULL}

Loops == {"top", "base", "scan", "index", "reap"}
Over  == {"destroyed", "asserted", "exited"}
Calls == {"none", "queue_to_next", "queue_to_back", "queue_to_index",
          "queue_to_top", "queue_to_base", "queue_start_generator_up",
          "queue_start_generator_down", "queue_yield", "queue_is_healty",
          "queue_insert_item_on_top", "queue_insert_item_on_base",
          "queue_destructor"}

-----------------------------------------------------------------------------
(* Reading the structure. *)

queue_is_empty == load_size = 0

AtTop  == head # NULL => up[head] = NULL
AtBase == head # NULL => down[head] = NULL

\* The two tests queue_is_healty makes on each item above the base.
LinksAgree(n) ==
  /\ up[down[n]] = n
  /\ up[n] # NULL => down[up[n]] = n

\* The tests queue_is_healty makes before it walks the items.
EmptyIsHealty == load_index = -1 /\ head = NULL

\* Fault: the last index is taken for out of range.
IndexInRange_LastExcluded(i) == 0 <= i /\ i < load_size - 1

IndexInRange(i) == 0 <= i /\ i < load_size

(* Moving the head: the bodies of queue_to_next and queue_to_back. *)

\* Fault: the head moves and load_index does not.
StepUp_IndexLeftBehind == ~AtTop /\ head' = up[head] /\ UNCHANGED load_index

StepUp   == ~AtTop  /\ load_index' = load_index + 1 /\ head' = up[head]
StepDown == ~AtBase /\ load_index' = load_index - 1 /\ head' = down[head]

Enter(o)  == pc = "idle" /\ op' = o /\ mark' = load_index
Return(r) == pc' = "idle" /\ ret' = r

-----------------------------------------------------------------------------
(* Creation, and the calls that return without a loop. *)

Init ==
  /\ up = [n \in Node |-> NULL] /\ down = [n \in Node |-> NULL]
  /\ blank = {} /\ allocated = {}
  /\ load_size = 0 /\ load_index = -1 /\ head = NULL
  /\ yield_index = 0 /\ yield_increment = 1
  /\ pc = "unborn" /\ op = "none" /\ target = 0 /\ ret = NULL /\ verdict = TRUE
  /\ chain = <<>> /\ drift = 0 /\ mark = -1 /\ yielded = <<>> /\ watch = "on"

\* malloc may fail, and log_fatal then ends the process.
queue_fabric ==
  /\ pc = "unborn"
  /\ load_size' = 0 /\ load_index' = -1 /\ head' = NULL
  /\ yield_index' = 0 /\ yield_increment' = 1
  /\ pc' \in {"idle", "exited"}
  /\ UNCHANGED <<heap, op, target, ret, verdict, history, mark>>

queue_to_next ==
  /\ Enter("queue_to_next")
  /\ \/ StepUp /\ Return(up[head])
     \/ AtTop /\ Return(NULL) /\ UNCHANGED cursor
  /\ UNCHANGED <<heap, load_size, gen, target, verdict, history>>

queue_to_back ==
  /\ Enter("queue_to_back")
  /\ \/ StepDown /\ Return(down[head])
     \/ AtBase /\ Return(NULL) /\ UNCHANGED cursor
  /\ UNCHANGED <<heap, load_size, gen, target, verdict, history>>

\* Where a generator starts: index 0, or one below the head's index.
StartGenerator(o, start, increment) ==
  /\ Enter(o)
  /\ yield_index' = start /\ yield_increment' = increment
  /\ yielded' = <<>> /\ watch' = "on"
  /\ UNCHANGED <<heap, load_size, cursor, pc, target, ret, verdict, chain, drift>>

\* Fault: the generator starts at the head.
queue_start_generator_up_AtHead ==
  StartGenerator("queue_start_generator_up", load_index, 1)

queue_start_generator_up ==
  StartGenerator("queue_start_generator_up", 0, 1)

\* Fault: the increment is cleared, not reversed.
queue_start_generator_down_NoIncrement ==
  StartGenerator("queue_start_generator_down", load_index - 1, 0)

queue_start_generator_down ==
  StartGenerator("queue_start_generator_down", load_index - 1, -1)

-----------------------------------------------------------------------------
(* queue_to_index, and queue_yield, which tail-calls it. *)

queue_to_index(i) ==
  /\ Enter("queue_to_index")
  /\ target' = i
  /\ IF head # NULL /\ IndexInRange(i) THEN pc' = "index" /\ UNCHANGED ret
                                       ELSE Return(NULL)
  /\ UNCHANGED <<heap, load_size, cursor, gen, verdict, history>>

\* The generator moves on even when there is nothing to return.
queue_yield ==
  /\ yield_index \in -YieldBound .. YieldBound
  /\ Enter("queue_yield")
  /\ target' = yield_index
  /\ yield_index' = yield_index + yield_increment
  /\ IF head # NULL /\ IndexInRange(yield_index)
       THEN pc' = "index" /\ UNCHANGED <<ret, watch>>
       ELSE Return(NULL) /\ watch' = IF watch = "on" THEN "dry" ELSE watch
  /\ UNCHANGED <<heap, load_size, cursor, yield_increment, verdict, chain, drift,
                 yielded>>

\* One iteration of the loop in queue_to_index; a queue_to_next or
\* queue_to_back that returns NULL leaves the loop spinning.
IndexStep ==
  /\ pc = "index"
  /\ \/ target < load_index /\ StepDown
     \/ target > load_index /\ StepUp
  /\ UNCHANGED <<heap, load_size, gen, pc, op, target, ret, verdict, history, mark>>

Stuck ==
  /\ pc = "index"
  /\ \/ target < load_index /\ AtBase
     \/ target > load_index /\ AtTop

IndexSpin == Stuck /\ UNCHANGED vars

IndexReturn ==
  /\ pc = "index" /\ target = load_index
  /\ op \in {"queue_to_index", "queue_yield"}
  /\ Return(head)
  /\ yielded' = IF op = "queue_yield" /\ watch = "on"
                  THEN Append(yielded, head) ELSE yielded
  /\ UNCHANGED <<heap, load_size, cursor, gen, op, target, verdict, chain, drift,
                 watch, mark>>

-----------------------------------------------------------------------------
(* The loops of queue_to_top and queue_to_base, and what follows them. *)

EnterLoop(o, loop) ==
  /\ Enter(o)
  /\ pc' = loop
  /\ UNCHANGED <<heap, load_size, cursor, gen, target, ret, verdict, history>>

queue_to_top  == EnterLoop("queue_to_top", "top")
queue_to_base == EnterLoop("queue_to_base", "base")

TopStep ==
  /\ pc = "top" /\ StepUp
  /\ UNCHANGED <<heap, load_size, gen, pc, op, target, ret, verdict, history, mark>>

BaseStep ==
  /\ pc = "base" /\ StepDown
  /\ UNCHANGED <<heap, load_size, gen, pc, op, target, ret, verdict, history, mark>>

MoveReturn ==
  /\ \/ op = "queue_to_top"  /\ pc = "top"  /\ AtTop
     \/ op = "queue_to_base" /\ pc = "base" /\ AtBase
  /\ Return(head)
  /\ UNCHANGED <<heap, load_size, cursor, gen, op, target, verdict, history, mark>>

queue_insert_item_on_top == EnterLoop("queue_insert_item_on_top", "top")

queue_insert_item_on_base ==
  /\ EmptyBaseInsert \/ ~queue_is_empty
  /\ EnterLoop("queue_insert_item_on_base", "base")

ReadyToLink ==
  \/ op = "queue_insert_item_on_top"  /\ pc = "top"  /\ AtTop
  \/ op = "queue_insert_item_on_base" /\ pc = "base" /\ AtBase

\* A fresh item: both links are NULL until it is linked.
queue_item_fabric(n, b) ==
  /\ n \notin allocated
  /\ allocated' = allocated \cup {n}
  /\ blank' = IF b THEN blank \cup {n} ELSE blank \ {n}

\* log_fatal when the item cannot be allocated; the head has already moved.
OutOfMemory ==
  /\ ReadyToLink
  /\ pc' = "exited"
  /\ UNCHANGED <<heap, load_size, cursor, gen, op, target, ret, verdict, history, mark>>

\* n goes above, or below, the head (alone when there is no head).
\* Fault: the new item does not point back down.
HangAbove_NoDown(n) ==
  /\ up'   = [m \in Node |-> IF m = n THEN NULL ELSE IF m = head THEN n ELSE up[m]]
  /\ down' = [down EXCEPT ![n] = NULL]

HangAbove(n) ==
  /\ up'   = [m \in Node |-> IF m = n THEN NULL ELSE IF m = head THEN n ELSE up[m]]
  /\ down' = [down EXCEPT ![n] = head]

HangBelow(n) ==
  /\ down' = [m \in Node |-> IF m = n THEN NULL ELSE IF m = head THEN n ELSE down[m]]
  /\ up'   = [up EXCEPT ![n] = head]

\* Fault: as on the base, load_index is not incremented.
CountOnTop_SizeOnly == load_size' = load_size + 1 /\ UNCHANGED load_index

CountOnTop == load_size' = load_size + 1 /\ load_index' = load_index + 1

LinkOnTop(n, b) ==
  /\ ReadyToLink /\ op = "queue_insert_item_on_top"
  /\ queue_item_fabric(n, b) /\ HangAbove(n)
  /\ head' = n
  /\ CountOnTop
  /\ pc' = "idle"
  /\ chain' = Append(chain, n)
  /\ UNCHANGED <<gen, op, target, ret, verdict, drift, mark, yielded, watch>>

\* load_index is not touched, not even for the first item of the queue.
LinkOnBase(n, b) ==
  /\ ReadyToLink /\ op = "queue_insert_item_on_base"
  /\ queue_item_fabric(n, b) /\ HangBelow(n)
  /\ head' = n
  /\ load_size' = load_size + 1 /\ UNCHANGED load_index
  /\ pc' = "idle"
  /\ chain' = <<n>> \o chain
  /\ drift' = IF queue_is_empty THEN 1 ELSE drift
  /\ watch' = "off"
  /\ UNCHANGED <<gen, op, target, ret, verdict, mark, yielded>>

-----------------------------------------------------------------------------
(* queue_is_healty, on its own or as the ASSERT that opens queue_destructor. *)

\* The check answers: its caller goes on, or the failed ASSERT exits.
Answer(o, healty) ==
  IF o = "queue_is_healty"
    THEN pc' = "idle" /\ verdict' = healty
    ELSE pc' = (IF healty THEN "top" ELSE "asserted") /\ UNCHANGED verdict

HealthCheck(o) ==
  /\ Enter(o)
  /\ IF queue_is_empty
       THEN Answer(o, EmptyIsHealty) /\ UNCHANGED target
       ELSE IF ~IndexInRange(load_index)
         THEN Answer(o, FALSE) /\ UNCHANGED target
         ELSE pc' = "base" /\ target' = load_index /\ UNCHANGED verdict
  /\ UNCHANGED <<heap, load_size, cursor, gen, ret, history>>

queue_is_healty  == HealthCheck("queue_is_healty")
queue_destructor == HealthCheck("queue_destructor")

Checking == op \in {"queue_is_healty", "queue_destructor"}

ScanStart ==
  /\ Checking /\ pc = "base" /\ AtBase
  /\ pc' = "scan"
  /\ UNCHANGED <<heap, load_size, cursor, gen, op, target, ret, verdict, history, mark>>

ScanStep ==
  /\ pc = "scan" /\ StepUp
  /\ IF LinksAgree(up[head]) THEN UNCHANGED <<pc, verdict>> ELSE Answer(op, FALSE)
  /\ UNCHANGED <<heap, load_size, gen, op, target, ret, history, mark>>

\* Fault: the check answers with the head left on the top.
ScanEnd_NoRestore ==
  /\ pc = "scan" /\ AtTop
  /\ Answer(op, TRUE)
  /\ UNCHANGED <<heap, load_size, cursor, gen, op, target, ret, history, mark>>

\* queue_to_index(Q, current_index), whose range test cannot fail here.
ScanEnd ==
  /\ pc = "scan" /\ AtTop
  /\ pc' = "index"
  /\ UNCHANGED <<heap, load_size, cursor, gen, op, target, ret, verdict, history, mark>>

HealthReturn ==
  /\ Checking /\ pc = "index" /\ target = load_index
  /\ Answer(op, TRUE)
  /\ UNCHANGED <<heap, load_size, cursor, gen, op, target, ret, history, mark>>

-----------------------------------------------------------------------------
(* The rest of queue_destructor: from the top down, then the last item. *)

\* Fault: the data is freed, the item is not.
queue_item_destructor_DataOnly(n) == UNCHANGED allocated

\* queue_item_destructor returns early, freeing nothing, when data is NULL.
queue_item_destructor(n) ==
  allocated' = IF n = NULL \/ n \in blank THEN allocated ELSE allocated \ {n}

ReapStart ==
  /\ op = "queue_destructor" /\ pc = "top" /\ AtTop
  /\ pc' = "reap"
  /\ UNCHANGED <<heap, load_size, cursor, gen, op, target, ret, verdict, history, mark>>

\* Fault: the item the head moves to.
Reaped_NewHead == down[head]

\* The item to free once the head has moved down: Q->__head->__up.
Reaped == up[down[head]]

ReapStep ==
  /\ pc = "reap" /\ StepDown
  /\ queue_item_destructor(Reaped)
  /\ UNCHANGED <<up, down, blank, load_size, gen, pc, op, target, ret, verdict,
                 history, mark>>

ReapEnd ==
  /\ pc = "reap" /\ AtBase
  /\ queue_item_destructor(head)
  /\ pc' = "destroyed"
  /\ UNCHANGED <<up, down, blank, load_size, cursor, gen, op, target, ret, verdict,
                 history, mark>>

-----------------------------------------------------------------------------

\* What a caller may do next.
Call ==
  \/ queue_fabric
  \/ queue_to_next \/ queue_to_back \/ queue_to_top \/ queue_to_base
  \/ \E i \in -1 .. load_size : queue_to_index(i)
  \/ queue_start_generator_up \/ queue_start_generator_down \/ queue_yield
  \/ queue_insert_item_on_top \/ queue_insert_item_on_base
  \/ queue_is_healty \/ queue_destructor

\* What the function being run does next.
Run ==
  \/ IndexStep \/ IndexSpin \/ IndexReturn
  \/ TopStep \/ BaseStep \/ MoveReturn
  \/ OutOfMemory
  \/ \E n \in Node, b \in {FALSE, NullData} : LinkOnTop(n, b) \/ LinkOnBase(n, b)
  \/ ScanStart \/ ScanStep \/ ScanEnd \/ HealthReturn
  \/ ReapStart \/ ReapStep \/ ReapEnd

\* The queue is gone, or the process is.
Terminated == pc \in Over /\ UNCHANGED vars

Next == Call \/ Run \/ Terminated

\* A call that has been entered is run by its thread; callers owe nothing.
Spec == Init /\ [][Next]_vars /\ WF_vars(Run)

-----------------------------------------------------------------------------
(* Properties. *)

TypeOK ==
  /\ up \in [Node -> Ptr] /\ down \in [Node -> Ptr]
  /\ blank \in SUBSET Node /\ allocated \in SUBSET Node
  /\ load_size \in Nat /\ load_index \in Int /\ head \in Ptr
  /\ yield_index \in Int /\ yield_increment \in {-1, 1}
  /\ pc \in {"unborn", "idle"} \cup Loops \cup Over
  /\ op \in Calls
  /\ target \in Int /\ ret \in Ptr /\ verdict \in BOOLEAN
  /\ chain \in Seq(Node) /\ drift \in {0, 1} /\ mark \in Int
  /\ yielded \in Seq(Ptr) /\ watch \in {"on", "dry", "off"}

\* Whatever was inserted, at either end and in any order, the links of the
\* heap spell the items from base to top, both ways, and load_size counts
\* them (queue_insert_item_on_top and _on_base).
ChainLinked ==
  /\ load_size = Len(chain)
  /\ \A i \in DOMAIN chain :
       /\ up[chain[i]]   = IF i = Len(chain) THEN NULL ELSE chain[i + 1]
       /\ down[chain[i]] = IF i = 1 THEN NULL ELSE chain[i - 1]

\* Where in chain the head should be; 0 in an empty queue.
Position == load_index + drift + 1

\* load_index and __head move together through every loop: the head is the
\* item load_index names, or the one above it for the whole life of a queue
\* whose first item went in on the base.
HeadInStep ==
  IF chain = <<>>
    THEN head = NULL /\ load_index = -1
    ELSE Position \in DOMAIN chain /\ head = chain[Position]

\* No function follows or frees a pointer to an item that has been freed:
\* in queue_destructor the head leaves an item before the item goes.
NoUseAfterFree ==
  pc # "destroyed" /\ head # NULL =>
    /\ head \in allocated
    /\ pc = "reap" /\ ~AtBase => up[down[head]] = head /\ down[head] \in allocated

\* queue_destructor: "free all the items".
NoLeak == pc = "destroyed" => allocated = {}

\* The ASSERT that opens queue_destructor never fires.
AssertHolds == pc # "asserted"

\* A health check that answers true puts the head back where it found it,
\* after having walked to the base and to the top (queue_is_healty).
HealthCheckRestores ==
  pc = "idle" /\ op = "queue_is_healty" /\ verdict => load_index = mark

\* A generator yields consecutive items, in order, whatever moves of the head
\* and insertions on the top happen between its yields (queue_yield keeps an
\* absolute index); an upward one starts with the base.
GeneratorOrder ==
  LET done == IF pc = "index" /\ op = "queue_yield" THEN 1 ELSE 0
      Index(k) == yield_index - yield_increment * (Len(yielded) - k + 1 + done)
  IN watch = "on" =>
       /\ \A k \in DOMAIN yielded :
            Index(k) + 1 \in DOMAIN chain /\ yielded[k] = chain[Index(k) + 1]
       /\ yield_increment = 1 => yield_index = Len(yielded) + done

\* The loops "while((item=queue_yield(Q)) != NULL)" that build the headers, the
\* parameters and the templates miss nothing: when an upward generator first
\* returns NULL it has yielded every item of the queue.
GeneratorComplete ==
  [][yield_increment = 1 /\ watch = "on" /\ watch' = "dry" => yielded = chain]_vars

\* Every call comes back, or the process ends: the loops of queue_to_top,
\* queue_to_base, queue_to_index and queue_destructor all terminate.
CallReturns == pc \in Loops ~> pc \in {"idle"} \cup Over

\* The failed ASSERT and the endless loop both need a queue whose first item
\* went in on the base.
FailsOnlyWhenDrifted == pc = "asserted" \/ Stuck => drift = 1

-----------------------------------------------------------------------------
(* The inductive invariant behind the safety properties above.             *)

\* The queue's cells are distinct, and they are the allocated ones until the
\* destructor reaps them from the top; a blank cell is never freed.
CellsInv ==
  /\ \A i, j \in DOMAIN chain : chain[i] = chain[j] => i = j
  /\ pc \notin {"reap", "destroyed"} =>
       \A n \in Node : n \in allocated <=> \E i \in DOMAIN chain : chain[i] = n
  /\ pc = "reap" =>
       /\ \A i \in DOMAIN chain : i <= Position => chain[i] \in allocated
       /\ \A n \in allocated \ blank :
            \E i \in DOMAIN chain : chain[i] = n /\ i <= Position
  /\ pc = "destroyed" => allocated \subseteq blank
  /\ ~NullData => blank = {}

\* What each loop knows about the call it runs in.
ControlInv ==
  /\ pc = "unborn" => chain = <<>> /\ op = "none"
  /\ pc = "index" => op \in {"queue_to_index", "queue_yield"} \/ Checking
  /\ pc = "scan" => Checking
  /\ pc = "reap" => op = "queue_destructor"
  /\ pc = "top" => op # "queue_is_healty"
  /\ pc \in {"index", "scan"} \/ (pc = "base" /\ Checking) => IndexInRange(target)
  /\ pc \in {"index", "scan", "base"} /\ Checking => target = mark
  /\ pc = "base" /\ op = "queue_insert_item_on_base" =>
       EmptyBaseInsert \/ ~queue_is_empty

\* drift is 1 only after a first insertion on the base, and only then can the
\* opening ASSERT of the destructor fail.
DriftInv ==
  /\ chain = <<>> => drift = 0
  /\ drift = 1 => EmptyBaseInsert
  /\ pc = "asserted" => drift = 1

IInv ==
  /\ TypeOK
  /\ ChainLinked /\ HeadInStep
  /\ CellsInv /\ ControlInv /\ DriftInv
  /\ HealthCheckRestores

-----------------------------------------------------------------------------
(* The linked queue implements the list with a cursor, when no caller       *)
(* inserts on the base of an empty queue.  A call takes effect in the step  *)
(* that ends it.                                                            *)

\* CursorList's view of the head, of the generator and of the queue.
CursorNow == 1 + (IF pc = "idle" THEN load_index ELSE mark)

Upcoming == IF pc = "index" /\ op = "queue_yield" THEN target ELSE yield_index

Life ==
  CASE pc = "unborn"    -> "unborn"
    [] pc = "destroyed" -> "gone"
    [] pc = "exited"    -> "exited"
    [] pc = "asserted"  -> "asserted"
    [] OTHER            -> "alive"

Promise == INSTANCE CursorList WITH
  Item <- Node, items <- chain, cursor <- CursorNow, next <- Upcoming,
  step <- yield_increment, healty <- verdict, life <- Life

\* Every call has the effect and the result the list promises.
ImplementsCursorList == Promise!Spec

=============================================================================
