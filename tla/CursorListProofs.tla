--------------------------- MODULE CursorListProofs ---------------------------
(***************************************************************************)
(* Theorems about what Queue promises its callers: the order and the       *)
(* completeness of a generator, and that Queue implements CursorList.      *)
(* They need ~EmptyBaseInsert: after an insertion on the base of an empty  *)
(* queue load_index no longer names the head.                              *)
(***************************************************************************)
EXTENDS QueueProofs

\* A new queue is as CursorList wants it; in a call on an empty queue, mark is the
\* index such a queue has.
Fresh ==
  /\ pc = "unborn" => yield_index = 0 /\ yield_increment = 1 /\ mark = -1
  /\ pc \in Loops /\ chain = <<>> => mark = -1

\* queue_yield is on its way to the index the generator has just left.
OnItsWay == pc = "index" /\ op = "queue_yield" => target = yield_index - yield_increment

CallInv == Fresh /\ OnItsWay

LEMMA NoDrift ==
  ASSUME ~EmptyBaseInsert, IInv PROVE drift = 0 /\ Position = load_index + 1
  BY DEF IInv, DriftInv, TypeOK, Position

LEMMA EmptyIndex == ASSUME IInv, chain = <<>> PROVE load_index = -1 /\ head = NULL
  BY DEF IInv, HeadInStep

\* A call is entered.
LEMMA EnteredStep ==
  ASSUME IInv, pc = "idle", mark' = load_index, chain' = chain, pc' # "unborn", OnItsWay'
  PROVE  CallInv'
  BY EmptyIndex DEF CallInv, Fresh

\* A call goes on or returns.
LEMMA RunningStep ==
  ASSUME CallInv, pc \in Loops, mark' = mark, chain' = chain, pc' # "unborn", OnItsWay'
  PROVE  CallInv'
  BY DEF CallInv, Fresh

LEMMA InitCallInv == Init => CallInv
  BY DEF Init, CallInv, Fresh, OnItsWay, Loops

LEMMA NextCallInv == IInv /\ CallInv /\ [Next]_vars => CallInv'
<1> SUFFICES ASSUME IInv, CallInv, [Next]_vars PROVE CallInv'
  OBVIOUS
<1>t. yield_index \in Int /\ yield_increment \in {-1, 1}
  BY DEF IInv, TypeOK
<1>a. CASE queue_fabric
  BY <1>a DEF queue_fabric, CallInv, Fresh, OnItsWay, Loops
<1>b. CASE queue_to_next \/ queue_to_back
  <2>1. OnItsWay'
    BY <1>b DEF queue_to_next, queue_to_back, Return, OnItsWay
  <2>2. QED
    BY <1>b, <2>1, EnteredStep DEF queue_to_next, queue_to_back, Enter, Return, history
<1>c. CASE \/ queue_to_top \/ queue_to_base
           \/ queue_insert_item_on_top \/ queue_insert_item_on_base
  <2>1. pc' \in {"top", "base"}
    BY <1>c DEF queue_to_top, queue_to_base, queue_insert_item_on_top,
       queue_insert_item_on_base, EnterLoop
  <2>2. OnItsWay'
    BY <2>1 DEF OnItsWay
  <2>3. QED
    BY <1>c, <2>1, <2>2, EnteredStep DEF queue_to_top, queue_to_base,
       queue_insert_item_on_top, queue_insert_item_on_base, EnterLoop, Enter, history
<1>d. ASSUME NEW i \in -1 .. load_size, queue_to_index(i) PROVE CallInv'
  <2>1. op' = "queue_to_index" /\ pc' \in {"index", "idle"}
    BY <1>d DEF queue_to_index, Enter, Return
  <2>2. OnItsWay'
    BY <2>1 DEF OnItsWay
  <2>3. QED
    BY <1>d, <2>1, <2>2, EnteredStep DEF queue_to_index, Enter, history
<1>e. CASE queue_start_generator_up \/ queue_start_generator_down
  <2>1. pc' = "idle" /\ pc = "idle"
    BY <1>e DEF queue_start_generator_up, queue_start_generator_down, StartGenerator, Enter
  <2>2. OnItsWay'
    BY <2>1 DEF OnItsWay
  <2>3. QED
    BY <1>e, <2>1, <2>2, EnteredStep DEF queue_start_generator_up,
       queue_start_generator_down, StartGenerator, Enter
<1>f. CASE queue_yield
  <2>1. pc' \in {"index", "idle"} /\ target' = yield_index
        /\ yield_index' = yield_index + yield_increment /\ yield_increment' = yield_increment
    BY <1>f DEF queue_yield, Return
  <2>2. OnItsWay'
    BY <1>t, <2>1 DEF OnItsWay
  <2>3. QED
    BY <1>f, <2>1, <2>2, EnteredStep DEF queue_yield, Enter
<1>g. CASE queue_is_healty \/ queue_destructor
  <2>1. op' # "queue_yield" /\ pc' # "unborn"
    BY <1>g DEF queue_is_healty, queue_destructor, HealthCheck, Enter, Answer
  <2>2. OnItsWay'
    BY <2>1 DEF OnItsWay
  <2>3. QED
    BY <1>g, <2>1, <2>2, EnteredStep DEF queue_is_healty, queue_destructor, HealthCheck,
       Enter, history
<1>h. CASE IndexStep
  <2>1. pc \in Loops /\ pc' = pc /\ mark' = mark /\ chain' = chain
        /\ UNCHANGED <<gen, target, op>>
    BY <1>h DEF IndexStep, Loops, history
  <2>2. OnItsWay' /\ pc' # "unborn"
    BY <2>1 DEF CallInv, OnItsWay, gen, Loops
  <2>3. QED
    BY <2>1, <2>2, RunningStep
<1>i. CASE \/ IndexReturn \/ MoveReturn \/ OutOfMemory
           \/ TopStep \/ BaseStep \/ ScanStart \/ ScanStep \/ ReapStart \/ ReapStep \/ ReapEnd
  <2>1. pc \in Loops /\ mark' = mark /\ chain' = chain /\ pc' \notin {"unborn", "index"}
    BY <1>i DEF IndexReturn, MoveReturn, OutOfMemory, ReadyToLink, TopStep, BaseStep,
       ScanStart, ScanStep, Answer, ReapStart, ReapStep, ReapEnd, Return, Loops, history
  <2>2. OnItsWay'
    BY <2>1 DEF OnItsWay
  <2>3. QED
    BY <2>1, <2>2, RunningStep
<1>j. CASE ScanEnd \/ HealthReturn
  <2>1. /\ pc \in Loops /\ mark' = mark /\ chain' = chain /\ pc' # "unborn"
        /\ op' = op /\ Checking
    BY <1>j DEF ScanEnd, HealthReturn, Answer, Loops, history, IInv, ControlInv
  <2>2. OnItsWay'
    BY <2>1 DEF OnItsWay, Checking
  <2>3. QED
    BY <2>1, <2>2, RunningStep
<1>k. ASSUME NEW n \in Node, NEW b \in {FALSE, NullData}, LinkOnTop(n, b) \/ LinkOnBase(n, b)
      PROVE  CallInv'
  <2>1. pc' = "idle"
    BY <1>k DEF LinkOnTop, LinkOnBase
  <2>2. QED
    BY <2>1 DEF CallInv, Fresh, OnItsWay, Loops
<1>l. CASE UNCHANGED vars
  BY <1>l DEF vars, gen, history, CallInv, Fresh, OnItsWay
<1>m. QED
  BY <1>a, <1>b, <1>c, <1>d, <1>e, <1>f, <1>g, <1>h, <1>i, <1>j, <1>k, <1>l
     DEF Next, Call, Run, IndexSpin, Terminated

-----------------------------------------------------------------------------
(* The generator. *)

Yielding == pc = "index" /\ op = "queue_yield"

\* The index of the k-th item yielded, when d more has been taken from the generator.
YieldedAt(k, d) == yield_index - yield_increment * (Len(yielded) - k + 1 + d)

Ordered(d) ==
  /\ \A k \in DOMAIN yielded :
       YieldedAt(k, d) + 1 \in DOMAIN chain /\ yielded[k] = chain[YieldedAt(k, d) + 1]
  /\ yield_increment = 1 => yield_index = Len(yielded) + d

LEMMA OrderIs == GeneratorOrder <=> (watch = "on" => Ordered(IF Yielding THEN 1 ELSE 0))
  BY DEF GeneratorOrder, Ordered, YieldedAt, Yielding

LEMMA OrderIsNext ==
  GeneratorOrder' <=> (watch' = "on" => (Ordered(1)' /\ Yielding') \/ (Ordered(0)' /\ ~Yielding'))
  BY DEF GeneratorOrder, Ordered, YieldedAt, Yielding

\* A step that does not touch the generator, or only appends items.
LEMMA OrderStill ==
  ASSUME TypeOK, GeneratorOrder, UNCHANGED <<yield_index, yield_increment, yielded>>,
         watch' = watch \/ watch' = "off", Yielding' <=> Yielding, chain' \in Seq(Node),
         \A i \in DOMAIN chain : i \in DOMAIN chain' /\ chain'[i] = chain[i]
  PROVE  GeneratorOrder'
<1> SUFFICES ASSUME watch' = "on"
             PROVE  (Ordered(1)' /\ Yielding') \/ (Ordered(0)' /\ ~Yielding')
  BY OrderIsNext
<1>1. \A k, d : YieldedAt(k, d)' = YieldedAt(k, d)
  BY DEF YieldedAt
<1>2. ASSUME NEW d, Ordered(d) PROVE Ordered(d)'
  BY <1>1, <1>2 DEF Ordered
<1>3. CASE Yielding
  BY <1>2, <1>3, OrderIs
<1>4. CASE ~Yielding
  BY <1>2, <1>4, OrderIs
<1>5. QED
  BY <1>3, <1>4

\* Taking one from the generator, or returning it, leaves the others where they are.
LEMMA SameIndex ==
  ASSUME NEW y \in Int, NEW i \in {-1, 1}, NEW n \in Nat, NEW k \in 1 .. n
  PROVE  /\ (y + i) - i * (n - k + 1 + 1) = y - i * (n - k + 1 + 0)
         /\ y - i * ((n + 1) - k + 1 + 0) = y - i * (n - k + 1 + 1)
         /\ y - i * ((n + 1) - (n + 1) + 1 + 0) = y - i
<1>1. CASE i = 1
  BY <1>1
<1>2. CASE i = -1
  BY <1>2
<1>3. QED
  BY <1>1, <1>2

LEMMA YieldTaken ==
  ASSUME IInv, GeneratorOrder, queue_yield PROVE GeneratorOrder'
<1>1. /\ pc = "idle" /\ op' = "queue_yield" /\ chain' = chain /\ yielded' = yielded
      /\ yield_index' = yield_index + yield_increment /\ yield_increment' = yield_increment
  BY DEF queue_yield, Enter
<1>2. /\ yield_index \in Int /\ yield_increment \in {-1, 1} /\ yielded \in Seq(Ptr)
  BY DEF IInv, TypeOK
<1> SUFFICES ASSUME watch' = "on" PROVE Ordered(1)' /\ Yielding'
  BY OrderIsNext
<1>3. pc' = "index" /\ watch = "on"
  BY DEF queue_yield
<1>4. Ordered(0)
  BY <1>1, <1>3, OrderIs DEF Yielding
<1>5. PICK n \in Nat : n = Len(yielded) /\ DOMAIN yielded = 1 .. n
  BY <1>2
<1>6. ASSUME NEW k \in 1 .. n PROVE YieldedAt(k, 1)' = YieldedAt(k, 0)
  BY <1>1, <1>2, <1>5, SameIndex DEF YieldedAt
<1>7. ASSUME NEW k \in DOMAIN yielded
      PROVE  YieldedAt(k, 1)' + 1 \in DOMAIN chain /\ yielded[k] = chain[YieldedAt(k, 1)' + 1]
  BY <1>4, <1>5, <1>6 DEF Ordered
<1>8. yield_increment = 1 => yield_index' = n + 1
  BY <1>1, <1>2, <1>4, <1>5 DEF Ordered
<1>9. Ordered(1)'
  BY <1>1, <1>5, <1>7, <1>8 DEF Ordered
<1>10. QED
  BY <1>1, <1>3, <1>9 DEF Yielding

LEMMA YieldReturned ==
  ASSUME ~EmptyBaseInsert, IInv, CallInv, GeneratorOrder, IndexReturn PROVE GeneratorOrder'
<1>1. /\ pc = "index" /\ pc' = "idle" /\ chain' = chain /\ watch' = watch /\ op' = op
      /\ target = load_index
      /\ UNCHANGED <<yield_index, yield_increment>>
  BY DEF IndexReturn, Return, gen
<1>2. /\ yield_index \in Int /\ yield_increment \in {-1, 1} /\ yielded \in Seq(Ptr)
      /\ head \in Ptr /\ load_index \in Int /\ TypeOK /\ chain \in Seq(Node)
  BY DEF IInv, TypeOK
<1>3. CASE ~(op = "queue_yield" /\ watch = "on")
  <2>1. yielded' = yielded /\ ~Yielding'
    BY <1>1, <1>3 DEF IndexReturn, Yielding
  <2>2. CASE watch # "on"
    BY <1>1, <2>2, OrderIsNext
  <2>3. CASE watch = "on"
    <3>1. ~Yielding
      BY <1>3, <2>3 DEF Yielding
    <3>2. QED
      BY <1>1, <1>2, <2>1, <3>1, OrderStill
  <2>4. QED
    BY <2>2, <2>3
<1>4. CASE op = "queue_yield" /\ watch = "on"
  <2>1. Yielding /\ ~Yielding' /\ yielded' = Append(yielded, head)
    BY <1>1, <1>4 DEF IndexReturn, Yielding
  <2>2. Ordered(1)
    BY <1>4, <2>1, OrderIs
  <2>3. PICK n \in Nat : n = Len(yielded) /\ DOMAIN yielded = 1 .. n
    BY <1>2
  <2>4. /\ Len(yielded') = n + 1 /\ DOMAIN yielded' = 1 .. n + 1 /\ yielded'[n + 1] = head
        /\ \A k \in 1 .. n : yielded'[k] = yielded[k]
    BY <1>2, <2>1, <2>3, AppendFacts
  <2>5. load_index = yield_index - yield_increment
    BY <1>1, <1>4 DEF CallInv, OnItsWay
  <2>6. load_index + 1 \in DOMAIN chain /\ head = chain[load_index + 1]
    <3>1. IndexInRange(load_index) /\ ChainLinked /\ HeadInStep
      BY <1>1 DEF IInv, ControlInv
    <3>2. chain # <<>>
      BY <1>2, <3>1 DEF IndexInRange, ChainLinked
    <3>3. QED
      BY <3>1, <3>2, NoDrift DEF HeadInStep
  <2>7. ASSUME NEW k \in 1 .. n
        PROVE  YieldedAt(k, 0)' = YieldedAt(k, 1)
    BY <1>1, <1>2, <2>3, <2>4, SameIndex DEF YieldedAt
  <2>8. YieldedAt(n + 1, 0)' = load_index
    BY <1>1, <1>2, <2>3, <2>4, <2>5 DEF YieldedAt
  <2>9. ASSUME NEW k \in 1 .. n + 1
        PROVE  /\ YieldedAt(k, 0)' + 1 \in DOMAIN chain
               /\ yielded'[k] = chain[YieldedAt(k, 0)' + 1]
    <3>1. CASE k = n + 1
      BY <2>4, <2>6, <2>8, <3>1
    <3>2. CASE k # n + 1
      <4>1. k \in 1 .. n
        BY <3>2
      <4>2. QED
        BY <2>2, <2>3, <2>4, <2>7, <4>1 DEF Ordered
    <3>3. QED
      BY <3>1, <3>2
  <2>10. yield_increment = 1 => yield_index = n + 1
    BY <2>2, <2>3 DEF Ordered
  <2>11. Ordered(0)'
    BY <1>1, <2>4, <2>9, <2>10 DEF Ordered
  <2>12. QED
    BY <2>1, <2>11, OrderIsNext
<1>5. QED
  BY <1>3, <1>4

LEMMA InitOrder == Init => GeneratorOrder
  BY DEF Init, GeneratorOrder

LEMMA NextOrder ==
  ASSUME ~EmptyBaseInsert
  PROVE  IInv /\ CallInv /\ GeneratorOrder /\ [Next]_vars => GeneratorOrder'
<1> SUFFICES ASSUME IInv, CallInv, GeneratorOrder, [Next]_vars PROVE GeneratorOrder'
  OBVIOUS
<1>t. TypeOK /\ TypeOK' /\ chain \in Seq(Node) /\ chain' \in Seq(Node)
  BY NextTypeOK DEF IInv, TypeOK
<1>s. ASSUME UNCHANGED <<gen, history>>, Yielding' <=> Yielding PROVE GeneratorOrder'
  BY <1>t, <1>s, OrderStill DEF gen, history
<1>a. CASE queue_start_generator_up \/ queue_start_generator_down
  <2>1. yielded' = <<>> /\ pc' = "idle"
        /\ (yield_increment' = 1 => yield_index' = 0)
    BY <1>a DEF queue_start_generator_up, queue_start_generator_down, StartGenerator, Enter
  <2>2. Ordered(0)' /\ ~Yielding'
    BY <2>1 DEF Ordered, Yielding
  <2>3. QED
    BY <2>2, OrderIsNext
<1>b. CASE queue_yield
  BY <1>b, YieldTaken
<1>c. CASE IndexReturn
  BY <1>c, YieldReturned
<1>d. ASSUME NEW n \in Node, NEW b \in {FALSE, NullData}, LinkOnTop(n, b)
      PROVE  GeneratorOrder'
  <2>1. /\ chain' = Append(chain, n) /\ pc = "top" /\ pc' = "idle"
        /\ UNCHANGED <<yield_index, yield_increment, yielded, watch>>
    BY <1>d DEF LinkOnTop, ReadyToLink, gen
  <2>2. \A i \in DOMAIN chain : i \in DOMAIN chain' /\ chain'[i] = chain[i]
    BY <1>t, <2>1
  <2>3. ~Yielding /\ ~Yielding'
    BY <2>1 DEF Yielding
  <2>4. QED
    BY <1>t, <2>1, <2>2, <2>3, OrderStill
<1>e. ASSUME NEW n \in Node, NEW b \in {FALSE, NullData}, LinkOnBase(n, b)
      PROVE  GeneratorOrder'
  BY <1>e DEF LinkOnBase, GeneratorOrder
<1>z. CASE queue_fabric
  <2>1. UNCHANGED <<gen, history>> /\ pc # "index" /\ pc' # "index"
    BY <1>z DEF queue_fabric, CallInv, Fresh, gen
  <2>2. QED
    BY <1>s, <2>1 DEF Yielding
<1>f. CASE \/ queue_to_next \/ queue_to_back \/ queue_to_top \/ queue_to_base
           \/ queue_insert_item_on_top \/ queue_insert_item_on_base
  <2>1. UNCHANGED <<gen, history>> /\ pc # "index" /\ pc' # "index"
    BY <1>f DEF queue_to_next, queue_to_back, queue_to_top, queue_to_base,
       queue_insert_item_on_top, queue_insert_item_on_base, EnterLoop, Enter, Return
  <2>2. QED
    BY <1>s, <2>1 DEF Yielding
<1>g. ASSUME NEW i \in -1 .. load_size, queue_to_index(i) PROVE GeneratorOrder'
  <2>1. UNCHANGED <<gen, history>> /\ pc = "idle" /\ op' = "queue_to_index"
    BY <1>g DEF queue_to_index, Enter
  <2>2. QED
    BY <1>s, <2>1 DEF Yielding
<1>h. CASE queue_is_healty \/ queue_destructor
  <2>1. UNCHANGED <<gen, history>> /\ pc = "idle" /\ op' # "queue_yield"
    BY <1>h DEF queue_is_healty, queue_destructor, HealthCheck, Enter
  <2>2. QED
    BY <1>s, <2>1 DEF Yielding
<1>i. CASE IndexStep
  <2>1. UNCHANGED <<gen, history, pc, op>>
    BY <1>i DEF IndexStep
  <2>2. QED
    BY <1>s, <2>1 DEF Yielding
<1>j. CASE \/ TopStep \/ BaseStep \/ MoveReturn \/ OutOfMemory \/ ScanStart \/ ScanStep
           \/ ReapStart \/ ReapStep \/ ReapEnd
  <2>1. UNCHANGED <<gen, history>> /\ pc # "index" /\ pc' # "index"
    BY <1>j DEF MoveReturn, OutOfMemory, ReadyToLink, TopStep, BaseStep,
       ScanStart, ScanStep, Answer, ReapStart, ReapStep, ReapEnd, Return
  <2>2. QED
    BY <1>s, <2>1 DEF Yielding
<1>k. CASE ScanEnd \/ HealthReturn
  <2>1. UNCHANGED <<gen, history, op>> /\ Checking
    BY <1>k DEF ScanEnd, HealthReturn, IInv, ControlInv
  <2>2. QED
    BY <1>s, <2>1 DEF Yielding, Checking
<1>l. CASE UNCHANGED vars
  BY <1>l, <1>s DEF vars, Yielding
<1>m. QED
  BY <1>a, <1>b, <1>c, <1>d, <1>e, <1>f, <1>g, <1>h, <1>i, <1>j, <1>k, <1>l, <1>z
     DEF Next, Call, Run, IndexSpin, Terminated

\* Once the first item of a queue goes in on its top, a generator yields
\* consecutive items in order, through moves of the head and insertions on the top.
THEOREM GeneratorOrdered ==
  ASSUME ~EmptyBaseInsert PROVE Spec => []GeneratorOrder
<1>1. Init => IInv /\ CallInv /\ GeneratorOrder
  BY InitIInv, InitCallInv, InitOrder
<1>2. IInv /\ CallInv /\ GeneratorOrder /\ [Next]_vars => (IInv /\ CallInv /\ GeneratorOrder)'
  BY NextIInv, NextCallInv, NextOrder
<1>3. QED
  BY <1>1, <1>2, PTL DEF Spec

\* Only a call to queue_yield lets a generator run dry.
LEMMA DriesInYield ==
  ASSUME [Next]_vars, watch = "on", watch' = "dry" PROVE queue_yield
<1>a. ASSUME \/ queue_fabric \/ queue_to_next \/ queue_to_back \/ queue_to_top \/ queue_to_base
             \/ queue_insert_item_on_top \/ queue_insert_item_on_base
             \/ queue_is_healty \/ queue_destructor
      PROVE  FALSE
  BY <1>a DEF queue_fabric, queue_to_next, queue_to_back, queue_to_top, queue_to_base,
     queue_insert_item_on_top, queue_insert_item_on_base, EnterLoop, queue_is_healty,
     queue_destructor, HealthCheck, history
<1>b. ASSUME \/ queue_start_generator_up \/ queue_start_generator_down PROVE FALSE
  BY <1>b DEF queue_start_generator_up, queue_start_generator_down, StartGenerator
<1>c. ASSUME NEW i \in -1 .. load_size, queue_to_index(i) PROVE FALSE
  BY <1>c DEF queue_to_index, history
<1>d. ASSUME NEW n \in Node, NEW b \in {FALSE, NullData}, LinkOnTop(n, b) \/ LinkOnBase(n, b)
      PROVE  FALSE
  BY <1>d DEF LinkOnTop, LinkOnBase
<1>e. ASSUME \/ IndexStep \/ IndexReturn \/ TopStep \/ BaseStep \/ MoveReturn \/ OutOfMemory
             \/ ScanStart \/ ScanStep \/ ScanEnd \/ HealthReturn
             \/ ReapStart \/ ReapStep \/ ReapEnd
      PROVE  FALSE
  BY <1>e DEF IndexStep, IndexReturn, TopStep, BaseStep, MoveReturn, OutOfMemory, ScanStart,
     ScanStep, ScanEnd, HealthReturn, ReapStart, ReapStep, ReapEnd, history
<1>f. ASSUME UNCHANGED vars PROVE FALSE
  BY <1>f DEF vars, history
<1>g. QED
  BY <1>a, <1>b, <1>c, <1>d, <1>e, <1>f DEF Next, Call, Run, IndexSpin, Terminated

LEMMA SameItems ==
  ASSUME NEW S, NEW T, NEW s \in Seq(S), NEW t \in Seq(T), Len(s) = Len(t),
         \A k \in DOMAIN s : s[k] = t[k]
  PROVE  s = t
  OBVIOUS

LEMMA DryIsComplete ==
  ASSUME IInv, GeneratorOrder, queue_yield, yield_increment = 1, watch = "on", watch' = "dry"
  PROVE  yielded = chain
<1>1. /\ yielded \in Seq(Ptr) /\ chain \in Seq(Node) /\ load_size = Len(chain)
      /\ yield_index \in Int
  BY DEF IInv, TypeOK, ChainLinked
<1>2. PICK n \in Nat : n = Len(yielded) /\ DOMAIN yielded = 1 .. n
  BY <1>1
<1>3. PICK m \in Nat : m = Len(chain) /\ DOMAIN chain = 1 .. m
  BY <1>1
<1>4. Ordered(0)
  BY OrderIs DEF queue_yield, Enter, Yielding
<1>5. yield_index = n
  BY <1>2, <1>4 DEF Ordered
<1>6. ASSUME NEW k \in 1 .. n PROVE k \in 1 .. m /\ yielded[k] = chain[k]
  <2>1. YieldedAt(k, 0) + 1 = k
    BY <1>2, <1>5 DEF YieldedAt
  <2>2. QED
    BY <1>2, <1>3, <1>4, <2>1 DEF Ordered
<1>7. ~(0 <= n /\ n < m) \/ head = NULL
  BY <1>1, <1>3, <1>5 DEF queue_yield, IndexInRange
<1>8. head = NULL => m = 0
  <2>1. chain # <<>> => head \in Node
    BY HeadPlace DEF IInv
  <2>2. QED
    BY <1>3, <2>1, QueueAssumption
<1>9. n = m
  <2>1. n # 0 => n \in 1 .. m
    BY <1>6
  <2>2. QED
    BY <1>7, <1>8, <2>1
<1>10. QED
  BY <1>1, <1>2, <1>3, <1>6, <1>9, SameItems

\* An upward generator that runs dry has yielded the whole queue.
THEOREM GeneratorCompletes ==
  ASSUME ~EmptyBaseInsert PROVE Spec => GeneratorComplete
<1>1. IInv /\ GeneratorOrder /\ [Next]_vars =>
        [yield_increment = 1 /\ watch = "on" /\ watch' = "dry" => yielded = chain]_vars
  BY DriesInYield, DryIsComplete
<1>2. QED
  BY Consistent, GeneratorOrdered, <1>1, PTL DEF Spec, GeneratorComplete

-----------------------------------------------------------------------------
(* Queue implements CursorList.                                             *)

\* Nothing a client of the list sees has changed.
Same == UNCHANGED <<chain, CursorNow, Upcoming, yield_increment, ret, verdict, Life>>

Simulated == Promise!Next \/ UNCHANGED Promise!vars

LEMMA Stutters == ASSUME Same PROVE Simulated
  BY DEF Same, Simulated, Promise!vars

LEMMA Alive == pc = "idle" \/ pc \in Loops => Life = "alive"
  BY DEF Life, Loops

LEMMA AliveNext == (pc' = "idle" \/ pc' \in Loops) => Life' = "alive"
  BY DEF Life, Loops

\* How the cursor is seen while a call is entered, runs, and returns.
LEMMA CursorEntered ==
  ASSUME pc = "idle", pc' \in Loops, mark' = load_index PROVE CursorNow' = CursorNow
  BY DEF CursorNow, Loops

LEMMA CursorRuns ==
  ASSUME pc # "idle", pc' # "idle", mark' = mark PROVE CursorNow' = CursorNow
  BY DEF CursorNow

LEMMA UpcomingStill ==
  ASSUME yield_index' = yield_index, Yielding' <=> Yielding, Yielding => target' = target
  PROVE  Upcoming' = Upcoming
  BY DEF Upcoming, Yielding

\* The cursor goes to position p, when there is one.
LEMMA Moves ==
  ASSUME Life = "alive", Life' = "alive",
         UNCHANGED <<chain, Upcoming, yield_increment, verdict>>, NEW p \in Int,
         \/ p \in DOMAIN chain /\ CursorNow' = p /\ ret' = chain[p]
         \/ p \notin DOMAIN chain /\ CursorNow' = CursorNow /\ ret' = NULL
  PROVE  Promise!Move(p)
  BY DEF Promise!Move, Promise!MoveTo, Promise!Nothing, Promise!Positions

\* The head, when the position and the index do not drift apart.
LEMMA HeadAt ==
  ASSUME ~EmptyBaseInsert, IInv
  PROVE  /\ load_index \in Int /\ Len(chain) \in Nat /\ DOMAIN chain = 1 .. Len(chain)
         /\ load_size = Len(chain)
         /\ chain # <<>> => /\ load_index + 1 \in DOMAIN chain /\ head = chain[load_index + 1]
                            /\ AtTop  <=> load_index + 1 = Len(chain)
                            /\ AtBase <=> load_index = 0
         /\ chain = <<>> => load_index = -1 /\ head = NULL /\ Len(chain) = 0 /\ AtTop /\ AtBase
<1>1. TypeOK /\ ChainLinked /\ HeadInStep /\ DriftInv /\ load_index \in Int /\ chain \in Seq(Node)
      /\ load_size = Len(chain)
  BY DEF IInv, TypeOK, ChainLinked
<1>2. Position = load_index + 1
  BY NoDrift
<1>3. Len(chain) \in Nat /\ DOMAIN chain = 1 .. Len(chain)
  BY <1>1
<1>4. CASE chain # <<>>
  BY <1>1, <1>2, <1>3, <1>4, HeadPlace
<1>5. CASE chain = <<>>
  BY <1>1, <1>3, <1>5, EmptyIndex, EmptyPlace
<1>6. QED
  BY <1>1, <1>3, <1>4, <1>5

LEMMA SimFabric ==
  ASSUME IInv, CallInv, queue_fabric PROVE Simulated
<1>1. /\ pc = "unborn" /\ mark = -1 /\ yield_index = 0 /\ yield_increment = 1
      /\ load_index' = -1 /\ yield_index' = 0 /\ yield_increment' = 1
      /\ UNCHANGED <<chain, ret, verdict, mark>>
      /\ pc' \in {"idle", "exited"}
  BY DEF queue_fabric, CallInv, Fresh, history
<1>2. CursorNow' = CursorNow /\ Upcoming' = Upcoming /\ Life = "unborn"
  BY <1>1 DEF CursorNow, Upcoming, Life
<1>3. CASE pc' = "idle"
  <2>1. Life' = "alive"
    BY <1>3 DEF Life
  <2>2. Promise!Create
    BY <1>1, <1>2, <2>1 DEF Promise!Create
  <2>3. QED
    BY <2>2 DEF Simulated, Promise!Next
<1>4. CASE pc' = "exited"
  <2>1. Life' = "exited"
    BY <1>4 DEF Life
  <2>2. Promise!OutOfMemory
    BY <1>1, <1>2, <2>1 DEF Promise!OutOfMemory
  <2>3. QED
    BY <2>2 DEF Simulated, Promise!Next
<1>5. QED
  BY <1>1, <1>3, <1>4

\* queue_to_next and queue_to_back.
LEMMA SimStep ==
  ASSUME ~EmptyBaseInsert, IInv, queue_to_next \/ queue_to_back PROVE Simulated
<1>1. /\ pc = "idle" /\ pc' = "idle" /\ UNCHANGED <<chain, yield_index, yield_increment, verdict>>
  BY DEF queue_to_next, queue_to_back, Enter, Return, gen, history
<1>2. /\ Life = "alive" /\ Life' = "alive" /\ Upcoming' = Upcoming
      /\ CursorNow = 1 + load_index /\ CursorNow' = 1 + load_index'
  BY <1>1, Alive, AliveNext DEF Upcoming, CursorNow
<1>3. TypeOK /\ ChainLinked /\ HeadInStep /\ Position = load_index + 1 /\ load_index \in Int
      /\ Position + 1 = load_index + 2 /\ Position - 1 = load_index
  BY NoDrift, HeadAt DEF IInv
<1>4. CASE queue_to_next
  <2>1. CASE ~AtTop
    <3>1. load_index' = load_index + 1 /\ ret' = up[head] /\ chain # <<>>
      BY <1>4, <2>1, HeadAt DEF queue_to_next, StepUp, Return
    <3>2. load_index + 2 \in DOMAIN chain /\ ret' = chain[load_index + 2]
      BY <1>3, <2>1, <3>1, HeadPlace, HeadAt
    <3>3. Promise!Move(load_index + 2)
      BY <1>1, <1>2, <1>3, <3>1, <3>2, Moves
    <3>4. QED
      BY <1>2, <1>3, <3>3 DEF Promise!ToNext, Simulated, Promise!Next
  <2>2. CASE AtTop
    <3>1. ret' = NULL /\ load_index' = load_index
      BY <1>4, <2>2 DEF queue_to_next, StepUp, Return, cursor
    <3>2. load_index + 2 \notin DOMAIN chain
      BY <2>2, HeadAt
    <3>3. Promise!Move(load_index + 2)
      BY <1>1, <1>2, <1>3, <3>1, <3>2, Moves
    <3>4. QED
      BY <1>2, <1>3, <3>3 DEF Promise!ToNext, Simulated, Promise!Next
  <2>3. QED
    BY <2>1, <2>2
<1>5. CASE queue_to_back
  <2>1. CASE ~AtBase
    <3>1. load_index' = load_index - 1 /\ ret' = down[head] /\ chain # <<>>
      BY <1>5, <2>1, HeadAt DEF queue_to_back, StepDown, Return
    <3>2. load_index \in DOMAIN chain /\ ret' = chain[load_index]
      BY <1>3, <2>1, <3>1, HeadPlace, HeadAt
    <3>3. Promise!Move(load_index)
      BY <1>1, <1>2, <1>3, <3>1, <3>2, Moves
    <3>4. QED
      BY <1>2, <1>3, <3>3 DEF Promise!ToBack, Simulated, Promise!Next
  <2>2. CASE AtBase
    <3>1. ret' = NULL /\ load_index' = load_index
      BY <1>5, <2>2 DEF queue_to_back, StepDown, Return, cursor
    <3>2. load_index \notin DOMAIN chain
      BY <2>2, HeadAt
    <3>3. Promise!Move(load_index)
      BY <1>1, <1>2, <1>3, <3>1, <3>2, Moves
    <3>4. QED
      BY <1>2, <1>3, <3>3 DEF Promise!ToBack, Simulated, Promise!Next
  <2>3. QED
    BY <2>1, <2>2
<1>6. QED
  BY <1>4, <1>5

\* A call that moves the head in a loop, or checks, is entered.
LEMMA SimEnter ==
  ASSUME pc = "idle", pc' \in {"top", "base"}, mark' = load_index,
         UNCHANGED <<chain, yield_index, yield_increment, ret, verdict>>
  PROVE  Simulated
<1>1. CursorNow' = CursorNow
  BY CursorEntered DEF Loops
<1>2. Upcoming' = Upcoming
  BY DEF Upcoming
<1>3. Life' = Life
  BY Alive, AliveNext DEF Loops
<1>4. QED
  BY <1>1, <1>2, <1>3, Stutters DEF Same

\* A loop goes on.
LEMMA SimLoop ==
  ASSUME pc \in Loops, pc' \in Loops, mark' = mark, Yielding' <=> Yielding,
         UNCHANGED <<chain, yield_index, yield_increment, target, ret, verdict>>
  PROVE  Simulated
<1>1. CursorNow' = CursorNow
  BY CursorRuns DEF Loops
<1>2. Upcoming' = Upcoming
  BY UpcomingStill
<1>3. Life' = Life
  BY Alive, AliveNext
<1>4. QED
  BY <1>1, <1>2, <1>3, Stutters DEF Same

LEMMA SimToIndex ==
  ASSUME ~EmptyBaseInsert, IInv, NEW i \in -1 .. load_size, queue_to_index(i) PROVE Simulated
<1>1. /\ pc = "idle" /\ mark' = load_index /\ op' = "queue_to_index"
      /\ UNCHANGED <<chain, yield_index, yield_increment, verdict, load_index>>
  BY DEF queue_to_index, Enter, cursor, gen, history
<1>2. Upcoming' = Upcoming
  BY <1>1 DEF Upcoming
<1>3. CASE head # NULL /\ IndexInRange(i)
  <2>1. pc' = "index" /\ ret' = ret
    BY <1>3 DEF queue_to_index
  <2>2. CursorNow' = CursorNow /\ Life' = Life
    BY <1>1, <2>1, CursorEntered, Alive, AliveNext DEF Loops
  <2>3. QED
    BY <1>1, <1>2, <2>1, <2>2, Stutters DEF Same
<1>4. CASE ~(head # NULL /\ IndexInRange(i))
  <2>1. pc' = "idle" /\ ret' = NULL
    BY <1>4 DEF queue_to_index, Return
  <2>2. CursorNow' = CursorNow /\ Life = "alive" /\ Life' = "alive"
    BY <1>1, <2>1, Alive, AliveNext DEF CursorNow
  <2>3. i + 1 \notin DOMAIN chain
    <3>1. CASE head = NULL
      <4>1. chain # <<>> => head \in Node
        BY HeadPlace DEF IInv
      <4>2. QED
        BY <3>1, <4>1, HeadAt, QueueAssumption
    <3>2. CASE ~IndexInRange(i)
      BY <3>2, HeadAt DEF IndexInRange
    <3>3. QED
      BY <1>4, <3>1, <3>2
  <2>4. Promise!ToIndex(i)
    BY <1>1, <1>2, <2>1, <2>2, <2>3, Moves DEF Promise!ToIndex
  <2>5. QED
    BY <2>4, HeadAt DEF Simulated, Promise!Next
<1>5. QED
  BY <1>3, <1>4

LEMMA SimYield ==
  ASSUME ~EmptyBaseInsert, IInv, queue_yield PROVE Simulated
<1>1. /\ pc = "idle" /\ mark' = load_index /\ op' = "queue_yield" /\ target' = yield_index
      /\ yield_index' = yield_index + yield_increment
      /\ UNCHANGED <<chain, yield_increment, verdict, load_index>>
  BY DEF queue_yield, Enter, cursor
<1>2. Upcoming = yield_index /\ yield_index \in Int /\ CursorNow = 1 + load_index
  BY <1>1 DEF Upcoming, CursorNow, IInv, TypeOK
<1>3. CASE head # NULL /\ IndexInRange(yield_index)
  <2>1. pc' = "index" /\ ret' = ret
    BY <1>3 DEF queue_yield
  <2>2. CursorNow' = CursorNow /\ Life' = Life
    BY <1>1, <2>1, CursorEntered, Alive, AliveNext DEF Loops
  <2>3. Upcoming' = Upcoming
    BY <1>1, <1>2, <2>1 DEF Upcoming
  <2>4. QED
    BY <1>1, <2>1, <2>2, <2>3, Stutters DEF Same
<1>4. CASE ~(head # NULL /\ IndexInRange(yield_index))
  <2>1. pc' = "idle" /\ ret' = NULL
    BY <1>4 DEF queue_yield, Return
  <2>2. CursorNow' = CursorNow /\ Life = "alive" /\ Life' = "alive" /\ Upcoming' = yield_index'
    BY <1>1, <2>1, Alive, AliveNext DEF CursorNow, Upcoming
  <2>3. yield_index + 1 \notin DOMAIN chain
    <3>1. CASE head = NULL
      <4>1. chain # <<>> => head \in Node
        BY HeadPlace DEF IInv
      <4>2. QED
        BY <3>1, <4>1, HeadAt, QueueAssumption
    <3>2. CASE ~IndexInRange(yield_index)
      BY <1>2, <3>2, HeadAt DEF IndexInRange
    <3>3. QED
      BY <1>4, <3>1, <3>2
  <2>4. Promise!Yield
    BY <1>1, <1>2, <2>1, <2>2, <2>3 DEF Promise!Yield, Promise!Nothing, Promise!Positions
  <2>5. QED
    BY <2>4 DEF Simulated, Promise!Next
<1>5. QED
  BY <1>3, <1>4

LEMMA SimStart ==
  ASSUME IInv, queue_start_generator_up \/ queue_start_generator_down PROVE Simulated
<1>1. /\ pc = "idle" /\ pc' = "idle"
      /\ UNCHANGED <<chain, ret, verdict, load_index>>
      /\ \/ yield_index' = 0 /\ yield_increment' = 1
         \/ yield_index' = load_index - 1 /\ yield_increment' = -1
  BY DEF queue_start_generator_up, queue_start_generator_down, StartGenerator, Enter, cursor
<1>2. /\ CursorNow' = CursorNow /\ CursorNow = 1 + load_index /\ Upcoming' = yield_index'
      /\ Life = "alive" /\ Life' = "alive"
  BY <1>1, Alive, AliveNext DEF Upcoming, CursorNow
<1>3. load_index \in Int
  BY DEF IInv, TypeOK
<1>4. load_index - 1 = CursorNow - 2
  BY <1>2, <1>3
<1>5. Promise!StartUp \/ Promise!StartDown
  BY <1>1, <1>2, <1>4 DEF Promise!StartUp, Promise!StartDown, Promise!Start
<1>6. QED
  BY <1>5 DEF Simulated, Promise!Next

\* queue_to_index and queue_yield reach their item.
LEMMA SimIndexReturn ==
  ASSUME ~EmptyBaseInsert, IInv, CallInv, IndexReturn PROVE Simulated
<1>1. /\ pc = "index" /\ pc' = "idle" /\ ret' = head /\ op' = op /\ target = load_index
      /\ op \in {"queue_to_index", "queue_yield"}
      /\ UNCHANGED <<chain, yield_index, yield_increment, verdict, load_index>>
  BY DEF IndexReturn, Return, cursor, gen
<1>2. /\ CursorNow' = 1 + load_index /\ Upcoming' = yield_index
      /\ Life = "alive" /\ Life' = "alive"
  BY <1>1, Alive, AliveNext DEF Upcoming, CursorNow, Loops
<1>3. IndexInRange(load_index)
  BY <1>1 DEF IInv, ControlInv
<1>4. /\ load_index \in -1 .. Len(chain) /\ load_index \in Int
      /\ load_index + 1 \in DOMAIN chain /\ head = chain[load_index + 1]
      /\ 1 + load_index = load_index + 1
  BY <1>3, HeadAt DEF IndexInRange
<1>5. CASE op = "queue_to_index"
  <2>1. Upcoming = yield_index
    BY <1>5 DEF Upcoming
  <2>2. Promise!ToIndex(load_index)
    BY <1>1, <1>2, <1>4, <2>1, Moves DEF Promise!ToIndex
  <2>3. QED
    BY <1>4, <2>2 DEF Simulated, Promise!Next
<1>6. CASE op = "queue_yield"
  <2>1. Upcoming = load_index /\ load_index = yield_index - yield_increment
    BY <1>1, <1>6 DEF Upcoming, CallInv, OnItsWay
  <2>2. yield_index \in Int /\ yield_increment \in Int
    BY DEF IInv, TypeOK
  <2>3. yield_index = Upcoming + yield_increment
    BY <2>1, <2>2
  <2>4. Promise!MoveTo(Upcoming + 1)
    BY <1>1, <1>2, <1>4, <2>1 DEF Promise!MoveTo, Promise!Positions
  <2>5. Promise!Yield
    BY <1>1, <1>2, <2>3, <2>4 DEF Promise!Yield
  <2>6. QED
    BY <2>5 DEF Simulated, Promise!Next
<1>7. QED
  BY <1>1, <1>5, <1>6

\* queue_to_top and queue_to_base are over.
LEMMA SimMoveReturn ==
  ASSUME ~EmptyBaseInsert, IInv, CallInv, MoveReturn PROVE Simulated
<1>1. /\ pc \in {"top", "base"} /\ pc' = "idle" /\ ret' = head
      /\ UNCHANGED <<chain, yield_index, yield_increment, verdict, load_index>>
      /\ (op = "queue_to_top" /\ AtTop) \/ (op = "queue_to_base" /\ AtBase)
  BY DEF MoveReturn, Return, cursor, gen, history
<1>2. /\ CursorNow' = 1 + load_index /\ Upcoming' = Upcoming
      /\ Life = "alive" /\ Life' = "alive"
  BY <1>1, Alive, AliveNext DEF Upcoming, CursorNow, Loops
<1>3. chain = <<>> => /\ CursorNow' = CursorNow /\ ret' = NULL
                      /\ Len(chain) \notin DOMAIN chain /\ 1 \notin DOMAIN chain
  <2>1. chain = <<>> => mark = -1 /\ load_index = -1 /\ head = NULL /\ Len(chain) = 0
    BY <1>1, HeadAt DEF CallInv, Fresh, Loops
  <2>2. chain = <<>> => CursorNow = 1 + mark
    BY <1>1 DEF CursorNow
  <2>3. QED
    BY <1>1, <1>2, <2>1, <2>2, HeadAt
<1>4. CASE op = "queue_to_top"
  <2>1. chain # <<>> => CursorNow' = Len(chain) /\ Len(chain) \in DOMAIN chain
                        /\ ret' = chain[Len(chain)]
    BY <1>1, <1>2, <1>4, HeadAt
  <2>2. Promise!Move(Len(chain))
    BY <1>1, <1>2, <1>3, <2>1, HeadAt, Moves
  <2>3. QED
    BY <2>2 DEF Promise!ToTop, Simulated, Promise!Next
<1>5. CASE op = "queue_to_base"
  <2>1. chain # <<>> => CursorNow' = 1 /\ 1 \in DOMAIN chain /\ ret' = chain[1]
    BY <1>1, <1>2, <1>5, HeadAt
  <2>2. Promise!Move(1)
    BY <1>1, <1>2, <1>3, <2>1, Moves
  <2>3. QED
    BY <2>2 DEF Promise!ToBase, Simulated, Promise!Next
<1>6. QED
  BY <1>1, <1>4, <1>5

LEMMA SimOutOfMemory ==
  ASSUME OutOfMemory PROVE Simulated
<1>1. /\ pc \in {"top", "base"} /\ pc' = "exited" /\ mark' = mark
      /\ UNCHANGED <<chain, yield_index, yield_increment, ret, verdict>>
  BY DEF OutOfMemory, ReadyToLink, gen, history
<1>2. /\ CursorNow' = CursorNow /\ Upcoming' = Upcoming
      /\ Life = "alive" /\ Life' = "exited"
  BY <1>1 DEF Upcoming, CursorNow, Life
<1>3. Promise!OutOfMemory
  BY <1>1, <1>2 DEF Promise!OutOfMemory
<1>4. QED
  BY <1>3 DEF Simulated, Promise!Next

\* The new item is linked, and the head is on it.
LEMMA SimLink ==
  ASSUME ~EmptyBaseInsert, IInv, NEW n \in Node, NEW b \in {FALSE, NullData},
         LinkOnTop(n, b) \/ LinkOnBase(n, b)
  PROVE  Simulated
<1>1. /\ pc \in {"top", "base"} /\ pc' = "idle"
      /\ UNCHANGED <<yield_index, yield_increment, ret, verdict>>
  BY DEF LinkOnTop, LinkOnBase, ReadyToLink, gen
<1>2. /\ CursorNow' = 1 + load_index' /\ Upcoming' = Upcoming
      /\ Life = "alive" /\ Life' = "alive"
  BY <1>1, Alive, AliveNext DEF Upcoming, CursorNow, Loops
<1>3. CASE LinkOnTop(n, b)
  <2>1. AtTop /\ load_index' = load_index + 1 /\ chain' = Append(chain, n)
    BY <1>3 DEF LinkOnTop, ReadyToLink, CountOnTop
  <2>2. 1 + load_index' = Len(chain) + 1
    BY <2>1, HeadAt
  <2>3. Promise!AppendItem(n)
    BY <1>1, <1>2, <2>1, <2>2 DEF Promise!AppendItem
  <2>4. QED
    BY <2>3 DEF Simulated, Promise!Next
<1>4. CASE LinkOnBase(n, b)
  <2>1. AtBase /\ load_index' = load_index /\ chain' = <<n>> \o chain
        /\ pc = "base" /\ op = "queue_insert_item_on_base"
    BY <1>4 DEF LinkOnBase, ReadyToLink
  <2>2. chain # <<>>
    BY <2>1, HeadAt DEF IInv, ControlInv, queue_is_empty
  <2>3. load_index = 0
    BY <2>1, <2>2, HeadAt
  <2>4. Promise!PrependItem(n)
    BY <1>1, <1>2, <2>1, <2>3 DEF Promise!PrependItem
  <2>5. QED
    BY <2>4 DEF Simulated, Promise!Next
<1>5. QED
  BY <1>3, <1>4

\* A health check, asked or asserted, begins: the tests before the walk succeed.
LEMMA SimCheck ==
  ASSUME ~EmptyBaseInsert, IInv, queue_is_healty \/ queue_destructor PROVE Simulated
<1>1. /\ pc = "idle" /\ mark' = load_index
      /\ UNCHANGED <<chain, yield_index, yield_increment, ret, load_index>>
  BY DEF queue_is_healty, queue_destructor, HealthCheck, Enter, cursor, gen, history
<1>2. /\ queue_is_empty => EmptyIsHealty
      /\ ~queue_is_empty => IndexInRange(load_index)
  BY FirstTests, NoDrift DEF IInv
<1>3. CASE queue_is_healty /\ queue_is_empty
  <2>1. pc' = "idle" /\ verdict' = TRUE
    BY <1>2, <1>3 DEF queue_is_healty, HealthCheck, Answer
  <2>2. /\ CursorNow' = CursorNow /\ Upcoming' = Upcoming
        /\ Life = "alive" /\ Life' = "alive"
    BY <1>1, <2>1, Alive, AliveNext DEF Upcoming, CursorNow
  <2>3. Promise!CheckHealth
    BY <1>1, <2>1, <2>2 DEF Promise!CheckHealth
  <2>4. QED
    BY <2>3 DEF Simulated, Promise!Next
<1>4. CASE ~(queue_is_healty /\ queue_is_empty)
  <2>1. CASE queue_is_empty
    <3>1. pc' = "top" /\ verdict' = verdict
      BY <1>2, <1>4, <2>1 DEF queue_destructor, HealthCheck, Answer
    <3>2. QED
      BY <1>1, <3>1, SimEnter
  <2>2. CASE ~queue_is_empty
    <3>1. pc' = "base" /\ verdict' = verdict
      BY <1>2, <2>2 DEF queue_is_healty, queue_destructor, HealthCheck
    <3>2. QED
      BY <1>1, <3>1, SimEnter
  <2>3. QED
    BY <2>1, <2>2
<1>5. QED
  BY <1>3, <1>4

\* The walk is over, and the head is back.
LEMMA SimHealthReturn ==
  ASSUME IInv, HealthReturn PROVE Simulated
<1>1. /\ pc = "index" /\ Checking /\ target = load_index /\ mark = load_index
      /\ op' = op
      /\ UNCHANGED <<chain, yield_index, yield_increment, target, ret, load_index, mark>>
  BY DEF HealthReturn, IInv, ControlInv, cursor, gen, history
<1>2. CASE op = "queue_is_healty"
  <2>1. pc' = "idle" /\ verdict' = TRUE
    BY <1>2 DEF HealthReturn, Answer
  <2>2. /\ CursorNow' = CursorNow /\ Upcoming' = Upcoming
        /\ Life = "alive" /\ Life' = "alive"
    BY <1>1, <1>2, <2>1, Alive, AliveNext DEF Upcoming, CursorNow, Loops
  <2>3. Promise!CheckHealth
    BY <1>1, <2>1, <2>2 DEF Promise!CheckHealth
  <2>4. QED
    BY <2>3 DEF Simulated, Promise!Next
<1>3. CASE op # "queue_is_healty"
  <2>1. pc' = "top" /\ verdict' = verdict
    BY <1>3 DEF HealthReturn, Answer
  <2>2. ~Yielding /\ ~Yielding'
    BY <1>1, <2>1 DEF Yielding, Checking
  <2>3. QED
    BY <1>1, <2>1, <2>2, SimLoop DEF Loops
<1>4. QED
  BY <1>2, <1>3

LEMMA SimReapEnd ==
  ASSUME ReapEnd PROVE Simulated
<1>1. /\ pc = "reap" /\ pc' = "destroyed" /\ mark' = mark
      /\ UNCHANGED <<chain, yield_index, yield_increment, ret, verdict>>
  BY DEF ReapEnd, gen, history
<1>2. /\ CursorNow' = CursorNow /\ Upcoming' = Upcoming
      /\ Life = "alive" /\ Life' = "gone"
  BY <1>1 DEF Upcoming, CursorNow, Life
<1>3. Promise!Destroy
  BY <1>1, <1>2 DEF Promise!Destroy
<1>4. QED
  BY <1>3 DEF Simulated, Promise!Next

LEMMA InitSimulated == Init => Promise!Init
<1> SUFFICES ASSUME Init PROVE Promise!Init
  OBVIOUS
<1>1. CursorNow = 0 /\ Upcoming = 0 /\ Life = "unborn"
  BY DEF Init, CursorNow, Upcoming, Life
<1>2. QED
  BY <1>1 DEF Init, Promise!Init

\* Every step of the linked queue is a call of the list, or nothing it sees.
LEMMA NextSimulated ==
  ASSUME ~EmptyBaseInsert, IInv, CallInv, [Next]_vars PROVE Simulated
<1>a. CASE queue_fabric
  BY <1>a, SimFabric
<1>b. CASE queue_to_next \/ queue_to_back
  BY <1>b, SimStep
<1>c. CASE \/ queue_to_top \/ queue_to_base
           \/ queue_insert_item_on_top \/ queue_insert_item_on_base
  <2>1. /\ pc = "idle" /\ pc' \in {"top", "base"} /\ mark' = load_index
        /\ UNCHANGED <<chain, yield_index, yield_increment, ret, verdict>>
    BY <1>c DEF queue_to_top, queue_to_base, queue_insert_item_on_top,
       queue_insert_item_on_base, EnterLoop, Enter, gen, history
  <2>2. QED
    BY <2>1, SimEnter
<1>d. ASSUME NEW i \in -1 .. load_size, queue_to_index(i) PROVE Simulated
  BY <1>d, SimToIndex
<1>e. CASE queue_start_generator_up \/ queue_start_generator_down
  BY <1>e, SimStart
<1>f. CASE queue_yield
  BY <1>f, SimYield
<1>g. CASE queue_is_healty \/ queue_destructor
  BY <1>g, SimCheck
<1>h. CASE IndexStep \/ TopStep \/ BaseStep \/ ReapStep
  <2>1. /\ pc \in Loops /\ pc' = pc /\ op' = op /\ mark' = mark
        /\ UNCHANGED <<chain, yield_index, yield_increment, target, ret, verdict>>
    BY <1>h DEF IndexStep, TopStep, BaseStep, ReapStep, Loops, gen, history
  <2>2. QED
    BY <2>1, SimLoop DEF Yielding
<1>i. CASE ScanStep
  <2>1. LinksAgree(up[head])
    BY <1>i, WalkAgrees DEF ScanStep, StepUp, IInv
  <2>2. /\ pc = "scan" /\ pc' = pc /\ mark' = mark
        /\ UNCHANGED <<chain, yield_index, yield_increment, target, ret, verdict>>
    BY <1>i, <2>1 DEF ScanStep, gen, history
  <2>3. QED
    BY <2>2, SimLoop DEF Yielding, Loops
<1>j. CASE ScanStart \/ ScanEnd \/ ReapStart
  <2>1. /\ pc \in Loops /\ pc' \in Loops /\ op' = op /\ mark' = mark
        /\ op # "queue_yield"
        /\ UNCHANGED <<chain, yield_index, yield_increment, target, ret, verdict>>
    BY <1>j DEF ScanStart, ScanEnd, ReapStart, Checking, Loops, gen, history, IInv, ControlInv
  <2>2. QED
    BY <2>1, SimLoop DEF Yielding
<1>k. CASE IndexReturn
  BY <1>k, SimIndexReturn
<1>l. CASE MoveReturn
  BY <1>l, SimMoveReturn
<1>m. CASE OutOfMemory
  BY <1>m, SimOutOfMemory
<1>n. ASSUME NEW n \in Node, NEW b \in {FALSE, NullData}, LinkOnTop(n, b) \/ LinkOnBase(n, b)
      PROVE  Simulated
  BY <1>n, SimLink
<1>o. CASE HealthReturn
  BY <1>o, SimHealthReturn
<1>p. CASE ReapEnd
  BY <1>p, SimReapEnd
<1>q. CASE UNCHANGED vars
  BY <1>q, Stutters DEF vars, gen, history, Same, CursorNow, Upcoming, Life, cursor
<1>r. QED
  BY <1>a, <1>b, <1>c, <1>d, <1>e, <1>f, <1>g, <1>h, <1>i, <1>j, <1>k, <1>l, <1>m, <1>n,
     <1>o, <1>p, <1>q
     DEF Next, Call, Run, IndexSpin, Terminated

\* The linked queue keeps what CursorList promises: every call has the effect
\* and the result it would have on a sequence with a cursor and one generator.
THEOREM ListImplemented ==
  ASSUME ~EmptyBaseInsert PROVE Spec => ImplementsCursorList
<1>1. Init => IInv /\ CallInv /\ Promise!Init
  BY InitIInv, InitCallInv, InitSimulated
<1>2. IInv /\ CallInv /\ [Next]_vars => (IInv /\ CallInv)'
  BY NextIInv, NextCallInv
<1>3. IInv /\ CallInv /\ [Next]_vars => [Promise!Next]_(Promise!vars)
  BY NextSimulated DEF Simulated
<1>4. QED
  BY <1>1, <1>2, <1>3, PTL DEF Spec, ImplementsCursorList, Promise!Spec

===============================================================================
