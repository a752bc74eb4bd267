----------------------------- MODULE QueueProofs -----------------------------
(***************************************************************************)
(* Theorems about Queue, for every set of cells and every use of the API.  *)
(***************************************************************************)
EXTENDS Queue, TLAPS

-----------------------------------------------------------------------------
(* Type correctness. *)

LEMMA EmptyTuple == \A S : <<>> \in Seq(S)
  OBVIOUS

LEMMA InitTypeOK == Init => TypeOK
  BY QueueAssumption DEF Init, TypeOK, Ptr, Calls

LEMMA NextTypeOK == TypeOK /\ [Next]_vars => TypeOK'
<1> SUFFICES ASSUME TypeOK, [Next]_vars PROVE TypeOK'
  OBVIOUS
<1> USE QueueAssumption DEF TypeOK, Ptr, Loops, Over
<1>a. CASE queue_fabric
  BY <1>a DEF queue_fabric, heap, history, Over
<1>b. CASE queue_to_next
  BY <1>b DEF queue_to_next, Enter, Return, StepUp, AtTop, heap, gen, history,
     cursor, Calls
<1>c. CASE queue_to_back
  BY <1>c DEF queue_to_back, Enter, Return, StepDown, AtBase, heap, gen, history,
     cursor, Calls
<1>d. CASE \E i \in -1 .. load_size : queue_to_index(i)
  BY <1>d DEF queue_to_index, Enter, Return, heap, cursor, gen, history, Calls
<1>e. CASE queue_start_generator_up \/ queue_start_generator_down
  <2>1. yield_index' \in Int /\ yield_increment' \in {-1, 1} /\ op' \in Calls
    BY <1>e DEF queue_start_generator_up, queue_start_generator_down, StartGenerator,
       Enter, Calls
  <2>2. yielded' \in Seq(Ptr) /\ watch' = "on" /\ mark' = load_index
    BY <1>e, EmptyTuple DEF queue_start_generator_up, queue_start_generator_down, StartGenerator,
       Enter
  <2>3. UNCHANGED <<up, down, blank, allocated, load_size, load_index, head, pc,
                    target, ret, verdict, chain, drift>>
    BY <1>e DEF queue_start_generator_up, queue_start_generator_down, StartGenerator,
       heap, cursor
  <2>4. QED
    BY <2>1, <2>2, <2>3
<1>f. CASE queue_yield
  BY <1>f DEF queue_yield, Enter, Return, heap, cursor, Calls
<1>g. CASE queue_to_top \/ queue_to_base \/ queue_insert_item_on_top
             \/ queue_insert_item_on_base
  BY <1>g DEF queue_to_top, queue_to_base, queue_insert_item_on_top,
     queue_insert_item_on_base, EnterLoop, Enter, heap, cursor, gen, history,
     Calls
<1>h. CASE queue_is_healty \/ queue_destructor
  BY <1>h DEF queue_is_healty, queue_destructor, HealthCheck, Answer, Enter, heap,
     cursor, gen, history, Calls, Loops, Over, EmptyIsHealty
<1>i. CASE IndexStep
  BY <1>i DEF IndexStep, StepUp, StepDown, AtTop, AtBase, heap, gen, history
<1>j. CASE IndexReturn
  BY <1>j DEF IndexReturn, Return, heap, gen, cursor
<1>k. CASE TopStep \/ BaseStep
  BY <1>k DEF TopStep, BaseStep, StepUp, StepDown, AtTop, AtBase, heap, gen, history
<1>l. CASE MoveReturn \/ OutOfMemory
  BY <1>l DEF MoveReturn, OutOfMemory, Return, heap, cursor, gen, history, Over
<1>m. ASSUME NEW n \in Node, NEW b \in {FALSE, NullData}, LinkOnTop(n, b)
      PROVE  TypeOK'
  BY <1>m DEF LinkOnTop, queue_item_fabric, HangAbove, CountOnTop, gen
<1>n. ASSUME NEW n \in Node, NEW b \in {FALSE, NullData}, LinkOnBase(n, b)
      PROVE  TypeOK'
  BY <1>n DEF LinkOnBase, queue_item_fabric, HangBelow, gen
<1>o. CASE ScanStart \/ ScanEnd \/ ReapStart
  BY <1>o DEF ScanStart, ScanEnd, ReapStart, heap, cursor, gen, history
<1>p. CASE ScanStep
  <2>1. UNCHANGED <<pc, verdict>> \/ Answer(op, FALSE)
    BY <1>p DEF ScanStep
  <2>2. pc' \in {"unborn", "idle"} \cup Loops \cup Over /\ verdict' \in BOOLEAN
    BY <2>1 DEF Answer
  <2>3. QED
    BY <1>p, <2>2 DEF ScanStep, StepUp, AtTop, heap, gen, history
<1>q. CASE HealthReturn
  BY <1>q DEF HealthReturn, Answer, heap, cursor, gen, history, Loops, Over
<1>r. CASE ReapStep
  BY <1>r DEF ReapStep, StepDown, AtBase, queue_item_destructor, gen, history
<1>s. CASE ReapEnd
  BY <1>s DEF ReapEnd, queue_item_destructor, cursor, gen, history, Over
<1>t. CASE UNCHANGED vars
  BY <1>t DEF vars, heap, cursor, gen, history
<1>u. QED
  BY <1>a, <1>b, <1>c, <1>d, <1>e, <1>f, <1>g, <1>h, <1>i, <1>j, <1>k, <1>l, <1>m,
     <1>n, <1>o, <1>p, <1>q, <1>r, <1>s, <1>t
     DEF Next, Call, Run, IndexSpin, Terminated

\* Every field and local keeps its type in every behaviour.
THEOREM TypeCorrect == Spec => []TypeOK
  BY InitTypeOK, NextTypeOK, PTL DEF Spec

-----------------------------------------------------------------------------
(* Where the head is. *)

\* The tests queue_to_next and queue_to_back make on the links tell exactly
\* whether the head is the last item or the first.
LEMMA HeadPlace ==
  ASSUME TypeOK, ChainLinked, HeadInStep, chain # <<>>
  PROVE  /\ Position \in 1 .. Len(chain) /\ head = chain[Position] /\ head \in Node
         /\ AtTop <=> Position = Len(chain)
         /\ AtBase <=> Position = 1
         /\ ~AtTop => Position + 1 \in 1 .. Len(chain) /\ up[head] = chain[Position + 1]
         /\ ~AtBase => Position - 1 \in 1 .. Len(chain) /\ down[head] = chain[Position - 1]
<1>1. Position \in 1 .. Len(chain) /\ head = chain[Position] /\ head \in Node
  BY DEF TypeOK, HeadInStep, Position
<1>2. /\ up[head]   = IF Position = Len(chain) THEN NULL ELSE chain[Position + 1]
      /\ down[head] = IF Position = 1 THEN NULL ELSE chain[Position - 1]
  <2>1. Position \in DOMAIN chain
    BY <1>1 DEF TypeOK
  <2>2. QED
    BY <1>1, <2>1 DEF ChainLinked
<1>3. Position # Len(chain) => Position + 1 \in 1 .. Len(chain) /\ chain[Position + 1] \in Node
  BY <1>1 DEF TypeOK
<1>4. Position # 1 => Position - 1 \in 1 .. Len(chain) /\ chain[Position - 1] \in Node
  BY <1>1 DEF TypeOK
<1>5. QED
  BY <1>1, <1>2, <1>3, <1>4, QueueAssumption DEF AtTop, AtBase

\* In an empty queue there is nowhere to move.
LEMMA EmptyPlace ==
  ASSUME TypeOK, HeadInStep, DriftInv, chain = <<>>
  PROVE  head = NULL /\ AtTop /\ AtBase /\ Position = 0
  BY DEF TypeOK, HeadInStep, DriftInv, AtTop, AtBase, Position

\* queue_to_next and queue_to_back keep load_index and the head in step.
LEMMA MoveInStep ==
  ASSUME TypeOK, ChainLinked, HeadInStep, StepUp \/ StepDown,
         UNCHANGED <<heap, load_size, chain, drift>>
  PROVE  ChainLinked' /\ HeadInStep' /\ chain # <<>>
<1>1. chain # <<>>
  BY DEF StepUp, StepDown, AtTop, AtBase, HeadInStep
<1>2. ChainLinked'
  BY DEF ChainLinked, heap
<1>3. CASE StepUp
  <2>1. Position' = Position + 1
    BY <1>3 DEF StepUp, Position, TypeOK
  <2>2. head' = chain[Position + 1] /\ Position + 1 \in 1 .. Len(chain)
    BY <1>1, <1>3, HeadPlace DEF StepUp
  <2>3. QED
    BY <1>1, <1>2, <2>1, <2>2 DEF HeadInStep, TypeOK
<1>4. CASE StepDown
  <2>1. Position' = Position - 1
    BY <1>4 DEF StepDown, Position, TypeOK
  <2>2. head' = chain[Position - 1] /\ Position - 1 \in 1 .. Len(chain)
    BY <1>1, <1>4, HeadPlace DEF StepDown
  <2>3. QED
    BY <1>1, <1>2, <2>1, <2>2 DEF HeadInStep, TypeOK
<1>5. QED
  BY <1>3, <1>4

-----------------------------------------------------------------------------
(* The inductive invariant. *)

LEMMA InitIInv == Init => IInv
<1> SUFFICES ASSUME Init PROVE IInv
  OBVIOUS
<1>1. TypeOK
  BY InitTypeOK
<1>2. ChainLinked /\ HeadInStep
  BY DEF Init, ChainLinked, HeadInStep
<1>3. CellsInv /\ ControlInv /\ DriftInv /\ HealthCheckRestores
  BY QueueAssumption DEF Init, CellsInv, ControlInv, DriftInv, HealthCheckRestores
<1>4. QED
  BY <1>1, <1>2, <1>3 DEF IInv

\* Steps that leave the items alone and do not reap keep CellsInv.
LEMMA CellsStill ==
  ASSUME CellsInv, UNCHANGED <<heap, chain>>,
         pc \notin {"reap", "destroyed"}, pc' \notin {"reap", "destroyed"}
  PROVE  CellsInv'
  BY DEF CellsInv, heap

\* Steps that leave the items and the head alone keep the structure.
LEMMA StructureStill ==
  ASSUME ChainLinked, HeadInStep, UNCHANGED <<heap, load_size, cursor, chain, drift>>
  PROVE  ChainLinked' /\ HeadInStep' /\ Position' = Position
  BY DEF ChainLinked, HeadInStep, Position, heap, cursor

\* What queue_is_healty finds before it walks the items: only a queue whose
\* first item went in on the base can fail, and only on its load_index.
LEMMA FirstTests ==
  ASSUME TypeOK, ChainLinked, HeadInStep, DriftInv
  PROVE  /\ queue_is_empty <=> chain = <<>>
         /\ queue_is_empty => EmptyIsHealty
         /\ ~queue_is_empty /\ ~IndexInRange(load_index) => drift = 1
<1>1. queue_is_empty <=> chain = <<>>
  BY DEF queue_is_empty, ChainLinked, TypeOK
<1>2. queue_is_empty => EmptyIsHealty
  BY <1>1 DEF EmptyIsHealty, HeadInStep
<1>3. ASSUME chain # <<>>, drift = 0 PROVE IndexInRange(load_index)
  BY <1>3, HeadPlace DEF IndexInRange, Position, ChainLinked, TypeOK
<1>4. QED
  BY <1>1, <1>2, <1>3 DEF TypeOK

\* The walk of queue_is_healty finds every link in agreement.
LEMMA WalkAgrees ==
  ASSUME TypeOK, ChainLinked, HeadInStep, ~AtTop
  PROVE  LinksAgree(up[head])
<1>1. chain # <<>>
  BY DEF AtTop, HeadInStep
<1> DEFINE k == Position
<1>2. k \in 1 .. Len(chain) /\ k + 1 \in 1 .. Len(chain) /\ up[head] = chain[k + 1]
  BY <1>1, HeadPlace
<1>3. down[chain[k + 1]] = chain[k] /\ up[chain[k]] = chain[k + 1]
  <2>1. k \in DOMAIN chain /\ k + 1 \in DOMAIN chain /\ k \in Int
    BY <1>2 DEF TypeOK
  <2> HIDE DEF k
  <2>2. QED
    BY <1>2, <2>1 DEF ChainLinked
<1>4. CASE k + 1 = Len(chain)
  <2>1. k + 1 \in DOMAIN chain
    BY <1>2 DEF TypeOK
  <2>2. up[chain[k + 1]] = NULL
    BY <1>4, <2>1 DEF ChainLinked
  <2>3. QED
    BY <1>2, <1>3, <2>2 DEF LinksAgree
<1>5. CASE k + 1 # Len(chain)
  <2>1. k + 1 \in DOMAIN chain /\ k + 2 \in DOMAIN chain /\ k \in Int
    BY <1>2, <1>5 DEF TypeOK
  <2>2. PICK j \in Int : j = k + 1
    BY <2>1
  <2>3. PICK i \in Int : i = k + 2
    BY <2>1
  <2>4. j \in DOMAIN chain /\ i \in DOMAIN chain /\ j + 1 = i /\ i - 1 = j /\ i # 1
    BY <1>2, <2>1, <2>2, <2>3 DEF TypeOK
  <2> HIDE DEF k
  <2>5. up[chain[j]] = chain[i]
    BY <1>5, <2>2, <2>4 DEF ChainLinked
  <2>6. down[chain[i]] = chain[j]
    BY <2>4 DEF ChainLinked
  <2>7. QED
    BY <1>2, <1>3, <2>2, <2>3, <2>5, <2>6 DEF LinksAgree
<1>6. QED
  BY <1>4, <1>5

-----------------------------------------------------------------------------
(* The two insertions. *)

LEMMA AppendFacts ==
  ASSUME NEW S, NEW s \in Seq(S), NEW x \in S
  PROVE  /\ Append(s, x) \in Seq(S)
         /\ DOMAIN Append(s, x) = 1 .. Len(s) + 1 /\ Len(Append(s, x)) = Len(s) + 1
         /\ Append(s, x)[Len(s) + 1] = x
         /\ \A i \in 1 .. Len(s) : Append(s, x)[i] = s[i]
  OBVIOUS

LEMMA PrependFacts ==
  ASSUME NEW S, NEW s \in Seq(S), NEW x \in S
  PROVE  /\ <<x>> \o s \in Seq(S)
         /\ DOMAIN (<<x>> \o s) = 1 .. Len(s) + 1 /\ Len(<<x>> \o s) = Len(s) + 1
         /\ (<<x>> \o s)[1] = x
         /\ \A i \in 2 .. Len(s) + 1 : (<<x>> \o s)[i] = s[i - 1]
  OBVIOUS

\* The new item goes where ChainLinked and HeadInStep want it, on the top.
LEMMA LinkTop ==
  ASSUME IInv, NEW n \in Node, NEW b \in {FALSE, NullData}, LinkOnTop(n, b)
  PROVE  ChainLinked' /\ HeadInStep' /\ CellsInv'
<1> DEFINE L == Len(chain)
<1>1. /\ TypeOK /\ ChainLinked /\ HeadInStep /\ CellsInv /\ DriftInv
      /\ L \in Nat /\ DOMAIN chain = 1 .. L
  BY DEF IInv, TypeOK
<1>2. pc = "top" /\ pc' = "idle" /\ AtTop
  BY DEF LinkOnTop, ReadyToLink
<1>3. /\ n \notin allocated /\ allocated' = allocated \cup {n}
      /\ blank' = IF b THEN blank \cup {n} ELSE blank \ {n}
      /\ up' = [m \in Node |-> IF m = n THEN NULL ELSE IF m = head THEN n ELSE up[m]]
      /\ down' = [down EXCEPT ![n] = head]
      /\ head' = n /\ load_size' = load_size + 1 /\ load_index' = load_index + 1
      /\ chain' = Append(chain, n) /\ drift' = drift
  BY DEF LinkOnTop, queue_item_fabric, HangAbove, CountOnTop
<1>4. /\ \A m \in Node : m \in allocated <=> \E i \in 1 .. L : chain[i] = m
      /\ \A i, j \in 1 .. L : chain[i] = chain[j] => i = j
  BY <1>1, <1>2 DEF CellsInv
<1>5. \A i \in 1 .. L : chain[i] \in Node /\ chain[i] # n
  BY <1>1, <1>3, <1>4 DEF TypeOK
<1>6. Position = L /\ head = IF L = 0 THEN NULL ELSE chain[L]
  BY <1>1, <1>2, HeadPlace, EmptyPlace
<1>7. /\ Len(chain') = L + 1 /\ DOMAIN chain' = 1 .. L + 1 /\ chain'[L + 1] = n
      /\ \A i \in 1 .. L : chain'[i] = chain[i]
  BY <1>1, <1>3, AppendFacts DEF TypeOK
<1>8. load_size' = L + 1
  BY <1>1, <1>3 DEF ChainLinked
<1> HIDE DEF L
<1>9. ASSUME NEW i \in 1 .. L + 1
      PROVE  /\ up'[chain'[i]]   = IF i = L + 1 THEN NULL ELSE chain'[i + 1]
             /\ down'[chain'[i]] = IF i = 1 THEN NULL ELSE chain'[i - 1]
  <2>1. CASE i = L + 1
    <3>1. up'[n] = NULL /\ down'[n] = head
      BY <1>1, <1>3 DEF TypeOK
    <3>2. QED
      BY <1>1, <1>6, <1>7, <2>1, <3>1
  <2>2. CASE i # L + 1
    <3>1. i \in 1 .. L
      BY <1>1, <2>2
    <3>2. /\ up[chain[i]]   = IF i = L THEN NULL ELSE chain[i + 1]
          /\ down[chain[i]] = IF i = 1 THEN NULL ELSE chain[i - 1]
      BY <1>1, <3>1 DEF ChainLinked
    <3>3. down'[chain[i]] = down[chain[i]]
      BY <1>1, <1>3, <1>5, <3>1 DEF TypeOK
    <3>4. chain[i] = head <=> i = L
      BY <1>1, <1>4, <1>6, <3>1
    <3>5. up'[chain[i]] = IF i = L THEN n ELSE chain[i + 1]
      BY <1>3, <1>5, <3>1, <3>2, <3>4
    <3>6. chain'[i] = chain[i] /\ (i # 1 => chain'[i - 1] = chain[i - 1])
          /\ (i # L => chain'[i + 1] = chain[i + 1])
      BY <1>1, <1>7, <3>1
    <3>7. QED
      BY <1>1, <1>7, <3>1, <3>2, <3>3, <3>5, <3>6
  <2>3. QED
    BY <2>1, <2>2
<1>10. ChainLinked'
  <2>1. Len(chain)' = L + 1
    BY <1>7
  <2>2. QED
    BY <1>7, <1>8, <1>9, <2>1 DEF ChainLinked
<1>11. HeadInStep'
  <2>1. Position' = L + 1
    <3>1. load_index \in Int /\ drift \in Int
      BY <1>1 DEF TypeOK
    <3>2. QED
      BY <1>1, <1>3, <1>6, <3>1 DEF Position
  <2>2. chain' # <<>>
    BY <1>1, <1>7
  <2>3. QED
    BY <1>1, <1>3, <1>7, <2>1, <2>2 DEF HeadInStep
<1>12. CellsInv'
  <2>1. \A i, j \in 1 .. L + 1 : chain'[i] = chain'[j] => i = j
    BY <1>1, <1>4, <1>5, <1>7
  <2>2. \A m \in Node : m \in allocated' <=> \E i \in 1 .. L + 1 : chain'[i] = m
    BY <1>1, <1>3, <1>4, <1>7
  <2>3. ASSUME ~NullData PROVE blank' = {}
    <3>1. ~b
      BY <2>3
    <3>2. QED
      BY <1>1, <1>3, <2>3, <3>1 DEF CellsInv
  <2>4. QED
    BY <1>2, <1>7, <2>1, <2>2, <2>3 DEF CellsInv
<1>13. QED
  BY <1>10, <1>11, <1>12

\* The same on the base, where the places of all other items move up by one
\* and, in an empty queue, load_index and the head part for good.
LEMMA LinkBase ==
  ASSUME IInv, NEW n \in Node, NEW b \in {FALSE, NullData}, LinkOnBase(n, b)
  PROVE  ChainLinked' /\ HeadInStep' /\ CellsInv'
<1> DEFINE L == Len(chain)
<1>1. /\ TypeOK /\ ChainLinked /\ HeadInStep /\ CellsInv /\ DriftInv
      /\ L \in Nat /\ DOMAIN chain = 1 .. L
  BY DEF IInv, TypeOK
<1>2. pc = "base" /\ pc' = "idle" /\ AtBase
  BY DEF LinkOnBase, ReadyToLink
<1>3. /\ n \notin allocated /\ allocated' = allocated \cup {n}
      /\ blank' = IF b THEN blank \cup {n} ELSE blank \ {n}
      /\ down' = [m \in Node |-> IF m = n THEN NULL ELSE IF m = head THEN n ELSE down[m]]
      /\ up' = [up EXCEPT ![n] = head]
      /\ head' = n /\ load_size' = load_size + 1 /\ load_index' = load_index
      /\ chain' = <<n>> \o chain /\ drift' = IF queue_is_empty THEN 1 ELSE drift
  BY DEF LinkOnBase, queue_item_fabric, HangBelow
<1>4. /\ \A m \in Node : m \in allocated <=> \E i \in 1 .. L : chain[i] = m
      /\ \A i, j \in 1 .. L : chain[i] = chain[j] => i = j
  BY <1>1, <1>2 DEF CellsInv
<1>5. \A i \in 1 .. L : chain[i] \in Node /\ chain[i] # n
  BY <1>1, <1>3, <1>4 DEF TypeOK
<1>6. head = IF L = 0 THEN NULL ELSE chain[1]
  BY <1>1, <1>2, HeadPlace, EmptyPlace
<1>7. /\ Len(chain') = L + 1 /\ DOMAIN chain' = 1 .. L + 1 /\ chain'[1] = n
      /\ \A i \in 2 .. L + 1 : chain'[i] = chain[i - 1]
  BY <1>1, <1>3, PrependFacts DEF TypeOK
<1>8. load_size' = L + 1
  BY <1>1, <1>3 DEF ChainLinked
<1>9. Position' = 1
  <2>1. CASE chain = <<>>
    <3>1. load_index' = -1 /\ drift' = 1
      BY <1>1, <1>3, <2>1, FirstTests DEF HeadInStep
    <3>2. QED
      BY <3>1 DEF Position
  <2>2. CASE chain # <<>>
    <3>1. Position = 1
      BY <1>1, <1>2, <2>2, HeadPlace
    <3>2. UNCHANGED <<load_index, drift>>
      BY <1>1, <1>3, <2>2, FirstTests
    <3>3. QED
      BY <3>1, <3>2 DEF Position
  <2>3. QED
    BY <2>1, <2>2
<1> HIDE DEF L
<1>10. ASSUME NEW i \in 1 .. L + 1
       PROVE  /\ up'[chain'[i]]   = IF i = L + 1 THEN NULL ELSE chain'[i + 1]
              /\ down'[chain'[i]] = IF i = 1 THEN NULL ELSE chain'[i - 1]
  <2>1. CASE i = 1
    <3>1. up'[n] = head /\ down'[n] = NULL
      BY <1>1, <1>3 DEF TypeOK
    <3>2. L # 0 => chain'[2] = chain[1]
      BY <1>1, <1>7
    <3>3. QED
      BY <1>1, <1>6, <1>7, <2>1, <3>1, <3>2
  <2>2. CASE i # 1
    <3> DEFINE j == i - 1
    <3>1. j \in 1 .. L /\ i = j + 1
      BY <1>1, <2>2
    <3> HIDE DEF j
    <3>2. /\ up[chain[j]]   = IF j = L THEN NULL ELSE chain[j + 1]
          /\ down[chain[j]] = IF j = 1 THEN NULL ELSE chain[j - 1]
      BY <1>1, <3>1 DEF ChainLinked, L
    <3>3. up'[chain[j]] = up[chain[j]]
      BY <1>1, <1>3, <1>5, <3>1 DEF TypeOK
    <3>4. chain[j] = head <=> j = 1
      BY <1>1, <1>4, <1>6, <3>1
    <3>5. down'[chain[j]] = IF j = 1 THEN n ELSE chain[j - 1]
      BY <1>3, <1>5, <3>1, <3>2, <3>4
    <3>6. /\ chain'[i] = chain[j]
          /\ chain'[j] = IF j = 1 THEN n ELSE chain[j - 1]
          /\ (j # L => chain'[i + 1] = chain[j + 1])
      BY <1>1, <1>7, <3>1
    <3>7. QED
      BY <1>1, <1>7, <2>2, <3>1, <3>2, <3>3, <3>5, <3>6
  <2>3. QED
    BY <2>1, <2>2
<1>11. ChainLinked'
  <2>1. Len(chain)' = L + 1
    BY <1>7
  <2>2. QED
    BY <1>7, <1>8, <1>10, <2>1 DEF ChainLinked
<1>12. HeadInStep'
  <2>1. chain' # <<>>
    BY <1>1, <1>7
  <2>2. QED
    BY <1>1, <1>3, <1>7, <1>9, <2>1 DEF HeadInStep
<1>13. CellsInv'
  <2>1. \A i, j \in 1 .. L + 1 : chain'[i] = chain'[j] => i = j
    BY <1>1, <1>4, <1>5, <1>7
  <2>2. \A m \in Node : m \in allocated' <=> \E i \in 1 .. L + 1 : chain'[i] = m
    <3>1. ASSUME NEW m \in Node, m \in allocated'
          PROVE  \E i \in 1 .. L + 1 : chain'[i] = m
      <4>1. CASE m = n
        BY <1>1, <1>7, <4>1
      <4>2. CASE m # n
        <5>1. PICK i \in 1 .. L : chain[i] = m
          BY <1>3, <1>4, <3>1, <4>2
        <5>2. i + 1 \in 2 .. L + 1 /\ (i + 1) - 1 = i
          BY <1>1
        <5>3. chain'[i + 1] = m
          BY <1>7, <5>1, <5>2
        <5>4. QED
          BY <1>1, <5>2, <5>3
      <4>3. QED
        BY <4>1, <4>2
    <3>2. ASSUME NEW m \in Node, NEW i \in 1 .. L + 1, chain'[i] = m
          PROVE  m \in allocated'
      BY <1>1, <1>3, <1>4, <1>7, <3>2
    <3>3. QED
      BY <3>1, <3>2
  <2>3. ASSUME ~NullData PROVE blank' = {}
    <3>1. ~b
      BY <2>3
    <3>2. QED
      BY <1>1, <1>3, <2>3, <3>1 DEF CellsInv
  <2>4. QED
    BY <1>2, <1>7, <2>1, <2>2, <2>3 DEF CellsInv
<1>14. QED
  BY <1>11, <1>12, <1>13

-----------------------------------------------------------------------------
(* The destructor. *)

\* Each turn of the loop of queue_destructor frees the item the head has just
\* left, and no other.
LEMMA Reaping ==
  ASSUME IInv, ReapStep
  PROVE  ChainLinked' /\ HeadInStep' /\ CellsInv'
<1>1. /\ TypeOK /\ ChainLinked /\ HeadInStep /\ CellsInv /\ DriftInv /\ pc = "reap"
      /\ StepDown
  BY DEF IInv, ReapStep
<1>2. /\ UNCHANGED <<up, down, blank, load_size, chain, drift, pc>>
      /\ allocated' = IF Reaped = NULL \/ Reaped \in blank THEN allocated
                                                           ELSE allocated \ {Reaped}
  BY DEF ReapStep, history, queue_item_destructor
<1>3. ~AtBase /\ chain # <<>>
  BY <1>1 DEF StepDown, AtBase, HeadInStep
<1> DEFINE k == Position
<1>4. /\ k \in DOMAIN chain /\ k - 1 \in DOMAIN chain /\ k \in Int
      /\ head = chain[k] /\ down[head] = chain[k - 1]
  BY <1>1, <1>3, HeadPlace DEF TypeOK
<1>5. Position' = k - 1 /\ head' = chain[k - 1]
  BY <1>1, <1>2, <1>4 DEF StepDown, Position, TypeOK
<1> HIDE DEF k
<1>6. Reaped = chain[k]
  BY <1>1, <1>4 DEF Reaped, ChainLinked, TypeOK
<1>7. ChainLinked' /\ HeadInStep'
  BY <1>1, <1>2, <1>3, <1>4, <1>5 DEF ChainLinked, HeadInStep
<1>8. /\ \A i, j \in DOMAIN chain : chain[i] = chain[j] => i = j
      /\ \A i \in DOMAIN chain : i \in Int
      /\ \A i \in DOMAIN chain : i <= k => chain[i] \in allocated
      /\ \A n \in allocated \ blank :
           \E i \in DOMAIN chain : chain[i] = n /\ i <= k
  BY <1>1 DEF CellsInv, TypeOK, k
<1>9. \A i \in DOMAIN chain : i <= k - 1 => chain[i] \in allocated'
  BY <1>2, <1>4, <1>6, <1>8
<1>10. ASSUME NEW n \in allocated' \ blank
       PROVE  \E i \in DOMAIN chain : chain[i] = n /\ i <= k - 1
  <2>1. n \in allocated \ blank
    BY <1>2
  <2>2. PICK i \in DOMAIN chain : chain[i] = n /\ i <= k
    BY <1>8, <2>1
  <2>3. n # chain[k]
    <3>1. chain[k] # NULL
      BY <1>1, <1>4, QueueAssumption DEF TypeOK
    <3>2. QED
      BY <1>2, <1>6, <1>10, <3>1
  <2>4. i # k
    BY <2>2, <2>3
  <2>5. QED
    BY <1>4, <1>8, <2>2, <2>4
<1>11. CellsInv'
  BY <1>1, <1>2, <1>5, <1>8, <1>9, <1>10 DEF CellsInv
<1>12. QED
  BY <1>7, <1>11

\* When the head has reached the base there is one item left, or none.
LEMMA LastReaped ==
  ASSUME IInv, ReapEnd
  PROVE  ChainLinked' /\ HeadInStep' /\ CellsInv'
<1>1. /\ TypeOK /\ ChainLinked /\ HeadInStep /\ CellsInv /\ DriftInv /\ pc = "reap"
      /\ AtBase /\ pc' = "destroyed"
  BY DEF IInv, ReapEnd
<1>2. /\ UNCHANGED <<up, down, blank, load_size, load_index, head, chain, drift>>
      /\ allocated' = IF head = NULL \/ head \in blank THEN allocated
                                                       ELSE allocated \ {head}
  BY DEF ReapEnd, history, cursor, queue_item_destructor
<1>3. ChainLinked' /\ HeadInStep'
  BY <1>1, <1>2 DEF ChainLinked, HeadInStep, Position
<1>4. ASSUME NEW n \in allocated' \ blank PROVE FALSE
  <2>1. n \in allocated \ blank
    BY <1>2, <1>4
  <2>2. PICK i \in DOMAIN chain : chain[i] = n /\ i <= Position
    BY <1>1, <2>1 DEF CellsInv
  <2>3. chain # <<>>
    BY <2>2
  <2>4. Position = 1 /\ head = chain[1] /\ head # NULL
    BY <1>1, <2>3, HeadPlace, QueueAssumption
  <2>5. i = 1
    BY <1>1, <2>2, <2>4 DEF TypeOK
  <2>6. QED
    BY <1>2, <1>4, <2>2, <2>4, <2>5
<1>5. CellsInv'
  BY <1>1, <1>2, <1>4 DEF CellsInv
<1>6. QED
  BY <1>3, <1>5

-----------------------------------------------------------------------------
(* Every step keeps the invariant. *)

LEMMA NextIInv == IInv /\ [Next]_vars => IInv'
<1> SUFFICES ASSUME IInv, [Next]_vars PROVE IInv'
  OBVIOUS
<1> DEFINE Structure == ChainLinked /\ HeadInStep
           Locals    == ControlInv /\ DriftInv /\ HealthCheckRestores
<1>1. TypeOK /\ Structure /\ CellsInv /\ Locals /\ TypeOK'
  BY NextTypeOK DEF IInv
<1>2. SUFFICES Structure' /\ CellsInv' /\ Locals'
  BY <1>1 DEF IInv
<1> USE DEF ControlInv, DriftInv, HealthCheckRestores
<1>3. ASSUME UNCHANGED <<heap, load_size, cursor, chain, drift>>,
             pc \notin {"reap", "destroyed"}, pc' \notin {"reap", "destroyed"}
      PROVE  Structure' /\ CellsInv'
  BY <1>1, <1>3, StructureStill, CellsStill
<1>4. ASSUME StepUp \/ StepDown, UNCHANGED <<heap, load_size, chain, drift>>,
             pc \notin {"reap", "destroyed"}, pc' \notin {"reap", "destroyed"}
      PROVE  Structure' /\ CellsInv'
  BY <1>1, <1>4, MoveInStep, CellsStill
<1>a. CASE queue_fabric
  <2>1. UNCHANGED <<heap, load_size, cursor, chain, drift>>
    BY <1>1, <1>a DEF queue_fabric, history, cursor, HeadInStep, ChainLinked
  <2>2. Structure' /\ CellsInv'
    BY <1>a, <1>3, <2>1 DEF queue_fabric
  <2>3. Locals'
    BY <1>1, <1>a DEF queue_fabric, history, Checking
  <2>4. QED
    BY <2>2, <2>3
<1>b. CASE queue_to_next \/ queue_to_back
  <2>1. Structure' /\ CellsInv'
    BY <1>b, <1>3, <1>4 DEF queue_to_next, queue_to_back, Enter, Return, history
  <2>2. Locals'
    BY <1>1, <1>b DEF queue_to_next, queue_to_back, Enter, Return, history, Checking
  <2>3. QED
    BY <2>1, <2>2
<1>c. CASE \E i \in -1 .. load_size : queue_to_index(i)
  <2>1. Structure' /\ CellsInv'
    BY <1>c, <1>3 DEF queue_to_index, Enter, Return, history
  <2>2. Locals'
    BY <1>1, <1>c DEF queue_to_index, Enter, Return, history, Checking, IndexInRange
  <2>3. QED
    BY <2>1, <2>2
<1>d. CASE queue_start_generator_up \/ queue_start_generator_down
  <2> USE DEF queue_start_generator_up, queue_start_generator_down, StartGenerator
  <2>1. Structure' /\ CellsInv'
    BY <1>d, <1>3 DEF Enter
  <2>2. Locals'
    BY <1>1, <1>d DEF Enter, Checking
  <2>3. QED
    BY <2>1, <2>2
<1>e. CASE queue_yield
  <2>1. Structure' /\ CellsInv'
    BY <1>e, <1>3 DEF queue_yield, Enter, Return
  <2>2. Locals'
    BY <1>1, <1>e DEF queue_yield, Enter, Return, Checking, IndexInRange
  <2>3. QED
    BY <2>1, <2>2
<1>f. CASE queue_to_top \/ queue_to_base \/ queue_insert_item_on_top
             \/ queue_insert_item_on_base
  <2> USE DEF queue_to_top, queue_to_base, queue_insert_item_on_top,
              queue_insert_item_on_base, EnterLoop
  <2>1. Structure' /\ CellsInv'
    BY <1>f, <1>3 DEF Enter, history
  <2>2. Locals'
    BY <1>1, <1>f DEF Enter, history, Checking, queue_is_empty
  <2>3. QED
    BY <2>1, <2>2
<1>g. CASE queue_is_healty \/ queue_destructor
  <2> USE DEF queue_is_healty, queue_destructor, HealthCheck
  <2>1. Structure' /\ CellsInv'
    BY <1>g, <1>3 DEF Enter, Answer, history
  <2>2. Locals'
    <3>1. CASE queue_is_empty
      BY <1>1, <1>g, <3>1, FirstTests DEF Enter, Answer, history, Checking, cursor
    <3>2. CASE ~queue_is_empty /\ ~IndexInRange(load_index)
      BY <1>1, <1>g, <3>2, FirstTests DEF Enter, Answer, history, Checking, cursor
    <3>3. CASE ~queue_is_empty /\ IndexInRange(load_index)
      BY <1>1, <1>g, <3>3 DEF Enter, history, Checking, IndexInRange, cursor
    <3>4. QED
      BY <3>1, <3>2, <3>3
  <2>3. QED
    BY <2>1, <2>2
<1>h. CASE IndexStep \/ TopStep \/ BaseStep
  <2>1. Structure' /\ CellsInv'
    BY <1>h, <1>4 DEF IndexStep, TopStep, BaseStep, history
  <2>2. Locals'
    BY <1>1, <1>h DEF IndexStep, TopStep, BaseStep, history, Checking, IndexInRange,
       queue_is_empty
  <2>3. QED
    BY <2>1, <2>2
<1>i. CASE IndexReturn \/ MoveReturn \/ OutOfMemory
  <2>1. Structure' /\ CellsInv'
    BY <1>i, <1>3 DEF IndexReturn, MoveReturn, OutOfMemory, ReadyToLink, Return, history
  <2>2. Locals'
    BY <1>1, <1>i DEF IndexReturn, MoveReturn, OutOfMemory, ReadyToLink, Return,
       history, Checking
  <2>3. QED
    BY <2>1, <2>2
<1>j. ASSUME NEW n \in Node, NEW b \in {FALSE, NullData}, LinkOnTop(n, b)
      PROVE  Structure' /\ CellsInv' /\ Locals'
  <2>1. Structure' /\ CellsInv'
    BY <1>j, LinkTop
  <2>2. Locals'
    <3>1. chain' # <<>>
      BY <1>1, <1>j, AppendFacts DEF LinkOnTop, TypeOK
    <3>2. QED
      BY <1>1, <1>j, <3>1 DEF LinkOnTop, ReadyToLink, Checking
  <2>3. QED
    BY <2>1, <2>2
<1>k. ASSUME NEW n \in Node, NEW b \in {FALSE, NullData}, LinkOnBase(n, b)
      PROVE  Structure' /\ CellsInv' /\ Locals'
  <2>1. Structure' /\ CellsInv'
    BY <1>k, LinkBase
  <2>2. Locals'
    <3>1. chain' # <<>>
      BY <1>1, <1>k, PrependFacts DEF LinkOnBase, TypeOK
    <3>2. queue_is_empty => EmptyBaseInsert
      BY <1>1, <1>k DEF LinkOnBase, ReadyToLink
    <3>3. QED
      BY <1>1, <1>k, <3>1, <3>2 DEF LinkOnBase, ReadyToLink, Checking
  <2>3. QED
    BY <2>1, <2>2
<1>l. CASE ScanStart \/ ScanEnd
  <2>1. Structure' /\ CellsInv'
    BY <1>l, <1>3 DEF ScanStart, ScanEnd, history
  <2>2. Locals'
    BY <1>1, <1>l DEF ScanStart, ScanEnd, history, Checking, IndexInRange
  <2>3. QED
    BY <2>1, <2>2
<1>m. CASE ScanStep
  <2>1. UNCHANGED <<pc, verdict>>
    BY <1>1, <1>m, WalkAgrees DEF ScanStep, StepUp
  <2>2. Structure' /\ CellsInv'
    BY <1>m, <1>4, <2>1 DEF ScanStep, history
  <2>3. Locals'
    BY <1>1, <1>m, <2>1 DEF ScanStep, history, Checking, IndexInRange
  <2>4. QED
    BY <2>2, <2>3
<1>n. CASE HealthReturn
  <2>1. Structure' /\ CellsInv'
    BY <1>n, <1>3 DEF HealthReturn, Answer, history
  <2>2. Locals'
    BY <1>1, <1>n DEF HealthReturn, Answer, history, Checking, cursor
  <2>3. QED
    BY <2>1, <2>2
<1>o. CASE ReapStart
  <2>1. Structure' /\ Position' = Position
    BY <1>1, <1>o, StructureStill DEF ReapStart, history
  <2>2. \A i \in DOMAIN chain : i <= Position
    BY <1>1, <1>o, HeadPlace DEF ReapStart, TypeOK
  <2>3. CellsInv'
    BY <1>1, <1>o, <2>1, <2>2 DEF ReapStart, CellsInv, heap, history, TypeOK
  <2>4. Locals'
    BY <1>1, <1>o DEF ReapStart, history, Checking
  <2>5. QED
    BY <2>1, <2>3, <2>4
<1>p. CASE ReapStep \/ ReapEnd
  <2>1. Structure' /\ CellsInv'
    BY <1>p, Reaping, LastReaped
  <2>2. Locals'
    BY <1>1, <1>p DEF ReapStep, ReapEnd, history, Checking
  <2>3. QED
    BY <2>1, <2>2
<1>q. CASE UNCHANGED vars
  <2>1. Structure' /\ Position' = Position
    BY <1>1, <1>q, StructureStill DEF vars, history
  <2>2. CellsInv'
    BY <1>1, <1>q, <2>1 DEF vars, heap, history, CellsInv
  <2>3. Locals'
    BY <1>1, <1>q DEF vars, history, heap, cursor, Checking, IndexInRange, queue_is_empty
  <2>4. QED
    BY <2>1, <2>2, <2>3
<1>r. QED
  BY <1>a, <1>b, <1>c, <1>d, <1>e, <1>f, <1>g, <1>h, <1>i, <1>j, <1>k, <1>l, <1>m,
     <1>n, <1>o, <1>p, <1>q
     DEF Next, Call, Run, IndexSpin, Terminated

\* The links, the head, the cells and the locals of every call stay consistent
\* in every behaviour, whatever is inserted on whichever end.
THEOREM Consistent == Spec => []IInv
  BY InitIInv, NextIInv, PTL DEF Spec

\* Insertions at both ends keep the queue linked both ways and counted.
THEOREM LinksSound == Spec => []ChainLinked
<1>1. IInv => ChainLinked
  BY DEF IInv
<1>2. QED
  BY Consistent, <1>1, PTL

\* load_index and the head never part further than by the first insertion.
THEOREM HeadSound == Spec => []HeadInStep
<1>1. IInv => HeadInStep
  BY DEF IInv
<1>2. QED
  BY Consistent, <1>1, PTL

\* A health check that succeeds gives the head back.
THEOREM HealthCheckSound == Spec => []HealthCheckRestores
<1>1. IInv => HealthCheckRestores
  BY DEF IInv
<1>2. QED
  BY Consistent, <1>1, PTL

\* No call follows or frees a pointer to a freed item.
THEOREM FreedNotUsed == Spec => []NoUseAfterFree
<1>1. IInv => NoUseAfterFree
  <2> SUFFICES ASSUME IInv, pc # "destroyed", head # NULL
               PROVE  /\ head \in allocated
                      /\ pc = "reap" /\ ~AtBase =>
                           up[down[head]] = head /\ down[head] \in allocated
    BY DEF NoUseAfterFree
  <2>1. TypeOK /\ ChainLinked /\ HeadInStep /\ CellsInv /\ chain # <<>>
    BY DEF IInv, HeadInStep
  <2>2. Position \in DOMAIN chain /\ head = chain[Position] /\ Position \in Int
        /\ head \in Node
    BY <2>1, HeadPlace DEF TypeOK
  <2>3. head \in allocated
    BY <2>1, <2>2 DEF CellsInv
  <2>4. ASSUME pc = "reap", ~AtBase
        PROVE  up[down[head]] = head /\ down[head] \in allocated
    <3> DEFINE k == Position
    <3>1. k - 1 \in DOMAIN chain /\ down[head] = chain[k - 1] /\ k # 1
      BY <2>1, <2>4, HeadPlace DEF TypeOK
    <3>2. chain[k - 1] \in allocated
      BY <2>1, <2>2, <2>4, <3>1 DEF CellsInv
    <3>3. up[chain[k - 1]] = chain[k]
      <4> HIDE DEF k
      <4>1. k - 1 # Len(chain) /\ (k - 1) + 1 = k
        BY <2>1, <2>2, <3>1 DEF TypeOK, k
      <4>2. QED
        BY <2>1, <3>1, <4>1 DEF ChainLinked
    <3>4. QED
      BY <2>2, <3>1, <3>2, <3>3
  <2>5. QED
    BY <2>3, <2>4
<1>2. QED
  BY Consistent, <1>1, PTL

\* Only a queue whose first item went in on the base can fail the ASSERT of
\* queue_destructor or turn forever in queue_to_index.
THEOREM FailureNeedsDrift == Spec => []FailsOnlyWhenDrifted
<1>1. IInv => FailsOnlyWhenDrifted
  <2> SUFFICES ASSUME IInv, Stuck PROVE drift = 1
    BY DEF IInv, DriftInv, FailsOnlyWhenDrifted
  <2>1. TypeOK /\ ChainLinked /\ HeadInStep /\ IndexInRange(target)
    BY DEF IInv, ControlInv, Stuck
  <2>2. chain # <<>>
    BY <2>1 DEF IndexInRange, ChainLinked, TypeOK
  <2>3. Position \in 1 .. Len(chain) /\ (AtTop => Position = Len(chain))
        /\ (AtBase => Position = 1)
    BY <2>1, <2>2, HeadPlace
  <2>4. target >= 0 /\ target < Len(chain) /\ target \in Int
    BY <2>1 DEF IndexInRange, ChainLinked, TypeOK
  <2>5. QED
    BY <2>1, <2>3, <2>4 DEF Stuck, Position, TypeOK
<1>2. QED
  BY Consistent, <1>1, PTL

\* If no caller inserts on the base of an empty queue, queue_destructor never
\* ends the process.
THEOREM DestructorAsserts ==
  ASSUME ~EmptyBaseInsert PROVE Spec => []AssertHolds
<1>1. IInv => AssertHolds
  BY DEF IInv, DriftInv, AssertHolds
<1>2. QED
  BY Consistent, <1>1, PTL

\* If no item has NULL data, queue_destructor frees every item.
THEOREM EverythingFreed ==
  ASSUME ~NullData PROVE Spec => []NoLeak
<1>1. IInv => NoLeak
  BY DEF IInv, CellsInv, NoLeak
<1>2. QED
  BY Consistent, <1>1, PTL


-----------------------------------------------------------------------------
(* Calls end. *)

\* The loops of a call follow one another in this order, the last to come first.
Stage ==
  CASE pc = "base"  -> 5
    [] pc = "scan"  -> 4
    [] pc = "index" -> 3
    [] pc = "top"   -> 2
    [] pc = "reap"  -> 1
    [] OTHER        -> 0

\* How far the head still has to move in the loop being run.
Distance ==
  CASE pc \in {"base", "reap"} -> Position
    [] pc \in {"top", "scan"}  -> load_size - Position
    [] pc = "index"            -> IF target < load_index THEN load_index - target
                                                         ELSE target - load_index
    [] OTHER                   -> 0

\* A bound on the steps left of the call.
Work == Stage * (load_size + 2) + Distance

\* A loop has at most as many moves left as there are items.
Bounded == load_size \in Nat /\ Distance \in 0 .. load_size

LEMMA DistanceBounded == IInv => Bounded
<1> SUFFICES ASSUME IInv PROVE Bounded
  OBVIOUS
<1>1. /\ TypeOK /\ ChainLinked /\ HeadInStep /\ DriftInv
      /\ load_size \in Nat /\ load_size = Len(chain)
  BY DEF IInv, TypeOK, ChainLinked
<1>2. Position \in 0 .. load_size
  <2>1. CASE chain = <<>>
    BY <1>1, <2>1, EmptyPlace
  <2>2. CASE chain # <<>>
    BY <1>1, <2>2, HeadPlace
  <2>3. QED
    BY <2>1, <2>2
<1>3. ASSUME pc = "index"
      PROVE  /\ target \in Int /\ 0 <= target /\ target < load_size
             /\ load_index \in Int /\ -1 <= load_index /\ load_index < load_size
  <2>1. IndexInRange(target) /\ target \in Int /\ load_index \in Int
    BY <1>3 DEF IInv, ControlInv, TypeOK
  <2>2. drift \in {0, 1} /\ Position = load_index + drift + 1
    BY DEF IInv, TypeOK, Position
  <2>3. chain # <<>>
    BY <1>1, <2>1 DEF IndexInRange
  <2>4. Position \in 1 .. load_size
    BY <1>1, <2>3, HeadPlace
  <2>5. QED
    BY <1>1, <2>1, <2>2, <2>4 DEF IndexInRange
<1>4. CASE pc = "index"
  BY <1>1, <1>3, <1>4 DEF Distance, Bounded
<1>5. CASE pc # "index"
  BY <1>1, <1>2, <1>5 DEF Distance, Bounded
<1>6. QED
  BY <1>4, <1>5

LEMMA Staged == Stage \in 0 .. 5
  BY DEF Stage

LEMMA Stages ==
  ASSUME NEW n \in Nat, NEW s \in 0 .. 5, NEW t \in 0 .. 5, t < s,
         NEW d \in 0 .. n, NEW e \in 0 .. n
  PROVE  t * (n + 2) + e < s * (n + 2) + d
<1>1. s = 1 \/ s = 2 \/ s = 3 \/ s = 4 \/ s = 5
  OBVIOUS
<1>2. t = 0 \/ t = 1 \/ t = 2 \/ t = 3 \/ t = 4
  OBVIOUS
<1>3. QED
  BY <1>1, <1>2

LessWork == Work \in Nat /\ Work' \in Nat /\ Work' < Work

\* The next loop of a call, or its end.
LEMMA NextStage ==
  ASSUME Bounded, Bounded', load_size' = load_size, Stage' < Stage
  PROVE  LessWork
<1>1. PICK n \in Nat : n = load_size
  BY DEF Bounded
<1>2. PICK s \in 0 .. 5, t \in 0 .. 5 : s = Stage /\ t = Stage' /\ t < s
  BY DEF Stage
<1>3. PICK d \in 0 .. n, e \in 0 .. n : d = Distance /\ e = Distance'
  BY <1>1 DEF Bounded
<1>4. t * (n + 2) + e < s * (n + 2) + d
  BY <1>2, Stages
<1>5. s * (n + 2) + d \in Nat /\ t * (n + 2) + e \in Nat
  OBVIOUS
<1>6. Work = s * (n + 2) + d /\ Work' = t * (n + 2) + e
  BY <1>1, <1>2, <1>3 DEF Work
<1>7. QED
  BY <1>4, <1>5, <1>6 DEF LessWork

\* A move of the head.
LEMMA OneMove ==
  ASSUME Bounded, load_size' = load_size, Stage' = Stage, Distance' = Distance - 1,
         Distance # 0
  PROVE  LessWork
<1>1. PICK n \in Nat : n = load_size
  BY DEF Bounded
<1>2. PICK s \in 0 .. 5 : s = Stage
  BY Staged
<1>3. PICK d \in 0 .. n : d = Distance /\ d # 0
  BY <1>1 DEF Bounded
<1>4. s * (n + 2) \in Nat
  OBVIOUS
<1>5. Work = s * (n + 2) + d /\ Work' = s * (n + 2) + (d - 1)
  BY <1>1, <1>2, <1>3 DEF Work
<1>6. QED
  BY <1>3, <1>4, <1>5 DEF LessWork

LEMMA RunLessens ==
  ASSUME IInv, Bounded, Bounded', Run, ~IndexSpin PROVE LessWork
<1>1. /\ TypeOK /\ ChainLinked /\ HeadInStep /\ DriftInv
      /\ load_size \in Nat /\ load_size = Len(chain)
      /\ load_index \in Int /\ target \in Int /\ drift \in Int
  BY DEF IInv, TypeOK, ChainLinked
<1>2. ASSUME ~AtTop
      PROVE  Position \in Int /\ Position < load_size
  <2>1. chain # <<>>
    BY <1>1, <1>2, EmptyPlace
  <2>2. QED
    BY <1>1, <1>2, <2>1, HeadPlace
<1>3. ASSUME ~AtBase
      PROVE  Position \in Int /\ Position # 0
  <2>1. chain # <<>>
    BY <1>1, <1>3, EmptyPlace
  <2>2. QED
    BY <1>1, <1>3, <2>1, HeadPlace
<1>4. drift' = drift =>
        /\ StepUp => Position' = Position + 1
        /\ StepDown => Position' = Position - 1
  BY <1>1 DEF Position, StepUp, StepDown
<1>a. CASE IndexStep
  <2>1. /\ pc = "index" /\ pc' = "index" /\ load_size' = load_size /\ target' = target
        /\ \/ target < load_index /\ load_index' = load_index - 1
           \/ target > load_index /\ load_index' = load_index + 1
    BY <1>a DEF IndexStep, StepUp, StepDown
  <2>2. Stage' = Stage
    BY <2>1 DEF Stage
  <2>3. Distance # 0 /\ Distance' = Distance - 1
    BY <1>1, <2>1 DEF Distance
  <2>4. QED
    BY <2>1, <2>2, <2>3, OneMove
<1>b. CASE TopStep
  <2>1. /\ pc = "top" /\ pc' = "top" /\ load_size' = load_size /\ drift' = drift
        /\ StepUp /\ ~AtTop
    BY <1>b DEF TopStep, StepUp, history
  <2>2. Stage' = Stage
    BY <2>1 DEF Stage
  <2>3. Distance # 0 /\ Distance' = Distance - 1
    BY <1>1, <1>2, <1>4, <2>1 DEF Distance
  <2>4. QED
    BY <2>1, <2>2, <2>3, OneMove
<1>c. CASE BaseStep
  <2>1. /\ pc = "base" /\ pc' = "base" /\ load_size' = load_size /\ drift' = drift
        /\ StepDown /\ ~AtBase
    BY <1>c DEF BaseStep, StepDown, history
  <2>2. Stage' = Stage
    BY <2>1 DEF Stage
  <2>3. Distance # 0 /\ Distance' = Distance - 1
    BY <1>3, <1>4, <2>1 DEF Distance
  <2>4. QED
    BY <2>1, <2>2, <2>3, OneMove
<1>d. CASE ScanStep
  <2>1. /\ pc = "scan" /\ load_size' = load_size /\ drift' = drift
        /\ StepUp /\ ~AtTop
    BY <1>d DEF ScanStep, StepUp, history
  <2>2. pc' = "scan"
    BY <1>1, <1>d, <2>1, WalkAgrees DEF ScanStep
  <2>3. Stage' = Stage
    BY <2>1, <2>2 DEF Stage
  <2>4. Distance # 0 /\ Distance' = Distance - 1
    BY <1>1, <1>2, <1>4, <2>1, <2>2 DEF Distance
  <2>5. QED
    BY <2>1, <2>3, <2>4, OneMove
<1>e. CASE ReapStep
  <2>1. /\ pc = "reap" /\ pc' = "reap" /\ load_size' = load_size /\ drift' = drift
        /\ StepDown /\ ~AtBase
    BY <1>e DEF ReapStep, StepDown, history
  <2>2. Stage' = Stage
    BY <2>1 DEF Stage
  <2>3. Distance # 0 /\ Distance' = Distance - 1
    BY <1>3, <1>4, <2>1 DEF Distance
  <2>4. QED
    BY <2>1, <2>2, <2>3, OneMove
<1>f. ASSUME NEW n \in Node, NEW b \in {FALSE, NullData}, LinkOnTop(n, b) \/ LinkOnBase(n, b)
      PROVE  LessWork
  <2>1. pc \in {"top", "base"} /\ pc' = "idle"
    BY <1>f DEF LinkOnTop, LinkOnBase, ReadyToLink
  <2>2. (Stage = 2 \/ Stage = 5) /\ Stage' = 0 /\ Distance' = 0
    BY <2>1 DEF Stage, Distance
  <2>3. PICK k \in Nat : k = load_size
    BY DEF Bounded
  <2>4. PICK d \in 0 .. k : d = Distance
    BY <2>3 DEF Bounded
  <2>5. PICK j \in Nat : j = load_size'
    BY DEF Bounded
  <2>6. Work' = 0 * (j + 2) + 0
    BY <2>2, <2>5 DEF Work
  <2>7. Work = 2 * (k + 2) + d \/ Work = 5 * (k + 2) + d
    BY <2>2, <2>3, <2>4 DEF Work
  <2>8. QED
    BY <2>6, <2>7 DEF LessWork
<1>g. CASE IndexReturn \/ MoveReturn \/ OutOfMemory \/ ScanStart \/ ScanEnd
             \/ HealthReturn \/ ReapStart \/ ReapEnd
  <2>1. load_size' = load_size
    BY <1>g DEF IndexReturn, MoveReturn, OutOfMemory, ScanStart, ScanEnd, HealthReturn,
       ReapStart, ReapEnd
  <2>2. \/ pc \in {"index", "top", "base", "reap"}
             /\ pc' \in {"idle", "exited", "asserted", "destroyed"}
        \/ pc = "base" /\ pc' = "scan"
        \/ pc = "scan" /\ pc' = "index"
        \/ pc = "index" /\ pc' = "top"
        \/ pc = "top" /\ pc' = "reap"
    BY <1>g DEF IndexReturn, MoveReturn, OutOfMemory, ReadyToLink, ScanStart, ScanEnd,
       HealthReturn, ReapStart, ReapEnd, Return, Answer
  <2>3. Stage' < Stage
    BY <2>2 DEF Stage
  <2>4. QED
    BY <2>1, <2>3, NextStage
<1>h. QED
  BY <1>a, <1>b, <1>c, <1>d, <1>e, <1>f, <1>g DEF Run

\* Every step of a call but the spinning of queue_to_index leaves it less to do, so no
\* call takes more than six steps for each item, and ten (queue_to_top, queue_to_base,
\* queue_to_index, queue_is_healty, queue_destructor).
THEOREM CallsEnd == Spec => [][Run => LessWork]_vars
<1>1. IInv /\ Bounded /\ Bounded' /\ [Next]_vars => [Run => LessWork]_vars
  BY RunLessens DEF IndexSpin
<1>2. QED
  BY Consistent, DistanceBounded, <1>1, PTL DEF Spec

\* In a queue whose first item went in on the base, whoever asks for the last index, by
\* any function, is in the loop and stays there.
LastIndexSpins ==
  drift = 1 =>
    /\ queue_to_index(load_size - 1) => pc' = "index" /\ target' = load_size - 1
    /\ pc = "index" /\ target = load_size - 1 =>
         pc' = "index" /\ UNCHANGED <<target, load_size, drift>>

\* The last index of such a queue is never found, however many items it has and whatever
\* was done to it since: load_index does not get there, and queue_to_index ignores that
\* queue_to_next returns NULL.  The run queue_spins shows one such call.
THEOREM LastIndexNeverFound == Spec => [][LastIndexSpins]_vars
<1>1. ASSUME IInv, Next, drift = 1 PROVE LastIndexSpins
  <2>1. chain # <<>> /\ head \in Node /\ head # NULL /\ Position \in 1 .. Len(chain)
    BY <1>1, HeadPlace, QueueAssumption DEF IInv, DriftInv
  <2>2. load_size = Len(chain) /\ load_size \in Nat /\ load_index \in Int
        /\ Position = load_index + 2
    BY <1>1 DEF IInv, ChainLinked, TypeOK, Position
  <2>3. load_size >= 1 /\ load_index < load_size - 1
    BY <2>1, <2>2
  <2>4. ASSUME queue_to_index(load_size - 1)
        PROVE  pc' = "index" /\ target' = load_size - 1
    <3>1. IndexInRange(load_size - 1)
      BY <2>2, <2>3 DEF IndexInRange
    <3>2. QED
      BY <2>1, <2>4, <3>1 DEF queue_to_index
  <2>5. ASSUME pc = "index", target = load_size - 1
        PROVE  pc' = "index" /\ UNCHANGED <<target, load_size, drift>>
    <3>1. target # load_index
      BY <2>2, <2>3, <2>5
    <3>2. IndexStep \/ IndexSpin
      BY <1>1, <2>5, <3>1 DEF Next, Call, Run, Terminated, Over, IndexReturn, HealthReturn,
         TopStep, BaseStep, MoveReturn, OutOfMemory, LinkOnTop, LinkOnBase, ReadyToLink,
         ScanStart, ScanStep, ScanEnd, ReapStart, ReapStep, ReapEnd, queue_fabric,
         queue_to_next, queue_to_back, queue_to_top, queue_to_base, queue_to_index,
         queue_start_generator_up, queue_start_generator_down, StartGenerator, queue_yield,
         queue_insert_item_on_top, queue_insert_item_on_base, EnterLoop, Enter,
         queue_is_healty, queue_destructor, HealthCheck
    <3>3. QED
      BY <2>5, <3>2 DEF IndexStep, IndexSpin, vars, heap, history, cursor
  <2>6. QED
    BY <2>4, <2>5 DEF LastIndexSpins
<1>2. IInv /\ [Next]_vars => [LastIndexSpins]_vars
  BY <1>1 DEF LastIndexSpins
<1>3. QED
  BY Consistent, <1>2, PTL DEF Spec

===============================================================================
