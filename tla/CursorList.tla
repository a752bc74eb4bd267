------------------------------ MODULE CursorList ------------------------------
(***************************************************************************)
(* What lib/include/queue_piaabo.h promises its callers: a sequence of     *)
(* items with a cursor on one of them and one generator, each call atomic. *)
(* There are no links, no loops and no index that could disagree with the  *)
(* head.  cursor is 0 exactly while the sequence is empty.                 *)
(***************************************************************************)
EXTENDS Integers, Sequences

CONSTANTS Item, NULL

VARIABLES items, cursor, next, step, ret, healty, life

vars == <<items, cursor, next, step, ret, healty, life>>

Positions == DOMAIN items

Init ==
  /\ items = <<>> /\ cursor = 0
  /\ next = 0 /\ step = 1
  /\ ret = NULL /\ healty = TRUE
  /\ life = "unborn"

Create ==
  /\ life = "unborn" /\ life' = "alive"
  /\ UNCHANGED <<items, cursor, next, step, ret, healty>>

\* Put the cursor on position p and return its item.
MoveTo(p) ==
  /\ p \in Positions
  /\ cursor' = p /\ ret' = items[p]

\* There is no item to return: the cursor stays.
Nothing == ret' = NULL /\ UNCHANGED cursor

Move(p) ==
  /\ life = "alive"
  /\ MoveTo(p) \/ (p \notin Positions /\ Nothing)
  /\ UNCHANGED <<items, next, step, healty, life>>

ToNext     == Move(cursor + 1)
ToBack     == Move(cursor - 1)
ToIndex(i) == Move(i + 1)
ToTop      == Move(Len(items))
ToBase     == Move(1)

Start(from, by) ==
  /\ life = "alive"
  /\ next' = from /\ step' = by
  /\ UNCHANGED <<items, cursor, ret, healty, life>>

StartUp   == Start(0, 1)
StartDown == Start(cursor - 2, -1)

Yield ==
  /\ life = "alive"
  /\ MoveTo(next + 1) \/ (next + 1 \notin Positions /\ Nothing)
  /\ next' = next + step
  /\ UNCHANGED <<items, step, healty, life>>

AppendItem(x) ==
  /\ life = "alive"
  /\ items' = Append(items, x)
  /\ cursor' = Len(items) + 1
  /\ UNCHANGED <<next, step, ret, healty, life>>

PrependItem(x) ==
  /\ life = "alive"
  /\ items' = <<x>> \o items
  /\ cursor' = 1
  /\ UNCHANGED <<next, step, ret, healty, life>>

\* A queue is always healthy, and asking does not disturb it.
CheckHealth ==
  /\ life = "alive"
  /\ healty' = TRUE
  /\ UNCHANGED <<items, cursor, next, step, ret, life>>

Destroy ==
  /\ life = "alive" /\ life' = "gone"
  /\ UNCHANGED <<items, cursor, next, step, ret, healty>>

\* The process ends where an allocation fails.
OutOfMemory ==
  /\ life \in {"unborn", "alive"} /\ life' = "exited"
  /\ UNCHANGED <<items, cursor, next, step, ret, healty>>

Next ==
  \/ Create \/ Destroy \/ OutOfMemory
  \/ ToNext \/ ToBack \/ ToTop \/ ToBase
  \/ \E i \in -1 .. Len(items) : ToIndex(i)
  \/ StartUp \/ StartDown \/ Yield
  \/ \E x \in Item : AppendItem(x) \/ PrependItem(x)
  \/ CheckHealth

Spec == Init /\ [][Next]_vars

=============================================================================
