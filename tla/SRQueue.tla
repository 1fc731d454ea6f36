------------------------------- MODULE SRQueue -------------------------------
(***************************************************************************)
(* The queue of the section runner (logic/section_runner.go:54-187): a     *)
(* circular buffer of run pointers that doubles when it fills up.  A queue *)
(* is a record of the slots, their number and the two indices.  A removed  *)
(* run leaves a hole (Nil) between head and tail; a popped run stays in    *)
(* its slot, outside that window, until a later Push overwrites it.        *)
(*                                                                         *)
(* Operators only: a state machine that holds a queue in a variable        *)
(* updates it with them.  An operator named Mutant... is a plausible       *)
(* mistake in the operator after it, for mutation runs; nothing uses it.   *)
(***************************************************************************)
EXTENDS Integers, Sequences

CONSTANT Nil  \* the nil pointer: no run

-----------------------------------------------------------------------------
(* Index arithmetic.  Indices move forward modulo the number of slots.     *)

Index(q) == 0 .. q.len - 1

\* Forgets the modulus.
MutantSucc(q, i) == i + 1

\* (i + 1) % len
Succ(q, i) == IF i + 1 = q.len THEN 0 ELSE i + 1

\* The number of forward steps from head to slot i, and the slot k steps on.
Offset(q, i) == IF i < q.head THEN i - q.head + q.len ELSE i - q.head
SlotAt(q, k) == IF q.head + k < q.len THEN q.head + k ELSE q.head + k - q.len

\* The slots the loops `for i := head; i != tail` visit, and those that hold a run.
Window(q) == {i \in Index(q) : Offset(q, i) < Offset(q, q.tail)}
Live(q)   == {i \in Window(q) : q.items[i] # Nil}

\* A queue of runs from the set S.
IsSRQueue(q, S) ==
  /\ q = [items |-> q.items, len |-> q.len, head |-> q.head, tail |-> q.tail]
  /\ q.len \in Nat \ {0}
  /\ q.head \in Index(q) /\ q.tail \in Index(q)
  /\ q.items \in [Index(q) -> S \cup {Nil}]

\* Starts at the first slot of the buffer, wherever head is.
MutantToSlice(q) ==
  LET Runs[k \in 0 .. Offset(q, q.tail)] ==
        IF k = 0 THEN <<>>
        ELSE IF q.items[k - 1] = Nil THEN Runs[k - 1] ELSE Append(Runs[k - 1], q.items[k - 1])
  IN  Runs[Offset(q, q.tail)]

\* The runs in the window, in order: those of the first k slots, for each k.
ToSlice(q) ==
  LET Runs[k \in 0 .. Offset(q, q.tail)] ==
        IF k = 0 THEN <<>>
        ELSE LET r == q.items[SlotAt(q, k - 1)]
             IN  IF r = Nil THEN Runs[k - 1] ELSE Append(Runs[k - 1], r)
  IN  Runs[Offset(q, q.tail)]

\* The same as a line: each run in the window, and the runs behind it.
LineOf(q) ==
  [r \in {q.items[i] : i \in Live(q)} |->
     {q.items[j] : j \in {k \in Live(q) :
        \E i \in Live(q) : q.items[i] = r /\ Offset(q, i) < Offset(q, k)}}]

-----------------------------------------------------------------------------
NewSRQueue(size) ==
  [items |-> [i \in 0 .. size - 1 |-> Nil], len |-> size, head |-> 0, tail |-> 0]

\* Grows by copying the slots as they lie, not from head on.
MutantPush(q, item) ==
  LET items == [q.items EXCEPT ![q.tail] = item]
  IN  IF Succ(q, q.tail) # q.head
      THEN [q EXCEPT !.items = items, !.tail = Succ(q, q.tail)]
      ELSE [items |-> [k \in 0 .. 2 * q.len - 1 |-> IF k < q.len THEN items[k] ELSE Nil],
            len |-> 2 * q.len, head |-> 0, tail |-> q.len]

(* Push writes the slot at tail, moves tail, and when tail meets head      *)
(* copies the slots, from head on, into a buffer of twice the size.        *)
Push(q, item) ==
  LET items == [q.items EXCEPT ![q.tail] = item]
  IN  IF Succ(q, q.tail) # q.head
      THEN [q EXCEPT !.items = items, !.tail = Succ(q, q.tail)]
      ELSE [items |-> [k \in 0 .. 2 * q.len - 1 |->
                         IF k < q.len THEN items[SlotAt(q, k)] ELSE Nil],
            len   |-> 2 * q.len,
            head  |-> 0,
            tail  |-> q.len]

\* The slot of the first run in the window: Pop steps over the holes before it.
First(q) == CHOOSE i \in Live(q) : \A j \in Live(q) : Offset(q, i) <= Offset(q, j)

\* Leaves head on the slot it returned.
MutantPop(q) == [q EXCEPT !.head = IF Live(q) = {} THEN q.tail ELSE First(q)]

\* What Pop returns, and the queue it leaves.  The slot is not cleared.
Popped(q) == IF Live(q) = {} THEN Nil ELSE q.items[First(q)]
Pop(q)    == [q EXCEPT !.head = IF Live(q) = {} THEN q.tail ELSE Succ(q, First(q))]

-----------------------------------------------------------------------------
(* Removal.  Each operator below is the set of slots a removal clears.     *)
(* RemoveWithSection and RemoveAll also look at the slot at tail, which is *)
(* outside the window; RemoveByID takes the first match in the window.     *)

Scanned(q) == {i \in Window(q) \cup {q.tail} : q.items[i] # Nil}

\* Stops at the first match, as RemoveByID does.
MutantWithSection(q, sec) ==
  {i \in Live(q) : /\ q.items[i].sec = sec
                   /\ \A j \in Live(q) : q.items[j].sec = sec => Offset(q, i) <= Offset(q, j)}

WithSection(q, sec) == {i \in Scanned(q) : q.items[i].sec = sec}
All(q)              == Scanned(q)
ByID(q, id) ==
  {i \in Live(q) : /\ q.items[i].id = id
                   /\ \A j \in Live(q) : q.items[j].id = id => Offset(q, i) <= Offset(q, j)}

Remove(q, slots) ==
  [q EXCEPT !.items = [i \in Index(q) |-> IF i \in slots THEN Nil ELSE q.items[i]]]
=============================================================================
