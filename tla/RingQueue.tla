------------------------------ MODULE RingQueue ------------------------------
(***************************************************************************)
(* The run queue on its own: any sequence of the operations of SRQueue, on *)
(* a ring of any initial size, to explore wrapping, growing and holes more *)
(* deeply than the section runner's own instances can.                     *)
(***************************************************************************)
EXTENDS SRQueue

CONSTANTS Item,    \* runs: records with id and sec
          Sizes,   \* initial numbers of slots
          MaxLen   \* bound: no Push once the ring has more slots

ASSUME RingAssumption ==
  /\ Sizes \subseteq Nat \ {0} /\ MaxLen \in Nat
  /\ Nil \notin Item /\ \A r, r2 \in Item : r.id = r2.id => r = r2

VARIABLES q, out

vars == <<q, out>>

Init == q \in {NewSRQueue(size) : size \in Sizes} /\ out = Nil

Queued == {q.items[i] : i \in Live(q)}

\* Each run is a pointer of its own, so it is in the queue at most once.
Enqueue(r) == r \notin Queued /\ q.len <= MaxLen /\ q' = Push(q, r) /\ out' = Nil

Dequeue == out' = Popped(q) /\ q' = Pop(q)

RemoveWithSection(sec) == q' = Remove(q, WithSection(q, sec)) /\ out' = Nil
RemoveAll              == q' = Remove(q, All(q)) /\ out' = Nil

RemoveByID(id) ==
  /\ q' = Remove(q, ByID(q, id))
  /\ \/ ByID(q, id) = {} /\ out' = Nil
     \/ \E i \in ByID(q, id) : out' = q.items[i]

Next ==
  \/ \E r \in Item : Enqueue(r) \/ RemoveWithSection(r.sec) \/ RemoveByID(r.id)
  \/ Dequeue \/ RemoveAll

Spec == Init /\ [][Next]_vars

-----------------------------------------------------------------------------
\* The ring keeps its shape: both indices inside it, a run or a hole in each slot.
TypeOK == IsSRQueue(q, Item) /\ out \in Item \cup {Nil}

Fifo == INSTANCE FifoQueue WITH Runs <- Item, None <- Nil, line <- LineOf(q)

\* Through wrapping, growing and holes the ring is the queue its callers expect.
ImplementsFifo == Fifo!Spec

\* ToSlice, from which the state that clients are shown is made, lists the runs of the
\* line in their order.
SliceIsLine ==
  LET s       == ToSlice(q)
      Runs(K) == {s[k] : k \in K}
  IN  LineOf(q) = [r \in Runs(DOMAIN s) |->
                     Runs({k \in DOMAIN s : \E j \in 1 .. k - 1 : s[j] = r})]
=============================================================================
