---------------------------- MODULE RingQueueProofs ----------------------------
(***************************************************************************)
(* The ring is a first-in first-out line, whatever its initial size, the   *)
(* runs and the operations: it never loses its shape, and every operation  *)
(* does to the line what its name says.                                    *)
(***************************************************************************)
EXTENDS RingQueue, SRQueueProofs

\* The inductive invariant: the type, and no run twice in the window.  Without the
\* second, Pop would leave in line the run that it returns.
RingInv == TypeOK /\ Distinct(q)

\* The line of the abstract queue is that of Line.
LEMMA SameLine ==
  /\ Fifo!EmptyLine = EmptyLine
  /\ \A line, r : Fifo!Join(line, r) = Join(line, r)
  /\ \A line, S : Fifo!Keep(line, S) = Keep(line, S)
  /\ \A line, r : Fifo!IsFirst(line, r) = IsFirst(line, r)
  /\ \A line, r : Fifo!Without(line, r) = Without(line, r)
BY DEF Fifo!EmptyLine, Fifo!Join, Fifo!Keep, Fifo!IsFirst, Fifo!Without,
       EmptyLine, Join, Keep, IsFirst, Without

LEMMA RingInit == Init => RingInv /\ Fifo!Init
<1> SUFFICES ASSUME Init
             PROVE  RingInv /\ Fifo!Init
  OBVIOUS
<1>1. PICK size \in Sizes : q = NewSRQueue(size)
  BY DEF Init
<1>2. size \in Nat \ {0}
  BY RingAssumption
<1>3. IsSRQueue(q, Item) /\ Live(q) = {}
  BY <1>1, <1>2, NewSRQueueType
<1> QED
  BY <1>3, NobodyInLine, SameLine DEF Init, RingInv, TypeOK, Distinct, Fifo!Init

LEMMA RingEnqueue ==
  ASSUME RingInv, NEW r \in Item, Enqueue(r)
  PROVE  RingInv' /\ Fifo!Enqueue(r)
<1>1. /\ IsSRQueue(q, Item) /\ Nil \notin Item /\ Distinct(q)
      /\ q' = Push(q, r) /\ out' = Nil
  BY RingAssumption DEF RingInv, TypeOK, Enqueue
<1>2. r \notin DOMAIN LineOf(q)
  BY LineElements DEF Enqueue, Queued, InLine
<1>3. IsSRQueue(q', Item) /\ Distinct(q') /\ LineOf(q') = Join(LineOf(q), r)
  BY <1>1, <1>2, PushType, PushDistinct, LinePush
<1> QED
  BY <1>1, <1>2, <1>3, SameLine DEF RingInv, TypeOK, Fifo!Enqueue

LEMMA RingDequeue ==
  ASSUME RingInv, Dequeue
  PROVE  RingInv' /\ Fifo!Dequeue
<1>1. /\ IsSRQueue(q, Item) /\ Nil \notin Item /\ Distinct(q)
      /\ q' = Pop(q) /\ out' = Popped(q)
  BY RingAssumption DEF RingInv, TypeOK, Dequeue
<1>2. RingInv'
  BY <1>1, PopType, PopDistinct DEF RingInv, TypeOK
<1>3. CASE Live(q) = {}
  <2>1. Live(q') = {} /\ out' = Nil
    BY <1>1, <1>3, PopLive, PopType
  <2>2. LineOf(q') = LineOf(q) /\ DOMAIN LineOf(q) = {}
    BY <1>3, <2>1, NobodyInLine, LineEmpty
  <2> QED
    BY <1>2, <2>1, <2>2 DEF Fifo!Dequeue
<1>4. CASE Live(q) # {}
  <2>1. IsFirst(LineOf(q), out') /\ LineOf(q') = Without(LineOf(q), out')
    BY <1>1, <1>4, LinePop
  <2>2. out' \in DOMAIN LineOf(q)
    BY <2>1 DEF IsFirst
  <2> QED
    BY <1>2, <2>1, <2>2, SameLine DEF Fifo!Dequeue
<1> QED
  BY <1>3, <1>4

LEMMA RingRemove ==
  ASSUME RingInv, NEW slots, q' = Remove(q, slots), out' \in Item \cup {Nil}
  PROVE  RingInv'
BY RemoveType, RemoveDistinct DEF RingInv, TypeOK

LEMMA RingRemoveByID ==
  ASSUME RingInv, NEW id, RemoveByID(id)
  PROVE  RingInv' /\ Fifo!RemoveID(id)
<1>1. /\ IsSRQueue(q, Item) /\ Distinct(q) /\ q' = Remove(q, ByID(q, id))
      /\ \/ ByID(q, id) = {} /\ out' = Nil
         \/ \E i \in ByID(q, id) : out' = q.items[i]
  BY DEF RingInv, TypeOK, RemoveByID
<1>2. \A i \in Live(q) : q.items[i] \in Item /\ q.items[i] \in DOMAIN LineOf(q)
  <2>1. \A i \in Live(q) : q.items[i] \in Item
    BY <1>1 DEF IsSRQueue, Live, Window
  <2> QED
    BY <2>1, LineElements DEF InLine
<1>3. \A i, j \in Live(q) : q.items[i].id = q.items[j].id => q.items[i] = q.items[j]
  BY <1>2, RingAssumption
<1>4. /\ ByID(q, id) = {i \in Live(q) : q.items[i].id = id}
      /\ LineOf(q') = Keep(LineOf(q), {r \in DOMAIN LineOf(q) : r.id # id})
  BY <1>1, <1>3, LineRemoveID
<1>5. \/ (\A r \in DOMAIN LineOf(q) : r.id # id) /\ out' = Nil
      \/ out' \in DOMAIN LineOf(q) /\ out'.id = id /\ out' \in Item
  <2>1. CASE ByID(q, id) = {} /\ out' = Nil
    BY <1>4, <2>1, LineElements DEF InLine
  <2>2. CASE \E i \in ByID(q, id) : out' = q.items[i]
    BY <1>2, <1>4, <2>2
  <2> QED
    BY <1>1, <2>1, <2>2
<1>6. RingInv'
  BY <1>1, <1>5, RingRemove
<1> QED
  BY <1>4, <1>5, <1>6, SameLine DEF Fifo!RemoveID

LEMMA RingNext == RingInv /\ [Next]_vars => RingInv' /\ [Fifo!Next]_(Fifo!vars)
<1> SUFFICES ASSUME RingInv, [Next]_vars
             PROVE  RingInv' /\ [Fifo!Next]_(Fifo!vars)
  OBVIOUS
<1>1. ASSUME NEW r \in Item, Enqueue(r)
      PROVE  RingInv' /\ Fifo!Next
  BY <1>1, RingEnqueue DEF Fifo!Next
<1>2. ASSUME NEW r \in Item, RemoveWithSection(r.sec)
      PROVE  RingInv' /\ Fifo!Next
  <2>1. RingInv'
    BY <1>2, RingRemove DEF RemoveWithSection
  <2>2. Fifo!RemoveSection(r.sec)
    BY <1>2, LineRemoveSection, SameLine
       DEF RingInv, TypeOK, RemoveWithSection, Fifo!RemoveSection
  <2> QED
    BY <2>1, <2>2 DEF Fifo!Next
<1>3. ASSUME NEW r \in Item, RemoveByID(r.id)
      PROVE  RingInv' /\ Fifo!Next
  BY <1>3, RingRemoveByID DEF Fifo!Next
<1>4. CASE Dequeue
  BY <1>4, RingDequeue DEF Fifo!Next
<1>5. CASE RemoveAll
  <2>1. RingInv'
    BY <1>5, RingRemove DEF RemoveAll
  <2>2. Fifo!RemoveAll
    BY <1>5, LineRemoveAll, SameLine DEF RingInv, TypeOK, RemoveAll, Fifo!RemoveAll
  <2> QED
    BY <2>1, <2>2 DEF Fifo!Next
<1>6. CASE UNCHANGED vars
  BY <1>6 DEF vars, RingInv, TypeOK, Fifo!vars
<1> QED
  BY <1>1, <1>2, <1>3, <1>4, <1>5, <1>6 DEF Next

THEOREM RingInvariant == Spec => []RingInv
<1>1. RingInv /\ [Next]_vars => RingInv'
  BY RingNext
<1> QED
  BY <1>1, RingInit, PTL DEF Spec

\* The ring keeps its shape over any sequence of operations: both indices inside it, a
\* run or a hole in each slot.
THEOREM RingShape == Spec => []TypeOK
<1>1. RingInv => TypeOK
  BY DEF RingInv
<1> QED
  BY <1>1, RingInvariant, PTL

\* The ring implements the line: Push is to join it, Pop to serve the first, and each
\* removal takes out its runs and leaves the others in their order.
THEOREM RingIsFifo == Spec => ImplementsFifo
<1>1. RingInv /\ [Next]_vars => [Fifo!Next]_(Fifo!vars)
  BY RingNext
<1>2. Init => Fifo!Init
  BY RingInit
<1> QED
  BY <1>1, <1>2, RingInvariant, PTL DEF Spec, ImplementsFifo, Fifo!Spec

\* ToSlice, from which the state that clients are shown is made, lists the runs of the
\* line in their order: none is left out, however the ring has wrapped, grown and got holes.
THEOREM RingSlice == Spec => []SliceIsLine
<1>1. RingInv => SliceIsLine
  BY SliceIsLineOf DEF RingInv, TypeOK, SliceIsLine
<1> QED
  BY <1>1, RingInvariant, PTL
=============================================================================
