---------------------------- MODULE SRQueueProofs ----------------------------
(***************************************************************************)
(* Facts about the operations of SRQueue, for every size and content.      *)
(***************************************************************************)
EXTENDS SRQueue, Line, TLAPS, WellFoundedInduction

\* Every set of naturals that is not empty has a least element.
LEMMA LeastNat ==
  ASSUME NEW T, T \subseteq Nat, T # {}
  PROVE  \E m \in T : \A n \in T : m <= n
<1> DEFINE R == OpToRel(<, Nat)
<1>1. \E m \in T : \A n \in T : ~ (<<n, m>> \in R)
  <2>1. IsWellFoundedOn(R, Nat)
    BY NatLessThanWellFounded
  <2> HIDE DEF R
  <2> QED
    BY <2>1, WFMin
<1>2. \A m, n \in Nat : <<n, m>> \in R <=> n < m
  BY DEF OpToRel
<1>3. PICK m \in T : \A n \in T : ~ (<<n, m>> \in R)
  BY <1>1
<1>4. ASSUME NEW n \in T
      PROVE  m <= n
  <2>1. ~ (<<n, m>> \in R)
    BY <1>3
  <2>2. m \in Nat /\ n \in Nat
    OBVIOUS
  <2>3. ~ (n < m)
    BY <1>2, <2>1, <2>2
  <2> QED
    BY <2>2, <2>3
<1> QED
  BY <1>4

\* A slot in the ring is its distance from head away from head.
LEMMA OffsetType ==
  ASSUME NEW S, NEW q, IsSRQueue(q, S), NEW i \in Index(q)
  PROVE  /\ Offset(q, i) \in 0 .. q.len - 1
         /\ SlotAt(q, Offset(q, i)) = i
         /\ Succ(q, i) \in Index(q)
BY SMTT(30) DEF IsSRQueue, Index, Offset, SlotAt, Succ

\* Two slots at the same distance from head are the same slot.
LEMMA OffsetInjective ==
  ASSUME NEW S, NEW q, IsSRQueue(q, S), NEW i \in Index(q), NEW j \in Index(q),
         Offset(q, i) = Offset(q, j)
  PROVE  i = j
BY DEF IsSRQueue, Index, Offset

\* A new queue is a queue, and nothing is in it.
LEMMA NewSRQueueType ==
  ASSUME NEW S, NEW size \in Nat \ {0}
  PROVE  IsSRQueue(NewSRQueue(size), S) /\ Live(NewSRQueue(size)) = {}
BY DEF IsSRQueue, NewSRQueue, Index, Live, Window, Offset

\* Push keeps the shape of the ring, whether or not it grows.
LEMMA PushType ==
  ASSUME NEW S, NEW q, IsSRQueue(q, S), NEW item \in S
  PROVE  IsSRQueue(Push(q, item), S)
<1> DEFINE items == [q.items EXCEPT ![q.tail] = item]
           grown == [k \in 0 .. 2 * q.len - 1 |->
                       IF k < q.len THEN items[SlotAt(q, k)] ELSE Nil]
<1>1. items \in [Index(q) -> S \cup {Nil}]
  BY DEF IsSRQueue
<1>2. CASE Succ(q, q.tail) # q.head
  <2>1. Push(q, item) = [items |-> items, len |-> q.len,
                         head |-> q.head, tail |-> Succ(q, q.tail)]
    BY <1>2 DEF Push, IsSRQueue
  <2>2. Succ(q, q.tail) \in Index(q)
    BY OffsetType DEF IsSRQueue
  <2> QED
    BY <1>1, <2>1, <2>2 DEF IsSRQueue, Index
<1>3. CASE Succ(q, q.tail) = q.head
  <2>1. Push(q, item) = [items |-> grown, len |-> 2 * q.len, head |-> 0, tail |-> q.len]
    BY <1>3 DEF Push
  <2>2. q.len \in Nat \ {0} /\ q.head \in 0 .. q.len - 1
    BY DEF IsSRQueue, Index
  <2>3. \A k \in 0 .. 2 * q.len - 1 : k < q.len => SlotAt(q, k) \in Index(q)
    BY <2>2 DEF SlotAt, Index
  <2>4. grown \in [0 .. 2 * q.len - 1 -> S \cup {Nil}]
    BY <1>1, <2>3
  <2> HIDE DEF grown, items
  <2> QED
    BY <2>1, <2>2, <2>4 DEF IsSRQueue, Index
<1> QED
  BY <1>2, <1>3

\* Pop finds the run nearest to head, if there is one.
LEMMA FirstLive ==
  ASSUME NEW S, NEW q, IsSRQueue(q, S), Live(q) # {}
  PROVE  /\ First(q) \in Live(q)
         /\ \A j \in Live(q) : Offset(q, First(q)) <= Offset(q, j)
<1> DEFINE T == {Offset(q, i) : i \in Live(q)}
<1>1. T \subseteq Nat /\ T # {}
  BY OffsetType DEF Live, Window
<1>2. PICK m \in T : \A n \in T : m <= n
  BY <1>1, LeastNat
<1>3. \E i \in Live(q) : \A j \in Live(q) : Offset(q, i) <= Offset(q, j)
  BY <1>2
<1> QED
  BY <1>3 DEF First

\* Pop keeps the shape of the ring and returns a run, or nil from an empty window.
LEMMA PopType ==
  ASSUME NEW S, NEW q, IsSRQueue(q, S), Nil \notin S
  PROVE  /\ IsSRQueue(Pop(q), S)
         /\ Popped(q) \in S \cup {Nil}
         /\ Popped(q) = Nil <=> Live(q) = {}
<1>1. CASE Live(q) = {}
  BY <1>1 DEF IsSRQueue, Index, Pop, Popped
<1>2. CASE Live(q) # {}
  <2>1. First(q) \in Live(q)
    BY <1>2, FirstLive
  <2>2. First(q) \in Index(q) /\ q.items[First(q)] # Nil /\ Succ(q, First(q)) \in Index(q)
    BY <2>1, OffsetType DEF Live, Window
  <2>3. Pop(q) = [items |-> q.items, len |-> q.len,
                  head |-> Succ(q, First(q)), tail |-> q.tail]
    BY <1>2 DEF Pop, IsSRQueue
  <2> QED
    BY <1>2, <2>2, <2>3 DEF IsSRQueue, Index, Popped
<1> QED
  BY <1>1, <1>2

\* Pop takes exactly the run it returns out of the window: what it skips are holes.
LEMMA PopLive ==
  ASSUME NEW S, NEW q, IsSRQueue(q, S)
  PROVE  Live(Pop(q)) = IF Live(q) = {} THEN {} ELSE Live(q) \ {First(q)}
<1>1. CASE Live(q) = {}
  <2>1. Pop(q) = [items |-> q.items, len |-> q.len, head |-> q.tail, tail |-> q.tail]
    BY <1>1 DEF Pop, IsSRQueue
  <2> QED
    BY <1>1, <2>1 DEF IsSRQueue, Index, Live, Window, Offset
<1>2. CASE Live(q) # {}
  <2> DEFINE f == First(q)
             p == Pop(q)
  <2>1. f \in Live(q) /\ \A j \in Live(q) : Offset(q, f) <= Offset(q, j)
    BY <1>2, FirstLive
  <2>2. p = [items |-> q.items, len |-> q.len, head |-> Succ(q, f), tail |-> q.tail]
    BY <1>2 DEF Pop, IsSRQueue
  <2>3. f \in Index(q) /\ Offset(q, f) < Offset(q, q.tail)
    BY <2>1 DEF Live, Window
  <2> HIDE DEF f, p
  <2>4. ASSUME NEW i \in Index(q)
        PROVE  i \in Window(p) <=> i \in Window(q) /\ Offset(q, f) < Offset(q, i)
    <3> DEFINE Further(j) == IF Offset(q, j) > Offset(q, f)
                             THEN Offset(q, j) - Offset(q, f) - 1
                             ELSE Offset(q, j) - Offset(q, f) - 1 + q.len
    <3>1. p.len = q.len /\ p.head = Succ(q, f) /\ p.tail = q.tail /\ Index(p) = Index(q)
      BY <2>2 DEF Index
    <3>2. q.len \in Nat \ {0} /\ q.tail \in Index(q) /\ q.head \in Index(q)
      BY DEF IsSRQueue
    <3>3. ASSUME NEW j \in Index(q)
          PROVE  Offset(p, j) = Further(j)
      BY <2>3, <3>1, <3>2 DEF Offset, Succ, Index
    <3>4. /\ Offset(p, i) = Further(i)
          /\ Offset(p, p.tail) = Further(q.tail)
      BY <3>1, <3>2, <3>3
    <3>5. /\ Offset(q, i) \in 0 .. q.len - 1
          /\ Offset(q, f) \in 0 .. q.len - 1
          /\ Offset(q, q.tail) \in 0 .. q.len - 1
      BY <2>3, <3>2, OffsetType
    <3>6. Further(i) < Further(q.tail)
            <=> Offset(q, i) < Offset(q, q.tail) /\ Offset(q, f) < Offset(q, i)
      BY <2>3, <3>2, <3>5
    <3> QED
      BY <3>1, <3>4, <3>6 DEF Window
  <2>5. ASSUME NEW i \in Index(q)
        PROVE  i \in Live(p) <=> i \in Live(q) /\ i # f
    <3>1. i \in Live(q) /\ i # f => Offset(q, f) < Offset(q, i)
      <4>1. i # f => Offset(q, f) # Offset(q, i)
        BY <2>3, OffsetInjective
      <4>2. Offset(q, f) \in Int /\ Offset(q, i) \in Int
        BY <2>3, OffsetType
      <4> QED
        BY <2>1, <4>1, <4>2
    <3>2. Offset(q, f) < Offset(q, i) => i # f
      BY <2>3 DEF IsSRQueue, Index, Offset
    <3> QED
      BY <2>2, <2>4, <3>1, <3>2 DEF Live
  <2>6. Live(p) \subseteq Index(q) /\ Live(q) \subseteq Index(q)
    BY <2>2 DEF Live, Window, Index
  <2> QED
    BY <1>2, <2>5, <2>6 DEF f, p
<1> QED
  BY <1>1, <1>2

\* Removing slots leaves holes there and everything else in place.
LEMMA RemoveType ==
  ASSUME NEW S, NEW q, IsSRQueue(q, S), NEW slots
  PROVE  /\ IsSRQueue(Remove(q, slots), S)
         /\ Live(Remove(q, slots)) = Live(q) \ slots
<1> DEFINE items == [i \in Index(q) |-> IF i \in slots THEN Nil ELSE q.items[i]]
<1>1. Remove(q, slots) = [items |-> items, len |-> q.len, head |-> q.head, tail |-> q.tail]
  BY DEF Remove, IsSRQueue
<1>2. items \in [Index(q) -> S \cup {Nil}]
  BY DEF IsSRQueue
<1>3. \A i \in Index(q) : items[i] # Nil <=> q.items[i] # Nil /\ i \notin slots
  OBVIOUS
<1> HIDE DEF items
<1> QED
  BY <1>1, <1>2, <1>3 DEF IsSRQueue, Index, Live, Window, Offset

-----------------------------------------------------------------------------
(* The ring as a line.                                                     *)

\* The distances from head at which the window holds a run, and the run there.
Held(q)  == {k \in 0 .. Offset(q, q.tail) - 1 : q.items[SlotAt(q, k)] # Nil}
At(q, k) == q.items[SlotAt(q, k)]

\* No run is in the window twice.
Distinct(q) == \A i, j \in Live(q) : q.items[i] = q.items[j] => i = j

\* Slots in the window and distances from head correspond.
LEMMA HeldSlots ==
  ASSUME NEW S, NEW q, IsSRQueue(q, S)
  PROVE  /\ \A k \in Held(q) : SlotAt(q, k) \in Live(q) /\ Offset(q, SlotAt(q, k)) = k
         /\ \A i \in Live(q) : Offset(q, i) \in Held(q) /\ At(q, Offset(q, i)) = q.items[i]
<1>1. q.len \in Nat \ {0} /\ q.head \in 0 .. q.len - 1 /\ q.tail \in 0 .. q.len - 1
  BY DEF IsSRQueue, Index
<1>2. ASSUME NEW k \in Held(q)
      PROVE  SlotAt(q, k) \in Live(q) /\ Offset(q, SlotAt(q, k)) = k
  <2>1. k \in 0 .. Offset(q, q.tail) - 1 /\ q.items[SlotAt(q, k)] # Nil
    BY DEF Held
  <2>2. k \in 0 .. q.len - 1
    BY <1>1, <2>1 DEF Offset
  <2>3. SlotAt(q, k) \in 0 .. q.len - 1 /\ Offset(q, SlotAt(q, k)) = k
    BY <1>1, <2>2 DEF Offset, SlotAt
  <2>4. Offset(q, q.tail) \in Nat
    BY <1>1 DEF Offset
  <2> QED
    BY <2>1, <2>3, <2>4 DEF Live, Window, Index
<1>3. ASSUME NEW i \in Live(q)
      PROVE  Offset(q, i) \in Held(q) /\ At(q, Offset(q, i)) = q.items[i]
  <2>1. i \in Index(q) /\ Offset(q, i) < Offset(q, q.tail) /\ q.items[i] # Nil
    BY DEF Live, Window
  <2>2. Offset(q, i) \in Nat /\ SlotAt(q, Offset(q, i)) = i /\ Offset(q, q.tail) \in Nat
    BY <1>1, <2>1, OffsetType DEF Index
  <2> QED
    BY <2>1, <2>2 DEF Held, At
<1> QED
  BY <1>2, <1>3

\* Push puts the run behind all others, and leaves those at their distance from head,
\* whether or not the ring grows.
LEMMA PushHeld ==
  ASSUME NEW S, NEW q, IsSRQueue(q, S), NEW item \in S, Nil \notin S
  PROVE  /\ Held(Push(q, item)) = Held(q) \cup {Offset(q, q.tail)}
         /\ At(Push(q, item), Offset(q, q.tail)) = item
         /\ \A k \in Held(q) : k < Offset(q, q.tail) /\ At(Push(q, item), k) = At(q, k)
<1> DEFINE n == Offset(q, q.tail)
           items == [q.items EXCEPT ![q.tail] = item]
           grown == [k \in 0 .. 2 * q.len - 1 |->
                       IF k < q.len THEN items[SlotAt(q, k)] ELSE Nil]
           p == Push(q, item)
<1>1. q.len \in Nat \ {0} /\ q.head \in 0 .. q.len - 1 /\ q.tail \in 0 .. q.len - 1
  BY DEF IsSRQueue, Index
<1>2. n \in 0 .. q.len - 1 /\ SlotAt(q, n) = q.tail
  BY <1>1 DEF Offset, SlotAt
<1>3. \A k \in 0 .. n - 1 : SlotAt(q, k) \in 0 .. q.len - 1 /\ SlotAt(q, k) # q.tail
  BY <1>1, <1>2 DEF SlotAt
<1>4. items[q.tail] = item /\ \A k \in 0 .. n - 1 : items[SlotAt(q, k)] = q.items[SlotAt(q, k)]
  BY <1>1, <1>3 DEF IsSRQueue, Index
<1>5. \A k \in 0 .. n : items[SlotAt(q, k)] = IF k = n THEN item ELSE q.items[SlotAt(q, k)]
  BY <1>2, <1>4
<1>6. /\ Offset(p, p.tail) = n + 1
      /\ \A k \in 0 .. n : At(p, k) = items[SlotAt(q, k)]
  <2>1. CASE Succ(q, q.tail) # q.head
    <3>1. p = [items |-> items, len |-> q.len, head |-> q.head, tail |-> Succ(q, q.tail)]
      BY <2>1 DEF Push, IsSRQueue
    <3> HIDE DEF p, items
    <3>2. Offset(p, p.tail) = n + 1
      BY <1>1, <2>1, <3>1 DEF Offset, Succ
    <3>3. \A k \in 0 .. n : SlotAt(p, k) = SlotAt(q, k)
      BY <3>1 DEF SlotAt
    <3> QED
      BY <3>1, <3>2, <3>3 DEF At
  <2>2. CASE Succ(q, q.tail) = q.head
    <3>1. p = [items |-> grown, len |-> 2 * q.len, head |-> 0, tail |-> q.len]
      BY <2>2 DEF Push
    <3>2. n = q.len - 1
      BY <1>1, <2>2 DEF Offset, Succ
    <3>3. \A k \in 0 .. n : grown[k] = items[SlotAt(q, k)]
      BY <1>1, <3>2
    <3> HIDE DEF p, items, grown
    <3>4. Offset(p, p.tail) = n + 1
      BY <1>1, <3>1, <3>2 DEF Offset
    <3>5. \A k \in 0 .. n : SlotAt(p, k) = k
      BY <1>1, <3>1, <3>2 DEF SlotAt
    <3> QED
      BY <3>1, <3>3, <3>4, <3>5 DEF At
  <2> QED
    BY <2>1, <2>2
<1> HIDE DEF n, items, p
<1>7. \A k \in 0 .. n : At(p, k) = IF k = n THEN item ELSE At(q, k)
  BY <1>5, <1>6 DEF At
<1>8. Held(p) = {k \in 0 .. n : At(p, k) # Nil}
  BY <1>2, <1>6 DEF Held, At
<1>9. Held(q) = {k \in 0 .. n - 1 : At(q, k) # Nil}
  BY DEF Held, At, n
<1>10. item # Nil
  OBVIOUS
<1>11. Held(p) = Held(q) \cup {n}
  BY <1>2, <1>7, <1>8, <1>9, <1>10
<1>12. At(p, n) = item /\ \A k \in Held(q) : k < n /\ At(p, k) = At(q, k)
  BY <1>2, <1>7, <1>9
<1> QED
  BY <1>11, <1>12 DEF n, p

\* r is in the line, and x is behind r, in terms of slots.
InLine(q, r)    == \E i \in Live(q) : q.items[i] = r
Behind(q, r, x) == \E i, j \in Live(q) :
                     Offset(q, i) < Offset(q, j) /\ q.items[i] = r /\ q.items[j] = x

\* The line by its elements.
LEMMA LineElements ==
  ASSUME NEW q
  PROVE  /\ \A r : r \in DOMAIN LineOf(q) <=> InLine(q, r)
         /\ \A r \in DOMAIN LineOf(q) : \A x : x \in LineOf(q)[r] <=> Behind(q, r, x)
BY DEF LineOf, InLine, Behind

\* A line is who is in it and who is behind whom.
LEMMA LineEqual ==
  ASSUME NEW q, NEW f, f = [r \in DOMAIN f |-> f[r]],
         \A r : InLine(q, r) <=> r \in DOMAIN f,
         \A r \in DOMAIN f : \A x : Behind(q, r, x) <=> x \in f[r]
  PROVE  LineOf(q) = f
<1>1. DOMAIN LineOf(q) = DOMAIN f
  BY LineElements
<1>2. \A r \in DOMAIN f : LineOf(q)[r] = f[r]
  BY <1>1, LineElements
<1>3. LineOf(q) = [r \in DOMAIN LineOf(q) |-> LineOf(q)[r]]
  BY DEF LineOf
<1> QED
  BY <1>1, <1>2, <1>3

\* The same in terms of distances from head.
LEMMA LineHeld ==
  ASSUME NEW S, NEW q, IsSRQueue(q, S)
  PROVE  /\ \A r : InLine(q, r) <=> \E k \in Held(q) : At(q, k) = r
         /\ \A r, x : Behind(q, r, x) <=>
                        \E k, l \in Held(q) : k < l /\ At(q, k) = r /\ At(q, l) = x
<1>1. /\ \A k \in Held(q) : SlotAt(q, k) \in Live(q) /\ Offset(q, SlotAt(q, k)) = k
      /\ \A i \in Live(q) : Offset(q, i) \in Held(q) /\ At(q, Offset(q, i)) = q.items[i]
  BY HeldSlots
<1>2. \A k \in Held(q) : At(q, k) = q.items[SlotAt(q, k)]
  BY DEF At
<1> QED
  BY <1>1, <1>2 DEF InLine, Behind

\* To push a run is to let it join the line.
LEMMA LinePush ==
  ASSUME NEW S, NEW q, IsSRQueue(q, S), NEW item \in S, Nil \notin S,
         item \notin DOMAIN LineOf(q)
  PROVE  LineOf(Push(q, item)) = Join(LineOf(q), item)
<1> DEFINE p == Push(q, item)
           n == Offset(q, q.tail)
           D == DOMAIN LineOf(q) \cup {item}
           B(r) == IF r = item THEN {} ELSE LineOf(q)[r] \cup {item}
<1>1. /\ Held(p) = Held(q) \cup {n} /\ At(p, n) = item
      /\ \A k \in Held(q) : k < n /\ At(p, k) = At(q, k)
  BY PushHeld
<1>2. /\ \A r : r \in DOMAIN LineOf(q) <=> \E k \in Held(q) : At(q, k) = r
      /\ \A r \in DOMAIN LineOf(q) : \A x : x \in LineOf(q)[r] <=>
           \E k, l \in Held(q) : k < l /\ At(q, k) = r /\ At(q, l) = x
  BY LineElements, LineHeld
<1>3. /\ \A r : InLine(p, r) <=> \E k \in Held(p) : At(p, k) = r
      /\ \A r, x : Behind(p, r, x) <=>
           \E k, l \in Held(p) : k < l /\ At(p, k) = r /\ At(p, l) = x
  BY PushType, LineHeld
<1>4. n \in Int /\ Held(q) \subseteq Int
  BY OffsetType DEF Held, IsSRQueue
<1> HIDE DEF p, n
<1>5. \A r : InLine(p, r) <=> r \in D
  BY <1>1, <1>2, <1>3
<1>6. ASSUME NEW r \in D, NEW x
      PROVE  Behind(p, r, x) <=> x \in B(r)
  <2>1. CASE r = item
    <3>1. \A k \in Held(p) : At(p, k) = r => k = n
      BY <1>1, <1>2, <2>1
    <3>2. \A l \in Held(p) : ~ (n < l)
      BY <1>1, <1>4
    <3> QED
      BY <1>3, <2>1, <3>1, <3>2
  <2>2. CASE r # item
    <3>1. \A k \in Held(p) : At(p, k) = r <=> k \in Held(q) /\ At(q, k) = r
      BY <1>1, <2>2
    <3>2. Behind(p, r, x) => x \in B(r)
      BY <1>1, <1>2, <1>3, <2>2, <3>1
    <3>3. x \in B(r) => Behind(p, r, x)
      BY <1>1, <1>2, <1>3, <2>2, <3>1
    <3> QED
      BY <3>2, <3>3
  <2> QED
    BY <2>1, <2>2
<1>7. LineOf(p) = Join(LineOf(q), item)
  <2> DEFINE f == Join(LineOf(q), item)
  <2>1. f = [r \in D |-> B(r)]
    BY DEF Join
  <2> HIDE DEF f, D, B
  <2>2. f = [r \in DOMAIN f |-> f[r]] /\ DOMAIN f = D /\ \A r \in D : f[r] = B(r)
    BY <2>1
  <2>3. LineOf(p) = f
    BY <1>5, <1>6, <2>2, LineEqual
  <2> QED
    BY <2>3 DEF f
<1> QED
  BY <1>7 DEF p

\* Where a queue p has some of the runs of q, in the order of q, its line keeps those.
LEMMA LineKeep ==
  ASSUME NEW p, NEW q, NEW S, Live(p) \subseteq Live(q),
         \A i \in Live(p) : p.items[i] = q.items[i],
         \A i, j \in Live(p) : Offset(p, i) < Offset(p, j) <=> Offset(q, i) < Offset(q, j),
         \A i \in Live(q) : q.items[i] \in S <=> i \in Live(p)
  PROVE  LineOf(p) = Keep(LineOf(q), S)
<1> DEFINE f == Keep(LineOf(q), S)
<1>1. /\ \A r : InLine(p, r) <=> InLine(q, r) /\ r \in S
      /\ \A r, x : Behind(p, r, x) <=> Behind(q, r, x) /\ r \in S /\ x \in S
  BY DEF InLine, Behind
<1>2. /\ f = [r \in DOMAIN f |-> f[r]]
      /\ DOMAIN f = DOMAIN LineOf(q) \cap S
      /\ \A r \in DOMAIN f : f[r] = LineOf(q)[r] \cap S
  BY DEF Keep
<1> HIDE DEF f
<1>3. LineOf(p) = f
  <2>1. \A r : InLine(p, r) <=> r \in DOMAIN f
    BY <1>1, <1>2, LineElements
  <2>2. \A r \in DOMAIN f : \A x : Behind(p, r, x) <=> x \in f[r]
    BY <1>1, <1>2, LineElements
  <2> QED
    BY <1>2, <2>1, <2>2, LineEqual
<1> QED
  BY <1>3 DEF f

\* To remove slots is to keep the runs in the others.
LEMMA LineRemove ==
  ASSUME NEW S, NEW q, IsSRQueue(q, S), NEW slots, NEW K,
         \A i \in Live(q) : q.items[i] \in K <=> i \notin slots
  PROVE  LineOf(Remove(q, slots)) = Keep(LineOf(q), K)
<1> DEFINE p == Remove(q, slots)
<1>1. Live(p) = Live(q) \ slots
  BY RemoveType
<1>2. p = [items |-> [i \in Index(q) |-> IF i \in slots THEN Nil ELSE q.items[i]],
           len |-> q.len, head |-> q.head, tail |-> q.tail]
  BY DEF Remove, IsSRQueue
<1>3. \A i : Offset(p, i) = Offset(q, i)
  BY <1>2 DEF Offset
<1>4. \A i \in Live(p) : p.items[i] = q.items[i]
  <2>1. Live(q) \subseteq Index(q)
    BY DEF Live, Window
  <2> HIDE DEF p
  <2> QED
    BY <1>1, <1>2, <2>1
<1> HIDE DEF p
<1>5. LineOf(p) = Keep(LineOf(q), K)
  BY <1>1, <1>3, <1>4, LineKeep
<1> QED
  BY <1>5 DEF p

\* Pop moves head behind the slot it returns, and so all later ones nearer to head.
LEMMA PopOffset ==
  ASSUME NEW S, NEW q, IsSRQueue(q, S), Live(q) # {}, NEW i \in Live(q) \ {First(q)}
  PROVE  Offset(Pop(q), i) = Offset(q, i) - Offset(q, First(q)) - 1
<1> DEFINE f == First(q)
           p == Pop(q)
<1>1. f \in Live(q) /\ Offset(q, f) <= Offset(q, i)
  BY FirstLive
<1>2. p = [items |-> q.items, len |-> q.len, head |-> Succ(q, f), tail |-> q.tail]
  BY DEF Pop, IsSRQueue
<1>3. f \in Index(q) /\ i \in Index(q) /\ i # f
  BY <1>1 DEF Live, Window
<1> HIDE DEF f, p
<1>4. Offset(q, f) # Offset(q, i)
  BY <1>3, OffsetInjective
<1>5. q.len \in Nat \ {0} /\ q.tail \in Index(q) /\ q.head \in Index(q)
  BY DEF IsSRQueue
<1>6. p.len = q.len /\ p.head = Succ(q, f)
  BY <1>2
<1>7. Offset(p, i) = Offset(q, i) - Offset(q, f) - 1
  BY <1>1, <1>3, <1>4, <1>5, <1>6 DEF Offset, Succ, Index
<1> QED
  BY <1>7 DEF f, p

\* Pop returns the first run in line, and leaves the line without it.
LEMMA LinePop ==
  ASSUME NEW S, NEW q, IsSRQueue(q, S), Live(q) # {}, Distinct(q)
  PROVE  /\ IsFirst(LineOf(q), Popped(q))
         /\ LineOf(Pop(q)) = Without(LineOf(q), Popped(q))
<1> DEFINE f == First(q)
           p == Pop(q)
           r == q.items[f]
           K == DOMAIN LineOf(q) \ {r}
<1>1. f \in Live(q) /\ \A j \in Live(q) : Offset(q, f) <= Offset(q, j)
  BY FirstLive
<1>2. Live(q) \subseteq Index(q) /\ \A j \in Live(q) : Offset(q, j) \in Int
  BY OffsetType DEF Live, Window
<1>3. \A j \in Live(q) : Offset(q, f) < Offset(q, j) <=> j # f
  <2>1. \A j \in Live(q) : Offset(q, f) = Offset(q, j) => j = f
    BY <1>1, <1>2, OffsetInjective
  <2> QED
    BY <1>1, <1>2, <2>1
<1>4. \A j \in Live(q) : q.items[j] = r <=> j = f
  BY <1>1 DEF Distinct
<1>5. Popped(q) = r
  BY DEF Popped
<1>6. Live(p) = Live(q) \ {f}
  BY PopLive
<1>7. \A i \in Live(p) : Offset(p, i) = Offset(q, i) - Offset(q, f) - 1
  BY <1>6, PopOffset
<1>8. p.items = q.items
  BY DEF Pop, IsSRQueue
<1> HIDE DEF f, p
<1>9. InLine(q, r) /\ \A x : Behind(q, r, x) <=> InLine(q, x) /\ x # r
  BY <1>1, <1>3, <1>4 DEF InLine, Behind
<1>10. IsFirst(LineOf(q), r)
  BY <1>9, LineElements DEF IsFirst
<1>11. LineOf(p) = Keep(LineOf(q), K)
  <2>1. \A i, j \in Live(p) : Offset(p, i) < Offset(p, j) <=> Offset(q, i) < Offset(q, j)
    <3>1. \A i \in Live(p) : Offset(q, i) \in Int
      BY <1>2, <1>6
    <3>2. Offset(q, f) \in Int
      BY <1>1, <1>2
    <3> QED
      BY <1>7, <3>1, <3>2
  <2>2. \A i \in Live(q) : q.items[i] \in K <=> i \in Live(p)
    <3>1. \A i \in Live(q) : q.items[i] \in DOMAIN LineOf(q)
      BY LineElements DEF InLine
    <3> QED
      BY <1>4, <1>6, <3>1
  <2> HIDE DEF K
  <2> QED
    BY <1>6, <1>8, <2>1, <2>2, LineKeep
<1> QED
  BY <1>5, <1>10, <1>11 DEF Without, p

\* From an empty window there is nobody to serve, and Pop leaves it empty.
LEMMA LineEmpty ==
  ASSUME NEW q
  PROVE  DOMAIN LineOf(q) = {} <=> Live(q) = {}
BY LineElements DEF InLine

\* An empty window is an empty line.
LEMMA NobodyInLine ==
  ASSUME NEW q, Live(q) = {}
  PROVE  LineOf(q) = EmptyLine
BY DEF LineOf, EmptyLine

\* A run that is pushed once is in the window once.
LEMMA PushDistinct ==
  ASSUME NEW S, NEW q, IsSRQueue(q, S), NEW item \in S, Nil \notin S,
         item \notin DOMAIN LineOf(q), Distinct(q)
  PROVE  Distinct(Push(q, item))
<1> DEFINE p == Push(q, item)
           n == Offset(q, q.tail)
<1>1. \A k, l \in Held(q) : At(q, k) = At(q, l) => k = l
  <2>1. \A k \in Held(q) : SlotAt(q, k) \in Live(q) /\ Offset(q, SlotAt(q, k)) = k
    BY HeldSlots
  <2> QED
    BY <2>1 DEF Distinct, At
<1>2. /\ Held(p) = Held(q) \cup {n} /\ At(p, n) = item
      /\ \A k \in Held(q) : At(p, k) = At(q, k)
  BY PushHeld
<1>3. \A k \in Held(q) : At(q, k) # item
  BY LineElements, LineHeld
<1>4. IsSRQueue(p, S)
  BY PushType
<1> HIDE DEF p, n
<1>5. \A k, l \in Held(p) : At(p, k) = At(p, l) => k = l
  BY <1>1, <1>2, <1>3
<1>6. ASSUME NEW i \in Live(p), NEW j \in Live(p), p.items[i] = p.items[j]
      PROVE  i = j
  <2>1. /\ Offset(p, i) \in Held(p) /\ At(p, Offset(p, i)) = p.items[i]
        /\ Offset(p, j) \in Held(p) /\ At(p, Offset(p, j)) = p.items[j]
    BY <1>4, HeldSlots
  <2>2. Offset(p, i) = Offset(p, j)
    BY <1>5, <1>6, <2>1
  <2>3. i \in Index(p) /\ j \in Index(p)
    BY DEF Live, Window
  <2> QED
    BY <1>4, <2>2, <2>3, OffsetInjective
<1>7. Distinct(p)
  BY <1>6 DEF Distinct
<1> QED
  BY <1>7 DEF p

\* Nor does a run come twice by what Pop and Remove take away.
LEMMA PopDistinct ==
  ASSUME NEW S, NEW q, IsSRQueue(q, S), Distinct(q)
  PROVE  Distinct(Pop(q))
<1>1. Live(Pop(q)) \subseteq Live(q)
  BY PopLive
<1>2. Pop(q).items = q.items
  BY DEF Pop, IsSRQueue
<1> QED
  BY <1>1, <1>2 DEF Distinct

LEMMA RemoveDistinct ==
  ASSUME NEW S, NEW q, IsSRQueue(q, S), Distinct(q), NEW slots
  PROVE  Distinct(Remove(q, slots))
<1>1. Live(Remove(q, slots)) = Live(q) \ slots
  BY RemoveType
<1>2. Live(q) \subseteq Index(q)
  BY DEF Live, Window
<1>3. \A i \in Live(Remove(q, slots)) : Remove(q, slots).items[i] = q.items[i]
  BY <1>1, <1>2 DEF Remove, IsSRQueue
<1> QED
  BY <1>1, <1>3 DEF Distinct

\* RemoveAll leaves nobody in line.
LEMMA LineRemoveAll ==
  ASSUME NEW S, NEW q, IsSRQueue(q, S)
  PROVE  LineOf(Remove(q, All(q))) = EmptyLine
<1>1. Live(Remove(q, All(q))) = {}
  <2>1. Live(Remove(q, All(q))) = Live(q) \ All(q)
    BY RemoveType
  <2>2. Live(q) \subseteq All(q)
    BY DEF All, Scanned, Live
  <2> QED
    BY <2>1, <2>2
<1> QED
  BY <1>1, NobodyInLine

\* RemoveWithSection leaves the runs of the other sections, in their order.
LEMMA LineRemoveSection ==
  ASSUME NEW S, NEW q, IsSRQueue(q, S), NEW sec
  PROVE  LineOf(Remove(q, WithSection(q, sec)))
           = Keep(LineOf(q), {r \in DOMAIN LineOf(q) : r.sec # sec})
<1> DEFINE K == {r \in DOMAIN LineOf(q) : r.sec # sec}
<1>1. \A i \in Live(q) : q.items[i] \in DOMAIN LineOf(q)
  BY LineElements DEF InLine
<1>2. \A i \in Live(q) : i \in WithSection(q, sec) <=> q.items[i].sec = sec
  BY DEF WithSection, Scanned, Live
<1>3. \A i \in Live(q) : q.items[i] \in K <=> i \notin WithSection(q, sec)
  BY <1>1, <1>2
<1> HIDE DEF K
<1>4. LineOf(Remove(q, WithSection(q, sec))) = Keep(LineOf(q), K)
  BY <1>3, LineRemove
<1> QED
  BY <1>4 DEF K

\* Where runs have ids of their own, RemoveByID takes out the run with the id.
LEMMA LineRemoveID ==
  ASSUME NEW S, NEW q, IsSRQueue(q, S), Distinct(q), NEW id,
         \A i, j \in Live(q) : q.items[i].id = q.items[j].id => q.items[i] = q.items[j]
  PROVE  /\ ByID(q, id) = {i \in Live(q) : q.items[i].id = id}
         /\ LineOf(Remove(q, ByID(q, id)))
              = Keep(LineOf(q), {r \in DOMAIN LineOf(q) : r.id # id})
<1> DEFINE K == {r \in DOMAIN LineOf(q) : r.id # id}
<1>1. \A i \in Live(q) : q.items[i] \in DOMAIN LineOf(q)
  BY LineElements DEF InLine
<1>2. \A i \in Live(q) : Offset(q, i) <= Offset(q, i)
  BY OffsetType DEF Live, Window
<1>3. \A i, j \in Live(q) : q.items[i].id = id /\ q.items[j].id = id => i = j
  BY DEF Distinct
<1>4. ByID(q, id) = {i \in Live(q) : q.items[i].id = id}
  BY <1>2, <1>3 DEF ByID
<1>5. \A i \in Live(q) : q.items[i] \in K <=> i \notin ByID(q, id)
  BY <1>1, <1>4
<1> HIDE DEF K
<1>6. LineOf(Remove(q, ByID(q, id))) = Keep(LineOf(q), K)
  BY <1>5, LineRemove
<1> QED
  BY <1>4, <1>6 DEF K

-----------------------------------------------------------------------------
(* The ring as a slice.  What a loop has listed after k slots is a function *)
(* defined by recursion: that there is one, and what it lists, is shown for *)
(* the least k for which it would fail.                                     *)

\* What the loop of ToSlice makes of the slot k - 1 steps from head.
Listed(q, before, k) == IF At(q, k - 1) = Nil THEN before ELSE Append(before, At(q, k - 1))

\* Rs lists the runs of the first k slots, for each k up to n.
Lists(q, n, Rs) == Rs = [k \in 0 .. n |-> IF k = 0 THEN <<>> ELSE Listed(q, Rs[k - 1], k)]

\* The loop comes to an end.
LEMMA ListsExists ==
  ASSUME NEW q, NEW n \in Nat
  PROVE  \E Rs : Lists(q, n, Rs)
<1> DEFINE Bad == {m \in Nat : ~ \E Rs : Lists(q, m, Rs)}
<1> SUFFICES ASSUME Bad # {}
             PROVE  FALSE
  OBVIOUS
<1>1. PICK m \in Bad : \A k \in Bad : m <= k
  <2>1. Bad \subseteq Nat
    OBVIOUS
  <2> HIDE DEF Bad
  <2> QED
    BY <2>1, LeastNat
<1>2. CASE m = 0
  <2>1. Lists(q, 0, [k \in 0 .. 0 |-> <<>>])
    BY DEF Lists
  <2> QED
    BY <1>2, <2>1
<1>3. CASE m # 0
  <2>1. m - 1 \in Nat /\ m - 1 \notin Bad
    BY <1>1, <1>3
  <2>2. PICK Rs : Lists(q, m - 1, Rs)
    BY <2>1
  <2> DEFINE New == [k \in 0 .. m |-> IF k = m THEN Listed(q, Rs[m - 1], m) ELSE Rs[k]]
  <2>3. ASSUME NEW k \in 0 .. m
        PROVE  New[k] = IF k = 0 THEN <<>> ELSE Listed(q, New[k - 1], k)
    <3>1. CASE k = 0
      BY <1>3, <2>1, <2>2, <3>1 DEF Lists
    <3>2. CASE k = m
      BY <1>3, <2>1, <3>2
    <3>3. CASE k # 0 /\ k # m
      <4>1. k \in 0 .. m - 1 /\ k - 1 \in 0 .. m /\ k - 1 # m
        BY <3>3
      <4>2. Rs[k] = Listed(q, Rs[k - 1], k)
        BY <2>2, <3>3, <4>1 DEF Lists
      <4> QED
        BY <3>3, <4>1, <4>2
    <3> QED
      BY <3>1, <3>2, <3>3
  <2>4. Lists(q, m, New)
    BY <2>3 DEF Lists
  <2> QED
    BY <2>4
<1> QED
  BY <1>2, <1>3

\* Who is in a slice and who is after whom; who is in the first k slots of a ring, likewise.
InSlice(s, r)        == \E a \in 1 .. Len(s) : s[a] = r
After(s, r, x)       == \E a, b \in 1 .. Len(s) : a < b /\ s[a] = r /\ s[b] = x
InFirst(q, k, r)     == \E i \in Held(q) : i < k /\ At(q, i) = r
AfterIn(q, k, r, x)  == \E i, j \in Held(q) : i < j /\ j < k /\ At(q, i) = r /\ At(q, j) = x

\* The slice s holds the runs of the first k slots, in their order.
SliceOf(q, k, s) ==
  /\ \A r : InSlice(s, r) <=> InFirst(q, k, r)
  /\ \A r, x : After(s, r, x) <=> AfterIn(q, k, r, x)

\* The number of slots in the window.
LEMMA WindowType ==
  ASSUME NEW S, NEW q, IsSRQueue(q, S)
  PROVE  Offset(q, q.tail) \in Nat
BY DEF IsSRQueue, Index, Offset

\* One more slot.
LEMMA SliceStep ==
  ASSUME NEW S, NEW q, IsSRQueue(q, S), NEW k \in 1 .. Offset(q, q.tail),
         NEW s \in Seq(S), SliceOf(q, k - 1, s)
  PROVE  Listed(q, s, k) \in Seq(S) /\ SliceOf(q, k, Listed(q, s, k))
<1>1. Offset(q, q.tail) \in Nat /\ k - 1 \in 0 .. Offset(q, q.tail) - 1 /\ Held(q) \subseteq Nat
  <2>1. Offset(q, q.tail) \in Nat
    BY WindowType
  <2> QED
    BY <2>1 DEF Held
<1>2. CASE At(q, k - 1) = Nil
  <2>1. \A i \in Held(q) : i < k <=> i < k - 1
    BY <1>1, <1>2 DEF Held, At
  <2>2. \A r : InFirst(q, k, r) <=> InFirst(q, k - 1, r)
    BY <2>1 DEF InFirst
  <2>3. \A r, x : AfterIn(q, k, r, x) <=> AfterIn(q, k - 1, r, x)
    BY <2>1 DEF AfterIn
  <2> QED
    BY <1>2, <2>2, <2>3 DEF Listed, SliceOf
<1>3. CASE At(q, k - 1) # Nil
  <2> DEFINE r0 == At(q, k - 1)
             t  == Append(s, r0)
             n  == Len(s) + 1
  <2>1. k - 1 \in Held(q)
    BY <1>1, <1>3 DEF Held, At
  <2>2. r0 \in S
    <3>1. SlotAt(q, k - 1) \in Index(q)
      BY <2>1, HeldSlots DEF Live, Window
    <3> QED
      BY <1>3, <3>1 DEF IsSRQueue, At
  <2>3. \A i \in Held(q) : i < k <=> i < k - 1 \/ i = k - 1
    BY <1>1
  <2> HIDE DEF r0
  <2>4. /\ t \in Seq(S) /\ Len(t) = n /\ Len(s) \in Nat /\ t[n] = r0
        /\ \A a \in 1 .. Len(s) : t[a] = s[a]
    BY <2>2
  <2>5. /\ 1 .. n = (1 .. Len(s)) \cup {n} /\ ~ (n < n)
        /\ \A a \in 1 .. Len(s) : a < n /\ ~ (n < a)
    BY <2>4
  <2> HIDE DEF t, n
  <2>6. \A r : InSlice(t, r) <=> InSlice(s, r) \/ r = r0
    BY <2>4, <2>5 DEF InSlice
  <2>7. \A r, x : After(t, r, x) <=> After(s, r, x) \/ (x = r0 /\ InSlice(s, r))
    BY <2>4, <2>5 DEF InSlice, After
  <2>8. \A r : InFirst(q, k, r) <=> InFirst(q, k - 1, r) \/ r = r0
    BY <2>1, <2>3 DEF r0, InFirst
  <2>9. \A r, x : AfterIn(q, k, r, x) <=>
                    AfterIn(q, k - 1, r, x) \/ (x = r0 /\ InFirst(q, k - 1, r))
    BY <2>1, <2>3 DEF r0, InFirst, AfterIn
  <2>10. SliceOf(q, k, t)
    BY <2>6, <2>7, <2>8, <2>9 DEF SliceOf
  <2> QED
    BY <1>3, <2>4, <2>10 DEF Listed, t, r0
<1> QED
  BY <1>2, <1>3

\* What the loop has listed after k slots.
LEMMA ListsSlice ==
  ASSUME NEW S, NEW q, IsSRQueue(q, S), NEW Rs, Lists(q, Offset(q, q.tail), Rs),
         NEW n \in 0 .. Offset(q, q.tail)
  PROVE  Rs[n] \in Seq(S) /\ SliceOf(q, n, Rs[n])
<1> DEFINE Good(k) == Rs[k] \in Seq(S) /\ SliceOf(q, k, Rs[k])
           Bad     == {k \in 0 .. Offset(q, q.tail) : ~Good(k)}
<1> SUFFICES ASSUME Bad # {}
             PROVE  FALSE
  OBVIOUS
<1>1. Offset(q, q.tail) \in Nat
  BY WindowType
<1>2. PICK m \in Bad : \A k \in Bad : m <= k
  <2>1. Bad \subseteq Nat
    BY <1>1
  <2> HIDE DEF Bad
  <2> QED
    BY <2>1, LeastNat
<1>3. m \in 0 .. Offset(q, q.tail) /\ ~Good(m)
  OBVIOUS
<1>4. CASE m = 0
  <2>1. Rs[0] = <<>>
    BY <1>1 DEF Lists
  <2>2. SliceOf(q, 0, <<>>)
    BY <1>1 DEF SliceOf, InSlice, After, InFirst, AfterIn, Held
  <2> QED
    BY <1>3, <1>4, <2>1, <2>2
<1>5. CASE m # 0
  <2>1. m \in 1 .. Offset(q, q.tail) /\ m - 1 \in 0 .. Offset(q, q.tail) /\ ~ (m <= m - 1)
    BY <1>1, <1>3, <1>5
  <2>2. Good(m - 1)
    BY <1>2, <2>1
  <2>3. Rs[m] = Listed(q, Rs[m - 1], m)
    BY <1>5, <1>3 DEF Lists
  <2> QED
    BY <1>3, <2>1, <2>2, <2>3, SliceStep
<1> QED
  BY <1>4, <1>5

\* The slice holds the runs of the line, each after those it is behind.
LEMMA SliceIsLineOf ==
  ASSUME NEW S, NEW q, IsSRQueue(q, S)
  PROVE  /\ ToSlice(q) \in Seq(S)
         /\ LET s       == ToSlice(q)
                Runs(K) == {s[k] : k \in K}
            IN  LineOf(q) = [r \in Runs(DOMAIN s) |->
                               Runs({k \in DOMAIN s : \E j \in 1 .. k - 1 : s[j] = r})]
<1> DEFINE n     == Offset(q, q.tail)
           Loop == CHOOSE Rs : Lists(q, n, Rs)
           s    == ToSlice(q)
           D    == {s[k] : k \in DOMAIN s}
           B(r) == {s[k] : k \in {k \in DOMAIN s : \E j \in 1 .. k - 1 : s[j] = r}}
<1>1. n \in Nat
  BY WindowType
<1>2. s = Loop[n]
  BY DEF ToSlice, Lists, Listed, At
<1>3. Lists(q, n, Loop)
  BY <1>1, ListsExists
<1>4. s \in Seq(S) /\ SliceOf(q, n, s)
  BY <1>1, <1>2, <1>3, ListsSlice
<1>5. \A i \in Held(q) : i < n
  BY <1>1 DEF Held
<1> HIDE DEF n, Loop, s
<1>6. DOMAIN s = 1 .. Len(s) /\ Len(s) \in Nat
  BY <1>4
<1>7. \A r : InLine(q, r) <=> InSlice(s, r)
  BY <1>4, <1>5, LineHeld DEF SliceOf, InFirst
<1>8. \A r, x : Behind(q, r, x) <=> After(s, r, x)
  <2>1. \A r, x : Behind(q, r, x) <=> AfterIn(q, n, r, x)
    BY <1>5, LineHeld DEF AfterIn
  <2> QED
    BY <1>4, <2>1 DEF SliceOf
<1>9. \A r : InSlice(s, r) <=> r \in D
  BY <1>6 DEF InSlice
<1>10. ASSUME NEW r, NEW x
       PROVE  After(s, r, x) <=> x \in B(r)
  <2>1. x \in B(r) <=> \E k \in 1 .. Len(s) : s[k] = x /\ \E j \in 1 .. k - 1 : s[j] = r
    BY <1>6
  <2>2. \A j, k \in 1 .. Len(s) : j < k <=> j \in 1 .. k - 1
    BY <1>6
  <2>3. \A k \in 1 .. Len(s) : \A j \in 1 .. k - 1 : j \in 1 .. Len(s)
    BY <1>6
  <2> QED
    BY <2>1, <2>2, <2>3 DEF After
<1> DEFINE f == [r \in D |-> B(r)]
<1>11. LineOf(q) = f
  <2> HIDE DEF D, B
  <2>1. f = [r \in DOMAIN f |-> f[r]] /\ DOMAIN f = D /\ \A r \in D : f[r] = B(r)
    OBVIOUS
  <2> HIDE DEF f
  <2> QED
    BY <1>7, <1>8, <1>9, <1>10, <2>1, LineEqual
<1> QED
  BY <1>4, <1>11 DEF s
=============================================================================
