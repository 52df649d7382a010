-------------------------- MODULE RingBufferProofs --------------------------
(***************************************************************************)
(* LockFreeRingBuffer with one reader is the queue of OverwriteQueue, for  *)
(* every capacity.                                                         *)
(***************************************************************************)
EXTENDS RingBuffer, SequenceTheorems, TLAPS

\* read may be called by one thread at a time.
OneReader == \A r, s \in Readers : r = s

Values == Items \cup {Empty}

\* Contents as a function of the fields: how many items there are, the slot of the n-th of
\* them, and the items.
Span(r, w) == IF w >= r THEN w - r ELSE Capacity - r + w
Slot(r, n) == IF r + n - 1 < Capacity THEN r + n - 1 ELSE r + n - 1 - Capacity
View(b, r, w) == [n \in 1..Span(r, w) |-> b[Slot(r, n)]]

-----------------------------------------------------------------------------
(* Positions *)

\* A position that ran over the end once.
LEMMA Remainder ==
  ASSUME RingAssumption, NEW x \in 0..2 * Capacity - 1
  PROVE  x % Capacity = IF x < Capacity THEN x ELSE x - Capacity
<1>1. Capacity \in Nat \ {0}
  BY DEF RingAssumption
<1>2. x \in Nat /\ x < Capacity + Capacity
  BY <1>1
<1>3. CASE x < Capacity
  BY <1>1, <1>2, <1>3
<1>4. CASE x >= Capacity
  <2>1. (x - Capacity) % Capacity = x - Capacity
    BY <1>1, <1>2, <1>4
  <2>2. x % Capacity = (x - Capacity) % Capacity
    BY <1>1, <1>2, <1>4
  <2> QED
    BY <2>1, <2>2, <1>4, <1>1
<1> QED
  BY <1>1, <1>2, <1>3, <1>4

LEMMA Successor ==
  ASSUME RingAssumption, NEW n \in Slots
  PROVE  /\ Succ(n) = IF n = Capacity - 1 THEN 0 ELSE n + 1
         /\ Succ(n) \in Slots
<1>1. Capacity \in Nat /\ Capacity > 1
  BY DEF RingAssumption
<1>2. n + 1 \in 0..2 * Capacity - 1
  BY <1>1 DEF Slots
<1> QED
  BY <1>1, <1>2, Remainder DEF Slots, Succ

\* The slots are slots, and at most one is left empty.
LEMMA Positions ==
  ASSUME RingAssumption, NEW r \in Slots, NEW w \in Slots
  PROVE  /\ Span(r, w) \in 0..Capacity - 1
         /\ Span(r, w) = 0 <=> r = w
         /\ \A n \in 1..Span(r, w) : n \in 1..Capacity
         /\ \A n \in 1..Capacity : Slot(r, n) \in Slots
BY DEF RingAssumption, Slots, Span, Slot

\* What the code computes.
LEMMA SlotIsRemainder ==
  ASSUME RingAssumption, NEW r \in Slots, NEW n \in 1..Capacity
  PROVE  (r + n - 1) % Capacity = Slot(r, n)
<1>1. Capacity \in Nat /\ Capacity > 1
  BY DEF RingAssumption
<1>2. PICK x \in 0..2 * Capacity - 1 : x = r + n - 1
  BY <1>1 DEF Slots
<1>3. x % Capacity = IF x < Capacity THEN x ELSE x - Capacity
  BY Remainder
<1> QED
  BY <1>1, <1>2, <1>3 DEF Slot, Slots

\* What the fields hold is a sequence.
LEMMA ViewIsSeq ==
  ASSUME RingAssumption, NEW b \in [Slots -> Values], NEW r \in Slots, NEW w \in Slots
  PROVE  /\ View(b, r, w) \in Seq(Values)
         /\ Len(View(b, r, w)) = Span(r, w)
         /\ \A n \in 1..Span(r, w) : View(b, r, w)[n] = b[Slot(r, n)]
<1>1. Span(r, w) \in Nat
  BY Positions DEF RingAssumption
<1>2. ASSUME NEW n \in 1..Span(r, w) PROVE b[Slot(r, n)] \in Values
  BY Positions
<1> QED
  BY <1>1, <1>2 DEF View

-----------------------------------------------------------------------------
(* What the operations do to the queue *)

\* An item is written where there is room.
LEMMA PutRoom ==
  ASSUME RingAssumption, NEW b \in [Slots -> Values], NEW r \in Slots, NEW w \in Slots,
         NEW i \in Values, Succ(w) # r
  PROVE  /\ View([b EXCEPT ![w] = i], r, Succ(w)) = Append(View(b, r, w), i)
         /\ Len(View(b, r, w)) < Capacity - 1
<1> DEFINE c == [b EXCEPT ![w] = i]
           q == View(b, r, w)
           p == View(c, r, Succ(w))
<1>1. Capacity \in Nat /\ Capacity > 1
  BY DEF RingAssumption
<1>2. Succ(w) \in Slots /\ Succ(w) = IF w = Capacity - 1 THEN 0 ELSE w + 1
  BY Successor
<1>3. /\ c \in [Slots -> Values] /\ c[w] = i
      /\ \A s \in Slots \ {w} : c[s] = b[s]
  OBVIOUS
<1> HIDE DEF c
<1>4. /\ q \in Seq(Values) /\ Len(q) = Span(r, w)
      /\ \A n \in 1..Span(r, w) : q[n] = b[Slot(r, n)]
  BY ViewIsSeq
<1>5. /\ p \in Seq(Values) /\ Len(p) = Span(r, Succ(w))
      /\ \A n \in 1..Span(r, Succ(w)) : p[n] = c[Slot(r, n)]
  BY <1>2, <1>3, ViewIsSeq
<1>6. Span(r, Succ(w)) = Span(r, w) + 1 /\ Span(r, w) < Capacity - 1 /\ Span(r, w) \in Nat
  BY <1>1, <1>2 DEF Span, Slots
<1> HIDE DEF q, p
<1>7. ASSUME NEW n \in 1..Len(p)
      PROVE  p[n] = IF n <= Len(q) THEN q[n] ELSE i
  <2>1. n \in 1..Capacity /\ n \in 1..Span(r, Succ(w))
    BY <1>1, <1>5, <1>6
  <2>2. Slot(r, n) \in Slots
    BY <2>1, Positions
  <2>3. CASE n <= Span(r, w)
    <3>1. Slot(r, n) # w
      BY <1>1, <2>1, <2>3 DEF Span, Slots, Slot
    <3> QED
      BY <1>3, <1>4, <1>5, <2>1, <2>2, <2>3, <3>1
  <2>4. CASE n = Span(r, w) + 1
    <3>1. Slot(r, n) = w
      BY <1>1, <2>1, <2>4 DEF Span, Slots, Slot
    <3> QED
      BY <1>3, <1>4, <1>5, <1>6, <2>1, <2>4, <3>1
  <2> QED
    BY <1>5, <1>6, <2>1, <2>3, <2>4
<1>8. /\ Append(q, i) \in Seq(Values) /\ Len(Append(q, i)) = Len(q) + 1
      /\ \A n \in 1..Len(q) + 1 : Append(q, i)[n] = IF n <= Len(q) THEN q[n] ELSE i
  BY <1>4, AppendProperties
<1>9. p = Append(q, i)
  BY <1>4, <1>5, <1>6, <1>7, <1>8, SeqEqual
<1> QED
  BY <1>9, <1>4, <1>6 DEF c, q, p

\* An item is written over the oldest one.
LEMMA PutFull ==
  ASSUME RingAssumption, NEW b \in [Slots -> Values], NEW r \in Slots, NEW w \in Slots,
         NEW i \in Values, Succ(w) = r
  PROVE  /\ View([b EXCEPT ![w] = i], Succ(r), Succ(w)) = Append(Tail(View(b, r, w)), i)
         /\ Len(View(b, r, w)) = Capacity - 1
<1> DEFINE c == [b EXCEPT ![w] = i]
           q == View(b, r, w)
           p == View(c, Succ(r), Succ(w))
<1>1. Capacity \in Nat /\ Capacity > 1
  BY DEF RingAssumption
<1>2. /\ Succ(w) \in Slots /\ Succ(w) = IF w = Capacity - 1 THEN 0 ELSE w + 1
      /\ Succ(r) \in Slots /\ Succ(r) = IF r = Capacity - 1 THEN 0 ELSE r + 1
  BY Successor
<1>3. /\ c \in [Slots -> Values] /\ c[w] = i
      /\ \A s \in Slots \ {w} : c[s] = b[s]
  OBVIOUS
<1> HIDE DEF c
<1>4. /\ q \in Seq(Values) /\ Len(q) = Span(r, w)
      /\ \A n \in 1..Span(r, w) : q[n] = b[Slot(r, n)]
  BY ViewIsSeq
<1>5. /\ p \in Seq(Values) /\ Len(p) = Span(Succ(r), Succ(w))
      /\ \A n \in 1..Span(Succ(r), Succ(w)) : p[n] = c[Slot(Succ(r), n)]
  BY <1>2, <1>3, ViewIsSeq, SMTT(60)
<1>6. Span(Succ(r), Succ(w)) = Capacity - 1 /\ Span(r, w) = Capacity - 1
  BY <1>1, <1>2 DEF Span, Slots
<1> HIDE DEF q, p
<1>7. /\ q # <<>> /\ Tail(q) \in Seq(Values) /\ Len(Tail(q)) = Len(q) - 1
      /\ \A n \in 1..Len(Tail(q)) : Tail(q)[n] = q[n + 1]
  <2>1. q # <<>>
    BY <1>1, <1>4, <1>6, EmptySeq
  <2> QED
    BY <1>4, <2>1, HeadTailProperties
<1>8. /\ Append(Tail(q), i) \in Seq(Values) /\ Len(Append(Tail(q), i)) = Len(q)
      /\ \A n \in 1..Len(q) :
           Append(Tail(q), i)[n] = IF n <= Len(q) - 1 THEN Tail(q)[n] ELSE i
  <2> DEFINE u == Tail(q)
  <2>1. u \in Seq(Values)
    BY <1>7
  <2> HIDE DEF u
  <2>2. /\ Append(u, i) \in Seq(Values) /\ Len(Append(u, i)) = Len(u) + 1
        /\ \A n \in 1..Len(u) + 1 : Append(u, i)[n] = IF n <= Len(u) THEN u[n] ELSE i
    BY <2>1, AppendProperties
  <2>3. Len(u) + 1 = Len(q) /\ Len(u) = Len(q) - 1
    BY <1>1, <1>4, <1>6, <1>7 DEF u
  <2> QED
    BY <2>2, <2>3 DEF u
<1>9. ASSUME NEW n \in 1..Len(p)
      PROVE  p[n] = IF n <= Len(q) - 1 THEN Tail(q)[n] ELSE i
  <2>1. n \in 1..Capacity - 1
    BY <1>5, <1>6
  <2>2. CASE n <= Capacity - 2
    <3>1. n \in 1..Len(q) - 1 /\ n + 1 \in 1..Len(q) /\ n + 1 \in 1..Capacity
      BY <1>1, <1>4, <1>6, <2>1, <2>2
    <3>2. Slot(r, n + 1) \in Slots
      BY <3>1, <1>2, Positions
    <3>3. Slot(Succ(r), n) = Slot(r, n + 1) /\ Slot(r, n + 1) # w
      BY <1>1, <1>2, <2>1, <2>2 DEF Slots, Slot
    <3>4. Tail(q)[n] = b[Slot(r, n + 1)]
      BY <1>4, <1>7, <3>1
    <3>5. p[n] = c[Slot(Succ(r), n)]
      BY <1>5
    <3> QED
      BY <1>3, <3>1, <3>2, <3>3, <3>4, <3>5
  <2>3. CASE n = Capacity - 1
    <3>1. Slot(Succ(r), n) = w
      BY <1>1, <1>2, <2>3 DEF Slots, Slot
    <3>2. p[n] = c[Slot(Succ(r), n)]
      BY <1>5
    <3>3. ~ (n <= Len(q) - 1)
      BY <1>1, <1>4, <1>6, <2>3
    <3> QED
      BY <1>3, <3>1, <3>2, <3>3
  <2> QED
    BY <1>1, <2>1, <2>2, <2>3
<1>10. p = Append(Tail(q), i)
  BY <1>1, <1>4, <1>5, <1>6, <1>8, <1>9, SeqEqual
<1> QED
  BY <1>10, <1>4, <1>6 DEF c, q, p

\* The oldest item is taken.
LEMMA TakeOldest ==
  ASSUME RingAssumption, NEW b \in [Slots -> Values], NEW r \in Slots, NEW w \in Slots,
         r # w
  PROVE  /\ View(b, r, w) # <<>>
         /\ View(b, Succ(r), w) = Tail(View(b, r, w))
<1> DEFINE q == View(b, r, w)
           p == View(b, Succ(r), w)
<1>1. Capacity \in Nat /\ Capacity > 1
  BY DEF RingAssumption
<1>2. Succ(r) \in Slots /\ Succ(r) = IF r = Capacity - 1 THEN 0 ELSE r + 1
  BY Successor
<1>3. /\ q \in Seq(Values) /\ Len(q) = Span(r, w)
      /\ \A n \in 1..Span(r, w) : q[n] = b[Slot(r, n)]
  BY ViewIsSeq
<1>4. /\ p \in Seq(Values) /\ Len(p) = Span(Succ(r), w)
      /\ \A n \in 1..Span(Succ(r), w) : p[n] = b[Slot(Succ(r), n)]
  BY <1>2, ViewIsSeq
<1>5. Span(Succ(r), w) = Span(r, w) - 1 /\ Span(r, w) \in 1..Capacity - 1
  BY <1>1, <1>2 DEF Span, Slots
<1> HIDE DEF q, p
<1>6. q # <<>>
  BY <1>1, <1>3, <1>5, EmptySeq
<1>7. /\ Tail(q) \in Seq(Values) /\ Len(Tail(q)) = Len(q) - 1
      /\ \A n \in 1..Len(Tail(q)) : Tail(q)[n] = q[n + 1]
  BY <1>3, <1>6, HeadTailProperties
<1>8. ASSUME NEW n \in 1..Len(p) PROVE p[n] = Tail(q)[n]
  <2>1. n \in 1..Capacity /\ n + 1 \in 1..Capacity /\ n + 1 \in 1..Span(r, w)
    BY <1>1, <1>4, <1>5
  <2>2. Slot(Succ(r), n) = Slot(r, n + 1)
    BY <1>1, <1>2, <1>4, <1>5 DEF Slots, Slot
  <2>3. Tail(q)[n] = b[Slot(r, n + 1)]
    BY <1>3, <1>4, <1>5, <1>7, <2>1
  <2> QED
    BY <1>4, <2>2, <2>3
<1>9. p = Tail(q)
  BY <1>3, <1>4, <1>5, <1>7, <1>8, SeqEqual
<1> QED
  BY <1>6, <1>9 DEF q, p

-----------------------------------------------------------------------------
\* A read that has begun has the position of the oldest item, and stores its successor only
\* if there is one.
ReadConsistent ==
  \A r \in Readers :
    /\ pc[r] # "idle" => readIdx[r] = readPos
    /\ pc[r] = "store" => readPos # writePos

RingInv == TypeOK /\ ReadConsistent

LEMMA RingInitial == ASSUME RingAssumption, Init PROVE RingInv
<1>1. 0 \in Slots
  BY DEF RingAssumption, Slots
<1>2. /\ buffer \in [Slots -> Items \cup {Empty}] /\ readIdx \in [Readers -> Slots]
      /\ pc \in [Readers -> {"idle", "loaded", "store"}]
  BY <1>1 DEF Init
<1>3. got \in [Readers -> Seq(Items \cup {Empty})]
  <2>1. <<>> \in Seq(Items \cup {Empty})
    BY EmptySeq
  <2> QED
    BY <2>1 DEF Init
<1>4. written \in 0..MaxItems
  BY DEF Init, RingAssumption
<1> QED
  BY <1>1, <1>2, <1>3, <1>4 DEF Init, RingInv, TypeOK, ReadConsistent

\* Every step keeps it: a write meets no read that has begun, and there is one reader.
LEMMA RingStep ==
  ASSUME RingAssumption, OneReader, RingInv, [Next]_vars
  PROVE  RingInv'
<1> USE DEF RingInv, TypeOK, ReadConsistent
<1>1. /\ MaxItems \in Nat /\ Empty \in Values
      /\ \A n \in Slots : Succ(n) \in Slots
  BY Successor DEF RingAssumption, Values
<1>2. CASE Write
  <2>1. written + 1 \in Items /\ written' \in 0..MaxItems
    BY <1>1, <1>2 DEF Write, Items
  <2>2. {writePos', readPos'} \subseteq Slots /\ overwriteFlag' \in BOOLEAN
    BY <1>1, <1>2 DEF Write
  <2> QED
    BY <1>2, <2>1, <2>2 DEF Write, Unborrowed, reading
<1>3. CASE WasOverwritten
  BY <1>3 DEF WasOverwritten, reading
<1>4. ASSUME NEW r \in Readers, LoadReadPos(r) PROVE RingInv'
  BY <1>4 DEF LoadReadPos
<1>5. ASSUME NEW r \in Readers, LoadWritePos(r) PROVE RingInv'
  <2>1. got' \in [Readers -> Seq(Items \cup {Empty})]
    <3> DEFINE longer == Append(got[r], buffer[readIdx[r]])
    <3>1. buffer[readIdx[r]] \in Items \cup {Empty} /\ got[r] \in Seq(Items \cup {Empty})
      OBVIOUS
    <3>2. longer \in Seq(Items \cup {Empty})
      BY <3>1, AppendProperties
    <3>3. got' = got \/ got' = [got EXCEPT ![r] = longer]
      BY <1>5 DEF LoadWritePos
    <3> HIDE DEF longer
    <3> QED
      BY <3>2, <3>3
  <2> QED
    BY <1>5, <2>1 DEF LoadWritePos
<1>6. ASSUME NEW r \in Readers, StoreReadPos(r) PROVE RingInv'
  <2>1. \A s \in Readers : s = r
    BY DEF OneReader
  <2> QED
    BY <1>1, <1>6, <2>1 DEF StoreReadPos
<1>7. CASE UNCHANGED vars
  BY <1>7 DEF vars
<1> QED
  BY <1>2, <1>3, <1>4, <1>5, <1>6, <1>7 DEF Next

\* Contents, now and after a step.
LEMMA ContentsIsView ==
  ASSUME RingAssumption PROVE RingInv => Contents = View(buffer, readPos, writePos)
<1> SUFFICES ASSUME RingInv PROVE Contents = View(buffer, readPos, writePos)
  OBVIOUS
<1>1. readPos \in Slots /\ writePos \in Slots
  BY DEF RingInv, TypeOK
<1>2. Available = Span(readPos, writePos)
  BY DEF Available, Span
<1>3. ASSUME NEW n \in 1..Span(readPos, writePos)
      PROVE  (readPos + n - 1) % Capacity = Slot(readPos, n)
  BY <1>1, Positions, SlotIsRemainder
<1> QED
  BY <1>2, <1>3 DEF Contents, View

LEMMA ContentsNext ==
  ASSUME RingAssumption PROVE RingInv' => Contents' = View(buffer', readPos', writePos')
<1>1. RingInv' => (Contents = View(buffer, readPos, writePos))'
  BY ContentsIsView, PTL
<1> QED
  BY <1>1

\* Every step is one of the queue, or leaves it as it is.
LEMMA QueueStep ==
  ASSUME RingAssumption, RingInv, RingInv', [Next]_vars
  PROVE  [Queue!QueueNext]_(Queue!queueVars)
<1> DEFINE q == View(buffer, readPos, writePos)
<1>1. Contents = q /\ Contents' = View(buffer', readPos', writePos')
  BY ContentsIsView, ContentsNext
<1>2. /\ buffer \in [Slots -> Values] /\ readPos \in Slots /\ writePos \in Slots
      /\ written \in 0..MaxItems /\ MaxItems \in Nat
  BY DEF RingInv, TypeOK, Values, RingAssumption
<1> HIDE DEF q
<1>3. CASE Write
  <2>1. written + 1 \in Items /\ written + 1 \in Values
    BY <1>2, <1>3 DEF Write, Items, Values
  <2>2. /\ buffer' = [buffer EXCEPT ![writePos] = written + 1]
        /\ writePos' = Succ(writePos)
    BY <1>3 DEF Write
  <2>3. CASE Succ(writePos) # readPos
    <3>1. readPos' = readPos /\ overwriteFlag' = overwriteFlag
      BY <1>3, <2>2, <2>3 DEF Write
    <3>2. Contents' = Append(Contents, written + 1) /\ Len(Contents) < Capacity - 1
      BY <1>1, <1>2, <2>1, <2>2, <2>3, <3>1, PutRoom DEF q
    <3> QED
      BY <2>1, <3>1, <3>2 DEF Queue!QueueNext, Queue!Put
  <2>4. CASE Succ(writePos) = readPos
    <3>1. readPos' = Succ(readPos) /\ overwriteFlag' = TRUE
      BY <1>3, <2>2, <2>4 DEF Write
    <3>2. Contents' = Append(Tail(Contents), written + 1) /\ ~ (Len(Contents) < Capacity - 1)
      <4>1. Contents' = Append(Tail(Contents), written + 1) /\ Len(Contents) = Capacity - 1
        BY <1>1, <1>2, <2>1, <2>2, <2>4, <3>1, PutFull DEF q
      <4>2. Capacity \in Nat
        BY DEF RingAssumption
      <4> QED
        BY <4>1, <4>2
    <3> QED
      BY <2>1, <3>1, <3>2 DEF Queue!QueueNext, Queue!Put
  <2> QED
    BY <2>3, <2>4
<1>4. CASE WasOverwritten
  <2>1. Contents' = Contents /\ overwriteFlag' = FALSE
    BY <1>1, <1>4 DEF WasOverwritten, q
  <2> QED
    BY <2>1 DEF Queue!QueueNext, Queue!AskOverwritten
<1>5. ASSUME NEW r \in Readers, LoadReadPos(r) \/ LoadWritePos(r)
      PROVE  UNCHANGED Queue!queueVars
  BY <1>1, <1>5 DEF LoadReadPos, LoadWritePos, q, Queue!queueVars
<1>6. ASSUME NEW r \in Readers, StoreReadPos(r)
      PROVE  Queue!Take
  <2>1. readIdx[r] = readPos /\ readPos # writePos
    BY <1>6 DEF StoreReadPos, RingInv, ReadConsistent
  <2>2. /\ readPos' = Succ(readPos)
        /\ UNCHANGED <<buffer, writePos, overwriteFlag>>
    BY <1>6, <2>1 DEF StoreReadPos
  <2>3. Contents # <<>> /\ Contents' = Tail(Contents)
    BY <1>1, <1>2, <2>1, <2>2, TakeOldest DEF q
  <2> QED
    BY <2>2, <2>3 DEF Queue!Take
<1>7. CASE UNCHANGED vars
  BY <1>1, <1>7 DEF vars, q, Queue!queueVars
<1> QED
  BY <1>3, <1>4, <1>5, <1>6, <1>7 DEF Next, Queue!QueueNext

LEMMA QueueInitial == Init => Queue!QueueInit
<1> SUFFICES ASSUME Init PROVE Contents = <<>> /\ overwriteFlag = FALSE
  BY DEF Queue!QueueInit
<1>1. Available = 0
  BY DEF Available, Init
<1> QED
  BY <1>1 DEF Contents, Init

\* For every capacity of at least two, and one reader, the ring buffer is a queue of the
\* latest capacity - 1 items, first in first out, that says when it overwrote one.
THEOREM RingIsQueue ==
  ASSUME RingAssumption, OneReader
  PROVE  Spec => QueueContract
<1>1. Init => RingInv
  BY RingInitial
<1>2. RingInv /\ [Next]_vars => RingInv'
  BY RingStep
<1>3. RingInv /\ RingInv' /\ [Next]_vars => [Queue!QueueNext]_(Queue!queueVars)
  BY QueueStep
<1>4. Init => Queue!QueueInit
  BY QueueInitial
<1> QED
  BY <1>1, <1>2, <1>3, <1>4, PTL DEF Spec, QueueContract, Queue!QueueSpec
=============================================================================
