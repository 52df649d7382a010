------------------------ MODULE ConnectionPoolProofs ------------------------
(***************************************************************************)
(* Proofs about ConnectionPool, for every number of tasks, connections and *)
(* permits: type correctness, the ownership of connections, the            *)
(* conservation of permits, the refinement of LeasePool, and the counts.   *)
(***************************************************************************)
EXTENDS ConnectionPool, FiniteSetTheorems, SequenceTheorems, TLAPS

\* The statistic that ShrinkPop and CountLive read is the length of the deque.
IdleCounted == stats.idle = Len(idle)

\* A shrinker that is filling has something left to create.
FillPending == \A m \in Shrinkers : spc[m] \in {"fill", "put"} => need[m] > 0

\* The inductive invariant.  Ownership and PermitsConserved need the types; the type
\* of the counters needs IdleCounted, and that of need needs FillPending.
PoolInv ==
  /\ TypeOK
  /\ IdleCounted
  /\ FillPending
  /\ Ownership
  /\ PermitsConserved

-----------------------------------------------------------------------------
(* Facts about the deque and the sets the program counters define *)

\* Popping the front of a deque without duplicates.
LEMMA PopFront ==
  ASSUME NEW S, NEW q \in Seq(S), q # <<>>,
         \A i, j \in DOMAIN q : q[i] = q[j] => i = j
  PROVE  /\ Head(q) \in S
         /\ Head(q) \in {q[i] : i \in DOMAIN q}
         /\ Tail(q) \in Seq(S)
         /\ Len(Tail(q)) = Len(q) - 1
         /\ \A i, j \in DOMAIN Tail(q) : Tail(q)[i] = Tail(q)[j] => i = j
         /\ \A i \in DOMAIN Tail(q) : Tail(q)[i] # Head(q)
         /\ \A i \in DOMAIN Tail(q) : \E j \in DOMAIN q : Tail(q)[i] = q[j]
<1>1. /\ Head(q) = q[1] /\ 1 \in DOMAIN q
      /\ Tail(q) \in Seq(S) /\ Len(Tail(q)) = Len(q) - 1
      /\ \A i \in 1..Len(Tail(q)) : Tail(q)[i] = q[i + 1]
      /\ Head(q) \in S
  BY HeadTailProperties
<1>2. /\ DOMAIN q = 1..Len(q) /\ DOMAIN Tail(q) = 1..Len(Tail(q))
      /\ Len(q) \in Nat
  BY <1>1
<1>3. \A i \in DOMAIN Tail(q) : i + 1 \in DOMAIN q /\ Tail(q)[i] = q[i + 1]
  BY <1>1, <1>2
<1> QED
  BY <1>1, <1>2, <1>3

\* Popping its back.
LEMMA PopBack ==
  ASSUME NEW S, NEW q \in Seq(S), q # <<>>,
         \A i, j \in DOMAIN q : q[i] = q[j] => i = j
  PROVE  LET b == q[Len(q)]
             r == SubSeq(q, 1, Len(q) - 1)
         IN  /\ b \in S
             /\ b \in {q[i] : i \in DOMAIN q}
             /\ r \in Seq(S)
             /\ Len(r) = Len(q) - 1
             /\ \A i, j \in DOMAIN r : r[i] = r[j] => i = j
             /\ \A i \in DOMAIN r : r[i] # b
             /\ \A i \in DOMAIN r : \E j \in DOMAIN q : r[i] = q[j]
<1> DEFINE b == q[Len(q)]
           r == SubSeq(q, 1, Len(q) - 1)
<1>1. Len(q) \in Nat /\ Len(q) > 0 /\ DOMAIN q = 1..Len(q)
  OBVIOUS
<1>2. b \in S /\ Len(q) \in DOMAIN q
  BY <1>1
<1>3. \A i \in 1..(Len(q) - 1) : q[i] \in S
  BY <1>1
<1>4. /\ r \in Seq(S)
      /\ Len(r) = IF 1 <= Len(q) - 1 THEN (Len(q) - 1) - 1 + 1 ELSE 0
      /\ \A i \in 1..((Len(q) - 1) - 1 + 1) : r[i] = q[1 + i - 1]
  BY <1>1, <1>3, SubSeqProperties
<1>5. Len(r) = Len(q) - 1 /\ DOMAIN r = 1..Len(r)
  BY <1>1, <1>4
<1>6. \A i \in DOMAIN r : i \in DOMAIN q /\ i # Len(q) /\ r[i] = q[i]
  BY <1>1, <1>4, <1>5
<1> QED
  BY <1>1, <1>2, <1>4, <1>5, <1>6

\* One task leaving the queue of the semaphore leaves a queue of tasks.
LEMMA LeaveQueueType ==
  ASSUME NEW c, waiters \in Seq(Callers), LeaveQueue(c)
  PROVE  waiters' \in Seq(Callers)
<1>1. PICK i \in DOMAIN waiters :
        waiters' = SubSeq(waiters, 1, i - 1) \o SubSeq(waiters, i + 1, Len(waiters))
  BY DEF LeaveQueue
<1>2. i \in 1..Len(waiters) /\ Len(waiters) \in Nat
  BY <1>1
<1>3. \A j \in 1..(i - 1) : waiters[j] \in Callers
  BY <1>2
<1>4. \A j \in (i + 1)..Len(waiters) : waiters[j] \in Callers
  BY <1>2
<1>5. SubSeq(waiters, 1, i - 1) \in Seq(Callers)
  BY <1>2, <1>3, SubSeqProperties
<1>6. SubSeq(waiters, i + 1, Len(waiters)) \in Seq(Callers)
  BY <1>2, <1>4, SubSeqProperties
<1> QED
  BY <1>1, <1>5, <1>6, ConcatProperties

\* How the number of tasks in a set of states changes when one task moves.
LEMMA MoveCount ==
  ASSUME NEW S, NEW c \in Callers, NEW l, pc \in [Callers -> Pcs], Goto(c, l)
  PROVE  /\ Cardinality(At(S)) \in Nat
         /\ Cardinality(At(S)') = Cardinality(At(S))
              + (IF l \in S THEN 1 ELSE 0) - (IF pc[c] \in S THEN 1 ELSE 0)
<1>1. IsFiniteSet(At(S)) /\ Cardinality(At(S)) \in Nat
  <2>1. At(S) \subseteq Callers
    BY DEF At
  <2> QED
    BY <2>1, PoolAssumption, FS_Subset, FS_CardinalityType
<1>2. pc' = [pc EXCEPT ![c] = l]
  BY DEF Goto
<1>3. c \in At(S) <=> pc[c] \in S
  BY DEF At
<1>4. CASE l \in S
  <2>1. At(S)' = At(S) \cup {c}
    BY <1>2, <1>4 DEF At
  <2>2. Cardinality(At(S)') = Cardinality(At(S)) + (IF c \in At(S) THEN 0 ELSE 1)
    <3>1. CASE c \in At(S)
      <4>1. At(S)' = At(S)
        BY <2>1, <3>1
      <4> QED
        BY <1>1, <3>1, <4>1
    <3>2. CASE c \notin At(S)
      BY <1>1, <2>1, <3>2, FS_AddElement
    <3> QED
      BY <3>1, <3>2
  <2> QED
    BY <1>1, <1>3, <1>4, <2>2
<1>5. CASE l \notin S
  <2>1. At(S)' = At(S) \ {c}
    BY <1>2, <1>5 DEF At
  <2>2. Cardinality(At(S)') = Cardinality(At(S)) - (IF c \in At(S) THEN 1 ELSE 0)
    <3>1. CASE c \in At(S)
      BY <1>1, <2>1, <3>1, FS_RemoveElement
    <3>2. CASE c \notin At(S)
      <4>1. At(S)' = At(S)
        BY <2>1, <3>2
      <4> QED
        BY <1>1, <3>2, <4>1
    <3> QED
      BY <3>1, <3>2
  <2> QED
    BY <1>1, <1>3, <1>5, <2>2
<1> QED
  BY <1>4, <1>5

-----------------------------------------------------------------------------
(* Ownership *)

\* Ownership without the set of live connections.
OwnershipParts ==
  /\ \A c \in Callers : conn[c] # NoConn <=> pc[c] \in HoldingPcs
  /\ \A c, d \in Callers : conn[c] = conn[d] /\ conn[c] # NoConn => c = d
  /\ \A i, j \in DOMAIN idle : idle[i] = idle[j] => i = j
  /\ \A c \in Callers : \A i \in DOMAIN idle : conn[c] # idle[i]
  /\ \A m \in Shrinkers : spare[m] # NoConn <=> spc[m] = "put"
  /\ \A m, n \in Shrinkers : spare[m] = spare[n] /\ spare[m] # NoConn => m = n
  /\ \A m \in Shrinkers, c \in Callers : spare[m] = conn[c] => conn[c] = NoConn
  /\ \A m \in Shrinkers : \A i \in DOMAIN idle : spare[m] # idle[i]
  /\ \A i \in DOMAIN idle : idle[i] \in born \ retired
  /\ \A c \in Callers : conn[c] # NoConn => conn[c] \in born \ retired
  /\ \A m \in Shrinkers : spare[m] # NoConn => spare[m] \in born \ retired

LEMMA OwnershipMeans ==
  (Ownership <=> OwnershipParts) /\ (Ownership' <=> OwnershipParts')
<1>1. Ownership <=> OwnershipParts
  <2>1. Live \subseteq (born \ retired) <=>
          /\ \A i \in DOMAIN idle : idle[i] \in (born \ retired)
          /\ \A c \in Callers : pc[c] \in HoldingPcs => conn[c] \in (born \ retired)
          /\ \A m \in Shrinkers : spc[m] = "put" => spare[m] \in (born \ retired)
    BY SMT DEF Live, At
  <2>2. (\A c \in Callers : conn[c] # NoConn <=> pc[c] \in HoldingPcs) =>
          ((\A c \in Callers : pc[c] \in HoldingPcs => conn[c] \in (born \ retired))
           <=> (\A c \in Callers : conn[c] # NoConn => conn[c] \in (born \ retired)))
    BY SMT
  <2>3. (\A m \in Shrinkers : spare[m] # NoConn <=> spc[m] = "put") =>
          ((\A m \in Shrinkers : spc[m] = "put" => spare[m] \in (born \ retired))
           <=> (\A m \in Shrinkers : spare[m] # NoConn => spare[m] \in (born \ retired)))
    BY SMT
  <2> QED
    BY <2>1, <2>2, <2>3, SMT DEF Ownership, OwnershipParts
<1>2. Ownership' <=> OwnershipParts'
  <2>1. Live' \subseteq (born \ retired)' <=>
          /\ \A i \in DOMAIN idle' : idle'[i] \in (born \ retired)'
          /\ \A c \in Callers : pc'[c] \in HoldingPcs => conn'[c] \in (born \ retired)'
          /\ \A m \in Shrinkers : spc'[m] = "put" => spare'[m] \in (born \ retired)'
    BY SMT DEF Live, At
  <2>2. (\A c \in Callers : conn'[c] # NoConn <=> pc'[c] \in HoldingPcs) =>
          ((\A c \in Callers : pc'[c] \in HoldingPcs => conn'[c] \in (born \ retired)')
           <=> (\A c \in Callers : conn'[c] # NoConn => conn'[c] \in (born \ retired)'))
    BY SMT
  <2>3. (\A m \in Shrinkers : spare'[m] # NoConn <=> spc'[m] = "put") =>
          ((\A m \in Shrinkers : spc'[m] = "put" => spare'[m] \in (born \ retired)')
           <=> (\A m \in Shrinkers : spare'[m] # NoConn => spare'[m] \in (born \ retired)'))
    BY SMT
  <2> QED
    BY <2>1, <2>2, <2>3, SMT DEF Ownership, OwnershipParts
<1> QED
  BY <1>1, <1>2

\* A step that moves no connection keeps the owner of each.
LEMMA NothingMoves ==
  ASSUME TypeOK, Ownership, UNCHANGED <<idle, conn, spare, born, retired>>,
         \A c \in Callers : pc'[c] \in HoldingPcs <=> pc[c] \in HoldingPcs,
         \A m \in Shrinkers : spc'[m] = "put" <=> spc[m] = "put"
  PROVE  Ownership'
BY OwnershipMeans DEF OwnershipParts

\* A step that drops the connection a task has in hand.
LEMMA HandEmptied ==
  ASSUME TypeOK, Ownership, NEW c \in Callers, NEW l \in Pcs \ HoldingPcs,
         Goto(c, l), Hand(c, NoConn),
         retired' = retired \cup ({conn[c]} \ {NoConn}), UNCHANGED <<idle, born, spare, spc>>
  PROVE  Ownership'
<1>1. /\ pc' = [pc EXCEPT ![c] = l] /\ pc \in [Callers -> Pcs]
      /\ conn' = [conn EXCEPT ![c] = NoConn]
      /\ conn \in [Callers -> Conns \cup {NoConn}]
  BY DEF Goto, Hand, TypeOK
<1>2. OwnershipParts
  BY OwnershipMeans
<1>3. conn'[c] = NoConn /\ \A d \in Callers \ {c} : conn'[d] = conn[d] /\ pc'[d] = pc[d]
  BY <1>1
<1>4. pc'[c] \notin HoldingPcs
  BY <1>1
<1>5. \A i \in DOMAIN idle : idle[i] # conn[c] /\ idle[i] # NoConn
  <2>1. idle \in Seq(Conns)
    BY DEF TypeOK
  <2>2. \A i \in DOMAIN idle : idle[i] \in Conns
    BY <2>1
  <2> QED
    BY <1>2, <2>2, PoolAssumption DEF OwnershipParts
<1>6. OwnershipParts'
  <2>1. /\ \A d \in Callers : conn'[d] # NoConn <=> pc'[d] \in HoldingPcs
        /\ \A d, e \in Callers : conn'[d] = conn'[e] /\ conn'[d] # NoConn => d = e
    BY <1>2, <1>3, <1>4 DEF OwnershipParts
  <2>2. \A d \in Callers : \A i \in DOMAIN idle : conn'[d] # idle[i]
    BY <1>2, <1>3, <1>5 DEF OwnershipParts
  <2>3. \A i \in DOMAIN idle : idle[i] \in born \ retired'
    BY <1>2, <1>5 DEF OwnershipParts
  <2>4. \A d \in Callers : conn'[d] # NoConn => conn'[d] \in born \ retired'
    BY <1>2, <1>3 DEF OwnershipParts
  <2>5. \A m \in Shrinkers : /\ spare[m] # NoConn => spare[m] \in born \ retired'
                             /\ \A d \in Callers : spare[m] = conn'[d] => conn'[d] = NoConn
    BY <1>2, <1>3 DEF OwnershipParts
  <2> QED
    BY <1>2, <2>1, <2>2, <2>3, <2>4, <2>5 DEF OwnershipParts
<1> QED
  BY <1>6, OwnershipMeans

\* A step that takes a connection nobody has.
LEMMA HandFilled ==
  ASSUME TypeOK, NEW c \in Callers, NEW l \in HoldingPcs, NEW k \in Conns,
         Goto(c, l), Hand(c, k), OwnershipParts, pc[c] \notin HoldingPcs,
         born \subseteq born', retired' = retired, k \in born' \ retired,
         \A d \in Callers : conn[d] # k, \A m \in Shrinkers : spare[m] # k,
         UNCHANGED <<spare, spc>>,
         \A i, j \in DOMAIN idle' : idle'[i] = idle'[j] => i = j,
         \A i \in DOMAIN idle' : idle'[i] # k,
         \A i \in DOMAIN idle' : \E j \in DOMAIN idle : idle'[i] = idle[j]
  PROVE  Ownership'
<1>1. /\ pc' = [pc EXCEPT ![c] = l] /\ pc \in [Callers -> Pcs]
      /\ conn' = [conn EXCEPT ![c] = k]
      /\ conn \in [Callers -> Conns \cup {NoConn}]
  BY DEF Goto, Hand, TypeOK
<1>2. conn'[c] = k /\ pc'[c] \in HoldingPcs
  BY <1>1
<1>3. \A d \in Callers \ {c} : conn'[d] = conn[d] /\ pc'[d] = pc[d]
  BY <1>1
<1>4. k # NoConn
  BY PoolAssumption
<1>5. OwnershipParts'
  BY <1>2, <1>3, <1>4 DEF OwnershipParts
<1> QED
  BY <1>5, OwnershipMeans

\* A step that adds a connection to the back of the deque.
LEMMA DequePushed ==
  ASSUME TypeOK, NEW k \in Conns, idle' = Append(idle, k), OwnershipParts,
         \A i \in DOMAIN idle : idle[i] # k,
         \A c \in Callers : conn'[c] # k,
         \A c \in Callers : conn'[c] # NoConn => conn'[c] = conn[c],
         \A c \in Callers : conn'[c] # NoConn <=> pc'[c] \in HoldingPcs,
         \A m \in Shrinkers : spare'[m] # k,
         \A m \in Shrinkers : spare'[m] # NoConn => spare'[m] = spare[m],
         \A m \in Shrinkers : spare'[m] # NoConn <=> spc'[m] = "put",
         born \subseteq born', retired' = retired, k \in born' \ retired
  PROVE  Ownership'
<1>1. idle \in Seq(Conns) /\ Len(idle) \in Nat /\ DOMAIN idle = 1..Len(idle)
  BY DEF TypeOK
<1>2. /\ DOMAIN idle' = 1..(Len(idle) + 1)
      /\ idle'[Len(idle) + 1] = k
      /\ \A i \in 1..Len(idle) : idle'[i] = idle[i]
  BY <1>1, AppendProperties
<1>3. \A i \in DOMAIN idle' : (i = Len(idle) + 1 /\ idle'[i] = k)
                              \/ (i \in DOMAIN idle /\ idle'[i] = idle[i])
  BY <1>1, <1>2
<1>4. k # NoConn /\ \A i \in DOMAIN idle : idle[i] # NoConn
  BY <1>1, PoolAssumption
<1>5. \A i, j \in DOMAIN idle' : idle'[i] = idle'[j] => i = j
  BY <1>3 DEF OwnershipParts
<1>6. \A i \in DOMAIN idle' : idle'[i] # NoConn /\ idle'[i] \in born' \ retired
  BY <1>3, <1>4 DEF OwnershipParts
<1>7. \A c \in Callers : \A i \in DOMAIN idle' : conn'[c] # idle'[i]
  BY <1>3, <1>6 DEF OwnershipParts
<1>8. \A m \in Shrinkers : \A i \in DOMAIN idle' : spare'[m] # idle'[i]
  BY <1>3, <1>6 DEF OwnershipParts
<1>9. /\ \A m, n \in Shrinkers : spare'[m] = spare'[n] /\ spare'[m] # NoConn => m = n
      /\ \A m \in Shrinkers, c \in Callers : spare'[m] = conn'[c] => conn'[c] = NoConn
  BY DEF OwnershipParts
<1>10. OwnershipParts'
  BY <1>5, <1>6, <1>7, <1>8, <1>9 DEF OwnershipParts
<1> QED
  BY <1>10, OwnershipMeans

\* A step that takes a connection off the deque and has it destroyed.
LEMMA DequePopped ==
  ASSUME TypeOK, OwnershipParts, NEW k,
         retired' = retired \cup {k}, UNCHANGED <<conn, pc, born, spare, spc>>,
         k \in {idle[i] : i \in DOMAIN idle},
         \A i, j \in DOMAIN idle' : idle'[i] = idle'[j] => i = j,
         \A i \in DOMAIN idle' : idle'[i] # k,
         \A i \in DOMAIN idle' : \E j \in DOMAIN idle : idle'[i] = idle[j]
  PROVE  Ownership'
<1>1. (\A c \in Callers : conn[c] # k) /\ \A m \in Shrinkers : spare[m] # k
  BY DEF OwnershipParts
<1>2. OwnershipParts'
  BY <1>1 DEF OwnershipParts
<1> QED
  BY <1>2, OwnershipMeans

\* The factory hands a new connection to a shrinker.
LEMMA SpareFilled ==
  ASSUME TypeOK, OwnershipParts, NEW m \in Shrinkers, NEW k \in Conns \ born,
         born' = born \cup {k}, spare' = [spare EXCEPT ![m] = k],
         spc' = [spc EXCEPT ![m] = "put"], UNCHANGED <<idle, conn, pc, retired>>
  PROVE  Ownership'
<1>1. /\ spare \in [Shrinkers -> Conns \cup {NoConn}] /\ born \subseteq Conns
      /\ spc \in [Shrinkers -> {"ready", "shrink", "count", "fill", "put"}]
      /\ retired \subseteq born /\ k # NoConn
  BY PoolAssumption DEF TypeOK
<1>2. /\ spare'[m] = k /\ spc'[m] = "put"
      /\ \A n \in Shrinkers \ {m} : spare'[n] = spare[n] /\ spc'[n] = spc[n]
  BY <1>1
<1>3. /\ \A c \in Callers : conn[c] # k
      /\ \A i \in DOMAIN idle : idle[i] # k
      /\ \A n \in Shrinkers : spare[n] # k
  BY <1>1 DEF OwnershipParts
<1>4. OwnershipParts'
  BY <1>1, <1>2, <1>3 DEF OwnershipParts
<1> QED
  BY <1>4, OwnershipMeans

LEMMA OwnershipStep ==
  ASSUME TypeOK, Ownership, [Next]_vars
  PROVE  Ownership'
<1>1. /\ OwnershipParts /\ idle \in Seq(Conns) /\ pc \in [Callers -> Pcs]
      /\ conn \in [Callers -> Conns \cup {NoConn}] /\ born \subseteq Conns
      /\ \A i, j \in DOMAIN idle : idle[i] = idle[j] => i = j
  BY OwnershipMeans DEF TypeOK, Ownership
<1>2. \A i \in DOMAIN idle : \A c \in Callers : conn[c] # idle[i]
  BY <1>1 DEF OwnershipParts
<1>3. ASSUME NEW c \in Callers, LookupExpired(c)
      PROVE  Ownership'
  <2>1. /\ idle # <<>> /\ idle' = Tail(idle)
        /\ retired' = retired \cup {Head(idle)} /\ UNCHANGED <<conn, pc, born, spare, spc>>
    BY <1>3 DEF LookupExpired, shrinkVars
  <2>2. /\ Head(idle) \in {idle[i] : i \in DOMAIN idle}
        /\ \A i, j \in DOMAIN idle' : idle'[i] = idle'[j] => i = j
        /\ \A i \in DOMAIN idle' : idle'[i] # Head(idle)
        /\ \A i \in DOMAIN idle' : \E j \in DOMAIN idle : idle'[i] = idle[j]
    BY <1>1, <2>1, PopFront
  <2> QED
    BY <1>1, <2>1, <2>2, DequePopped
<1>4. ASSUME NEW c \in Callers, LookupIdle(c)
      PROVE  Ownership'
  <2>1. PICK i \in DOMAIN idle : Head(idle) = idle[i]
    BY <1>1, <1>4, PopFront DEF LookupIdle
  <2>2. /\ Head(idle) \in born \ retired /\ \A d \in Callers : conn[d] # Head(idle)
        /\ \A m \in Shrinkers : spare[m] # Head(idle)
    BY <1>1, <1>2, <2>1 DEF OwnershipParts
  <2>3. PICK l \in HoldingPcs : Goto(c, l)
    BY <1>4 DEF LookupIdle, HoldingPcs
  <2>4. /\ Head(idle) \in Conns /\ pc[c] \notin HoldingPcs
        /\ UNCHANGED <<born, retired, spare, spc>> /\ Hand(c, Head(idle)) /\ idle' = Tail(idle)
    BY <1>1, <1>4, PopFront DEF LookupIdle, HoldingPcs, shrinkVars
  <2>5. /\ \A m, n \in DOMAIN idle' : idle'[m] = idle'[n] => m = n
        /\ \A m \in DOMAIN idle' : idle'[m] # Head(idle)
        /\ \A m \in DOMAIN idle' : \E n \in DOMAIN idle : idle'[m] = idle[n]
    BY <1>1, <1>4, PopFront DEF LookupIdle
  <2> QED
    BY <1>1, <2>2, <2>3, <2>4, <2>5, HandFilled
<1>5. ASSUME NEW c \in Callers, CreateOk(c)
      PROVE  Ownership'
  <2>1. PICK k \in Conns \ born : Hand(c, k) /\ born' = born \cup {k}
    BY <1>5 DEF CreateOk
  <2>2. PICK l \in HoldingPcs : Goto(c, l)
    BY <1>5 DEF CreateOk, HoldingPcs
  <2>3. /\ pc[c] \notin HoldingPcs /\ UNCHANGED <<idle, retired, spare, spc>>
        /\ k \in born' \ retired
    BY <1>5, <2>1 DEF CreateOk, HoldingPcs, TypeOK, shrinkVars
  <2>4. /\ \A d \in Callers : conn[d] # k
        /\ \A m \in Shrinkers : spare[m] # k
        /\ \A i \in DOMAIN idle : idle[i] # k
    BY <1>1, <2>1, PoolAssumption DEF OwnershipParts
  <2>5. /\ \A m, n \in DOMAIN idle' : idle'[m] = idle'[n] => m = n
        /\ \A m \in DOMAIN idle' : idle'[m] # k
        /\ \A m \in DOMAIN idle' : \E n \in DOMAIN idle : idle'[m] = idle[n]
    BY <1>1, <2>3, <2>4
  <2> QED
    BY <1>1, <2>1, <2>2, <2>3, <2>4, <2>5, HandFilled
<1>6. ASSUME NEW c \in Callers, ValidateBad(c) \/ ReleaseInvalid(c)
      PROVE  Ownership'
  <2>1. conn[c] # NoConn
    BY <1>1, <1>6 DEF OwnershipParts, ValidateBad, ReleaseInvalid, HoldingPcs
  <2>2. /\ retired' = retired \cup ({conn[c]} \ {NoConn})
        /\ Hand(c, NoConn) /\ UNCHANGED <<idle, born, spare, spc>>
    BY <1>6, <2>1 DEF ValidateBad, ReleaseInvalid, shrinkVars
  <2>3. PICK l \in Pcs \ HoldingPcs : Goto(c, l)
    BY <1>6 DEF ValidateBad, ReleaseInvalid, Pcs, OwingPcs, HoldingPcs
  <2> QED
    BY <2>2, <2>3, HandEmptied
<1>7. ASSUME NEW c \in Callers, Cancel(c)
      PROVE  Ownership'
  <2>1. Goto(c, "ready") /\ "ready" \in Pcs \ HoldingPcs
    BY <1>7 DEF Cancel, Pcs, HoldingPcs
  <2> QED
    BY <1>7, <2>1, HandEmptied DEF Cancel, shrinkVars
<1>8. ASSUME NEW c \in Callers, ReleasePush(c)
      PROVE  Ownership'
  <2>1. /\ pc' = [pc EXCEPT ![c] = "rpermit"] /\ conn' = [conn EXCEPT ![c] = NoConn]
        /\ idle' = Append(idle, conn[c]) /\ UNCHANGED <<born, retired, spare, spc>>
        /\ pc[c] = "rpush"
    BY <1>8 DEF ReleasePush, Goto, Hand, shrinkVars
  <2>2. /\ conn[c] # NoConn /\ conn[c] \in Conns /\ conn[c] \in born \ retired
        /\ \A i \in DOMAIN idle : idle[i] # conn[c]
    BY <1>1, <2>1 DEF OwnershipParts, HoldingPcs
  <2>3. /\ \A d \in Callers : conn'[d] # conn[c]
        /\ \A d \in Callers : conn'[d] # NoConn => conn'[d] = conn[d]
    BY <1>1, <2>1, <2>2 DEF OwnershipParts
  <2>4. \A d \in Callers : conn'[d] # NoConn <=> pc'[d] \in HoldingPcs
    BY <1>1, <2>1 DEF OwnershipParts, HoldingPcs
  <2>5. /\ \A m \in Shrinkers : spare'[m] # conn[c]
        /\ \A m \in Shrinkers : spare'[m] # NoConn <=> spc'[m] = "put"
    BY <1>1, <2>1, <2>2 DEF OwnershipParts
  <2> QED
    BY <1>1, <2>1, <2>2, <2>3, <2>4, <2>5, DequePushed
<1>9. ASSUME NEW m \in Shrinkers, ShrinkPop(m)
      PROVE  Ownership'
  <2>1. /\ idle # <<>> /\ idle' = SubSeq(idle, 1, Len(idle) - 1)
        /\ retired' = retired \cup {idle[Len(idle)]} /\ UNCHANGED <<conn, pc, born, spare, spc>>
    BY <1>9 DEF ShrinkPop, shrinkVars
  <2>2. /\ idle[Len(idle)] \in {idle[i] : i \in DOMAIN idle}
        /\ \A i, j \in DOMAIN idle' : idle'[i] = idle'[j] => i = j
        /\ \A i \in DOMAIN idle' : idle'[i] # idle[Len(idle)]
        /\ \A i \in DOMAIN idle' : \E j \in DOMAIN idle : idle'[i] = idle[j]
    BY <1>1, <2>1, PopBack
  <2> QED
    BY <1>1, <2>1, <2>2, DequePopped
<1>10. ASSUME NEW m \in Shrinkers, FillOk(m) \/ FillPut(m)
       PROVE  Ownership'
  <2>1. CASE FillOk(m)
    BY <1>1, <2>1, SpareFilled DEF FillOk
  <2>2. CASE FillPut(m)
    <3>1. /\ spc[m] = "put" /\ idle' = Append(idle, spare[m])
          /\ UNCHANGED <<pc, conn, born, retired>>
          /\ spare' = [spare EXCEPT ![m] = NoConn]
          /\ spc' = [spc EXCEPT ![m] = IF need[m] = 1 THEN "ready" ELSE "fill"]
          /\ spare \in [Shrinkers -> Conns \cup {NoConn}]
          /\ spc \in [Shrinkers -> {"ready", "shrink", "count", "fill", "put"}]
      BY <2>2 DEF FillPut, TypeOK
    <3>2. /\ spare[m] \in Conns /\ spare[m] # NoConn /\ spare[m] \in born \ retired
          /\ \A i \in DOMAIN idle : idle[i] # spare[m]
          /\ \A c \in Callers : conn[c] # spare[m]
          /\ \A n \in Shrinkers \ {m} : spare[n] # spare[m]
      BY <1>1, <3>1 DEF OwnershipParts
    <3>3. /\ spare'[m] = NoConn /\ spc'[m] # "put"
          /\ \A n \in Shrinkers \ {m} : spare'[n] = spare[n] /\ spc'[n] = spc[n]
      BY <3>1
    <3>4. /\ \A n \in Shrinkers : spare'[n] # spare[m]
          /\ \A n \in Shrinkers : spare'[n] # NoConn => spare'[n] = spare[n]
          /\ \A n \in Shrinkers : spare'[n] # NoConn <=> spc'[n] = "put"
      BY <1>1, <3>2, <3>3 DEF OwnershipParts
    <3>5. \A c \in Callers : conn'[c] # NoConn <=> pc'[c] \in HoldingPcs
      BY <1>1, <3>1 DEF OwnershipParts
    <3> QED
      BY <1>1, <3>1, <3>2, <3>4, <3>5, DequePushed
  <2> QED
    BY <1>10, <2>1, <2>2
<1>11. ASSUME NEW c \in Callers,
              \/ BeginAcquire(c) \/ GetPermit(c) \/ AcquireTimeout(c) \/ LookupNone(c)
              \/ CountCreated(c) \/ CreateErr(c) \/ ValidateOk(c) \/ Discarded(c) \/ CountFailure(c)
              \/ Account(c) \/ BeginRelease(c) \/ ReleaseValid(c)
              \/ ReleaseDiscard(c) \/ ReleaseCount(c) \/ ReleasePermit(c)
       PROVE  Ownership'
  <2>1. UNCHANGED <<idle, conn, spare, spc, born, retired>>
    BY <1>11 DEF BeginAcquire, GetPermit, AcquireTimeout, LookupNone, CountCreated, CreateErr,
         ValidateOk, Discarded, CountFailure, Account, BeginRelease, ReleaseValid,
         ReleaseDiscard, ReleaseCount, ReleasePermit, shrinkVars
  <2>2. PICK l : pc' = [pc EXCEPT ![c] = l] /\ (l \in HoldingPcs <=> pc[c] \in HoldingPcs)
    BY <1>11 DEF BeginAcquire, GetPermit, AcquireTimeout, LookupNone, CountCreated, CreateErr,
         ValidateOk, Discarded, CountFailure, Account, BeginRelease, ReleaseValid,
         ReleaseDiscard, ReleaseCount, ReleasePermit, Goto, HoldingPcs
  <2>3. \A d \in Callers : pc'[d] \in HoldingPcs <=> pc[d] \in HoldingPcs
    BY <1>1, <2>2
  <2> QED
    BY <2>1, <2>3, NothingMoves
<1>12. ASSUME NEW m \in Shrinkers,
              BeginShrink(m) \/ ShrinkDone(m) \/ CountLive(m) \/ FillErr(m)
       PROVE  Ownership'
  <2>1. UNCHANGED <<idle, conn, spare, born, retired, pc>>
    BY <1>12 DEF BeginShrink, ShrinkDone, CountLive, FillErr
  <2>2. PICK l : spc' = [spc EXCEPT ![m] = l] /\ l # "put" /\ spc[m] # "put"
    BY <1>12 DEF BeginShrink, ShrinkDone, CountLive, FillErr
  <2>3. \A n \in Shrinkers : spc'[n] = "put" <=> spc[n] = "put"
    BY <2>2 DEF TypeOK
  <2> QED
    BY <2>1, <2>3, NothingMoves
<1>13. CASE UNCHANGED vars
  BY <1>13, NothingMoves DEF vars
<1> QED
  BY <1>3, <1>4, <1>5, <1>6, <1>7, <1>8, <1>9, <1>10, <1>11, <1>12, <1>13
     DEF Next, Acquire, Lookup, Release, Shrink, Finished

-----------------------------------------------------------------------------
(* Types *)

\* What TypeStep preserves.
TypeParts == TypeOK /\ IdleCounted /\ FillPending

\* Each step keeps the types, and the statistic equal to the length of the deque.
LEMMA TypeStep ==
  ASSUME TypeOK, IdleCounted, FillPending, Ownership, [Next]_vars
  PROVE  TypeParts'
<1>1. /\ idle \in Seq(Conns) /\ Len(idle) \in Nat /\ stats \in StatsType
      /\ pc \in [Callers -> Pcs] /\ conn \in [Callers -> Conns \cup {NoConn}]
      /\ permits \in Nat /\ retired \subseteq born /\ born \subseteq Conns
      /\ stats.idle = Len(idle)
  BY DEF TypeOK, IdleCounted
<1>2. /\ \A i, j \in DOMAIN idle : idle[i] = idle[j] => i = j
      /\ \A i \in DOMAIN idle : idle[i] \in born
      /\ \A c \in Callers : conn[c] # NoConn => conn[c] \in born
      /\ \A c \in Callers : pc[c] \in HoldingPcs => conn[c] # NoConn
      /\ \A m \in Shrinkers : spc[m] = "put" => spare[m] # NoConn
  BY OwnershipMeans DEF OwnershipParts
<1>3. ASSUME NEW c \in Callers, LookupExpired(c)
      PROVE  TypeParts'
  <2>1. idle # <<>> /\ idle' = Tail(idle)
    BY <1>3 DEF LookupExpired
  <2>2. idle' \in Seq(Conns) /\ Len(idle') = Len(idle) - 1 /\ Len(idle') \in Nat
    BY <1>1, <2>1
  <2>3. Head(idle) \in born
    BY <1>1, <1>2, <2>1, PopFront
  <2>4. stats' \in StatsType /\ stats'.idle = stats.idle - 1
    <3>1. stats.destroyed + 1 \in Nat /\ stats.idle - 1 \in Nat
      BY <1>1, <2>2 DEF StatsType
    <3>2. PICK a \in Nat, b \in Nat :
            b = stats.idle - 1 /\ stats' = [stats EXCEPT !.destroyed = a, !.idle = b]
      BY <1>3, <3>1 DEF LookupExpired
    <3> QED
      BY <1>1, <3>2 DEF StatsType
  <2> QED
    BY <1>1, <1>3, <2>2, <2>3, <2>4
       DEF LookupExpired, shrinkVars, historyVars, TypeParts, TypeOK, IdleCounted, FillPending
<1>4. ASSUME NEW c \in Callers, LookupIdle(c)
      PROVE  TypeParts'
  <2>1. idle # <<>> /\ idle' = Tail(idle)
    BY <1>4 DEF LookupIdle
  <2>2. idle' \in Seq(Conns) /\ Len(idle') = Len(idle) - 1 /\ Len(idle') \in Nat
    BY <1>1, <2>1
  <2>3. pc' \in [Callers -> Pcs] /\ conn' \in [Callers -> Conns \cup {NoConn}]
    BY <1>1, <1>4, <2>1 DEF LookupIdle, Goto, Hand, Pcs, OwingPcs, HoldingPcs
  <2>4. stats' \in StatsType /\ stats'.idle = stats.idle - 1
    BY <1>1, <1>4, <2>2 DEF LookupIdle, StatsType
  <2> QED
    BY <1>1, <1>4, <2>2, <2>3, <2>4
       DEF LookupIdle, shrinkVars, historyVars, TypeParts, TypeOK, IdleCounted, FillPending
<1>5. ASSUME NEW c \in Callers, CreateOk(c) \/ ValidateBad(c) \/ ReleaseInvalid(c)
      PROVE  TypeParts'
  <2>1. pc' \in [Callers -> Pcs] /\ conn' \in [Callers -> Conns \cup {NoConn}]
    BY <1>1, <1>5
       DEF CreateOk, ValidateBad, ReleaseInvalid, Goto, Hand, Pcs, OwingPcs, HoldingPcs
  <2>2. born' \subseteq Conns /\ retired' \subseteq born'
    BY <1>1, <1>2, <1>5 DEF CreateOk, ValidateBad, ReleaseInvalid, HoldingPcs
  <2>3. stats' \in StatsType /\ stats'.idle = stats.idle
    BY <1>1, <1>5 DEF CreateOk, ValidateBad, ReleaseInvalid
  <2> QED
    BY <1>5, <2>1, <2>2, <2>3 DEF CreateOk, ValidateBad, ReleaseInvalid, shrinkVars,
       historyVars, TypeParts, TypeOK, IdleCounted, FillPending
<1>6. ASSUME NEW c \in Callers,
             BeginAcquire(c) \/ GetPermit(c) \/ AcquireTimeout(c) \/ Cancel(c)
      PROVE  TypeParts'
  <2>1. waiters' \in Seq(Callers)
    <3>1. waiters \in Seq(Callers)
      BY DEF TypeOK
    <3>2. CASE BeginAcquire(c) \/ GetPermit(c)
      BY <3>1, <3>2, HeadTailProperties DEF BeginAcquire, GetPermit
    <3>3. CASE AcquireTimeout(c) \/ Cancel(c)
      BY <3>1, <3>3, LeaveQueueType DEF AcquireTimeout, Cancel
    <3> QED
      BY <1>6, <3>2, <3>3
  <2>2. pc' \in [Callers -> Pcs] /\ conn' \in [Callers -> Conns \cup {NoConn}]
    BY <1>1, <1>6 DEF BeginAcquire, GetPermit, AcquireTimeout, Cancel, Goto, Hand,
       Pcs, OwingPcs, HoldingPcs
  <2>3. retired' \subseteq born
    BY <1>1, <1>2, <1>6 DEF BeginAcquire, GetPermit, AcquireTimeout, Cancel
  <2>4. permits' \in Nat
    BY <1>1, <1>6 DEF BeginAcquire, GetPermit, AcquireTimeout, Cancel
  <2>5. calls' \in 0..MaxCalls /\ forgotten' \in Nat
    BY <1>6, PoolAssumption
       DEF BeginAcquire, GetPermit, AcquireTimeout, Cancel, historyVars, TypeOK
  <2>6. attempt' \in [Callers -> 0..(MaxAttempts - 1)]
    <3>1. /\ attempt \in [Callers -> 0..(MaxAttempts - 1)]
          /\ MaxAttempts \in Nat \ {0} /\ 0 \in 0..(MaxAttempts - 1)
      BY PoolAssumption DEF TypeOK
    <3>2. attempt' = attempt \/ attempt' = [attempt EXCEPT ![c] = 0]
      BY <1>6 DEF BeginAcquire, GetPermit, AcquireTimeout, Cancel
    <3> QED
      BY <3>1, <3>2
  <2>7. UNCHANGED <<idle, stats, born, spc, need, spare>>
    BY <1>6 DEF BeginAcquire, GetPermit, AcquireTimeout, Cancel, shrinkVars
  <2> QED
    BY <2>1, <2>2, <2>3, <2>4, <2>5, <2>6, <2>7
       DEF TypeParts, TypeOK, IdleCounted, FillPending
<1>7. ASSUME NEW c \in Callers, Discarded(c)
      PROVE  TypeParts'
  <2>1. pc' \in [Callers -> Pcs] /\ permits' \in Nat
    BY <1>1, <1>7 DEF Discarded, Goto, Pcs, OwingPcs, HoldingPcs
  <2>2. attempt' \in [Callers -> 0..(MaxAttempts - 1)]
    <3>1. attempt \in [Callers -> 0..(MaxAttempts - 1)] /\ MaxAttempts \in Nat \ {0}
      BY PoolAssumption DEF TypeOK
    <3> QED
      BY <1>7, <3>1 DEF Discarded
  <2>3. stats' \in StatsType /\ stats'.idle = stats.idle
    <3>1. stats.destroyed + 1 \in Nat
      BY <1>1 DEF StatsType
    <3>2. PICK a \in Nat : stats' = [stats EXCEPT !.destroyed = a]
      BY <1>7, <3>1 DEF Discarded
    <3> QED
      BY <1>1, <3>2 DEF StatsType
  <2> QED
    BY <1>7, <2>1, <2>2, <2>3
       DEF Discarded, shrinkVars, historyVars, TypeParts, TypeOK, IdleCounted, FillPending
<1>8. ASSUME NEW c \in Callers,
             CountCreated(c) \/ CountFailure(c) \/ Account(c) \/ ReleaseCount(c)
      PROVE  TypeParts'
  <2>1. pc' \in [Callers -> Pcs]
    BY <1>1, <1>8
       DEF CountCreated, CountFailure, Account, ReleaseCount, Goto, Pcs, OwingPcs, HoldingPcs
  <2>2. stats' \in StatsType /\ stats'.idle = stats.idle
    <3>1. /\ stats.failures + 1 \in Nat /\ stats.acquires + 1 \in Nat /\ stats.created + 1 \in Nat
          /\ stats.active + 1 \in Nat /\ stats.destroyed + 1 \in Nat
          /\ SaturatingDec(stats.active) \in Nat
      BY <1>1 DEF StatsType, SaturatingDec
    <3>2. PICK a \in Nat, b \in Nat :
            \/ stats' = [stats EXCEPT !.created = a]
            \/ stats' = [stats EXCEPT !.failures = a]
            \/ stats' = [stats EXCEPT !.acquires = a, !.active = b]
            \/ stats' = [stats EXCEPT !.destroyed = a, !.active = b]
      BY <1>8, <3>1 DEF CountCreated, CountFailure, Account, ReleaseCount
    <3> QED
      BY <1>1, <3>2 DEF StatsType
  <2>3. forgotten' \in Nat
    BY <1>8 DEF CountCreated, CountFailure, Account, ReleaseCount, historyVars, TypeOK
  <2> QED
    BY <1>8, <2>1, <2>2, <2>3 DEF CountCreated, CountFailure, Account, ReleaseCount, shrinkVars,
       historyVars, TypeParts, TypeOK, IdleCounted, FillPending
<1>9. ASSUME NEW c \in Callers, ReleasePush(c)
      PROVE  TypeParts'
  <2>1. conn[c] \in Conns /\ idle' = Append(idle, conn[c])
    BY <1>1, <1>2, <1>9 DEF ReleasePush, HoldingPcs
  <2>2. idle' \in Seq(Conns) /\ Len(idle') = Len(idle) + 1
    BY <1>1, <2>1
  <2>3. pc' \in [Callers -> Pcs] /\ conn' \in [Callers -> Conns \cup {NoConn}]
    BY <1>1, <1>9 DEF ReleasePush, Goto, Hand, Pcs, OwingPcs, HoldingPcs
  <2>4. stats' \in StatsType /\ stats'.idle = stats.idle + 1
    <3>1. /\ stats.releases + 1 \in Nat /\ stats.idle + 1 \in Nat
          /\ SaturatingDec(stats.active) \in Nat
      BY <1>1 DEF StatsType, SaturatingDec
    <3>2. PICK a \in Nat, b \in Nat, d \in Nat :
            /\ b = stats.idle + 1
            /\ stats' = [stats EXCEPT !.releases = a, !.idle = b, !.active = d]
      BY <1>9, <3>1 DEF ReleasePush
    <3> QED
      BY <1>1, <3>2 DEF StatsType
  <2> QED
    BY <1>1, <1>9, <2>2, <2>3, <2>4
       DEF ReleasePush, shrinkVars, historyVars, TypeParts, TypeOK, IdleCounted, FillPending
<1>10. ASSUME NEW c \in Callers,
              \/ LookupNone(c) \/ CreateErr(c) \/ ValidateOk(c) \/ BeginRelease(c)
              \/ ReleaseValid(c) \/ ReleaseDiscard(c) \/ ReleasePermit(c)
       PROVE  TypeParts'
  <2>1. pc' \in [Callers -> Pcs] /\ permits' \in Nat
    BY <1>1, <1>10 DEF LookupNone, CreateErr, ValidateOk, BeginRelease, ReleaseValid,
       ReleaseDiscard, ReleasePermit, Goto, Pcs, OwingPcs, HoldingPcs
  <2>2. UNCHANGED <<idle, stats, waiters, conn, attempt, spc, need, spare, born, retired, calls, forgotten>>
    BY <1>10 DEF LookupNone, CreateErr, ValidateOk, BeginRelease, ReleaseValid,
       ReleaseDiscard, ReleasePermit, shrinkVars, historyVars
  <2> QED
    BY <2>1, <2>2 DEF TypeParts, TypeOK, IdleCounted, FillPending
<1>11. ASSUME NEW m \in Shrinkers, ShrinkPop(m)
       PROVE  TypeParts'
  <2>1. idle # <<>> /\ idle' = SubSeq(idle, 1, Len(idle) - 1)
    BY <1>11 DEF ShrinkPop
  <2>2. /\ idle' \in Seq(Conns) /\ Len(idle') = Len(idle) - 1 /\ Len(idle') \in Nat
        /\ idle[Len(idle)] \in born
    BY <1>1, <1>2, <2>1, PopBack
  <2>3. stats' \in StatsType /\ stats'.idle = stats.idle - 1
    <3>1. stats.destroyed + 1 \in Nat /\ stats.idle - 1 \in Nat
      BY <1>1, <2>2 DEF StatsType
    <3>2. PICK a \in Nat, b \in Nat :
            b = stats.idle - 1 /\ stats' = [stats EXCEPT !.idle = b, !.destroyed = a]
      BY <1>11, <3>1 DEF ShrinkPop
    <3> QED
      BY <1>1, <3>2 DEF StatsType
  <2> QED
    BY <1>1, <1>11, <2>2, <2>3
       DEF ShrinkPop, shrinkVars, historyVars, TypeParts, TypeOK, IdleCounted, FillPending
<1>12. ASSUME NEW m \in Shrinkers, FillPut(m)
       PROVE  TypeParts'
  <2>1. spare[m] \in Conns /\ idle' = Append(idle, spare[m])
    BY <1>2, <1>12 DEF FillPut, TypeOK
  <2>2. idle' \in Seq(Conns) /\ Len(idle') = Len(idle) + 1
    BY <1>1, <2>1
  <2>3. stats' \in StatsType /\ stats'.idle = stats.idle + 1
    <3>1. stats.created + 1 \in Nat /\ stats.idle + 1 \in Nat
      BY <1>1 DEF StatsType
    <3>2. PICK a \in Nat, b \in Nat :
            b = stats.idle + 1 /\ stats' = [stats EXCEPT !.created = a, !.idle = b]
      BY <1>12, <3>1 DEF FillPut
    <3> QED
      BY <1>1, <3>2 DEF StatsType
  <2>4. /\ need \in [Shrinkers -> 0..MinConnections] /\ MinConnections \in Nat
        /\ need[m] > 0 /\ spc[m] = "put"
        /\ spc \in [Shrinkers -> {"ready", "shrink", "count", "fill", "put"}]
        /\ spare \in [Shrinkers -> Conns \cup {NoConn}]
    BY <1>12, PoolAssumption DEF FillPut, TypeOK, FillPending
  <2>5. need' \in [Shrinkers -> 0..MinConnections]
    BY <1>12, <2>4 DEF FillPut
  <2>6. FillPending' /\ spc' \in [Shrinkers -> {"ready", "shrink", "count", "fill", "put"}]
        /\ spare' \in [Shrinkers -> Conns \cup {NoConn}]
    BY <1>12, <2>4 DEF FillPut, FillPending
  <2> QED
    BY <1>1, <1>12, <2>2, <2>3, <2>5, <2>6 DEF FillPut, historyVars, TypeParts, TypeOK, IdleCounted
<1>13. ASSUME NEW m \in Shrinkers,
              BeginShrink(m) \/ ShrinkDone(m) \/ CountLive(m) \/ FillOk(m) \/ FillErr(m)
       PROVE  TypeParts'
  <2>1. /\ need \in [Shrinkers -> 0..MinConnections] /\ MinConnections \in Nat
        /\ spc \in [Shrinkers -> {"ready", "shrink", "count", "fill", "put"}]
        /\ stats.active + stats.idle \in Nat
    BY <1>1, PoolAssumption DEF TypeOK, StatsType
  <2>2. need' \in [Shrinkers -> 0..MinConnections]
    BY <1>13, <2>1 DEF BeginShrink, ShrinkDone, CountLive, FillOk, FillErr
  <2>3. FillPending' /\ spc' \in [Shrinkers -> {"ready", "shrink", "count", "fill", "put"}]
    BY <1>13, <2>1 DEF BeginShrink, ShrinkDone, CountLive, FillOk, FillErr, FillPending
  <2>4. UNCHANGED <<idle, stats, permits, waiters, pc, conn, attempt, retired, calls, forgotten>>
    BY <1>13 DEF BeginShrink, ShrinkDone, CountLive, FillOk, FillErr, historyVars
  <2>5. /\ spare' \in [Shrinkers -> Conns \cup {NoConn}]
        /\ born' \subseteq Conns /\ retired \subseteq born'
    BY <1>13 DEF BeginShrink, ShrinkDone, CountLive, FillOk, FillErr, TypeOK
  <2> QED
    BY <2>2, <2>3, <2>4, <2>5 DEF TypeParts, TypeOK, IdleCounted
<1>14. CASE UNCHANGED vars
  BY <1>14 DEF vars, TypeParts, TypeOK, IdleCounted, FillPending
<1> QED
  BY <1>3, <1>4, <1>5, <1>6, <1>7, <1>8, <1>9, <1>10, <1>11, <1>12, <1>13, <1>14
     DEF Next, Acquire, Lookup, Release, Shrink, Finished

-----------------------------------------------------------------------------
(* Permits *)

\* No step mints or loses a permit: whoever returns one owed it.
LEMMA PermitStep ==
  ASSUME TypeOK, PermitsConserved, [Next]_vars
  PROVE  PermitsConserved'
<1>1. /\ pc \in [Callers -> Pcs] /\ permits \in Nat /\ forgotten \in Nat
      /\ MaxConnections \in Nat
  BY PoolAssumption DEF TypeOK
<1>2. ASSUME NEW c \in Callers, NEW l, Goto(c, l),
             permits' \in Nat, forgotten' \in Nat,
             permits' + forgotten' + (IF l \in OwingPcs THEN 1 ELSE 0)
               = permits + forgotten + (IF pc[c] \in OwingPcs THEN 1 ELSE 0)
      PROVE  PermitsConserved'
  <2>1. PICK n \in Nat : n = Cardinality(At(OwingPcs))
                          /\ permits + n + forgotten = MaxConnections
    BY <1>1, <1>2, MoveCount DEF PermitsConserved
  <2>2. PICK after \in {0, 1}, before \in {0, 1} :
          /\ after = IF l \in OwingPcs THEN 1 ELSE 0
          /\ before = IF pc[c] \in OwingPcs THEN 1 ELSE 0
          /\ permits' + forgotten' + after = permits + forgotten + before
    BY <1>2
  <2>3. Cardinality(At(OwingPcs)') = n + after - before
    BY <1>1, <1>2, <2>1, <2>2, MoveCount
  <2>4. PICK p \in Nat, q \in Nat, f \in Nat, g \in Nat :
          p = permits /\ q = permits' /\ f = forgotten /\ g = forgotten'
    BY <1>1, <1>2
  <2>5. q + g + after = p + f + before /\ p + n + f = MaxConnections
    BY <2>1, <2>2, <2>4
  <2>6. q + (n + after - before) + g = MaxConnections
    BY <1>1, <2>5
  <2> QED
    BY <2>3, <2>4, <2>6 DEF PermitsConserved
<1>3. ASSUME NEW c \in Callers, BeginAcquire(c) \/ GetPermit(c) \/ AcquireTimeout(c)
      PROVE  PermitsConserved'
  <2>1. PICK l : Goto(c, l) /\ (l \in OwingPcs => permits' = permits - 1 /\ permits > 0)
                 /\ (l \notin OwingPcs => permits' = permits) /\ pc[c] \notin OwingPcs
                 /\ UNCHANGED forgotten
    BY <1>3 DEF BeginAcquire, GetPermit, AcquireTimeout, OwingPcs, HoldingPcs, historyVars
  <2> QED
    BY <1>1, <1>2, <2>1
<1>4. ASSUME NEW c \in Callers,
             \/ LookupExpired(c) \/ LookupIdle(c) \/ LookupNone(c) \/ CreateOk(c)
             \/ CountCreated(c) \/ ValidateOk(c) \/ ValidateBad(c) \/ Account(c) \/ CountFailure(c)
             \/ BeginRelease(c) \/ ReleaseValid(c) \/ ReleaseInvalid(c)
             \/ ReleaseCount(c) \/ ReleasePush(c)
      PROVE  PermitsConserved'
  <2>1. UNCHANGED <<permits, forgotten>>
    BY <1>4 DEF LookupExpired, LookupIdle, LookupNone, CreateOk, CountCreated, ValidateOk,
       ValidateBad, Account, CountFailure, BeginRelease, ReleaseValid, ReleaseInvalid, ReleaseCount,
       ReleasePush, historyVars
  <2>2. CASE LookupExpired(c)
    BY <2>1, <2>2 DEF LookupExpired, PermitsConserved, At
  <2>3. CASE ~LookupExpired(c)
    <3>1. PICK l : Goto(c, l) /\ (l \in OwingPcs <=> pc[c] \in OwingPcs)
      BY <1>4, <2>3 DEF LookupIdle, LookupNone, CreateOk, CountCreated, ValidateOk, ValidateBad,
         Account, CountFailure, BeginRelease, ReleaseValid, ReleaseInvalid, ReleaseCount,
         ReleasePush, OwingPcs, HoldingPcs
    <3> QED
      BY <1>1, <1>2, <2>1, <3>1
  <2> QED
    BY <2>2, <2>3
<1>5. ASSUME NEW c \in Callers, Cancel(c)
      PROVE  PermitsConserved'
  <2>1. /\ Goto(c, "ready") /\ "ready" \notin OwingPcs /\ permits' = permits
        /\ forgotten' = forgotten + (IF pc[c] \in OwingPcs THEN 1 ELSE 0)
    BY <1>1, <1>5 DEF Cancel, OwingPcs, HoldingPcs
  <2> QED
    BY <1>1, <1>2, <2>1
<1>6. ASSUME NEW c \in Callers,
             CreateErr(c) \/ Discarded(c) \/ ReleaseDiscard(c) \/ ReleasePermit(c)
      PROVE  PermitsConserved'
  <2>1. PICK l : /\ Goto(c, l) /\ pc[c] \in OwingPcs
                 /\ l \in OwingPcs => permits' = permits
                 /\ l \notin OwingPcs => permits' = permits + 1
                 /\ UNCHANGED forgotten
    BY <1>6 DEF CreateErr, Discarded, ReleaseDiscard, ReleasePermit, OwingPcs, HoldingPcs,
       historyVars
  <2> QED
    BY <1>1, <1>2, <2>1
<1>7. ASSUME NEW m \in Shrinkers, Shrink(m)
      PROVE  PermitsConserved'
  <2>1. UNCHANGED <<permits, pc, forgotten>>
    BY <1>7 DEF Shrink, BeginShrink, ShrinkPop, ShrinkDone, CountLive, FillOk, FillPut, FillErr,
       historyVars
  <2> QED
    BY <2>1 DEF PermitsConserved, At
<1>8. CASE UNCHANGED vars
  BY <1>8 DEF vars, PermitsConserved, At
<1> QED
  BY <1>3, <1>4, <1>5, <1>6, <1>7, <1>8 DEF Next, Acquire, Lookup, Release, Finished

-----------------------------------------------------------------------------
(* The inductive invariant and what follows from it *)

LEMMA PoolInit ==
  ASSUME Init
  PROVE  PoolInv
<1>1. PICK n \in 0..MinConnections :
        /\ idle \in [1..n -> Conns] /\ \A i, j \in 1..n : idle[i] = idle[j] => i = j
        /\ born = {idle[i] : i \in 1..n}
        /\ stats = [created |-> n, destroyed |-> 0, active |-> 0, idle |-> n,
                    acquires |-> 0, failures |-> 0, releases |-> 0]
  BY DEF Init
<1>2. n \in Nat /\ idle \in Seq(Conns) /\ Len(idle) = n /\ DOMAIN idle = 1..n
  BY <1>1, PoolAssumption
<1>3. At(OwingPcs) = {} /\ Cardinality({}) = 0
  BY FS_EmptySet DEF Init, At, OwingPcs, HoldingPcs
<1>4. PermitsConserved
  BY <1>3, PoolAssumption DEF Init, PermitsConserved
<1>5. OwnershipParts
  BY <1>1, <1>2, PoolAssumption DEF Init, OwnershipParts, HoldingPcs
<1>6. TypeOK /\ IdleCounted /\ FillPending
  BY <1>1, <1>2, PoolAssumption
     DEF Init, TypeOK, StatsType, Pcs, IdleCounted, FillPending
<1> QED
  BY <1>4, <1>5, <1>6, OwnershipMeans DEF PoolInv

LEMMA PoolInductive == Spec => []PoolInv
<1>1. Init => PoolInv
  BY PoolInit
<1>2. PoolInv /\ [Next]_vars => PoolInv'
  BY TypeStep, OwnershipStep, PermitStep DEF PoolInv, TypeParts
<1> QED
  BY <1>1, <1>2, PTL DEF Spec

\* The variables of the pool keep their types: in particular no counter of its
\* statistics is decremented below zero by an expiry, a shrink or an acquire.
THEOREM PoolTypeCorrect == Spec => []TypeOK
<1>1. PoolInv => TypeOK
  BY DEF PoolInv
<1> QED
  BY <1>1, PoolInductive, PTL

\* Every connection has exactly one owner, however the critical sections of the
\* pool interleave and whatever futures are dropped.
THEOREM PoolOwnership == Spec => []Ownership
<1>1. PoolInv => Ownership
  BY DEF PoolInv
<1> QED
  BY <1>1, PoolInductive, PTL

\* Every permit is in the semaphore, owed by a task that will return it, or was
\* taken along by a dropped future: no path through acquire and release mints one
\* or returns one twice.
THEOREM PoolPermits == Spec => []PermitsConserved
<1>1. PoolInv => PermitsConserved
  BY DEF PoolInv
<1> QED
  BY <1>1, PoolInductive, PTL

-----------------------------------------------------------------------------
(* The refinement of LeasePool *)

\* The instance has a cardinality of its own.
LEMMA SameCardinality ==
  Lease!Cardinality(Lease!Borrowers) = Cardinality(Lease!Borrowers)
BY DEF Lease!Cardinality, Cardinality

LeaseMap == [c \in Callers |-> IF pc[c] = "have" THEN conn[c] ELSE NoConn]

\* The connections on loan are no more than the permits that were handed out.
LEMMA BorrowersBounded ==
  ASSUME TypeOK, PermitsConserved, Ownership
  PROVE  /\ Lease!Borrowers \subseteq At(OwingPcs)
         /\ IsFiniteSet(At(OwingPcs))
         /\ Cardinality(At(OwingPcs)) <= MaxConnections
         /\ Cardinality(Lease!Borrowers) \in Nat
         /\ Cardinality(Lease!Borrowers) <= Cardinality(At(OwingPcs))
<1>1. Lease!Borrowers \subseteq At(OwingPcs)
  BY DEF Lease!Borrowers, At, OwingPcs, HoldingPcs
<1>2. IsFiniteSet(At(OwingPcs))
  <2>1. At(OwingPcs) \subseteq Callers
    BY DEF At
  <2> QED
    BY <2>1, PoolAssumption, FS_Subset
<1>3. Cardinality(At(OwingPcs)) \in Nat /\ Cardinality(At(OwingPcs)) <= MaxConnections
  <2>1. Cardinality(At(OwingPcs)) \in Nat
    BY <1>2, FS_CardinalityType
  <2> QED
    BY <2>1, PoolAssumption DEF PermitsConserved, TypeOK
<1> QED
  BY <1>1, <1>2, <1>3, FS_Subset, FS_CardinalityType

\* A step of the pool is a step of the contract or leaves it unchanged.
LEMMA LeaseStep ==
  ASSUME PoolInv, PoolInv', [Next]_vars
  PROVE  [Lease!LeaseNext]_(Lease!leaseVars)
<1>1. /\ OwnershipParts /\ pc \in [Callers -> Pcs] /\ idle \in Seq(Conns)
      /\ conn \in [Callers -> Conns \cup {NoConn}]
      /\ born \subseteq Conns /\ retired \subseteq born
  BY OwnershipMeans DEF PoolInv, TypeOK
<1>2. ASSUME UNCHANGED retired,
             \A c \in Callers : (pc'[c] = "have") <=> (pc[c] = "have"),
             \A c \in Callers : pc[c] = "have" => conn'[c] = conn[c]
      PROVE  UNCHANGED Lease!leaseVars
  BY <1>2 DEF Lease!leaseVars
<1>3. ASSUME NEW k \in Conns \ retired, retired' = retired \cup {k},
             \A c \in Callers : (pc'[c] = "have") <=> (pc[c] = "have"),
             \A c \in Callers : pc[c] = "have" => conn'[c] = conn[c] /\ conn[c] # k
      PROVE  Lease!LeaseNext
  <2>1. k # NoConn
    BY PoolAssumption
  <2>2. Lease!Retire(k)
    BY <1>3, <2>1 DEF Lease!Retire
  <2> QED
    BY <2>2 DEF Lease!LeaseNext
<1>4. ASSUME NEW c \in Callers, Account(c)
      PROVE  Lease!LeaseNext
  <2>1. /\ pc' = [pc EXCEPT ![c] = "have"] /\ pc[c] = "account" /\ UNCHANGED <<conn, retired>>
    BY <1>4 DEF Account, Goto
  <2>2. PICK k \in Conns \ retired :
          /\ conn[c] = k /\ k # NoConn
          /\ \A d \in Callers : conn[d] = k => d = c
    BY <1>1, <2>1 DEF OwnershipParts, HoldingPcs
  <2>3. Cardinality(Lease!Borrowers) < MaxConnections
    <3>1. c \in At(OwingPcs) \ Lease!Borrowers
      BY <2>1 DEF At, OwingPcs, HoldingPcs, Lease!Borrowers
    <3>2. Cardinality(Lease!Borrowers) < Cardinality(At(OwingPcs))
      <4>1. /\ IsFiniteSet(At(OwingPcs)) /\ Lease!Borrowers \subseteq At(OwingPcs)
            /\ Cardinality(Lease!Borrowers) \in Nat
            /\ Cardinality(Lease!Borrowers) <= Cardinality(At(OwingPcs))
        BY BorrowersBounded DEF PoolInv
      <4>2. Cardinality(Lease!Borrowers) # Cardinality(At(OwingPcs))
        BY <3>1, <4>1, FS_Subset
      <4>3. Cardinality(At(OwingPcs)) \in Nat
        BY <4>1, FS_CardinalityType
      <4> QED
        BY <4>1, <4>2, <4>3
    <3>3. Cardinality(At(OwingPcs)) \in Nat
      BY BorrowersBounded, FS_CardinalityType DEF PoolInv
    <3> QED
      BY <3>2, <3>3, BorrowersBounded, PoolAssumption DEF PoolInv
  <2>4. /\ LeaseMap[c] = NoConn
        /\ \A d \in Callers : LeaseMap[d] # k
        /\ LeaseMap' = [LeaseMap EXCEPT ![c] = k]
    BY <1>1, <2>1, <2>2 DEF LeaseMap
  <2>5. Lease!Lend(c, k)
    BY <2>1, <2>2, <2>3, <2>4, SameCardinality DEF Lease!Lend, LeaseMap
  <2> QED
    BY <2>5 DEF Lease!LeaseNext
<1>5. ASSUME NEW c \in Callers, BeginRelease(c)
      PROVE  Lease!LeaseNext
  <2>1. PICK l \in {"rvalidate", "rpush"} : pc' = [pc EXCEPT ![c] = l]
    BY <1>5 DEF BeginRelease, Goto
  <2>2. pc[c] = "have" /\ UNCHANGED <<conn, retired>>
    BY <1>5 DEF BeginRelease
  <2>3. LeaseMap[c] # NoConn /\ LeaseMap' = [LeaseMap EXCEPT ![c] = NoConn]
    BY <1>1, <2>1, <2>2 DEF LeaseMap, OwnershipParts, HoldingPcs
  <2>4. Lease!GiveBack(c)
    BY <2>2, <2>3 DEF Lease!GiveBack, LeaseMap
  <2> QED
    BY <2>4 DEF Lease!LeaseNext
<1>6. ASSUME NEW c \in Callers, ValidateBad(c) \/ ReleaseInvalid(c) \/ Cancel(c)
      PROVE  [Lease!LeaseNext]_(Lease!leaseVars)
  <2>1. PICK l \in Pcs \ {"have"} :
          /\ pc' = [pc EXCEPT ![c] = l] /\ pc[c] # "have"
          /\ conn' = [conn EXCEPT ![c] = NoConn]
          /\ retired' = retired \cup ({conn[c]} \ {NoConn})
    <3>1. ValidateBad(c) \/ ReleaseInvalid(c) => conn[c] # NoConn
      BY <1>1 DEF ValidateBad, ReleaseInvalid, OwnershipParts, HoldingPcs
    <3> QED
      BY <1>6, <3>1 DEF ValidateBad, ReleaseInvalid, Cancel, Goto, Hand, Pcs, OwingPcs, HoldingPcs
  <2>2. /\ \A d \in Callers : (pc'[d] = "have") <=> (pc[d] = "have")
        /\ \A d \in Callers : pc[d] = "have" => conn'[d] = conn[d]
    BY <1>1, <2>1
  <2>3. CASE conn[c] = NoConn
    <3>1. UNCHANGED retired
      BY <2>1, <2>3
    <3> QED
      BY <1>2, <2>2, <3>1
  <2>4. CASE conn[c] # NoConn
    <3>1. /\ conn[c] \in Conns \ retired /\ retired' = retired \cup {conn[c]}
          /\ \A d \in Callers : pc[d] = "have" => conn[d] # conn[c]
      BY <1>1, <2>1, <2>4 DEF OwnershipParts
    <3> QED
      BY <1>3, <2>2, <3>1
  <2> QED
    BY <2>3, <2>4
<1>7. ASSUME NEW k, idle # <<>>, k \in {idle[i] : i \in DOMAIN idle},
             retired' = retired \cup {k}, UNCHANGED <<pc, conn>>
      PROVE  Lease!LeaseNext
  <2>1. k \in Conns \ retired /\ \A d \in Callers : conn[d] # k
    BY <1>1, <1>7 DEF OwnershipParts
  <2> QED
    BY <1>3, <1>7, <2>1
<1>8. ASSUME NEW c \in Callers, LookupExpired(c)
      PROVE  Lease!LeaseNext
  <2>1. \A i, j \in DOMAIN idle : idle[i] = idle[j] => i = j
    BY <1>1 DEF OwnershipParts
  <2>2. idle # <<>> /\ retired' = retired \cup {Head(idle)} /\ UNCHANGED <<pc, conn>>
    BY <1>8 DEF LookupExpired
  <2> QED
    BY <1>1, <1>7, <2>1, <2>2, PopFront
<1>9. ASSUME NEW m \in Shrinkers, ShrinkPop(m)
      PROVE  Lease!LeaseNext
  <2>1. \A i, j \in DOMAIN idle : idle[i] = idle[j] => i = j
    BY <1>1 DEF OwnershipParts
  <2>2. /\ idle # <<>> /\ retired' = retired \cup {idle[Len(idle)]}
        /\ UNCHANGED <<pc, conn>>
    BY <1>9 DEF ShrinkPop
  <2> QED
    BY <1>1, <1>7, <2>1, <2>2, PopBack
<1>10. ASSUME NEW c \in Callers,
              \/ BeginAcquire(c) \/ GetPermit(c) \/ AcquireTimeout(c) \/ LookupIdle(c)
              \/ LookupNone(c) \/ CreateOk(c) \/ CountCreated(c) \/ CreateErr(c)
              \/ ValidateOk(c) \/ Discarded(c) \/ CountFailure(c) \/ ReleaseValid(c) \/ ReleaseDiscard(c)
              \/ ReleaseCount(c) \/ ReleasePush(c) \/ ReleasePermit(c)
       PROVE  UNCHANGED Lease!leaseVars
  <2>1. UNCHANGED retired
    BY <1>10 DEF BeginAcquire, GetPermit, AcquireTimeout, LookupIdle, LookupNone, CreateOk,
       CountCreated, CreateErr, ValidateOk, Discarded, CountFailure, ReleaseValid, ReleaseDiscard,
       ReleaseCount, ReleasePush, ReleasePermit
  <2>2. PICK l : pc' = [pc EXCEPT ![c] = l] /\ l # "have" /\ pc[c] # "have"
    BY <1>10 DEF BeginAcquire, GetPermit, AcquireTimeout, LookupIdle, LookupNone, CreateOk,
       CountCreated, CreateErr, ValidateOk, Discarded, CountFailure, ReleaseValid, ReleaseDiscard,
       ReleaseCount, ReleasePush, ReleasePermit, Goto
  <2>3. UNCHANGED conn \/ \E k : conn' = [conn EXCEPT ![c] = k]
    BY <1>10 DEF BeginAcquire, GetPermit, AcquireTimeout, LookupIdle, LookupNone, CreateOk,
       CountCreated, CreateErr, ValidateOk, Discarded, CountFailure, ReleaseValid, ReleaseDiscard,
       ReleaseCount, ReleasePush, ReleasePermit, Hand
  <2>4. /\ \A d \in Callers : (pc'[d] = "have") <=> (pc[d] = "have")
        /\ \A d \in Callers : pc[d] = "have" => conn'[d] = conn[d]
    BY <1>1, <2>2, <2>3
  <2> QED
    BY <1>2, <2>1, <2>4
<1>11. ASSUME NEW m \in Shrinkers,
              \/ BeginShrink(m) \/ ShrinkDone(m) \/ CountLive(m)
              \/ FillOk(m) \/ FillPut(m) \/ FillErr(m)
       PROVE  UNCHANGED Lease!leaseVars
  <2>1. UNCHANGED <<pc, conn, retired>>
    BY <1>11 DEF BeginShrink, ShrinkDone, CountLive, FillOk, FillPut, FillErr
  <2> QED
    BY <1>2, <2>1
<1>12. CASE UNCHANGED vars
  BY <1>2, <1>12 DEF vars
<1> QED
  BY <1>4, <1>5, <1>6, <1>8, <1>9, <1>10, <1>11, <1>12
     DEF Next, Acquire, Lookup, Release, Shrink, Finished

\* The pool implements its contract: exclusive leases, at most max_connections
\* of them, and none of a connection that was retired.
THEOREM PoolRefinesLease == Spec => LeaseContract
<1>1. Init => Lease!LeaseInit
  BY DEF Init, Lease!LeaseInit
<1>2. PoolInv /\ PoolInv' /\ [Next]_vars => [Lease!LeaseNext]_(Lease!leaseVars)
  BY LeaseStep
<1> QED
  BY <1>1, <1>2, PoolInductive, PTL DEF Spec, LeaseContract, Lease!LeaseSpec

-----------------------------------------------------------------------------
(* The counts: the statistics are exact as long as no future is dropped, and   *)
(* the pool stays within max_connections as long as it is not told to keep a   *)
(* minimum.                                                                    *)

\* What a task adds to a count of tasks in S.
Weight(l, S) == IF l \in S THEN 1 ELSE 0

\* The two counts of StatsExact that tasks take part in; the third is IdleCounted.
ActiveCounted == stats.active = Cardinality(At(ActivePcs))
MadeCounted == stats.created - stats.destroyed = Len(idle) + Cardinality(At(CountedPcs))

\* The inductive invariant of the statistics.
CountsInv == ActiveCounted /\ MadeCounted

\* A task that moves changes the counts by what it adds and takes away.
LEMMA TaskCounted ==
  ASSUME TypeOK, TypeOK', CountsInv, NEW c \in Callers, NEW l, Goto(c, l),
         stats'.active + Weight(pc[c], ActivePcs) = stats.active + Weight(l, ActivePcs),
         stats'.created - stats'.destroyed - Len(idle') + Weight(pc[c], CountedPcs)
           = stats.created - stats.destroyed - Len(idle) + Weight(l, CountedPcs)
  PROVE  CountsInv'
<1>1. /\ stats \in StatsType /\ stats' \in StatsType /\ pc \in [Callers -> Pcs]
      /\ Len(idle) \in Nat /\ Len(idle') \in Nat
  BY DEF TypeOK
<1>2. PICK a \in Nat, m \in Nat :
        /\ a = Cardinality(At(ActivePcs)) /\ m = Cardinality(At(CountedPcs))
        /\ Cardinality(At(ActivePcs)') = a + Weight(l, ActivePcs) - Weight(pc[c], ActivePcs)
        /\ Cardinality(At(CountedPcs)') = m + Weight(l, CountedPcs) - Weight(pc[c], CountedPcs)
  <2>1. /\ Cardinality(At(ActivePcs)) \in Nat
        /\ Cardinality(At(ActivePcs)') = Cardinality(At(ActivePcs))
             + Weight(l, ActivePcs) - Weight(pc[c], ActivePcs)
    BY <1>1, MoveCount, Zenon DEF Weight
  <2>2. /\ Cardinality(At(CountedPcs)) \in Nat
        /\ Cardinality(At(CountedPcs)') = Cardinality(At(CountedPcs))
             + Weight(l, CountedPcs) - Weight(pc[c], CountedPcs)
    BY <1>1, MoveCount, Zenon DEF Weight
  <2> QED
    BY <2>1, <2>2
<1>3. PICK u \in {0, 1}, v \in {0, 1}, x \in {0, 1}, y \in {0, 1} :
        /\ u = Weight(pc[c], ActivePcs) /\ v = Weight(l, ActivePcs)
        /\ x = Weight(pc[c], CountedPcs) /\ y = Weight(l, CountedPcs)
  BY DEF Weight
<1>4. PICK p \in Nat, q \in Nat, r \in Nat, s \in Nat, t \in Nat, w \in Nat :
        /\ p = stats.active /\ q = stats'.active
        /\ r = stats.created /\ s = stats.destroyed
        /\ t = stats'.created /\ w = stats'.destroyed
  BY <1>1 DEF StatsType
<1>5. PICK i \in Nat, j \in Nat : i = Len(idle) /\ j = Len(idle')
  BY <1>1
<1>6. p = a /\ q + u = p + v
  BY <1>2, <1>3, <1>4 DEF CountsInv, ActiveCounted
<1>7. r - s = i + m /\ t - w - j + x = r - s - i + y
  BY <1>2, <1>3, <1>4, <1>5 DEF CountsInv, MadeCounted
<1>8. q = a + v - u
  BY <1>6
<1>9. t - w = j + (m + y - x)
  BY <1>7
<1>10. ActiveCounted'
  BY <1>2, <1>3, <1>4, <1>8 DEF ActiveCounted
<1>11. MadeCounted'
  BY <1>2, <1>3, <1>4, <1>5, <1>9 DEF MadeCounted
<1> QED
  BY <1>10, <1>11 DEF CountsInv

\* A step that moves no task keeps the counts.
LEMMA NobodyCounted ==
  ASSUME CountsInv, UNCHANGED pc, stats'.active = stats.active,
         stats'.created - stats'.destroyed - Len(idle')
           = stats.created - stats.destroyed - Len(idle),
         TypeOK, TypeOK'
  PROVE  CountsInv'
<1>1. /\ At(ActivePcs)' = At(ActivePcs) /\ At(CountedPcs)' = At(CountedPcs)
  BY DEF At
<1>2. /\ stats \in StatsType /\ stats' \in StatsType
      /\ Len(idle) \in Nat /\ Len(idle') \in Nat
  BY DEF TypeOK
<1>3. IsFiniteSet(At(CountedPcs)) /\ Cardinality(At(CountedPcs)) \in Nat
  <2>1. At(CountedPcs) \subseteq Callers
    BY DEF At
  <2> QED
    BY <2>1, PoolAssumption, FS_Subset, FS_CardinalityType
<1>4. PICK m \in Nat, r \in Nat, s \in Nat, t \in Nat, w \in Nat, i \in Nat, j \in Nat :
        /\ m = Cardinality(At(CountedPcs)) /\ r = stats.created /\ s = stats.destroyed
        /\ t = stats'.created /\ w = stats'.destroyed /\ i = Len(idle) /\ j = Len(idle')
  BY <1>2, <1>3 DEF StatsType
<1>5. r - s = i + m /\ t - w - j = r - s - i
  BY <1>4 DEF CountsInv, MadeCounted
<1>6. t - w = j + m
  BY <1>5
<1> QED
  BY <1>1, <1>4, <1>6 DEF CountsInv, ActiveCounted, MadeCounted

\* What is decremented for a task counted as active does not saturate.
LEMMA ActivePositive ==
  ASSUME TypeOK, CountsInv, NEW c \in Callers, pc[c] \in ActivePcs
  PROVE  SaturatingDec(stats.active) + 1 = stats.active
<1>1. At(ActivePcs) \subseteq Callers /\ c \in At(ActivePcs)
  BY DEF At
<1>2. IsFiniteSet(At(ActivePcs)) /\ Cardinality(At(ActivePcs)) \in Nat
  BY <1>1, PoolAssumption, FS_Subset, FS_CardinalityType
<1>3. Cardinality(At(ActivePcs)) # 0
  BY <1>1, <1>2, FS_EmptySet
<1> QED
  BY <1>2, <1>3 DEF CountsInv, ActiveCounted, SaturatingDec

\* Without dropped futures every step keeps the counts.
LEMMA CountsStep ==
  ASSUME ~AllowCancel, TypeOK, TypeOK', IdleCounted, IdleCounted', CountsInv, [Next]_vars
  PROVE  CountsInv'
<1>1. /\ stats \in StatsType /\ stats' \in StatsType
      /\ Len(idle) = stats.idle /\ Len(idle') = stats'.idle
      /\ stats.created \in Nat /\ stats.destroyed \in Nat
      /\ stats.active \in Nat /\ stats.idle \in Nat
  BY DEF TypeOK, StatsType, IdleCounted
<1>2. ASSUME NEW c \in Callers,
             \/ BeginAcquire(c) \/ GetPermit(c) \/ AcquireTimeout(c) \/ LookupNone(c)
             \/ CreateOk(c) \/ CreateErr(c) \/ ValidateOk(c) \/ ValidateBad(c)
             \/ CountFailure(c) \/ BeginRelease(c) \/ ReleaseValid(c) \/ ReleaseInvalid(c)
             \/ ReleaseDiscard(c) \/ ReleasePermit(c)
      PROVE  CountsInv'
  <2>1. PICK l : /\ Goto(c, l)
                 /\ Weight(l, ActivePcs) = Weight(pc[c], ActivePcs)
                 /\ Weight(l, CountedPcs) = Weight(pc[c], CountedPcs)
    BY <1>2 DEF BeginAcquire, GetPermit, AcquireTimeout, LookupNone, CreateOk, CreateErr, ValidateOk,
       ValidateBad, CountFailure, BeginRelease, ReleaseValid, ReleaseInvalid,
       ReleaseDiscard, ReleasePermit, Weight, ActivePcs, CountedPcs, HoldingPcs
  <2>2. /\ stats'.active = stats.active /\ stats'.idle = stats.idle
        /\ stats'.created = stats.created /\ stats'.destroyed = stats.destroyed
    BY <1>1, <1>2 DEF BeginAcquire, GetPermit, AcquireTimeout, LookupNone, CreateOk, CreateErr,
       ValidateOk, ValidateBad, CountFailure, BeginRelease, ReleaseValid, ReleaseInvalid,
       ReleaseDiscard, ReleasePermit, StatsType
  <2> QED
    BY <1>1, <2>1, <2>2, TaskCounted
<1>3. ASSUME NEW c \in Callers, LookupExpired(c)
      PROVE  CountsInv'
  <2>1. /\ stats'.active = stats.active /\ stats'.idle = stats.idle - 1
        /\ stats'.created = stats.created /\ stats'.destroyed = stats.destroyed + 1
        /\ UNCHANGED pc
    BY <1>1, <1>3 DEF LookupExpired, StatsType
  <2>2. stats'.created - stats'.destroyed - stats'.idle
          = stats.created - stats.destroyed - stats.idle
    BY <1>1, <2>1 DEF StatsType
  <2> QED
    BY <1>1, <2>1, <2>2, NobodyCounted
<1>4. ASSUME NEW c \in Callers, LookupIdle(c)
      PROVE  CountsInv'
  <2>1. PICK l : /\ Goto(c, l)
                 /\ Weight(l, ActivePcs) = 0 /\ Weight(pc[c], ActivePcs) = 0
                 /\ Weight(l, CountedPcs) = 1 /\ Weight(pc[c], CountedPcs) = 0
    BY <1>4 DEF LookupIdle, Weight, ActivePcs, CountedPcs, HoldingPcs
  <2>2. /\ stats'.active = stats.active /\ stats'.idle = stats.idle - 1
        /\ stats'.created = stats.created /\ stats'.destroyed = stats.destroyed
    BY <1>1, <1>4 DEF LookupIdle, StatsType
  <2>3. stats'.created - stats'.destroyed - stats'.idle + 0
          = stats.created - stats.destroyed - stats.idle + 1
    BY <1>1, <2>2 DEF StatsType
  <2> QED
    BY <1>1, <2>1, <2>2, <2>3, TaskCounted
<1>5. ASSUME NEW c \in Callers, CountCreated(c)
      PROVE  CountsInv'
  <2>1. PICK l : /\ Goto(c, l)
                 /\ Weight(l, ActivePcs) = 0 /\ Weight(pc[c], ActivePcs) = 0
                 /\ Weight(l, CountedPcs) = 1 /\ Weight(pc[c], CountedPcs) = 0
    BY <1>5 DEF CountCreated, Weight, ActivePcs, CountedPcs, HoldingPcs
  <2>2. /\ stats'.active = stats.active /\ stats'.idle = stats.idle
        /\ stats'.created = stats.created + 1 /\ stats'.destroyed = stats.destroyed
    BY <1>1, <1>5 DEF CountCreated, StatsType
  <2>3. stats'.created - stats'.destroyed - stats'.idle + 0
          = stats.created - stats.destroyed - stats.idle + 1
    BY <1>1, <2>2 DEF StatsType
  <2> QED
    BY <1>1, <2>1, <2>2, <2>3, TaskCounted
<1>6. ASSUME NEW c \in Callers, Discarded(c)
      PROVE  CountsInv'
  <2>1. PICK l : /\ Goto(c, l)
                 /\ Weight(l, ActivePcs) = 0 /\ Weight(pc[c], ActivePcs) = 0
                 /\ Weight(l, CountedPcs) = 0 /\ Weight(pc[c], CountedPcs) = 1
    BY <1>6 DEF Discarded, Weight, ActivePcs, CountedPcs, HoldingPcs
  <2>2. /\ stats'.active = stats.active /\ stats'.idle = stats.idle
        /\ stats'.created = stats.created /\ stats'.destroyed = stats.destroyed + 1
    BY <1>1, <1>6 DEF Discarded, StatsType
  <2>3. stats'.created - stats'.destroyed - stats'.idle + 1
          = stats.created - stats.destroyed - stats.idle + 0
    BY <1>1, <2>2 DEF StatsType
  <2> QED
    BY <1>1, <2>1, <2>2, <2>3, TaskCounted
<1>7. ASSUME NEW c \in Callers, Account(c)
      PROVE  CountsInv'
  <2>1. /\ Goto(c, "have")
        /\ Weight("have", ActivePcs) = 1 /\ Weight(pc[c], ActivePcs) = 0
        /\ Weight("have", CountedPcs) = 1 /\ Weight(pc[c], CountedPcs) = 1
    BY <1>7 DEF Account, Weight, ActivePcs, CountedPcs, HoldingPcs
  <2>2. /\ stats'.active = stats.active + 1 /\ stats'.idle = stats.idle
        /\ stats'.created = stats.created /\ stats'.destroyed = stats.destroyed
    BY <1>1, <1>7 DEF Account, StatsType
  <2>3. stats'.active + 0 = stats.active + 1
    BY <1>1, <2>2 DEF StatsType
  <2> QED
    BY <1>1, <2>1, <2>2, <2>3, TaskCounted
<1>8. ASSUME NEW c \in Callers, ReleaseCount(c) \/ ReleasePush(c)
      PROVE  CountsInv'
  <2>1. PICK l : /\ Goto(c, l) /\ pc[c] \in ActivePcs
                 /\ Weight(l, ActivePcs) = 0 /\ Weight(pc[c], ActivePcs) = 1
                 /\ Weight(l, CountedPcs) = 0 /\ Weight(pc[c], CountedPcs) = 1
    BY <1>8 DEF ReleaseCount, ReleasePush, Weight, ActivePcs, CountedPcs, HoldingPcs
  <2>2. stats'.active + 1 = stats.active
    <3>1. stats'.active = SaturatingDec(stats.active)
      BY <1>1, <1>8 DEF ReleaseCount, ReleasePush, StatsType
    <3> QED
      BY <2>1, <3>1, ActivePositive
  <2>3. /\ stats'.created = stats.created
        /\ \/ stats'.destroyed = stats.destroyed + 1 /\ stats'.idle = stats.idle
           \/ stats'.destroyed = stats.destroyed /\ stats'.idle = stats.idle + 1
    BY <1>1, <1>8 DEF ReleaseCount, ReleasePush, StatsType
  <2>4. /\ stats'.active + 1 = stats.active + 0
        /\ stats'.created - stats'.destroyed - stats'.idle + 1
             = stats.created - stats.destroyed - stats.idle + 0
    BY <1>1, <2>2, <2>3
  <2> QED
    BY <1>1, <2>1, <2>4, TaskCounted
<1>9. ASSUME NEW m \in Shrinkers, ShrinkPop(m) \/ FillPut(m)
      PROVE  CountsInv'
  <2>1. /\ stats'.active = stats.active /\ UNCHANGED pc
        /\ \/ /\ stats'.destroyed = stats.destroyed + 1 /\ stats'.created = stats.created
              /\ stats'.idle = stats.idle - 1
           \/ /\ stats'.destroyed = stats.destroyed /\ stats'.created = stats.created + 1
              /\ stats'.idle = stats.idle + 1
    BY <1>1, <1>9 DEF ShrinkPop, FillPut, StatsType
  <2>2. stats'.created - stats'.destroyed - stats'.idle
          = stats.created - stats.destroyed - stats.idle
    BY <1>1, <2>1
  <2> QED
    BY <1>1, <2>1, <2>2, NobodyCounted
<1>10. ASSUME \/ UNCHANGED vars
              \/ \E m \in Shrinkers : \/ BeginShrink(m) \/ ShrinkDone(m) \/ CountLive(m)
                                       \/ FillOk(m) \/ FillErr(m)
       PROVE  CountsInv'
  <2>1. UNCHANGED <<idle, stats, pc>>
    BY <1>10 DEF vars, BeginShrink, ShrinkDone, CountLive, FillOk, FillErr
  <2> QED
    BY <2>1 DEF CountsInv, ActiveCounted, MadeCounted, At
<1>11. \A c \in Callers : ~Cancel(c)
  BY DEF Cancel
<1> QED
  BY <1>2, <1>3, <1>4, <1>5, <1>6, <1>7, <1>8, <1>9, <1>10, <1>11
     DEF Next, Acquire, Lookup, Release, Shrink, Finished

\* When no future is dropped the statistics follow what the pool holds, whatever expires,
\* fails or is shrunk in between: the idle and the active ones exactly, so the saturating
\* subtraction never hides an underflow, and those created and destroyed but for a
\* connection whose maker is still on its way to the lock.
THEOREM PoolStatsExact == ASSUME ~AllowCancel PROVE Spec => []StatsExact
<1>1. ASSUME Init PROVE CountsInv
  <2>1. At(ActivePcs) = {} /\ At(CountedPcs) = {} /\ Cardinality({}) = 0
    BY <1>1, FS_EmptySet DEF Init, At, ActivePcs, CountedPcs, HoldingPcs
  <2>2. PICK n \in 0..MinConnections :
          /\ idle \in [1..n -> Conns]
          /\ stats = [created |-> n, destroyed |-> 0, active |-> 0, idle |-> n,
                      acquires |-> 0, failures |-> 0, releases |-> 0]
    BY <1>1 DEF Init
  <2>3. n \in Nat /\ Len(idle) = n
    BY <2>2, PoolAssumption
  <2> QED
    BY <2>1, <2>2, <2>3 DEF CountsInv, ActiveCounted, MadeCounted
<1>2. PoolInv /\ PoolInv' /\ CountsInv /\ [Next]_vars => CountsInv'
  BY CountsStep DEF PoolInv
<1>3. PoolInv /\ CountsInv => StatsExact
  BY DEF PoolInv, CountsInv, ActiveCounted, MadeCounted, IdleCounted, StatsExact
<1> QED
  BY <1>1, <1>2, <1>3, PoolInductive, PTL DEF Spec

-----------------------------------------------------------------------------
(* The limit *)

\* A pool that need not keep a minimum makes no connection but in acquire.
LEMMA NothingSpare ==
  ASSUME MinConnections = 0, PoolInv
  PROVE  \A m \in Shrinkers : spc[m] \notin {"fill", "put"}
<1>1. \A m \in Shrinkers : need[m] \in 0..0
  BY DEF PoolInv, TypeOK
<1> QED
  BY <1>1 DEF PoolInv, FillPending

\* Tasks that have a connection, or are making one.
HeldPcs == HoldingPcs \cup {"create"}

\* The inductive invariant: a connection in the making takes room already.
RoomInv == Len(idle) + Cardinality(At(HeldPcs)) <= MaxConnections

\* A set is no larger than a set it is the image of.
LEMMA ImageSize ==
  ASSUME NEW S, IsFiniteSet(S), NEW T, NEW f \in [S -> T], \A y \in T : \E x \in S : f[x] = y
  PROVE  IsFiniteSet(T) /\ Cardinality(T) <= Cardinality(S)
<1>1. f \in Surjection(S, T)
  BY DEF Surjection
<1> QED
  BY <1>1, FS_Surjection

\* The live connections are at most those idle and those in the hands of tasks.
LEMMA LiveSize ==
  ASSUME TypeOK, \A m \in Shrinkers : spc[m] # "put"
  PROVE  /\ Cardinality(Live) \in Nat
         /\ Cardinality(Live) <= Len(idle) + Cardinality(At(HoldingPcs))
<1> DEFINE deque == {idle[i] : i \in DOMAIN idle}
           held == At(HoldingPcs)
           hands == {conn[c] : c \in held}
<1>1. Len(idle) \in Nat /\ DOMAIN idle = 1..Len(idle) /\ idle \in [1..Len(idle) -> deque]
  BY DEF TypeOK
<1>2. IsFiniteSet(1..Len(idle)) /\ Cardinality(1..Len(idle)) = Len(idle)
  <2>1. \A n \in Nat : IsFiniteSet(1..n) /\ Cardinality(1..n) = n
    BY FS_Interval
  <2> QED
    BY <1>1, <2>1
<1>3. IsFiniteSet(deque) /\ Cardinality(deque) <= Len(idle)
  <2>1. \A y \in deque : \E x \in 1..Len(idle) : idle[x] = y
    BY <1>1
  <2> HIDE DEF deque
  <2> QED
    BY <1>1, <1>2, <2>1, ImageSize
<1>4. IsFiniteSet(held)
  BY PoolAssumption, FS_Subset DEF At
<1>5. IsFiniteSet(hands) /\ Cardinality(hands) <= Cardinality(held)
  <2> DEFINE g == [c \in held |-> conn[c]]
  <2>1. g \in [held -> hands] /\ \A y \in hands : \E x \in held : g[x] = y
    OBVIOUS
  <2> HIDE DEF g, hands, held
  <2> QED
    BY <1>4, <2>1, ImageSize
<1>6. Live = deque \cup hands
  BY DEF Live
<1>7. PICK m \in Nat, n \in Nat, h \in Nat, b \in Nat :
        /\ m = Cardinality(deque) /\ n = Cardinality(hands) /\ h = Cardinality(held)
        /\ b = Cardinality(deque \cap hands)
  BY <1>3, <1>4, <1>5, FS_CardinalityType, FS_Intersection
<1>8. Cardinality(Live) = m + n - b /\ Cardinality(Live) \in Nat
  BY <1>3, <1>5, <1>6, <1>7, FS_Union, FS_CardinalityType
<1> QED
  BY <1>1, <1>3, <1>5, <1>7, <1>8

\* A task that moves takes the room it had, or less.
LEMMA RoomKept ==
  ASSUME TypeOK, TypeOK', RoomInv, NEW c \in Callers, NEW l, Goto(c, l),
         Len(idle') + Weight(l, HeldPcs) <= Len(idle) + Weight(pc[c], HeldPcs)
  PROVE  RoomInv'
<1>1. /\ pc \in [Callers -> Pcs] /\ MaxConnections \in Nat
      /\ Len(idle) \in Nat /\ Len(idle') \in Nat
  BY PoolAssumption DEF TypeOK
<1>2. /\ Cardinality(At(HeldPcs)) \in Nat
      /\ Cardinality(At(HeldPcs)') = Cardinality(At(HeldPcs))
           + Weight(l, HeldPcs) - Weight(pc[c], HeldPcs)
  BY <1>1, MoveCount, Zenon DEF Weight
<1>3. PICK u \in {0, 1}, v \in {0, 1} : u = Weight(pc[c], HeldPcs) /\ v = Weight(l, HeldPcs)
  BY DEF Weight
<1> QED
  BY <1>1, <1>2, <1>3 DEF RoomInv

\* Only a task that found the deque empty takes room it did not have, and it owes a permit
\* like all the others that hold a connection.
LEMMA RoomStep ==
  ASSUME MinConnections = 0, PoolInv, PoolInv', RoomInv, [Next]_vars
  PROVE  RoomInv'
<1>1. /\ TypeOK /\ TypeOK' /\ MaxConnections \in Nat
      /\ idle \in Seq(Conns) /\ Len(idle) \in Nat /\ Len(idle') \in Nat
      /\ \A i, j \in DOMAIN idle : idle[i] = idle[j] => i = j
  BY PoolAssumption DEF PoolInv, TypeOK, Ownership
<1>2. /\ IsFiniteSet(At(HeldPcs)) /\ Cardinality(At(HeldPcs)) \in Nat
      /\ IsFiniteSet(At(OwingPcs)')
  <2>1. At(HeldPcs) \subseteq Callers /\ At(OwingPcs)' \subseteq Callers
    BY DEF At
  <2> QED
    BY <2>1, PoolAssumption, FS_Subset, FS_CardinalityType
<1>3. ASSUME NEW c \in Callers,
             \/ BeginAcquire(c) \/ GetPermit(c) \/ AcquireTimeout(c) \/ CreateOk(c)
             \/ CountCreated(c) \/ CreateErr(c) \/ ValidateOk(c) \/ ValidateBad(c) \/ Discarded(c)
             \/ CountFailure(c) \/ Account(c) \/ BeginRelease(c) \/ ReleaseValid(c)
             \/ ReleaseInvalid(c) \/ ReleaseDiscard(c) \/ ReleaseCount(c)
             \/ ReleasePermit(c) \/ Cancel(c)
      PROVE  RoomInv'
  <2>1. PICK l : Goto(c, l) /\ Weight(l, HeldPcs) <= Weight(pc[c], HeldPcs)
    BY <1>3 DEF BeginAcquire, GetPermit, AcquireTimeout, CreateOk, CountCreated, CreateErr, ValidateOk,
       ValidateBad, Discarded, CountFailure, Account, BeginRelease, ReleaseValid,
       ReleaseInvalid, ReleaseDiscard, ReleaseCount, ReleasePermit, Cancel, Weight, HeldPcs,
       HoldingPcs
  <2>2. UNCHANGED idle
    BY <1>3 DEF BeginAcquire, GetPermit, AcquireTimeout, CreateOk, CountCreated, CreateErr, ValidateOk,
       ValidateBad, Discarded, CountFailure, Account, BeginRelease, ReleaseValid,
       ReleaseInvalid, ReleaseDiscard, ReleaseCount, ReleasePermit, Cancel
  <2>3. PICK u \in {0, 1}, v \in {0, 1} :
          u = Weight(pc[c], HeldPcs) /\ v = Weight(l, HeldPcs)
    BY DEF Weight
  <2>4. Len(idle') + Weight(l, HeldPcs) <= Len(idle) + Weight(pc[c], HeldPcs)
    BY <1>1, <2>1, <2>2, <2>3
  <2> QED
    BY <1>1, <2>1, <2>4, RoomKept
<1>4. ASSUME NEW c \in Callers, LookupIdle(c) \/ ReleasePush(c)
      PROVE  RoomInv'
  <2>1. PICK l : /\ Goto(c, l)
                 /\ \/ /\ Weight(l, HeldPcs) = 1 /\ Weight(pc[c], HeldPcs) = 0
                       /\ idle # <<>> /\ idle' = Tail(idle)
                    \/ /\ Weight(l, HeldPcs) = 0 /\ Weight(pc[c], HeldPcs) = 1
                       /\ idle' = Append(idle, conn[c])
    BY <1>4 DEF LookupIdle, ReleasePush, Weight, HeldPcs, HoldingPcs
  <2>2. Len(idle') + Weight(l, HeldPcs) <= Len(idle) + Weight(pc[c], HeldPcs)
    <3>1. CASE idle # <<>> /\ idle' = Tail(idle)
      BY <1>1, <2>1, <3>1, PopFront
    <3>2. CASE idle' = Append(idle, conn[c])
      BY <1>1, <2>1, <3>2
    <3> QED
      BY <2>1, <3>1, <3>2
  <2> QED
    BY <1>1, <2>1, <2>2, RoomKept
<1>5. ASSUME NEW c \in Callers, LookupNone(c)
      PROVE  RoomInv'
  <2>1. idle' = <<>> /\ Len(idle') = 0
    BY <1>5 DEF LookupNone
  <2>2. At(HeldPcs)' \subseteq At(OwingPcs)'
    BY DEF At, HeldPcs, OwingPcs
  <2>3. /\ Cardinality(At(HeldPcs)') <= Cardinality(At(OwingPcs)')
        /\ Cardinality(At(HeldPcs)') \in Nat /\ Cardinality(At(OwingPcs)') \in Nat
    BY <1>2, <2>2, FS_Subset, FS_CardinalityType
  <2>4. permits' \in Nat /\ forgotten' \in Nat
    BY <1>1 DEF TypeOK
  <2>5. Cardinality(At(OwingPcs)') <= MaxConnections
    BY <1>1, <2>3, <2>4 DEF PoolInv, PermitsConserved
  <2> QED
    BY <1>1, <2>1, <2>3, <2>5 DEF RoomInv
<1>6. ASSUME \/ \E c \in Callers : LookupExpired(c)
             \/ \E m \in Shrinkers : \/ BeginShrink(m) \/ ShrinkPop(m) \/ ShrinkDone(m)
                                      \/ CountLive(m) \/ FillErr(m)
             \/ UNCHANGED vars
      PROVE  RoomInv'
  <2>1. /\ UNCHANGED pc
        /\ \/ UNCHANGED idle
           \/ idle # <<>> /\ idle' = Tail(idle)
           \/ idle # <<>> /\ idle' = SubSeq(idle, 1, Len(idle) - 1)
    BY <1>6 DEF LookupExpired, BeginShrink, ShrinkPop, ShrinkDone, CountLive, FillErr, vars
  <2>2. Len(idle') <= Len(idle)
    <3>1. CASE UNCHANGED idle
      BY <1>1, <3>1
    <3>2. CASE idle # <<>> /\ idle' = Tail(idle)
      BY <1>1, <3>2, PopFront
    <3>3. CASE idle # <<>> /\ idle' = SubSeq(idle, 1, Len(idle) - 1)
      BY <1>1, <3>3, PopBack
    <3> QED
      BY <2>1, <3>1, <3>2, <3>3
  <2>3. At(HeldPcs)' = At(HeldPcs)
    BY <2>1 DEF At
  <2> QED
    BY <1>1, <1>2, <2>2, <2>3 DEF RoomInv
<1>7. \A m \in Shrinkers : ~FillOk(m) /\ ~FillPut(m)
  BY NothingSpare DEF FillOk, FillPut
<1> QED
  BY <1>3, <1>4, <1>5, <1>6, <1>7 DEF Next, Acquire, Lookup, Release, Shrink, Finished

\* A pool that is not told to keep a minimum of connections never has more than
\* max_connections, idle ones included, whatever is dropped, expired or shrunk: only
\* ensure_min_connections creates a connection without a permit.
THEOREM PoolLiveWithinMax == ASSUME MinConnections = 0 PROVE Spec => []LiveWithinMax
<1>1. ASSUME Init PROVE RoomInv
  <2>1. At(HeldPcs) = {} /\ Cardinality({}) = 0
    BY <1>1, FS_EmptySet DEF Init, At, HeldPcs, HoldingPcs
  <2>2. PICK n \in 0..MinConnections : idle \in [1..n -> Conns]
    BY <1>1 DEF Init
  <2>3. n = 0 /\ Len(idle) = 0
    BY <2>2
  <2> QED
    BY <2>1, <2>3, PoolAssumption DEF RoomInv
<1>2. PoolInv /\ PoolInv' /\ RoomInv /\ [Next]_vars => RoomInv'
  BY RoomStep
<1>3. ASSUME PoolInv, RoomInv PROVE LiveWithinMax
  <2>1. At(HoldingPcs) \subseteq At(HeldPcs) /\ At(HeldPcs) \subseteq Callers
    BY DEF At, HeldPcs
  <2>2. /\ Cardinality(At(HoldingPcs)) <= Cardinality(At(HeldPcs))
        /\ Cardinality(At(HoldingPcs)) \in Nat /\ Cardinality(At(HeldPcs)) \in Nat
    BY <2>1, PoolAssumption, FS_Subset, FS_CardinalityType
  <2>3. Len(idle) \in Nat /\ MaxConnections \in Nat /\ TypeOK
    BY <1>3, PoolAssumption DEF PoolInv, TypeOK
  <2> QED
    BY <1>3, <2>2, <2>3, LiveSize, NothingSpare DEF RoomInv, LiveWithinMax
<1> QED
  BY <1>1, <1>2, <1>3, PoolInductive, PTL DEF Spec
=============================================================================
