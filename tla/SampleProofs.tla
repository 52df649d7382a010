---------------------------- MODULE SampleProofs ----------------------------
(***************************************************************************)
(* The parts of MCServices that keep the samples of a signal, or the       *)
(* memory for them, for every value of their constants: the queues, the    *)
(* allocators, the multiplexer and the trace of the LTL checker.  That the *)
(* ring buffer is a queue is imported from its own proof module.           *)
(***************************************************************************)
EXTENDS MCServices, FiniteSetTheorems, SequenceTheorems, WellFoundedInduction, TLAPS

\* A step of the whole is a step of each part, or leaves the part alone.
LEMMA PartSteps ==
  ASSUME [AllNext]_allVars
  PROVE  /\ [Predictor!Next]_predictorVars /\ [Ring!Next]_ringVars
         /\ [Unbounded!Next]_unboundedVars /\ [Signal!Next]_signalVars
         /\ [Alloc!Next]_allocVars /\ [Decoder!Next]_decoderVars
         /\ [Trainer!Next]_trainerVars /\ [Mux!Next]_muxVars
         /\ [Ltl!Next]_ltlVars /\ [Managed!Next]_versionVars
BY DEF AllNext, OnlyMoves, allVars

LEMMA MinExists ==
  ASSUME NEW S \in SUBSET Nat, S # {}
  PROVE  \E x \in S : \A y \in S : x <= y
<1>1. PICK x \in S : \A y \in S : ~(<<y, x>> \in OpToRel(<, Nat))
  BY NatLessThanWellFounded, WFMin, ZenonT(60)
<1>2. \A y \in S : ~(y < x)
  BY <1>1 DEF OpToRel
<1> QED
  BY <1>2

\* What the count is after one more thing is added or taken away.
LEMMA OneMore ==
  ASSUME NEW S, NEW x, IsFiniteSet(S)
  PROVE  /\ IsFiniteSet(S \cup {x}) /\ IsFiniteSet(S \ {x}) /\ Cardinality(S) \in Nat
         /\ x \notin S => Cardinality(S \cup {x}) = Cardinality(S) + 1
         /\ x \in S => Cardinality(S \ {x}) = Cardinality(S) - 1 /\ Cardinality(S) > 0
<1>1. x \in S => Cardinality(S) # 0
  BY FS_EmptySet
<1> QED  BY <1>1, FS_AddElement, FS_RemoveElement, FS_CardinalityType

-----------------------------------------------------------------------------
(* LockFreeRingBuffer *)

RP == INSTANCE RingBufferProofs WITH pc <- readerPc, MaxItems <- RingItems

LEMMA RingSame ==
  /\ Ring!RingAssumption <=> RP!RingAssumption
  /\ Ring!Init <=> RP!Init
  /\ [Ring!Next]_ringVars <=> [RP!Next]_(RP!vars)
BY DEF Ring!RingAssumption, RP!RingAssumption, Ring!Init, RP!Init, ringVars, RP!vars,
   Ring!Next, RP!Next, Ring!Write, RP!Write, Ring!WasOverwritten, RP!WasOverwritten,
   Ring!LoadReadPos, RP!LoadReadPos, Ring!LoadWritePos, RP!LoadWritePos,
   Ring!StoreReadPos, RP!StoreReadPos, Ring!Unborrowed, RP!Unborrowed,
   Ring!Succ, RP!Succ, Ring!reading, RP!reading, Ring!Slots, RP!Slots, Ring!Empty, RP!Empty

LEMMA QueueSame ==
  /\ Ring!Queue!QueueInit <=> RP!Queue!QueueInit
  /\ [Ring!Queue!QueueNext]_(Ring!Queue!queueVars)
       <=> [RP!Queue!QueueNext]_(RP!Queue!queueVars)
BY DEF Ring!Queue!QueueInit, RP!Queue!QueueInit, Ring!Queue!QueueNext, RP!Queue!QueueNext,
   Ring!Queue!queueVars, RP!Queue!queueVars, Ring!Queue!Put, RP!Queue!Put,
   Ring!Queue!Take, RP!Queue!Take, Ring!Queue!AskOverwritten, RP!Queue!AskOverwritten,
   Ring!Contents, RP!Contents, Ring!Available, RP!Available, Ring!Items, RP!Items,
   Ring!Empty, RP!Empty

\* The ring buffer is the queue of OverwriteQueue, for every capacity of at least two.
THEOREM RingBufferIsQueue == ASSUME RP!OneReader PROVE AllSpec => QueueContract
<1>1. AllInit => RP!RingInv
  BY RingSame, RP!RingInitial, ServicesAssumption DEF AllInit
<1>2. RP!RingInv /\ [AllNext]_allVars => RP!RingInv'
  BY PartSteps, RingSame, RP!RingStep, ServicesAssumption
<1>3. AllInit => (unit = "ring" => Ring!Queue!QueueInit)
  BY RingSame, QueueSame, RP!QueueInitial DEF AllInit
<1>4. RP!RingInv /\ RP!RingInv' /\ [AllNext]_allVars
        => [unit = "ring" => [Ring!Queue!QueueNext]_(Ring!Queue!queueVars)]_allVars
  BY PartSteps, RingSame, QueueSame, RP!QueueStep, ServicesAssumption
<1> QED
  BY <1>1, <1>2, <1>3, <1>4, PTL DEF AllSpec, QueueContract

-----------------------------------------------------------------------------
(* UnboundedQueue: its counter, modulo its width *)

LEMMA UnboundedSets ==
  \A S : Unbounded!Cardinality(S) = Cardinality(S) /\ (Unbounded!IsFiniteSet(S) <=> IsFiniteSet(S))
BY DEF Unbounded!Cardinality, Cardinality, Unbounded!IsFiniteSet, IsFiniteSet

\* A division has one quotient and one remainder.
LEMMA OneRemainder ==
  ASSUME NEW w \in Nat \ {0}, NEW x \in Int, NEW q \in Int, NEW r \in 0..w - 1,
         x = w * q + r
  PROVE  x % w = r
<1>1. /\ x = w * (x \div w) + (x % w)
      /\ x \div w \in Int /\ x % w \in 0..w - 1
  OBVIOUS
<1>2. PICK p \in Int, s \in 0..w - 1 : p = x \div w /\ s = x % w
  BY <1>1
<1>3. w * (p - q) = r - s
  BY <1>1, <1>2
<1>4. p - q < 1
  <2>1. p - q >= 1 => w * (p - q) >= w
    OBVIOUS
  <2> QED
    BY <1>3, <2>1
<1>5. p - q > -1
  <2>1. p - q <= -1 => w * (p - q) <= -w
    OBVIOUS
  <2> QED
    BY <1>3, <2>1
<1>6. p = q
  BY <1>4, <1>5
<1> QED
  BY <1>2, <1>3, <1>6

\* To wrap before an addition makes no difference after it.
LEMMA WrapAdd ==
  ASSUME Unbounded!UnboundedAssumption, NEW a \in Int, NEW d \in Int
  PROVE  /\ Unbounded!Wrap(Unbounded!Wrap(a) + d) = Unbounded!Wrap(a + d)
         /\ Unbounded!Wrap(a) \in 0..CounterWidth - 1
<1>1. CounterWidth \in Nat \ {0}
  BY DEF Unbounded!UnboundedAssumption
<1>2. PICK q \in Int, r \in 0..CounterWidth - 1 : a = CounterWidth * q + r /\ a % CounterWidth = r
  <2>1. /\ a = CounterWidth * (a \div CounterWidth) + (a % CounterWidth)
        /\ a \div CounterWidth \in Int /\ a % CounterWidth \in 0..CounterWidth - 1
    BY <1>1
  <2> QED
    BY <2>1
<1>3. PICK p \in Int, s \in 0..CounterWidth - 1 :
        r + d = CounterWidth * p + s /\ (r + d) % CounterWidth = s
  <2> DEFINE x == r + d
  <2>1. x \in Int
    BY <1>1
  <2> HIDE DEF x
  <2>2. /\ x = CounterWidth * (x \div CounterWidth) + (x % CounterWidth)
        /\ x \div CounterWidth \in Int /\ x % CounterWidth \in 0..CounterWidth - 1
    BY <1>1, <2>1
  <2> QED
    BY <2>2 DEF x
<1>4. (a + d) % CounterWidth = s
  <2> DEFINE x == a + d
             n == q + p
  <2>1. x \in Int /\ n \in Int /\ x = CounterWidth * n + s
    BY <1>1, <1>2, <1>3
  <2> HIDE DEF x, n
  <2>2. x % CounterWidth = s
    BY <1>1, <2>1, OneRemainder
  <2> QED
    BY <2>2 DEF x
<1> QED
  BY <1>2, <1>3, <1>4 DEF Unbounded!Wrap

\* The threads that a function from threads to places puts at one of them.
HowMany(f, where) == Cardinality({u \in QueueThreads : f[u] = where})

\* When a thread moves, one more is where it goes and one less where it was.
Counted(f, t, l, where) ==
  /\ HowMany(f, where) \in Nat
  /\ HowMany([f EXCEPT ![t] = l], where)
       = HowMany(f, where) + (IF l = where THEN 1 ELSE 0) - (IF f[t] = where THEN 1 ELSE 0)

LEMMA Moves ==
  ASSUME Unbounded!UnboundedAssumption, NEW t \in QueueThreads,
         NEW l \in {"idle", "pushed", "popped"}, NEW where \in {"idle", "pushed", "popped"},
         NEW f \in [QueueThreads -> {"idle", "pushed", "popped"}]
  PROVE  Counted(f, t, l, where)
<1> DEFINE S == {u \in QueueThreads : f[u] = where}
           T == {u \in QueueThreads : [f EXCEPT ![t] = l][u] = where}
<1>1. IsFiniteSet(S) /\ Cardinality(S) \in Nat
  <2>1. IsFiniteSet(QueueThreads) /\ S \subseteq QueueThreads
    BY UnboundedSets DEF Unbounded!UnboundedAssumption
  <2> QED
    BY <2>1, FS_Subset, FS_CardinalityType
<1>2. t \in S <=> f[t] = where
  OBVIOUS
<1>3. T = IF l = where THEN S \cup {t} ELSE S \ {t}
  OBVIOUS
<1>4. HowMany(f, where) = Cardinality(S)
  BY DEF HowMany
<1>5. HowMany([f EXCEPT ![t] = l], where) = Cardinality(T)
  BY DEF HowMany
<1> HIDE DEF S, T
<1>6. /\ t \notin S => Cardinality(S \cup {t}) = Cardinality(S) + 1
      /\ t \in S => Cardinality(S \ {t}) = Cardinality(S) - 1
  BY <1>1, FS_AddElement, FS_RemoveElement
<1>7. /\ t \notin S => S \ {t} = S
      /\ t \in S => S \cup {t} = S
  OBVIOUS
<1>8. Cardinality(T) = Cardinality(S) + (IF l = where THEN 1 ELSE 0)
                                      - (IF f[t] = where THEN 1 ELSE 0)
  <2> DEFINE m == Cardinality(S)
  <2>1. CASE l = where /\ f[t] = where
    <3>1. Cardinality(T) = m
      BY <1>2, <1>3, <1>7, <2>1
    <3>2. m + 1 - 1 = m
      BY <1>1
    <3> QED  BY <2>1, <3>1, <3>2
  <2>2. CASE l = where /\ f[t] # where
    <3>1. Cardinality(T) = m + 1
      BY <1>2, <1>3, <1>6, <2>2
    <3>2. m + 1 - 0 = m + 1
      BY <1>1
    <3> QED  BY <2>2, <3>1, <3>2
  <2>3. CASE l # where /\ f[t] = where
    <3>1. Cardinality(T) = m - 1
      BY <1>2, <1>3, <1>6, <2>3
    <3>2. m + 0 - 1 = m - 1
      BY <1>1
    <3> QED  BY <2>3, <3>1, <3>2
  <2>4. CASE l # where /\ f[t] # where
    <3>1. Cardinality(T) = m
      BY <1>2, <1>3, <1>7, <2>4
    <3>2. m + 0 - 0 = m
      BY <1>1
    <3> QED  BY <2>4, <3>1, <3>2
  <2> QED
    BY <2>1, <2>2, <2>3, <2>4
<1> QED
  BY <1>1, <1>4, <1>5, <1>8 DEF Counted

\* The inductive invariant.
CountSafe == Unbounded!TypeOK /\ Unbounded!CountSettles

LEMMA CountInitial == ASSUME Unbounded!UnboundedAssumption, Unbounded!Init PROVE CountSafe
<1>1. HowMany(queuePc, "pushed") = 0 /\ HowMany(queuePc, "popped") = 0
  BY FS_EmptySet DEF Unbounded!Init, HowMany
<1>2. CounterWidth \in Nat \ {0} /\ QueueItems \in Nat
  BY DEF Unbounded!UnboundedAssumption
<1>3. 0 % CounterWidth = 0
  BY <1>2
<1>4. Unbounded!CountSettles
  BY <1>1, <1>3, UnboundedSets
    DEF Unbounded!Init, Unbounded!CountSettles, Unbounded!Wrap, Unbounded!At, HowMany
<1>5. items \in Seq(1..QueueItems) /\ popped \in Seq(1..QueueItems)
  BY EmptySeq DEF Unbounded!Init
<1> QED
  BY <1>2, <1>4, <1>5 DEF Unbounded!Init, CountSafe, Unbounded!TypeOK

\* What the counter should say, up to wrapping.
Balance == Len(items) + HowMany(queuePc, "popped") - HowMany(queuePc, "pushed")

\* The queue and the thread between its steps change together, the counter follows.
LEMMA CountStep ==
  ASSUME Unbounded!UnboundedAssumption, CountSafe, [Unbounded!Next]_unboundedVars
  PROVE  CountSafe'
<1> USE DEF CountSafe, Unbounded!TypeOK
<1>1. CounterWidth \in Nat \ {0} /\ QueueItems \in Nat /\ Len(items) \in Nat
  BY LenProperties DEF Unbounded!UnboundedAssumption
<1>2. ASSUME NEW t \in QueueThreads, Unbounded!Push(t) PROVE CountSafe'
  <2>1. pushed + 1 \in 1..QueueItems /\ pushed' \in 0..QueueItems
    BY <1>1, <1>2 DEF Unbounded!Push
  <2>2. items' \in Seq(1..QueueItems) /\ Len(items') = Len(items) + 1
    BY <1>2, <2>1, AppendProperties DEF Unbounded!Push
  <2>3. /\ HowMany(queuePc, "pushed") \in Nat /\ HowMany(queuePc', "pushed") = HowMany(queuePc, "pushed") + 1
        /\ HowMany(queuePc, "popped") \in Nat /\ HowMany(queuePc', "popped") = HowMany(queuePc, "popped")
    <3>1. queuePc[t] = "idle" /\ queuePc' = [queuePc EXCEPT ![t] = "pushed"]
      BY <1>2 DEF Unbounded!Push
    <3>2. Counted(queuePc, t, "pushed", "pushed") /\ Counted(queuePc, t, "pushed", "popped")
      BY Moves
    <3> QED
      BY <3>1, <3>2 DEF Counted
  <2>4. Balance' = Balance /\ itemCount' = itemCount
    <3>1. itemCount' = itemCount
      BY <1>2 DEF Unbounded!Push
    <3> HIDE DEF CountSafe, Unbounded!TypeOK
    <3>2. Len(items') + HowMany(queuePc', "popped") - HowMany(queuePc', "pushed")
            = Len(items) + HowMany(queuePc, "popped") - HowMany(queuePc, "pushed")
      BY <1>1, <2>2, <2>3, SMTT(60)
    <3> QED
      BY <3>1, <3>2 DEF Balance
  <2>5. Unbounded!CountSettles'
    BY <2>4, UnboundedSets DEF Unbounded!CountSettles, Balance, Unbounded!At, HowMany
  <2>6. Unbounded!TypeOK'
    BY <1>2, <2>1, <2>2 DEF Unbounded!Push
  <2> QED
    BY <2>5, <2>6
<1>3. ASSUME NEW t \in QueueThreads, Unbounded!CountPush(t) PROVE CountSafe'
  <2>1. /\ HowMany(queuePc, "pushed") \in Nat /\ HowMany(queuePc', "pushed") = HowMany(queuePc, "pushed") - 1
        /\ HowMany(queuePc, "popped") \in Nat /\ HowMany(queuePc', "popped") = HowMany(queuePc, "popped")
    <3>1. queuePc[t] = "pushed" /\ queuePc' = [queuePc EXCEPT ![t] = "idle"]
      BY <1>3 DEF Unbounded!CountPush
    <3>2. Counted(queuePc, t, "idle", "pushed") /\ Counted(queuePc, t, "idle", "popped")
      BY Moves
    <3> QED
      BY <3>1, <3>2 DEF Counted
  <2>2. Balance' = Balance + 1 /\ Balance \in Int
    BY <1>1, <1>3, <2>1, SMTT(60) DEF Balance, Unbounded!CountPush
  <2>3. itemCount' = Unbounded!Wrap(Unbounded!Wrap(Balance) + 1)
    BY <1>3, UnboundedSets
    DEF Unbounded!CountPush, Unbounded!CountSettles, Balance, Unbounded!At, HowMany
  <2>4. /\ itemCount' = Unbounded!Wrap(Balance + 1)
        /\ itemCount' \in 0..CounterWidth - 1
    BY <2>2, <2>3, WrapAdd
  <2>5. Unbounded!CountSettles'
    BY <2>2, <2>4, UnboundedSets DEF Unbounded!CountSettles, Balance, Unbounded!At, HowMany
  <2> QED
    BY <1>3, <2>4, <2>5 DEF Unbounded!CountPush
<1>4. ASSUME NEW t \in QueueThreads, Unbounded!Pop(t) PROVE CountSafe'
  <2>1. /\ items' \in Seq(1..QueueItems) /\ Len(items') = Len(items) - 1
        /\ Head(items) \in 1..QueueItems
    BY <1>4, HeadTailProperties DEF Unbounded!Pop
  <2>2. popped' \in Seq(1..QueueItems)
    BY <1>4, <2>1, AppendProperties DEF Unbounded!Pop
  <2>3. /\ HowMany(queuePc, "pushed") \in Nat /\ HowMany(queuePc', "pushed") = HowMany(queuePc, "pushed")
        /\ HowMany(queuePc, "popped") \in Nat /\ HowMany(queuePc', "popped") = HowMany(queuePc, "popped") + 1
    <3>1. queuePc[t] = "idle" /\ queuePc' = [queuePc EXCEPT ![t] = "popped"]
      BY <1>4 DEF Unbounded!Pop
    <3>2. Counted(queuePc, t, "popped", "pushed") /\ Counted(queuePc, t, "popped", "popped")
      BY Moves
    <3> QED
      BY <3>1, <3>2 DEF Counted
  <2>4. Balance' = Balance /\ itemCount' = itemCount
    BY <1>1, <1>4, <2>1, <2>3 DEF Balance, Unbounded!Pop
  <2>5. Unbounded!CountSettles'
    BY <2>4, UnboundedSets DEF Unbounded!CountSettles, Balance, Unbounded!At, HowMany
  <2>6. Unbounded!TypeOK'
    BY <1>4, <2>1, <2>2 DEF Unbounded!Pop
  <2> QED
    BY <2>5, <2>6
<1>5. ASSUME NEW t \in QueueThreads, Unbounded!CountPop(t) PROVE CountSafe'
  <2>1. /\ HowMany(queuePc, "pushed") \in Nat /\ HowMany(queuePc', "pushed") = HowMany(queuePc, "pushed")
        /\ HowMany(queuePc, "popped") \in Nat /\ HowMany(queuePc', "popped") = HowMany(queuePc, "popped") - 1
    <3>1. queuePc[t] = "popped" /\ queuePc' = [queuePc EXCEPT ![t] = "idle"]
      BY <1>5 DEF Unbounded!CountPop
    <3>2. Counted(queuePc, t, "idle", "pushed") /\ Counted(queuePc, t, "idle", "popped")
      BY Moves
    <3> QED
      BY <3>1, <3>2 DEF Counted
  <2>2. Balance' = Balance - 1 /\ Balance \in Int
    <3>1. items' = items
      BY <1>5 DEF Unbounded!CountPop
    <3> HIDE DEF CountSafe, Unbounded!TypeOK
    <3>2. Len(items') + HowMany(queuePc', "popped") - HowMany(queuePc', "pushed")
            = Len(items) + HowMany(queuePc, "popped") - HowMany(queuePc, "pushed") - 1
      BY <1>1, <2>1, <3>1
    <3> QED
      BY <1>1, <2>1, <3>2 DEF Balance
  <2>3. itemCount' = Unbounded!Wrap(Unbounded!Wrap(Balance) - 1)
    BY <1>5, UnboundedSets
    DEF Unbounded!CountPop, Unbounded!CountSettles, Balance, Unbounded!At, HowMany
  <2>4. PICK b \in Int, d \in Int : b = Balance /\ d = -1
    BY <2>2
  <2>5. /\ Unbounded!Wrap(Unbounded!Wrap(b) + d) = Unbounded!Wrap(b + d)
        /\ Unbounded!Wrap(b) \in 0..CounterWidth - 1
    BY <2>4, WrapAdd
  <2>9. Unbounded!Wrap(b) + d = Unbounded!Wrap(b) - 1 /\ b + d = b - 1
    BY <1>1, <2>4, <2>5
  <2>6. itemCount' = Unbounded!Wrap(Balance') /\ itemCount' = Unbounded!Wrap(b + d)
    BY <2>2, <2>3, <2>4, <2>5, <2>9
  <2>7. itemCount' \in 0..CounterWidth - 1
    BY <2>4, <2>6, WrapAdd
  <2>8. Unbounded!CountSettles'
    BY <2>6, UnboundedSets DEF Unbounded!CountSettles, Balance, Unbounded!At, HowMany
  <2> QED
    BY <1>5, <2>7, <2>8 DEF Unbounded!CountPop
<1>6. CASE UNCHANGED unboundedVars
  BY <1>6, UnboundedSets DEF unboundedVars, Unbounded!CountSettles, Unbounded!At
<1> QED
  BY <1>2, <1>3, <1>4, <1>5, <1>6 DEF Unbounded!Next

\* The counter of UnboundedQueue settles on the length of the queue, for any number of
\* threads and items and any width of the counter.
THEOREM QueueCountSettles == AllSpec => []CountSettles
<1>1. AllInit => CountSafe
  BY CountInitial, ServicesAssumption DEF AllInit
<1>2. CountSafe /\ [AllNext]_allVars => CountSafe'
  BY PartSteps, CountStep, ServicesAssumption
<1>3. CountSafe => CountSettles
  BY DEF CountSafe, CountSettles
<1> QED
  BY <1>1, <1>2, <1>3, PTL DEF AllSpec

-----------------------------------------------------------------------------
(* EmbeddedAllocator and StackAllocator *)

Buffers == {"bump", "stack"}
PoolBlocks(s) == {b \in s : b.kind = "pool"}
Freeing(p) == {t \in Threads : p[t] \in {"free", "sub"}}

\* The inductive invariant.  A thread that is about to swap has loaded an offset at which
\* its block fits; the blocks of a buffer lie below its offset, each above what the offset
\* was when it was claimed, in the order of their claims.
AllocTypes ==
  /\ freeList \in 0..Width - 1 /\ allocs \in 0..MaxAllocs /\ foreign \in BOOLEAN
  /\ offset \in [Buffers -> Nat] /\ \A b \in Buffers : offset[b] <= BufferSizes[b]
  /\ threadPc \in [Threads -> Alloc!Pcs] /\ seen \in [Threads -> Nat]
  /\ layout \in [Threads -> Layouts \cup {Alloc!NoLayout}]
AllocClaims ==
  \A t \in Threads :
    /\ threadPc[t] = "claim" => seen[t] < Alloc!NumBlocks
    /\ \A b \in Buffers :
         threadPc[t] = Alloc!Swap(b) => Alloc!NewOffset(t, seen[t]) <= BufferSizes[b]
AllocBlocks ==
  /\ live \subseteq [kind : {"pool", "bump", "stack"}, from : Nat, to : Nat, saved : Nat, n : Nat]
  /\ \A a \in live : a.saved <= a.from /\ a.from <= a.to /\ a.n < allocs
  /\ \A a \in live : a.kind # "pool" => a.to <= offset[a.kind]
  /\ \A a, b \in live : a # b => a.n # b.n
  /\ \A a, b \in live : a.kind = b.kind /\ a.kind # "pool" /\ a.n < b.n => a.to <= b.saved
AllocCounted ==
  /\ IsFiniteSet(PoolBlocks(live)) /\ IsFiniteSet(Freeing(threadPc))
  /\ foreign \/ freeList = Cardinality(PoolBlocks(live)) + Cardinality(Freeing(threadPc))
AllocSafe == AllocTypes /\ AllocClaims /\ AllocBlocks /\ AllocCounted

\* Rounding up is at least what is rounded, and blocks have a size.
LEMMA AlignsUp ==
  ASSUME NEW v \in Nat, NEW a \in Nat \ {0}
  PROVE  Alloc!AlignUp(v, a) \in Nat /\ Alloc!AlignUp(v, a) >= v
<1> DEFINE w == v + a - 1
           q == w \div a
<1>1. w \in Nat /\ a \in Nat /\ a > 0
  OBVIOUS
<1> HIDE DEF w
<1>2. w \div a \in Int /\ w = a * (w \div a) + (w % a) /\ w % a \in 0..a - 1
  BY <1>1, Z3
<1>3. q \in Int /\ q * a > w - a /\ q >= 0
  BY <1>1, <1>2
<1> HIDE DEF q
<1>4. q * a \in Nat /\ q * a >= v
  BY <1>1, <1>3 DEF w
<1> QED  BY <1>4 DEF q, w, Alloc!AlignUp

LEMMA PoolFits ==
  ASSUME Alloc!AllocAssumption
  PROVE  Alloc!BlockBytes \in Nat /\ Alloc!NumBlocks \in Nat /\ Alloc!NumBlocks < Width
<1>1. PoolSize \in Nat /\ BlockSize \in Nat \ {0} /\ Width \in Nat /\ PoolSize < Width
  BY DEF Alloc!AllocAssumption
<1>2. Alloc!BlockBytes \in Nat \ {0}
  BY <1>1 DEF Alloc!BlockBytes
<1> QED  BY <1>1, <1>2 DEF Alloc!NumBlocks

LEMMA NewOffsetIs ==
  ASSUME Alloc!AllocAssumption, AllocTypes, NEW t \in Threads, NEW v \in Nat
  PROVE  /\ Alloc!AlignUp(v, layout[t].align) \in Nat
         /\ Alloc!AlignUp(v, layout[t].align) >= v
         /\ layout[t].size \in Nat
         /\ Alloc!NewOffset(t, v) = Alloc!AlignUp(v, layout[t].align) + layout[t].size
<1>1. layout[t].size \in Nat /\ layout[t].align \in Nat \ {0}
  BY DEF AllocTypes, Alloc!AllocAssumption, Alloc!NoLayout
<1> QED  BY <1>1, AlignsUp DEF Alloc!NewOffset

\* A thread moves on, and nothing else changes.
LEMMA AllocMoves ==
  ASSUME Alloc!AllocAssumption, AllocSafe, NEW t \in Threads, NEW p \in Alloc!Pcs,
         threadPc' = [threadPc EXCEPT ![t] = p], seen' \in [Threads -> Nat],
         layout' \in [Threads -> Layouts \cup {Alloc!NoLayout}],
         \A u \in Threads \ {t} : seen'[u] = seen[u] /\ layout'[u] = layout[u],
         p = "claim" => seen'[t] < Alloc!NumBlocks,
         \A b \in Buffers : p = Alloc!Swap(b)
           => Alloc!AlignUp(seen'[t], layout'[t].align) + layout'[t].size <= BufferSizes[b],
         p \in {"free", "sub"} <=> threadPc[t] \in {"free", "sub"},
         UNCHANGED <<freeList, offset, live, allocs, foreign>>
  PROVE  AllocSafe'
<1>1. AllocTypes'
  BY DEF AllocSafe, AllocTypes
<1>2. AllocClaims'
  <2>1. threadPc \in [Threads -> Alloc!Pcs]
    BY DEF AllocSafe, AllocTypes
  <2>2. ASSUME NEW u \in Threads, threadPc'[u] = "claim" PROVE seen'[u] < Alloc!NumBlocks
    BY <2>1, <2>2 DEF AllocSafe, AllocClaims
  <2>3. ASSUME NEW u \in Threads, NEW b \in Buffers, threadPc'[u] = Alloc!Swap(b)
        PROVE  Alloc!AlignUp(seen'[u], layout'[u].align) + layout'[u].size <= BufferSizes[b]
    BY <2>1, <2>3 DEF AllocSafe, AllocClaims, Alloc!NewOffset
  <2> QED  BY <2>2, <2>3 DEF AllocClaims, Alloc!NewOffset
<1>3. AllocBlocks'
  BY DEF AllocSafe, AllocBlocks
<1>4. AllocCounted'
  <2>1. Freeing(threadPc') = Freeing(threadPc)
    BY DEF AllocSafe, AllocTypes, Freeing
  <2> QED  BY <2>1 DEF AllocSafe, AllocCounted
<1> QED  BY <1>1, <1>2, <1>3, <1>4 DEF AllocSafe

\* A thread is given the block n of a kind, and its call is over.
LEMMA AllocGiven ==
  ASSUME Alloc!AllocAssumption, AllocSafe, NEW t \in Threads, NEW kind \in Buffers \cup {"pool"},
         NEW start \in Nat, NEW size \in Nat, NEW saved \in Nat, saved <= start,
         allocs < MaxAllocs, threadPc[t] \notin {"free", "sub"},
         Alloc!Allocated(kind, start, size, saved), Alloc!Return(t), foreign' = foreign,
         kind = "pool" => UNCHANGED offset /\ freeList' = freeList + 1 /\ freeList + 1 < Width,
         kind # "pool" => /\ freeList' = freeList /\ saved = offset[kind]
                          /\ start + size <= BufferSizes[kind]
                          /\ offset' = [offset EXCEPT ![kind] = start + size]
  PROVE  AllocSafe'
<1> DEFINE a == [kind |-> kind, from |-> start, to |-> start + size, saved |-> saved, n |-> allocs]
<1>1. live' = live \cup {a} /\ allocs' = allocs + 1 /\ allocs \in Nat /\ MaxAllocs \in Nat
  BY DEF Alloc!Allocated, AllocSafe, AllocTypes, Alloc!AllocAssumption
<1>2. /\ threadPc' = [threadPc EXCEPT ![t] = "idle"]
      /\ layout' = [layout EXCEPT ![t] = Alloc!NoLayout] /\ seen' = [seen EXCEPT ![t] = 0]
  BY DEF Alloc!Return
<1>3. AllocTypes'
  <2>1. /\ threadPc' \in [Threads -> Alloc!Pcs] /\ seen' \in [Threads -> Nat]
        /\ layout' \in [Threads -> Layouts \cup {Alloc!NoLayout}]
    BY <1>2 DEF AllocSafe, AllocTypes, Alloc!Pcs
  <2>2. freeList' \in 0..Width - 1
    BY DEF AllocSafe, AllocTypes, Alloc!AllocAssumption
  <2>3. offset' \in [Buffers -> Nat] /\ \A b \in Buffers : offset'[b] <= BufferSizes[b]
    BY DEF AllocSafe, AllocTypes
  <2>4. allocs' \in 0..MaxAllocs /\ foreign' \in BOOLEAN
    BY <1>1 DEF AllocSafe, AllocTypes
  <2> QED  BY <2>1, <2>2, <2>3, <2>4 DEF AllocTypes
<1>4. AllocClaims'
  BY <1>2 DEF AllocSafe, AllocTypes, AllocClaims, Alloc!NewOffset, Alloc!Swap
<1>5. AllocBlocks'
  <2>1. /\ a.kind = kind /\ a.from = start /\ a.to = start + size /\ a.saved = saved
        /\ a.n = allocs
        /\ a \in [kind : {"pool", "bump", "stack"}, from : Nat, to : Nat, saved : Nat, n : Nat]
    BY <1>1 DEF Buffers
  <2> HIDE DEF a
  <2>2. \A b \in live : /\ b.saved \in Nat /\ b.from \in Nat /\ b.to \in Nat /\ b.n \in Nat
                        /\ b.kind \in Buffers \cup {"pool"}
    BY DEF AllocSafe, AllocBlocks, Buffers
  <2>3. \A b \in live' : b.saved <= b.from /\ b.from <= b.to /\ b.n < allocs'
    BY <1>1, <2>1, <2>2 DEF AllocSafe, AllocBlocks
  <2>4. \A b \in live' : b.kind # "pool" => b.to <= offset'[b.kind]
    <3>1. offset \in [Buffers -> Nat]
      BY DEF AllocSafe, AllocTypes
    <3>2. \A b \in live : b.kind # "pool" => b.to <= offset[b.kind] /\ b.kind \in Buffers
      BY <2>2 DEF AllocSafe, AllocBlocks
    <3> QED  BY <1>1, <2>1, <2>2, <3>1, <3>2
  <2>5. \A b \in live : b.n < allocs
    BY DEF AllocSafe, AllocBlocks
  <2>6. \A b, c \in live' : b # c => b.n # c.n
    BY <1>1, <2>1, <2>2, <2>5 DEF AllocSafe, AllocBlocks
  <2>7. \A b, c \in live' : b.kind = c.kind /\ b.kind # "pool" /\ b.n < c.n => b.to <= c.saved
    <3> SUFFICES ASSUME NEW b \in live', NEW c \in live', b.kind = c.kind, b.kind # "pool",
                        b.n < c.n
                 PROVE  b.to <= c.saved
      OBVIOUS
    <3>1. b # a
      BY <1>1, <2>1, <2>2, <2>5
    <3>2. CASE c = a
      BY <1>1, <2>1, <3>1, <3>2 DEF AllocSafe, AllocBlocks
    <3>3. CASE c # a
      BY <1>1, <3>1, <3>3 DEF AllocSafe, AllocBlocks
    <3> QED  BY <3>2, <3>3
  <2>8. live' \subseteq [kind : {"pool", "bump", "stack"}, from : Nat, to : Nat, saved : Nat, n : Nat]
    BY <1>1, <2>1 DEF AllocSafe, AllocBlocks
  <2> QED  BY <2>3, <2>4, <2>6, <2>7, <2>8 DEF AllocBlocks
<1>6. AllocCounted'
  <2>1. Freeing(threadPc') = Freeing(threadPc)
    BY <1>2 DEF AllocSafe, AllocTypes, Freeing
  <2>2. a \notin live
    BY DEF AllocSafe, AllocBlocks, AllocTypes
  <2>3. PoolBlocks(live') = IF kind = "pool" THEN PoolBlocks(live) \cup {a} ELSE PoolBlocks(live)
    BY <1>1 DEF PoolBlocks
  <2>4. a \notin PoolBlocks(live)
    BY <2>2 DEF PoolBlocks
  <2> HIDE DEF a
  <2>5. /\ IsFiniteSet(PoolBlocks(live)) /\ IsFiniteSet(Freeing(threadPc))
        /\ foreign \/ freeList = Cardinality(PoolBlocks(live)) + Cardinality(Freeing(threadPc))
    BY DEF AllocSafe, AllocCounted
  <2>6. /\ IsFiniteSet(PoolBlocks(live) \cup {a}) /\ Cardinality(PoolBlocks(live)) \in Nat
        /\ Cardinality(Freeing(threadPc)) \in Nat
        /\ Cardinality(PoolBlocks(live) \cup {a}) = Cardinality(PoolBlocks(live)) + 1
    BY <2>4, <2>5, OneMore
  <2> QED  BY <2>1, <2>3, <2>5, <2>6 DEF AllocCounted
<1> QED  BY <1>3, <1>4, <1>5, <1>6 DEF AllocSafe

LEMMA AllocPops ==
  ASSUME Alloc!AllocAssumption, AllocSafe, NEW t \in Threads, Alloc!Pop(t)
  PROVE  AllocSafe'
<1>1. PICK b \in live :
        /\ b.kind = "stack" /\ \A a \in live : a.kind = "stack" => a.n <= b.n
        /\ offset' = [offset EXCEPT !["stack"] = b.saved]
        /\ live' = live \ {b}
        /\ UNCHANGED <<freeList, threadPc, layout, seen, allocs, foreign>>
  BY DEF Alloc!Pop, Alloc!atThread
<1>2. /\ b.saved \in Nat /\ b.saved <= b.from /\ b.from <= b.to /\ b.to <= offset["stack"]
      /\ b.from \in Nat /\ b.to \in Nat /\ b.n \in Nat
  BY <1>1 DEF AllocSafe, AllocBlocks
<1>3. offset["stack"] \in Nat /\ offset["stack"] <= BufferSizes["stack"] /\ offset \in [Buffers -> Nat]
  BY DEF AllocSafe, AllocTypes, Buffers
<1>4. AllocTypes'
  <2>1. offset' \in [Buffers -> Nat] /\ offset'["stack"] <= BufferSizes["stack"]
    BY <1>1, <1>2, <1>3, ServicesAssumption DEF Buffers, Alloc!AllocAssumption, AllocSafe, AllocTypes
  <2>2. \A k \in Buffers : offset'[k] <= BufferSizes[k]
    BY <1>1, <1>3, <2>1 DEF AllocSafe, AllocTypes
  <2> QED  BY <1>1, <2>1, <2>2 DEF AllocSafe, AllocTypes
<1>5. AllocClaims'
  BY <1>1 DEF AllocSafe, AllocClaims, Alloc!NewOffset
<1>6. AllocBlocks'
  <2>1. \A a \in live : /\ a.n \in Nat /\ a.to \in Nat /\ a.saved \in Nat /\ a.from \in Nat
                        /\ a.kind \in Buffers \cup {"pool"}
    BY DEF AllocSafe, AllocBlocks, Buffers
  <2>2. ASSUME NEW a \in live', a.kind # "pool" PROVE a.to <= offset'[a.kind]
    <3>1. CASE a.kind = "stack"
      <4>1. a.n <= b.n /\ a.n # b.n
        BY <1>1, <2>2, <3>1 DEF AllocSafe, AllocBlocks
      <4>2. a.n < b.n
        BY <1>1, <1>2, <2>1, <4>1
      <4>3. a.to <= b.saved
        BY <1>1, <2>2, <3>1, <4>2 DEF AllocSafe, AllocBlocks
      <4> QED  BY <1>1, <1>3, <3>1, <4>3 DEF Buffers
    <3>2. CASE a.kind # "stack"
      BY <1>1, <1>3, <2>1, <2>2, <3>2 DEF AllocSafe, AllocBlocks, Buffers
    <3> QED  BY <3>1, <3>2
  <2> QED  BY <1>1, <2>2 DEF AllocSafe, AllocBlocks
<1>7. AllocCounted'
  <2>1. PoolBlocks(live') = PoolBlocks(live)
    BY <1>1 DEF PoolBlocks
  <2> QED  BY <1>1, <2>1 DEF AllocSafe, AllocCounted
<1> QED  BY <1>4, <1>5, <1>6, <1>7 DEF AllocSafe

LEMMA AllocDealloc ==
  ASSUME Alloc!AllocAssumption, AllocSafe, NEW t \in Threads, NEW b \in live, Alloc!Dealloc(t, b)
  PROVE  AllocSafe'
<1>1. /\ threadPc[t] = "idle" /\ b.kind \in {"pool", "bump"} /\ live' = live \ {b}
      /\ foreign' = (foreign \/ b.kind = "bump")
      /\ threadPc' = [threadPc EXCEPT ![t] = "free"]
      /\ UNCHANGED <<freeList, offset, layout, seen, allocs>>
  BY DEF Alloc!Dealloc
<1>2. AllocTypes'
  BY <1>1 DEF AllocSafe, AllocTypes, Alloc!Pcs
<1>3. AllocClaims'
  BY <1>1 DEF AllocSafe, AllocTypes, AllocClaims, Alloc!NewOffset, Alloc!Swap
<1>4. AllocBlocks'
  BY <1>1 DEF AllocSafe, AllocBlocks
<1>5. AllocCounted'
  <2>1. Freeing(threadPc') = Freeing(threadPc) \cup {t} /\ t \notin Freeing(threadPc)
    BY <1>1 DEF AllocSafe, AllocTypes, Freeing
  <2>2. /\ IsFiniteSet(PoolBlocks(live)) /\ IsFiniteSet(Freeing(threadPc))
        /\ foreign \/ freeList = Cardinality(PoolBlocks(live)) + Cardinality(Freeing(threadPc))
    BY DEF AllocSafe, AllocCounted
  <2>3. /\ IsFiniteSet(Freeing(threadPc')) /\ Cardinality(Freeing(threadPc)) \in Nat
        /\ Cardinality(Freeing(threadPc')) = Cardinality(Freeing(threadPc)) + 1
    BY <2>1, <2>2, OneMore
  <2>4. CASE b.kind = "pool"
    <3>1. PoolBlocks(live') = PoolBlocks(live) \ {b} /\ b \in PoolBlocks(live)
      BY <1>1, <2>4 DEF PoolBlocks
    <3>2. /\ IsFiniteSet(PoolBlocks(live')) /\ Cardinality(PoolBlocks(live)) \in Nat
          /\ Cardinality(PoolBlocks(live')) = Cardinality(PoolBlocks(live)) - 1
      BY <2>2, <3>1, OneMore
    <3>3. foreign' <=> foreign
      BY <1>1, <2>4
    <3>4. ~foreign => freeList' = Cardinality(PoolBlocks(live')) + Cardinality(Freeing(threadPc'))
      BY <1>1, <2>2, <2>3, <3>2
    <3> QED  BY <2>3, <3>2, <3>3, <3>4 DEF AllocCounted
  <2>5. CASE b.kind # "pool"
    <3>1. PoolBlocks(live') = PoolBlocks(live) /\ foreign'
      BY <1>1, <2>5 DEF PoolBlocks
    <3> QED  BY <2>2, <2>3, <3>1 DEF AllocCounted
  <2> QED  BY <2>4, <2>5
<1> QED  BY <1>2, <1>3, <1>4, <1>5 DEF AllocSafe

\* What is freed is counted, so the counter is above zero when it is taken down.
LEMMA AllocFrees ==
  ASSUME Alloc!AllocAssumption, AllocSafe, NEW t \in Threads, threadPc[t] \in {"free", "sub"},
         threadPc' = [threadPc EXCEPT ![t] = "idle"],
         freeList > 0 => freeList' = freeList - 1, freeList' \in 0..Width - 1,
         UNCHANGED <<offset, layout, seen, live, allocs, foreign>>
  PROVE  AllocSafe'
<1>1. AllocTypes'
  BY DEF AllocSafe, AllocTypes, Alloc!Pcs
<1>2. AllocClaims'
  BY DEF AllocSafe, AllocTypes, AllocClaims, Alloc!NewOffset, Alloc!Swap
<1>3. AllocBlocks'
  BY DEF AllocSafe, AllocBlocks
<1>4. AllocCounted'
  <2>1. Freeing(threadPc') = Freeing(threadPc) \ {t} /\ t \in Freeing(threadPc)
    BY DEF AllocSafe, AllocTypes, Freeing
  <2>2. /\ IsFiniteSet(PoolBlocks(live)) /\ IsFiniteSet(Freeing(threadPc)) /\ freeList \in Nat
        /\ foreign \/ freeList = Cardinality(PoolBlocks(live)) + Cardinality(Freeing(threadPc))
    BY DEF AllocSafe, AllocCounted, AllocTypes
  <2>3. /\ IsFiniteSet(Freeing(threadPc')) /\ Cardinality(Freeing(threadPc)) \in Nat
        /\ Cardinality(Freeing(threadPc)) > 0
        /\ Cardinality(Freeing(threadPc')) = Cardinality(Freeing(threadPc)) - 1
    <3>1. /\ IsFiniteSet(Freeing(threadPc) \ {t}) /\ Cardinality(Freeing(threadPc)) \in Nat
          /\ Cardinality(Freeing(threadPc)) > 0
          /\ Cardinality(Freeing(threadPc) \ {t}) = Cardinality(Freeing(threadPc)) - 1
      <4> HIDE DEF Freeing
      <4> QED  BY <2>1, <2>2, OneMore
    <3> QED  BY <2>1, <3>1
  <2>4. Cardinality(PoolBlocks(live)) \in Nat
    BY <2>2, FS_CardinalityType
  <2> QED  BY <2>2, <2>3, <2>4 DEF AllocCounted
<1> QED  BY <1>1, <1>2, <1>3, <1>4 DEF AllocSafe

LEMMA AllocStep ==
  ASSUME Alloc!AllocAssumption, AllocSafe, [Alloc!Next]_allocVars
  PROVE  AllocSafe'
<1>1. ASSUME NEW t \in Threads, NEW l \in Layouts, Alloc!Alloc(t, l) \/ Alloc!Push(t, l)
      PROVE  AllocSafe'
  <2>1. PICK p \in {"pool", "bump", "stack"} : threadPc' = [threadPc EXCEPT ![t] = p]
    BY <1>1 DEF Alloc!Alloc, Alloc!Push
  <2>2. /\ threadPc[t] = "idle" /\ layout' = [layout EXCEPT ![t] = l] /\ seen' = seen
        /\ UNCHANGED <<freeList, offset, live, allocs, foreign>>
    BY <1>1 DEF Alloc!Alloc, Alloc!Push, Alloc!Begin
  <2>3. /\ seen' \in [Threads -> Nat] /\ layout' \in [Threads -> Layouts \cup {Alloc!NoLayout}]
        /\ \A u \in Threads \ {t} : seen'[u] = seen[u] /\ layout'[u] = layout[u]
    BY <2>2 DEF AllocSafe, AllocTypes
  <2>4. /\ \A b \in Buffers : p # Alloc!Swap(b)
        /\ p \in Alloc!Pcs /\ p \notin {"free", "sub"} /\ threadPc[t] \notin {"free", "sub"}
    BY <2>1, <2>2 DEF Buffers, Alloc!Swap, Alloc!Pcs
  <2> QED  BY <2>1, <2>2, <2>3, <2>4, AllocMoves, ZenonT(60)
<1>2. ASSUME NEW t \in Threads, Alloc!LoadFreeList(t) PROVE AllocSafe'
  <2>1. /\ threadPc[t] = "pool" /\ layout' = layout
        /\ UNCHANGED <<freeList, offset, live, allocs, foreign>>
    BY <1>2 DEF Alloc!LoadFreeList, Alloc!Goto
  <2>2. PICK p \in {"bump", "claim"}, v \in Nat :
          /\ threadPc' = [threadPc EXCEPT ![t] = p] /\ seen' = [seen EXCEPT ![t] = v]
          /\ p = "claim" => v < Alloc!NumBlocks
    BY <1>2, PoolFits DEF Alloc!LoadFreeList, Alloc!Goto, AllocSafe, AllocTypes, Alloc!AllocAssumption
  <2>3. /\ seen' \in [Threads -> Nat] /\ layout' \in [Threads -> Layouts \cup {Alloc!NoLayout}]
        /\ \A u \in Threads \ {t} : seen'[u] = seen[u] /\ layout'[u] = layout[u]
        /\ seen'[t] = v
    BY <2>1, <2>2 DEF AllocSafe, AllocTypes
  <2>4. /\ \A b \in Buffers : p # Alloc!Swap(b)
        /\ p \in Alloc!Pcs /\ p \notin {"free", "sub"} /\ threadPc[t] \notin {"free", "sub"}
    BY <2>1, <2>2 DEF Buffers, Alloc!Swap, Alloc!Pcs
  <2> QED  BY <2>1, <2>2, <2>3, <2>4, AllocMoves
<1>3. ASSUME NEW t \in Threads, Alloc!ClaimBlock(t) PROVE AllocSafe'
  <2>1. /\ threadPc[t] = "claim" /\ allocs < MaxAllocs /\ UNCHANGED <<offset, foreign>>
        /\ seen[t] \in Nat /\ seen[t] < Alloc!NumBlocks
    BY <1>3 DEF Alloc!ClaimBlock, AllocSafe, AllocTypes, AllocClaims
  <2>2. CASE freeList = seen[t]
    <3>1. /\ freeList' = freeList + 1 /\ Alloc!Return(t)
          /\ Alloc!Allocated("pool", seen[t] * Alloc!BlockBytes, Alloc!BlockBytes, 0)
      BY <1>3, <2>2 DEF Alloc!ClaimBlock
    <3>2. /\ Alloc!BlockBytes \in Nat /\ seen[t] * Alloc!BlockBytes \in Nat /\ 0 \in Nat
          /\ 0 <= seen[t] * Alloc!BlockBytes
          /\ freeList + 1 < Width
      <4>1. Alloc!BlockBytes \in Nat /\ Alloc!NumBlocks \in Nat /\ Alloc!NumBlocks < Width /\ Width \in Nat
        BY PoolFits DEF Alloc!AllocAssumption
      <4>2. \A m, k \in Nat : m * k \in Nat /\ 0 <= m * k
        OBVIOUS
      <4> QED  BY <2>1, <2>2, <4>1, <4>2
    <3> QED  BY <2>1, <3>1, <3>2, AllocGiven
  <2>3. CASE freeList # seen[t]
    <3>1. /\ threadPc' = [threadPc EXCEPT ![t] = "pool"] /\ seen' = [seen EXCEPT ![t] = 0]
          /\ UNCHANGED <<layout, freeList, live, allocs>>
      BY <1>3, <2>3 DEF Alloc!ClaimBlock, Alloc!Goto
    <3>2. /\ seen' \in [Threads -> Nat] /\ layout' \in [Threads -> Layouts \cup {Alloc!NoLayout}]
          /\ \A u \in Threads \ {t} : seen'[u] = seen[u] /\ layout'[u] = layout[u]
      BY <3>1 DEF AllocSafe, AllocTypes
    <3>3. /\ \A b \in Buffers : "pool" # Alloc!Swap(b)
          /\ "pool" \in Alloc!Pcs /\ threadPc[t] \notin {"free", "sub"}
      BY <2>1 DEF Buffers, Alloc!Swap, Alloc!Pcs
    <3> QED  BY <2>1, <3>1, <3>2, <3>3, AllocMoves, ZenonT(60)
  <2> QED  BY <2>2, <2>3
<1>4. ASSUME NEW t \in Threads, NEW b \in Buffers, Alloc!LoadOffset(t, b) PROVE AllocSafe'
  <2>1. threadPc[t] = b /\ UNCHANGED <<freeList, offset, live, allocs, foreign>>
        /\ offset[b] \in Nat
    BY <1>4 DEF Alloc!LoadOffset, AllocSafe, AllocTypes
  <2>2. CASE Alloc!NewOffset(t, offset[b]) > BufferSizes[b]
    <3>1. /\ threadPc' = [threadPc EXCEPT ![t] = "idle"] /\ seen' = [seen EXCEPT ![t] = 0]
          /\ layout' = [layout EXCEPT ![t] = Alloc!NoLayout]
      BY <1>4, <2>2 DEF Alloc!LoadOffset, Alloc!Return
    <3>2. /\ seen' \in [Threads -> Nat] /\ layout' \in [Threads -> Layouts \cup {Alloc!NoLayout}]
          /\ \A u \in Threads \ {t} : seen'[u] = seen[u] /\ layout'[u] = layout[u]
      BY <3>1 DEF AllocSafe, AllocTypes
    <3>3. /\ \A c \in Buffers : "idle" # Alloc!Swap(c)
          /\ "idle" \in Alloc!Pcs /\ threadPc[t] \notin {"free", "sub"}
      BY <2>1 DEF Buffers, Alloc!Swap, Alloc!Pcs
    <3> QED  BY <2>1, <3>1, <3>2, <3>3, AllocMoves, ZenonT(60)
  <2>3. CASE ~(Alloc!NewOffset(t, offset[b]) > BufferSizes[b])
    <3>1. /\ threadPc' = [threadPc EXCEPT ![t] = Alloc!Swap(b)]
          /\ seen' = [seen EXCEPT ![t] = offset[b]] /\ layout' = layout
      BY <1>4, <2>3 DEF Alloc!LoadOffset, Alloc!Goto
    <3>2. /\ seen' \in [Threads -> Nat] /\ layout' \in [Threads -> Layouts \cup {Alloc!NoLayout}]
          /\ \A u \in Threads \ {t} : seen'[u] = seen[u] /\ layout'[u] = layout[u]
          /\ seen'[t] = offset[b] /\ layout'[t] = layout[t]
      BY <2>1, <3>1 DEF AllocSafe, AllocTypes
    <3>3. Alloc!AlignUp(seen'[t], layout'[t].align) + layout'[t].size <= BufferSizes[b]
      <4>1. BufferSizes[b] \in Nat
        BY DEF Alloc!AllocAssumption, Buffers
      <4>2. Alloc!NewOffset(t, offset[b]) \in Nat
        BY <2>1, NewOffsetIs DEF AllocSafe
      <4>3. Alloc!NewOffset(t, offset[b]) <= BufferSizes[b]
        BY <2>3, <4>1, <4>2
      <4> QED  BY <3>2, <4>3 DEF Alloc!NewOffset
    <3>4. /\ \A c \in Buffers : Alloc!Swap(b) = Alloc!Swap(c) => c = b
          /\ Alloc!Swap(b) \in Alloc!Pcs /\ Alloc!Swap(b) \notin {"free", "sub", "claim"}
          /\ threadPc[t] \notin {"free", "sub"}
      BY <2>1 DEF Buffers, Alloc!Swap, Alloc!Pcs
    <3>5. PICK p \in Alloc!Pcs : p = Alloc!Swap(b)
      BY <3>4
    <3>6. /\ \A c \in Buffers : p = Alloc!Swap(c)
            => Alloc!AlignUp(seen'[t], layout'[t].align) + layout'[t].size <= BufferSizes[c]
          /\ threadPc' = [threadPc EXCEPT ![t] = p] /\ p \notin {"free", "sub", "claim"}
      BY <3>1, <3>3, <3>4, <3>5
    <3> QED  BY <2>1, <3>2, <3>4, <3>6, AllocMoves
  <2> QED  BY <2>2, <2>3
<1>5. ASSUME NEW t \in Threads, NEW b \in Buffers, Alloc!SwapOffset(t, b) PROVE AllocSafe'
  <2>1. /\ threadPc[t] = Alloc!Swap(b) /\ allocs < MaxAllocs /\ UNCHANGED <<freeList, foreign>>
        /\ seen[t] \in Nat /\ Alloc!NewOffset(t, seen[t]) <= BufferSizes[b]
        /\ threadPc[t] \notin {"free", "sub"} /\ b # "pool"
    BY <1>5 DEF Alloc!SwapOffset, AllocSafe, AllocTypes, AllocClaims, Alloc!Swap, Buffers
  <2>2. CASE offset[b] = seen[t]
    <3> DEFINE start == Alloc!AlignUp(seen[t], layout[t].align)
               size == layout[t].size
    <3>1. /\ offset' = [offset EXCEPT ![b] = Alloc!NewOffset(t, seen[t])] /\ Alloc!Return(t)
          /\ Alloc!Allocated(b, start, size, seen[t])
      BY <1>5, <2>2 DEF Alloc!SwapOffset
    <3>2. /\ start \in Nat /\ size \in Nat /\ seen[t] <= start
          /\ Alloc!NewOffset(t, seen[t]) = start + size
      BY <2>1, NewOffsetIs DEF AllocSafe
    <3> HIDE DEF start, size
    <3> QED  BY <2>1, <2>2, <3>1, <3>2, AllocGiven
  <2>3. CASE offset[b] # seen[t]
    <3>1. /\ threadPc' = [threadPc EXCEPT ![t] = b] /\ seen' = [seen EXCEPT ![t] = 0]
          /\ UNCHANGED <<layout, offset, live, allocs>>
      BY <1>5, <2>3 DEF Alloc!SwapOffset, Alloc!Goto
    <3>2. /\ seen' \in [Threads -> Nat] /\ layout' \in [Threads -> Layouts \cup {Alloc!NoLayout}]
          /\ \A u \in Threads \ {t} : seen'[u] = seen[u] /\ layout'[u] = layout[u]
      BY <3>1 DEF AllocSafe, AllocTypes
    <3>3. /\ \A c \in Buffers : b # Alloc!Swap(c)
          /\ b \in Alloc!Pcs /\ b \notin {"free", "sub", "claim"}
      BY DEF Buffers, Alloc!Swap, Alloc!Pcs
    <3> QED  BY <2>1, <3>1, <3>2, <3>3, AllocMoves, ZenonT(60)
  <2> QED  BY <2>2, <2>3
<1>6. ASSUME NEW t \in Threads, Alloc!LoadUsed(t) PROVE AllocSafe'
  <2>1. /\ threadPc[t] = "free" /\ UNCHANGED <<freeList, offset, layout, seen, live, allocs, foreign>>
        /\ threadPc' = [threadPc EXCEPT ![t] = IF freeList > 0 THEN "sub" ELSE "idle"]
    BY <1>6 DEF Alloc!LoadUsed
  <2>2. freeList \in 0..Width - 1 /\ seen' \in [Threads -> Nat]
        /\ layout' \in [Threads -> Layouts \cup {Alloc!NoLayout}]
        /\ \A u \in Threads \ {t} : seen'[u] = seen[u] /\ layout'[u] = layout[u]
    BY <2>1 DEF AllocSafe, AllocTypes
  <2>3. CASE freeList > 0
    <3>1. (\A c \in Buffers : "sub" # Alloc!Swap(c)) /\ "sub" \in Alloc!Pcs
      BY DEF Buffers, Alloc!Swap, Alloc!Pcs
    <3>2. threadPc' = [threadPc EXCEPT ![t] = "sub"]
      BY <2>1, <2>3
    <3> QED  BY <2>1, <2>2, <3>1, <3>2, AllocMoves, ZenonT(60)
  <2>4. CASE ~(freeList > 0)
    BY <2>1, <2>2, <2>4, AllocFrees
  <2> QED  BY <2>3, <2>4
<1>7. ASSUME NEW t \in Threads, Alloc!SubUsed(t) PROVE AllocSafe'
  <2>1. /\ threadPc[t] = "sub" /\ UNCHANGED <<offset, layout, seen, live, allocs, foreign>>
        /\ threadPc' = [threadPc EXCEPT ![t] = "idle"] /\ freeList' = (freeList - 1) % Width
    BY <1>7 DEF Alloc!SubUsed
  <2>2. freeList \in 0..Width - 1 /\ Width \in Nat \ {0}
    BY DEF AllocSafe, AllocTypes, Alloc!AllocAssumption
  <2>3. freeList' \in 0..Width - 1 /\ (freeList > 0 => freeList' = freeList - 1)
    BY <2>1, <2>2
  <2> QED  BY <2>1, <2>3, AllocFrees
<1>8. ASSUME Alloc!Reset PROVE AllocSafe'
  <2>1. /\ live = {} /\ \A t \in Threads : threadPc[t] = "idle"
        /\ freeList' = 0 /\ offset' = [offset EXCEPT !["bump"] = 0]
        /\ allocs' = 0 /\ foreign' = FALSE
        /\ UNCHANGED <<threadPc, layout, seen, live>>
    BY <1>8 DEF Alloc!Reset, Alloc!atThread
  <2>2. AllocTypes'
    <3>1. /\ 0 \in 0..Width - 1 /\ 0 \in 0..MaxAllocs /\ BufferSizes["bump"] \in Nat
      BY DEF Alloc!AllocAssumption
    <3>2. offset' \in [Buffers -> Nat] /\ \A b \in Buffers : offset'[b] <= BufferSizes[b]
      BY <2>1, <3>1 DEF AllocSafe, AllocTypes, Buffers
    <3> QED  BY <2>1, <3>1, <3>2 DEF AllocSafe, AllocTypes
  <2>3. AllocClaims'
    BY <2>1 DEF AllocClaims, Alloc!Swap
  <2>4. AllocBlocks'
    BY <2>1 DEF AllocBlocks
  <2>5. AllocCounted'
    <3>1. PoolBlocks(live') = {} /\ Freeing(threadPc') = {}
      BY <2>1 DEF PoolBlocks, Freeing
    <3> QED  BY <2>1, <3>1, FS_EmptySet DEF AllocCounted
  <2> QED  BY <2>2, <2>3, <2>4, <2>5 DEF AllocSafe
<1>9. CASE UNCHANGED allocVars
  BY <1>9 DEF allocVars, AllocSafe, AllocTypes, AllocClaims, AllocBlocks, AllocCounted, Alloc!NewOffset
<1> QED
  BY <1>1, <1>2, <1>3, <1>4, <1>5, <1>6, <1>7, <1>8, <1>9, AllocPops, AllocDealloc
     DEF Alloc!Next, Buffers

LEMMA AllocInitial ==
  ASSUME Alloc!AllocAssumption, Alloc!Init PROVE AllocSafe
<1>1. AllocTypes
  <2>1. /\ 0 \in 0..Width - 1 /\ 0 \in 0..MaxAllocs
        /\ BufferSizes["bump"] \in Nat /\ BufferSizes["stack"] \in Nat
    BY DEF Alloc!AllocAssumption
  <2>2. offset \in [Buffers -> Nat] /\ \A b \in Buffers : offset[b] <= BufferSizes[b]
    BY <2>1 DEF Alloc!Init, Buffers
  <2> QED  BY <2>1, <2>2 DEF Alloc!Init, AllocTypes, Alloc!Pcs
<1>2. AllocClaims /\ AllocBlocks
  BY DEF Alloc!Init, AllocClaims, AllocBlocks, Alloc!Swap
<1>3. PoolBlocks(live) = {} /\ Freeing(threadPc) = {} /\ freeList = 0
  BY DEF Alloc!Init, PoolBlocks, Freeing
<1> QED  BY <1>1, <1>2, <1>3, FS_EmptySet DEF AllocSafe, AllocCounted

LEMMA AllocImplies ==
  ASSUME Alloc!AllocAssumption, AllocSafe PROVE Alloc!AllocInv
<1>1. Alloc!TypeOK
  <2>1. \A b \in {"bump", "stack"} : offset[b] \in 0..BufferSizes[b]
    BY DEF AllocSafe, AllocTypes, Buffers, Alloc!AllocAssumption
  <2> QED  BY <2>1 DEF AllocSafe, AllocTypes, Alloc!TypeOK
<1>2. Alloc!OffsetsDisjoint
  <2> SUFFICES ASSUME NEW a \in live, a.kind # "pool"
               PROVE  /\ a.to <= offset[a.kind] /\ offset[a.kind] <= BufferSizes[a.kind]
                      /\ \A b \in live : ~Alloc!Overlap(a, b)
    BY DEF Alloc!OffsetsDisjoint
  <2>1. a.to <= offset[a.kind] /\ offset[a.kind] <= BufferSizes[a.kind]
    BY DEF AllocSafe, AllocTypes, AllocBlocks, Buffers
  <2>2. ASSUME NEW b \in live, a # b, a.kind = b.kind PROVE a.to <= b.from \/ b.to <= a.from
    <3>1. \A c \in live : /\ c.from \in Nat /\ c.to \in Nat /\ c.n \in Nat /\ c.saved \in Nat
                          /\ c.saved <= c.from
      BY DEF AllocSafe, AllocBlocks
    <3>2. a.n < b.n \/ b.n < a.n
      BY <2>2, <3>1 DEF AllocSafe, AllocBlocks
    <3>3. a.to <= b.saved \/ b.to <= a.saved
      BY <2>2, <3>2 DEF AllocSafe, AllocBlocks
    <3> QED  BY <3>1, <3>3
  <2>3. \A b \in live : b.from \in Nat /\ b.to \in Nat
    BY DEF AllocSafe, AllocBlocks
  <2>4. \A b \in live : ~Alloc!Overlap(a, b)
    BY <2>2, <2>3 DEF Alloc!Overlap
  <2> QED  BY <2>1, <2>4
<1>3. Alloc!PoolCounted
  <2>1. \A s : Alloc!Cardinality(s) = Cardinality(s)
    BY DEF Alloc!Cardinality, Cardinality, Alloc!IsFiniteSet, IsFiniteSet
  <2> QED  BY <2>1 DEF AllocSafe, AllocCounted, Alloc!PoolCounted, PoolBlocks, Freeing
<1> QED  BY <1>1, <1>2, <1>3 DEF Alloc!AllocInv

\* Two blocks of the bump allocator or of the stack never overlap, and the counter of the
\* pool is exact, for any number of threads at any step between the load of an offset and
\* its swap.
THEOREM BlocksDisjoint == AllSpec => []AllocInv
<1>1. AllInit => AllocSafe
  BY AllocInitial, ServicesAssumption DEF AllInit
<1>2. AllocSafe /\ [AllNext]_allVars => AllocSafe'
  BY PartSteps, AllocStep, ServicesAssumption
<1>3. AllocSafe => AllocInv
  BY AllocImplies, ServicesAssumption DEF AllocInv
<1> QED
  BY <1>1, <1>2, <1>3, PTL DEF AllSpec

-----------------------------------------------------------------------------
(* SignalQueue *)

LEMMA SignalSets ==
  \A S : Signal!Cardinality(S) = Cardinality(S) /\ (Signal!IsFiniteSet(S) <=> IsFiniteSet(S))
BY DEF Signal!Cardinality, Cardinality, Signal!IsFiniteSet, IsFiniteSet

\* What Total counts.
Units(P, count) == UNION {{p} \X (1..count[p]) : p \in P}

LEMMA UnitsFinite ==
  ASSUME NEW P, IsFiniteSet(P), NEW count, \A p \in P : count[p] \in Nat
  PROVE  IsFiniteSet(Units(P, count))
<1> DEFINE of == [p \in P |-> {p} \X (1..count[p])]
           parts == {{p} \X (1..count[p]) : p \in P}
<1>1. of \in Surjection(P, parts)
  BY DEF Surjection
<1> HIDE DEF of
<1>2. IsFiniteSet(parts)
  BY <1>1, FS_Surjection
<1>3. ASSUME NEW p \in P PROVE IsFiniteSet({p} \X (1..count[p]))
  <2>1. IsFiniteSet({p})
    BY FS_Singleton
  <2>2. IsFiniteSet(1..count[p])
    BY FS_Interval
  <2> QED  BY <2>1, <2>2, FS_Product
<1>4. \A T \in parts : IsFiniteSet(T)
  BY <1>3
<1> HIDE DEF parts
<1>5. IsFiniteSet(UNION parts)
  BY <1>2, <1>4, FS_UNION
<1> QED  BY <1>5 DEF Units, parts

\* What one producer adds to the sum.
LEMMA UnitsOf ==
  ASSUME NEW P, IsFiniteSet(P), NEW p \in P, NEW count, \A q \in P : count[q] \in Nat
  PROVE  /\ IsFiniteSet(Units(P \ {p}, count))
         /\ Cardinality(Units(P, count)) = Cardinality(Units(P \ {p}, count)) + count[p]
<1>1. IsFiniteSet(P \ {p})
  BY FS_RemoveElement
<1>2. IsFiniteSet(Units(P \ {p}, count))
  BY <1>1, UnitsFinite
<1> DEFINE rest == Units(P \ {p}, count)
           own == {p} \X (1..count[p])
<1>3. Units(P, count) = rest \cup own
  <2>1. ASSUME NEW x \in Units(P, count) PROVE x \in rest \cup own
    <3>1. PICK q \in P : x \in {q} \X (1..count[q])
      BY DEF Units
    <3> QED  BY <3>1 DEF Units
  <2>2. ASSUME NEW x \in rest \cup own PROVE x \in Units(P, count)
    BY DEF Units
  <2> QED  BY <2>1, <2>2
<1>4. rest \cap own = {}
  BY DEF Units
<1>5. IsFiniteSet(own) /\ Cardinality(own) = count[p]
  <2>1. IsFiniteSet({p}) /\ Cardinality({p}) = 1
    BY FS_Singleton
  <2>2. count[p] \in Nat
    OBVIOUS
  <2>3. IsFiniteSet(1..count[p]) /\ Cardinality(1..count[p]) = count[p]
    BY <2>2, FS_Interval, SMTT(60)
  <2>4. IsFiniteSet(own) /\ Cardinality(own) = 1 * count[p]
    BY <2>1, <2>3, FS_Product
  <2> QED  BY <2>2, <2>4
<1> HIDE DEF rest, own
<1>6. Cardinality(rest \cup own) = Cardinality(rest) + Cardinality(own) - Cardinality(rest \cap own)
  BY <1>2, <1>5, FS_Union DEF rest
<1>7. Cardinality(rest \cap own) = 0 /\ Cardinality(rest) \in Nat /\ count[p] \in Nat
  BY <1>2, <1>4, FS_EmptySet, FS_CardinalityType DEF rest
<1>8. Cardinality(rest \cup own) = Cardinality(rest) + count[p]
  BY <1>5, <1>6, <1>7
<1> QED  BY <1>2, <1>3, <1>8 DEF rest

\* The sum when one of the counts changes.
LEMMA TotalExcept ==
  ASSUME IsFiniteSet(Producers), NEW count \in [Producers -> Nat], NEW p \in Producers, NEW n \in Nat
  PROVE  /\ Signal!Total(count) \in Nat
         /\ Signal!Total([count EXCEPT ![p] = n]) + count[p] = Signal!Total(count) + n
<1> DEFINE new == [count EXCEPT ![p] = n]
<1>1. /\ \A q \in Producers : count[q] \in Nat /\ new[q] \in Nat
      /\ new[p] = n /\ \A q \in Producers \ {p} : new[q] = count[q]
  OBVIOUS
<1> HIDE DEF new
<1>2. Units(Producers \ {p}, new) = Units(Producers \ {p}, count)
  <2>1. \A q \in Producers \ {p} : {q} \X (1..new[q]) = {q} \X (1..count[q])
    BY <1>1
  <2>2. {{q} \X (1..new[q]) : q \in Producers \ {p}} = {{q} \X (1..count[q]) : q \in Producers \ {p}}
    BY <2>1
  <2> QED  BY <2>2 DEF Units
<1>3. /\ IsFiniteSet(Units(Producers \ {p}, count))
      /\ Cardinality(Units(Producers, count)) = Cardinality(Units(Producers \ {p}, count)) + count[p]
  BY <1>1, UnitsOf
<1>4. Cardinality(Units(Producers, new)) = Cardinality(Units(Producers \ {p}, new)) + n
  BY <1>1, UnitsOf
<1>5. Cardinality(Units(Producers \ {p}, count)) \in Nat /\ count[p] \in Nat
  BY <1>1, <1>3, FS_CardinalityType
<1>6. /\ Signal!Total(count) = Cardinality(Units(Producers, count))
      /\ Signal!Total(new) = Cardinality(Units(Producers, new))
  BY SignalSets DEF Signal!Total, Units
<1>7. \A a, b \in Nat : (a + n) + b = (a + b) + n /\ a + b \in Nat
  OBVIOUS
<1>8. Signal!Total(count) \in Nat /\ Signal!Total(new) + count[p] = Signal!Total(count) + n
  BY <1>2, <1>3, <1>4, <1>5, <1>6, <1>7
<1> QED  BY <1>8 DEF new

\* The sum of no counts.
LEMMA TotalZero ==
  ASSUME NEW count, \A p \in Producers : count[p] = 0
  PROVE  Signal!Total(count) = 0
<1>1. Units(Producers, count) = {}
  <2>1. ASSUME NEW p \in Producers PROVE {p} \X (1..count[p]) = {}
    OBVIOUS
  <2> QED  BY <2>1 DEF Units
<1> QED  BY <1>1, SignalSets, FS_EmptySet DEF Signal!Total, Units

\* The inductive invariant: what is still to be written fits, and only a reset that was begun
\* is under way.
ToWrite == next + Signal!Total(left) <= MaxSamples
SignalSafe == Signal!LossesCounted /\ ToWrite /\ (resetPc # "idle" => cleared)

LEMMA SignalConstants ==
  ASSUME Signal!SignalAssumption
  PROVE  /\ SignalCapacity \in Nat \ {0} /\ BatchLen \in Nat \ {0} /\ MaxSamples \in Nat
         /\ Blocks \subseteq Nat /\ IsFiniteSet(Producers)
BY SignalSets DEF Signal!SignalAssumption

LEMMA SignalInitial ==
  ASSUME Signal!SignalAssumption, Signal!Init
  PROVE  SignalSafe
<1> USE DEF Signal!Init
<1>1. /\ SignalCapacity \in Nat \ {0} /\ BatchLen \in Nat \ {0} /\ MaxSamples \in Nat
  BY SignalConstants
<1>2. Signal!Total(left) = 0 /\ Signal!Total(missed) = 0
  <2>1. (\A p \in Producers : left[p] = 0) /\ \A p \in Producers : missed[p] = 0
    OBVIOUS
  <2> QED  BY <2>1, TotalZero
<1>3. Signal!TypeOK
  <2>1. /\ <<>> \in Seq(1..MaxSamples) /\ Len(<<>>) = 0
    OBVIOUS
  <2>2. popping \in [Consumers -> Seq(1..MaxSamples)] /\ \A c \in Consumers : Len(popping[c]) <= BatchLen
    BY <1>1, <2>1
  <2>3. next \in 0..MaxSamples /\ lost \subseteq 1..next
    BY <1>1
  <2>4. left \in [Producers -> Nat] /\ missed \in [Producers -> Nat]
    OBVIOUS
  <2>5. consumerPc \in [Consumers -> {"idle", "pop"}] /\ resetPc = "idle" /\ cleared \in BOOLEAN
    OBVIOUS
  <2>6. dropped \in Nat /\ overruns \in Nat /\ underruns \in Nat /\ padded \in Nat
    OBVIOUS
  <2>7. queue = <<>> /\ heard = <<>>
    OBVIOUS
  <2> QED  BY <1>1, <2>1, <2>2, <2>3, <2>4, <2>5, <2>6, <2>7 DEF Signal!TypeOK
<1>4. Signal!Conserved
  <2>1. heard \o queue = <<>>
    OBVIOUS
  <2>2. Cardinality(lost) = 0
    BY FS_EmptySet
  <2>3. 1..next = {}
    OBVIOUS
  <2>4. Signal!Range(<<>>) = {}
    BY DEF Signal!Range
  <2> QED  BY <2>1, <2>2, <2>3, <2>4, SignalSets DEF Signal!Conserved
<1>5. Signal!OverrunsExact
  <2>1. Cardinality(lost) = 0
    BY FS_EmptySet
  <2> QED  BY <1>2, <2>1, SignalSets DEF Signal!OverrunsExact
<1>6. ToWrite /\ (resetPc # "idle" => cleared)
  BY <1>1, <1>2 DEF ToWrite
<1> QED  BY <1>3, <1>4, <1>5, <1>6 DEF SignalSafe, Signal!LossesCounted

LEMMA SignalTypes ==
  ASSUME Signal!SignalAssumption, SignalSafe
  PROVE  /\ queue \in Seq(1..MaxSamples) /\ Len(queue) \in Nat /\ Len(queue) <= SignalCapacity
         /\ heard \in Seq(1..MaxSamples)
         /\ dropped \in Nat /\ overruns \in Nat /\ underruns \in Nat /\ padded \in Nat
         /\ next \in 0..MaxSamples /\ lost \subseteq 1..next
         /\ left \in [Producers -> Nat] /\ missed \in [Producers -> Nat]
         /\ popping \in [Consumers -> Seq(1..MaxSamples)] /\ \A c \in Consumers : Len(popping[c]) <= BatchLen
         /\ consumerPc \in [Consumers -> {"idle", "pop"}]
         /\ resetPc \in {"idle", "overruns", "dropped"} /\ cleared \in BOOLEAN
<1>1. Signal!TypeOK
  BY DEF SignalSafe, Signal!LossesCounted
<1>2. queue \in Seq(1..MaxSamples) /\ Len(queue) <= SignalCapacity /\ heard \in Seq(1..MaxSamples)
  BY <1>1 DEF Signal!TypeOK
<1>3. Len(queue) \in Nat
  BY <1>2
<1>4. /\ dropped \in Nat /\ overruns \in Nat /\ underruns \in Nat /\ padded \in Nat
      /\ next \in 0..MaxSamples /\ lost \subseteq 1..next
  BY <1>1 DEF Signal!TypeOK
<1>5. /\ left \in [Producers -> Nat] /\ missed \in [Producers -> Nat]
      /\ popping \in [Consumers -> Seq(1..MaxSamples)] /\ \A c \in Consumers : Len(popping[c]) <= BatchLen
      /\ consumerPc \in [Consumers -> {"idle", "pop"}]
      /\ resetPc \in {"idle", "overruns", "dropped"} /\ cleared \in BOOLEAN
  BY <1>1 DEF Signal!TypeOK
<1> QED  BY <1>2, <1>3, <1>4, <1>5

\* What Conserved says, of the samples kept and those lost.
Parted(kept, away, n) ==
  /\ Signal!Range(kept) \cup away = 1..n
  /\ Len(kept) + Cardinality(away) = n
  /\ \A i, j \in DOMAIN kept : i < j => kept[i] < kept[j]

LEMMA ConservedIs ==
  Signal!Conserved <=> Parted(heard \o queue, lost, next)
BY SignalSets DEF Signal!Conserved, Parted

LEMMA ConservedIsNext ==
  Signal!Conserved' <=> Parted(heard' \o queue', lost', next')
BY SignalSets DEF Signal!Conserved, Parted

LEMMA PartedPush ==
  ASSUME NEW S, NEW kept \in Seq(S), S \subseteq Nat, NEW away, NEW n \in Nat, Parted(kept, away, n)
  PROVE  Parted(Append(kept, n + 1), away, n + 1)
<1>1. kept \in Seq(Nat)
  BY SeqMonotonic
<1>2. /\ Len(Append(kept, n + 1)) = Len(kept) + 1 /\ Len(kept) \in Nat
      /\ DOMAIN Append(kept, n + 1) = 1..(Len(kept) + 1) /\ DOMAIN kept = 1..Len(kept)
      /\ Append(kept, n + 1)[Len(kept) + 1] = n + 1
      /\ \A i \in 1..Len(kept) : Append(kept, n + 1)[i] = kept[i]
  BY <1>1
<1> DEFINE line == Append(kept, n + 1)
<1>3. /\ DOMAIN line = DOMAIN kept \cup {Len(kept) + 1} /\ Len(kept) + 1 \notin DOMAIN kept
      /\ line[Len(kept) + 1] = n + 1 /\ \A i \in DOMAIN kept : line[i] = kept[i]
  BY <1>2
<1>4. Len(line) = Len(kept) + 1
  BY <1>2
<1> HIDE DEF line
<1>5. Signal!Range(line) = Signal!Range(kept) \cup {n + 1}
  BY <1>3 DEF Signal!Range
<1>6. 1..(n + 1) = 1..n \cup {n + 1}
  OBVIOUS
<1>7. \A i \in DOMAIN kept : kept[i] \in 1..n
  BY DEF Parted, Signal!Range
<1>8. ASSUME NEW i \in DOMAIN line, NEW j \in DOMAIN line, i < j PROVE line[i] < line[j]
  <2>1. CASE j \in DOMAIN kept
    <3>1. i \in DOMAIN kept
      BY <1>2, <1>3, <1>8, <2>1
    <3>2. kept[i] < kept[j]
      BY <1>8, <2>1, <3>1 DEF Parted
    <3> QED  BY <1>3, <2>1, <3>1, <3>2
  <2>2. CASE j = Len(kept) + 1
    <3>1. i \in DOMAIN kept
      BY <1>2, <1>3, <1>8, <2>2
    <3>2. kept[i] \in 1..n /\ line[i] = kept[i] /\ line[j] = n + 1
      BY <1>3, <1>7, <2>2, <3>1
    <3> QED  BY <3>2
  <2> QED  BY <1>3, <2>1, <2>2
<1>9. IsFiniteSet(away) /\ Cardinality(away) \in Nat
  <2>1. away \subseteq 1..n /\ IsFiniteSet(1..n)
    BY FS_Interval DEF Parted
  <2> QED  BY <2>1, FS_Subset, FS_CardinalityType
<1>10. Len(line) + Cardinality(away) = n + 1
  BY <1>2, <1>4, <1>9 DEF Parted
<1>11. Signal!Range(line) \cup away = 1..(n + 1)
  BY <1>5, <1>6 DEF Parted
<1>12. Parted(line, away, n + 1)
  BY <1>8, <1>10, <1>11 DEF Parted
<1> QED  BY <1>12 DEF line

LEMMA PartedDrop ==
  ASSUME NEW S, NEW kept \in Seq(S), NEW away, NEW n \in Nat, away \subseteq 1..n, Parted(kept, away, n)
  PROVE  /\ Parted(kept, away \cup {n + 1}, n + 1)
         /\ Cardinality(away \cup {n + 1}) = Cardinality(away) + 1 /\ Cardinality(away) \in Nat
<1>1. n + 1 \notin away /\ 1..(n + 1) = 1..n \cup {n + 1}
  OBVIOUS
<1>2. IsFiniteSet(away)
  <2>1. IsFiniteSet(1..n)
    BY FS_Interval
  <2> QED  BY <2>1, FS_Subset
<1>3. Cardinality(away \cup {n + 1}) = Cardinality(away) + 1 /\ Cardinality(away) \in Nat
  BY <1>1, <1>2, OneMore
<1>4. Len(kept) \in Nat
  OBVIOUS
<1>5. Len(kept) + Cardinality(away \cup {n + 1}) = n + 1
  BY <1>3, <1>4, SMTT(60) DEF Parted
<1>6. Signal!Range(kept) \cup (away \cup {n + 1}) = 1..(n + 1)
  BY <1>1 DEF Parted
<1> QED  BY <1>3, <1>5, <1>6 DEF Parted

\* A sample that is popped stays where it is in the line.
LEMMA PopKeepsLine ==
  ASSUME NEW S, NEW s \in Seq(S), NEW t \in Seq(S), t # <<>>
  PROVE  /\ Append(s, Head(t)) \o Tail(t) = s \o t
         /\ Head(t) \in S /\ Tail(t) \in Seq(S) /\ Append(s, Head(t)) \in Seq(S)
         /\ Len(Tail(t)) = Len(t) - 1
<1>1. Len(t) \in Nat \ {0} /\ Head(t) = t[1]
  OBVIOUS
<1>2. Head(t) \in S
  BY <1>1, ElementOfSeq
<1>3. Tail(t) \in Seq(S) /\ Len(Tail(t)) = Len(t) - 1
  OBVIOUS
<1>4. SubSeq(t, 1, Len(t)) = <<t[1]>> \o SubSeq(t, 1 + 1, Len(t))
  BY <1>1, SubSeqRecursiveFirst
<1>5. Tail(t) = SubSeq(t, 2, Len(t)) /\ SubSeq(t, 1, Len(t)) = t
  BY TailIsSubSeq, SubSeqFull
<1>6. t = <<Head(t)>> \o Tail(t)
  BY <1>1, <1>4, <1>5
<1>7. <<Head(t)>> \in Seq(S)
  BY <1>2
<1>8. Append(s, Head(t)) = s \o <<Head(t)>>
  BY <1>2, AppendIsConcat
<1>9. (s \o <<Head(t)>>) \o Tail(t) = s \o (<<Head(t)>> \o Tail(t))
  BY <1>3, <1>7, ConcatAssociative
<1>10. Append(s, Head(t)) \in Seq(S)
  BY <1>2
<1> QED  BY <1>2, <1>3, <1>6, <1>8, <1>9, <1>10

LEMMA PushEndsLine ==
  ASSUME NEW S, NEW s \in Seq(S), NEW t \in Seq(S), NEW x \in S
  PROVE  s \o Append(t, x) = Append(s \o t, x)
<1>1. <<x>> \in Seq(S) /\ s \o t \in Seq(S)
  OBVIOUS
<1>2. Append(t, x) = t \o <<x>> /\ Append(s \o t, x) = (s \o t) \o <<x>>
  BY <1>1, AppendIsConcat
<1>3. (s \o t) \o <<x>> = s \o (t \o <<x>>)
  BY <1>1, ConcatAssociative
<1> QED  BY <1>2, <1>3

LEMMA SignalStep ==
  ASSUME Signal!SignalAssumption, SignalSafe, [Signal!Next]_signalVars
  PROVE  SignalSafe'
<1> USE DEF Signal!producing, Signal!consuming, Signal!resetting
<1>1. /\ SignalCapacity \in Nat \ {0} /\ BatchLen \in Nat \ {0} /\ MaxSamples \in Nat
      /\ Blocks \subseteq Nat /\ IsFiniteSet(Producers)
  BY SignalConstants
<1>2. /\ queue \in Seq(1..MaxSamples) /\ Len(queue) \in Nat /\ Len(queue) <= SignalCapacity
      /\ heard \in Seq(1..MaxSamples)
  BY SignalTypes
<1>3. /\ dropped \in Nat /\ overruns \in Nat /\ underruns \in Nat /\ padded \in Nat
      /\ next \in 0..MaxSamples /\ lost \subseteq 1..next
  BY SignalTypes
<1>4. left \in [Producers -> Nat] /\ missed \in [Producers -> Nat]
  BY SignalTypes
<1>5. /\ popping \in [Consumers -> Seq(1..MaxSamples)] /\ \A c \in Consumers : Len(popping[c]) <= BatchLen
      /\ consumerPc \in [Consumers -> {"idle", "pop"}]
  BY SignalTypes
<1>6. resetPc \in {"idle", "overruns", "dropped"} /\ cleared \in BOOLEAN
  BY SignalTypes
<1>7. /\ Parted(heard \o queue, lost, next) /\ Signal!OverrunsExact /\ ToWrite
      /\ resetPc # "idle" => cleared
  BY ConservedIs DEF SignalSafe, Signal!LossesCounted
<1> DEFINE
  Samples == /\ queue' \in Seq(1..MaxSamples) /\ Len(queue') <= SignalCapacity
             /\ heard' \in Seq(1..MaxSamples)
  Counts == dropped' \in Nat /\ overruns' \in Nat /\ underruns' \in Nat /\ padded' \in Nat
  Written == /\ next' \in 0..MaxSamples /\ lost' \subseteq 1..next'
             /\ left' \in [Producers -> Nat] /\ missed' \in [Producers -> Nat]
  Batches == /\ popping' \in [Consumers -> Seq(1..MaxSamples)]
             /\ \A c \in Consumers : Len(popping'[c]) <= BatchLen
             /\ consumerPc' \in [Consumers -> {"idle", "pop"}]
  Resets == /\ resetPc' \in {"idle", "overruns", "dropped"} /\ cleared' \in BOOLEAN
            /\ resetPc' # "idle" => cleared'
  Line == Parted(heard' \o queue', lost', next')
<1>8. Samples /\ Counts /\ Written /\ Batches /\ Resets /\ Line /\ Signal!OverrunsExact' /\ ToWrite'
        => SignalSafe'
  BY ConservedIsNext DEF SignalSafe, Signal!LossesCounted, Signal!TypeOK
<1>9. UNCHANGED <<queue, heard>> => Samples
  BY <1>2
<1>10. UNCHANGED <<dropped, overruns, underruns, padded>> => Counts
  BY <1>3
<1>11. UNCHANGED <<next, lost, left, missed>> => Written
  BY <1>3, <1>4
<1>12. UNCHANGED <<consumerPc, popping>> => Batches
  BY <1>5
<1>13. UNCHANGED <<resetPc, cleared>> => Resets
  BY <1>6, <1>7
<1>14. UNCHANGED <<queue, heard, lost, next>> => Line
  BY <1>7
<1>15. UNCHANGED <<overruns, dropped, missed, lost, resetPc, cleared>> => Signal!OverrunsExact'
  BY <1>7 DEF Signal!OverrunsExact
<1>16. UNCHANGED <<next, left>> => ToWrite'
  BY <1>7 DEF ToWrite
<1> HIDE DEF Samples, Counts, Written, Batches, Resets, Line
<1>17. CASE UNCHANGED signalVars
  BY <1>8, <1>9, <1>10, <1>11, <1>12, <1>13, <1>14, <1>15, <1>16, <1>17 DEF signalVars
<1>18. ASSUME NEW p \in Producers, NEW n \in Blocks, Signal!StartWrite(p, n) PROVE SignalSafe'
  <2>1. /\ left[p] = 0 /\ next + n + Signal!Total(left) <= MaxSamples
        /\ left' = [left EXCEPT ![p] = n]
    BY <1>18 DEF Signal!StartWrite
  <2>2. n \in Nat /\ left' \in [Producers -> Nat]
    BY <1>1, <1>4, <2>1
  <2>3. Signal!Total(left) \in Nat /\ Signal!Total(left') + left[p] = Signal!Total(left) + n
    <3>1. /\ Signal!Total(left) \in Nat
          /\ Signal!Total([left EXCEPT ![p] = n]) + left[p] = Signal!Total(left) + n
      BY <1>1, <1>4, <2>2, TotalExcept
    <3> QED  BY <2>1, <3>1
  <2>4. Signal!Total(left') \in Nat
    BY <1>1, <2>2, TotalExcept
  <2>5. Signal!Total(left') = Signal!Total(left) + n
    BY <2>1, <2>2, <2>3, <2>4
  <2>6. next + Signal!Total(left') <= MaxSamples /\ next' = next
    BY <1>1, <1>3, <1>18, <2>1, <2>2, <2>3, <2>5 DEF Signal!StartWrite
  <2>7. ToWrite'
    BY <2>6 DEF ToWrite
  <2>8. Written
    BY <1>3, <1>4, <1>18, <2>2 DEF Signal!StartWrite, Written
  <2> QED  BY <1>8, <1>9, <1>10, <1>12, <1>13, <1>14, <1>15, <1>18, <2>7, <2>8 DEF Signal!StartWrite
<1>19. ASSUME NEW p \in Producers, Signal!PushSample(p) \/ Signal!DropSample(p)
       PROVE  /\ Written /\ ToWrite' /\ next + 1 \in 1..MaxSamples /\ next' = next + 1
  <2>1. /\ left[p] > 0 /\ left' = [left EXCEPT ![p] = left[p] - 1] /\ next' = next + 1
    BY <1>19 DEF Signal!PushSample, Signal!DropSample
  <2>2. left[p] - 1 \in Nat /\ left[p] \in Nat
    BY <1>4, <2>1
  <2>3. Signal!Total(left) \in Nat /\ Signal!Total(left') + left[p] = Signal!Total(left) + (left[p] - 1)
    BY <1>1, <1>4, <2>1, <2>2, TotalExcept, ZenonT(60)
  <2>4. left' \in [Producers -> Nat]
    BY <1>4, <2>1, <2>2
  <2>5. Signal!Total(left') \in Nat
    BY <1>1, <2>4, TotalExcept
  <2>6. Signal!Total(left') + 1 = Signal!Total(left)
    <3>1. \A a, b \in Nat, k \in Nat : a + k = b + (k - 1) => a + 1 = b
      OBVIOUS
    <3> QED  BY <2>2, <2>3, <2>5, <3>1
  <2>7. next + Signal!Total(left) <= MaxSamples
    BY <1>7 DEF ToWrite
  <2>8. (next + 1) + Signal!Total(left') <= MaxSamples
    BY <1>3, <2>5, <2>6, <2>7
  <2>9. next + 1 \in 1..MaxSamples
    BY <1>1, <1>3, <2>5, <2>8
  <2>10. ToWrite'
    BY <2>1, <2>8 DEF ToWrite
  <2>11. missed' \in [Producers -> Nat]
    BY <1>4, <1>19 DEF Signal!PushSample, Signal!DropSample
  <2>12. lost' \subseteq 1..(next + 1)
    <3>1. lost' = lost \/ lost' = lost \cup {next + 1}
      BY <1>19 DEF Signal!PushSample, Signal!DropSample
    <3>2. lost \subseteq 1..(next + 1) /\ next + 1 \in 1..(next + 1)
      BY <1>3
    <3> QED  BY <3>1, <3>2
  <2>13. next + 1 \in 0..MaxSamples
    BY <2>9
  <2>14. Written
    BY <2>1, <2>4, <2>11, <2>12, <2>13 DEF Written
  <2> QED  BY <2>1, <2>9, <2>10, <2>14
<1>20. ASSUME NEW p \in Producers, Signal!PushSample(p) PROVE SignalSafe'
  <2>1. Written /\ ToWrite' /\ next + 1 \in 1..MaxSamples /\ next' = next + 1
    BY <1>19, <1>20
  <2>2. Len(queue) < SignalCapacity /\ queue' = Append(queue, next + 1) /\ heard' = heard /\ lost' = lost
    BY <1>20 DEF Signal!PushSample
  <2>3. Append(queue, next + 1) \in Seq(1..MaxSamples) /\ Len(Append(queue, next + 1)) = Len(queue) + 1
    BY <1>2, <2>1
  <2>4. Samples
    BY <1>1, <1>2, <2>2, <2>3 DEF Samples
  <2>5. heard \o Append(queue, next + 1) = Append(heard \o queue, next + 1)
    BY <1>2, <2>1, PushEndsLine
  <2>6. heard \o queue \in Seq(1..MaxSamples) /\ 1..MaxSamples \subseteq Nat /\ next \in Nat
    BY <1>2, <1>3
  <2>7. Parted(Append(heard \o queue, next + 1), lost, next + 1)
    BY <1>7, <2>6, PartedPush
  <2>8. Line
    BY <2>1, <2>2, <2>5, <2>7 DEF Line
  <2> QED  BY <1>8, <1>10, <1>12, <1>13, <1>15, <1>20, <2>1, <2>4, <2>8 DEF Signal!PushSample
<1>21. ASSUME NEW p \in Producers, Signal!DropSample(p) PROVE SignalSafe'
  <2>1. Written /\ ToWrite' /\ next + 1 \in 1..MaxSamples /\ next' = next + 1
    BY <1>19, <1>21
  <2>2. /\ lost' = lost \cup {next + 1} /\ dropped' = dropped + 1
        /\ missed' = [missed EXCEPT ![p] = missed[p] + 1]
        /\ UNCHANGED <<queue, heard, overruns, underruns, padded, resetPc, cleared>>
    BY <1>21 DEF Signal!DropSample
  <2>3. heard \o queue \in Seq(1..MaxSamples) /\ next \in Nat
    BY <1>2, <1>3
  <2>4. /\ Parted(heard \o queue, lost \cup {next + 1}, next + 1)
        /\ Cardinality(lost \cup {next + 1}) = Cardinality(lost) + 1 /\ Cardinality(lost) \in Nat
    BY <1>3, <1>7, <2>3, PartedDrop
  <2>5. Line
    BY <2>1, <2>2, <2>4 DEF Line
  <2>6. missed[p] \in Nat /\ missed[p] + 1 \in Nat
    BY <1>4
  <2>7. /\ Signal!Total(missed) \in Nat
        /\ Signal!Total(missed') + missed[p] = Signal!Total(missed) + (missed[p] + 1)
    BY <1>1, <1>4, <2>2, <2>6, TotalExcept, ZenonT(60)
  <2>8. Signal!Total(missed') \in Nat
    <3>1. missed' \in [Producers -> Nat]
      BY <2>1 DEF Written
    <3> QED  BY <1>1, <2>6, <3>1, TotalExcept
  <2>9. Signal!Total(missed') = Signal!Total(missed) + 1
    BY <2>6, <2>7, <2>8
  <2>10. Signal!OverrunsExact'
    BY <1>3, <1>7, <2>2, <2>4, <2>7, <2>9, SignalSets DEF Signal!OverrunsExact
  <2>11. Counts
    BY <1>3, <2>2 DEF Counts
  <2> QED  BY <1>8, <1>9, <1>12, <1>13, <1>21, <2>1, <2>2, <2>5, <2>10, <2>11 DEF Signal!DropSample
<1>22. ASSUME NEW p \in Producers, Signal!CountOverruns(p) PROVE SignalSafe'
  <2>1. /\ overruns' = overruns + missed[p] /\ missed' = [missed EXCEPT ![p] = 0]
        /\ UNCHANGED <<queue, dropped, underruns, next, left, lost, consumerPc, popping, heard, padded,
                       resetPc, cleared>>
    BY <1>22 DEF Signal!CountOverruns
  <2>2. missed[p] \in Nat /\ missed' \in [Producers -> Nat]
    BY <1>4, <2>1
  <2>3. Signal!Total(missed) \in Nat /\ Signal!Total(missed') + missed[p] = Signal!Total(missed) + 0
    BY <1>1, <1>4, <2>1, TotalExcept, ZenonT(60)
  <2>4. Signal!Total(missed') \in Nat
    BY <1>1, <2>2, TotalExcept
  <2>5. overruns' + Signal!Total(missed') = overruns + Signal!Total(missed)
    BY <1>3, <2>1, <2>2, <2>3, <2>4
  <2>6. Signal!OverrunsExact'
    BY <1>7, <2>1, <2>5 DEF Signal!OverrunsExact
  <2>7. Counts /\ Written
    BY <1>3, <1>4, <2>1, <2>2 DEF Counts, Written
  <2> QED  BY <1>8, <1>9, <1>12, <1>13, <1>14, <1>16, <2>1, <2>6, <2>7
<1>23. ASSUME NEW c \in Consumers, Signal!CheckLevel(c) PROVE SignalSafe'
  <2>1. /\ underruns' = IF Len(queue) < BatchLen THEN underruns + 1 ELSE underruns
        /\ consumerPc' = [consumerPc EXCEPT ![c] = "pop"]
        /\ UNCHANGED <<queue, dropped, overruns, next, left, missed, lost, popping, heard, padded,
                       resetPc, cleared>>
    BY <1>23 DEF Signal!CheckLevel
  <2>2. Counts /\ Batches
    BY <1>3, <1>5, <2>1 DEF Counts, Batches
  <2> QED  BY <1>8, <1>9, <1>11, <1>13, <1>14, <1>15, <1>16, <2>1, <2>2
<1>24. ASSUME NEW c \in Consumers, Signal!PopSample(c) \/ Signal!ReadAll(c) PROVE SignalSafe'
  <2>1. /\ queue # <<>> /\ heard' = Append(heard, Head(queue)) /\ queue' = Tail(queue)
        /\ UNCHANGED <<dropped, overruns, underruns, next, left, missed, lost, consumerPc, padded,
                       resetPc, cleared>>
    BY <1>24 DEF Signal!PopSample, Signal!ReadAll
  <2>2. /\ Append(heard, Head(queue)) \o Tail(queue) = heard \o queue
        /\ Head(queue) \in 1..MaxSamples /\ Tail(queue) \in Seq(1..MaxSamples)
        /\ Append(heard, Head(queue)) \in Seq(1..MaxSamples) /\ Len(Tail(queue)) = Len(queue) - 1
    BY <1>2, <2>1, PopKeepsLine, ZenonT(60)
  <2>3. Samples
    BY <1>1, <1>2, <2>1, <2>2 DEF Samples
  <2>4. Line
    BY <1>7, <2>1, <2>2 DEF Line
  <2>5. Batches
    <3>1. CASE popping' = popping
      BY <1>5, <2>1, <3>1 DEF Batches
    <3>2. CASE /\ Len(popping[c]) < BatchLen
               /\ popping' = [popping EXCEPT ![c] = Append(popping[c], Head(queue))]
      <4>1. popping[c] \in Seq(1..MaxSamples)
        BY <1>5
      <4>2. /\ Append(popping[c], Head(queue)) \in Seq(1..MaxSamples)
            /\ Len(Append(popping[c], Head(queue))) = Len(popping[c]) + 1 /\ Len(popping[c]) \in Nat
        BY <2>2, <4>1
      <4>3. Len(Append(popping[c], Head(queue))) <= BatchLen
        BY <1>1, <3>2, <4>2
      <4> QED  BY <1>5, <2>1, <3>2, <4>2, <4>3 DEF Batches
    <3> QED  BY <1>24, <3>1, <3>2 DEF Signal!PopSample, Signal!ReadAll
  <2> QED  BY <1>8, <1>10, <1>11, <1>13, <1>15, <1>16, <2>1, <2>3, <2>4, <2>5
<1>25. ASSUME NEW c \in Consumers, Signal!ReturnBatch(c) PROVE SignalSafe'
  <2>1. /\ padded' = IF Len(popping[c]) < BatchLen THEN padded + 1 ELSE padded
        /\ popping' = [popping EXCEPT ![c] = <<>>] /\ consumerPc' = [consumerPc EXCEPT ![c] = "idle"]
        /\ UNCHANGED <<queue, dropped, overruns, underruns, next, left, missed, lost, heard,
                       resetPc, cleared>>
    BY <1>25 DEF Signal!ReturnBatch
  <2>2. <<>> \in Seq(1..MaxSamples) /\ Len(<<>>) <= BatchLen
    BY <1>1
  <2>3. Counts
    BY <1>3, <2>1 DEF Counts
  <2>4. Batches
    BY <1>5, <2>1, <2>2 DEF Batches
  <2> QED  BY <1>8, <1>9, <1>11, <1>13, <1>14, <1>15, <1>16, <2>1, <2>3, <2>4
<1>26. Signal!Total(missed) \in Nat
  <2>1. CASE Producers = {}
    <3>1. \A p \in Producers : missed[p] = 0
      BY <2>1
    <3> QED  BY <3>1, TotalZero
  <2>2. ASSUME NEW p \in Producers PROVE Signal!Total(missed) \in Nat
    BY <1>1, <1>4, TotalExcept
  <2> QED  BY <2>1, <2>2
<1>27. CASE Signal!ResetUnderruns \/ Signal!ResetOverruns \/ Signal!ResetDropped
  <2>1. UNCHANGED <<queue, next, left, missed, lost, consumerPc, popping, heard, padded>>
    BY <1>27 DEF Signal!ResetUnderruns, Signal!ResetOverruns, Signal!ResetDropped
  <2>2. Counts
    BY <1>3, <1>27, <2>1 DEF Counts, Signal!ResetUnderruns, Signal!ResetOverruns, Signal!ResetDropped
  <2>3. Resets
    BY <1>6, <1>7, <1>27 DEF Resets, Signal!ResetUnderruns, Signal!ResetOverruns, Signal!ResetDropped
  <2>4. CASE Signal!ResetUnderruns
    <3>1. resetPc = "idle" /\ ~cleared /\ cleared' = TRUE /\ UNCHANGED <<dropped, overruns>>
      BY <2>4 DEF Signal!ResetUnderruns
    <3>2. dropped <= overruns + Signal!Total(missed)
      BY <1>3, <1>7, <1>26, <3>1 DEF Signal!OverrunsExact
    <3>3. Signal!OverrunsExact'
      BY <2>1, <3>1, <3>2 DEF Signal!OverrunsExact
    <3> QED  BY <1>8, <1>9, <1>11, <1>12, <1>14, <1>16, <2>1, <2>2, <2>3, <3>3
  <2>5. CASE Signal!ResetOverruns
    <3>1. resetPc' = "dropped" /\ cleared' = cleared /\ cleared
      BY <1>7, <2>5 DEF Signal!ResetOverruns
    <3>2. Signal!OverrunsExact'
      BY <3>1 DEF Signal!OverrunsExact
    <3> QED  BY <1>8, <1>9, <1>11, <1>12, <1>14, <1>16, <2>1, <2>2, <2>3, <3>2
  <2>6. CASE Signal!ResetDropped
    <3>1. resetPc = "dropped" /\ dropped' = 0 /\ cleared' = cleared /\ cleared /\ overruns' = overruns
      BY <1>7, <2>6 DEF Signal!ResetDropped
    <3>2. dropped' <= overruns' + Signal!Total(missed)
      BY <1>3, <1>26, <3>1
    <3>3. Signal!OverrunsExact'
      BY <2>1, <3>1, <3>2 DEF Signal!OverrunsExact
    <3> QED  BY <1>8, <1>9, <1>11, <1>12, <1>14, <1>16, <2>1, <2>2, <2>3, <3>3
  <2> QED  BY <1>27, <2>4, <2>5, <2>6
<1> QED
  BY <1>17, <1>18, <1>20, <1>21, <1>22, <1>23, <1>24, <1>25, <1>27 DEF Signal!Next

\* No sample is lost without a trace or returned twice, those that are kept keep their order, and
\* the two counts of what was lost agree up to the blocks being written, or a reset: for any
\* number of producers and consumers, any blocks, and any capacity and batch length.
THEOREM NoSampleUnaccounted == AllSpec => []LossesCounted
<1>1. AllInit => SignalSafe
  BY SignalInitial, ServicesAssumption DEF AllInit
<1>2. SignalSafe /\ [AllNext]_allVars => SignalSafe'
  BY PartSteps, SignalStep, ServicesAssumption
<1>3. SignalSafe => LossesCounted
  BY DEF SignalSafe, LossesCounted
<1> QED
  BY <1>1, <1>2, <1>3, PTL DEF AllSpec

-----------------------------------------------------------------------------
(* StreamMultiplexer *)

LEMMA MuxSets ==
  \A S : Mux!Cardinality(S) = Cardinality(S) /\ (Mux!IsFiniteSet(S) <=> IsFiniteSet(S))
BY DEF Mux!Cardinality, Cardinality, Mux!IsFiniteSet, IsFiniteSet

LEMMA MuxMin ==
  ASSUME NEW S \in SUBSET Nat, S # {}
  PROVE  Mux!Min(S) \in S /\ Mux!Min(S) \in Nat /\ \A y \in S : Mux!Min(S) <= y
<1>1. \E x \in S : \A y \in S : x <= y
  BY MinExists
<1>2. Mux!Min(S) \in S /\ \A y \in S : Mux!Min(S) <= y
  BY <1>1 DEF Mux!Min
<1> QED  BY <1>2

\* A queue in the order of time.
Ordered(q) == \A i, j \in DOMAIN q : i < j => q[i] <= q[j]

LEMMA TailOrdered ==
  ASSUME NEW S, NEW q \in Seq(S), q # <<>>, Ordered(q)
  PROVE  Ordered(Tail(q)) /\ Tail(q) \in Seq(S) /\ Len(Tail(q)) = Len(q) - 1 /\ Len(q) \in Nat \ {0}
<1>1. /\ Tail(q) \in Seq(S) /\ Len(Tail(q)) = Len(q) - 1 /\ Len(q) \in Nat \ {0}
      /\ DOMAIN Tail(q) = 1..(Len(q) - 1) /\ DOMAIN q = 1..Len(q)
      /\ \A i \in 1..(Len(q) - 1) : Tail(q)[i] = q[i + 1]
  OBVIOUS
<1> DEFINE t == Tail(q)
<1>2. DOMAIN t = 1..(Len(q) - 1) /\ \A i \in 1..(Len(q) - 1) : t[i] = q[i + 1]
  BY <1>1
<1> HIDE DEF t
<1>3. ASSUME NEW i \in DOMAIN t, NEW j \in DOMAIN t, i < j PROVE t[i] <= t[j]
  <2>1. i + 1 \in DOMAIN q /\ j + 1 \in DOMAIN q /\ i + 1 < j + 1
    BY <1>1, <1>2, <1>3
  <2>2. q[i + 1] <= q[j + 1]
    BY <2>1 DEF Ordered
  <2> QED  BY <1>2, <2>2, SMTT(60)
<1>4. Ordered(t)
  BY <1>3 DEF Ordered
<1> QED  BY <1>1, <1>4 DEF t

\* A set of places that has all places before any of its own.
LEMMA FirstPlaces ==
  ASSUME NEW n \in Nat, NEW P \in SUBSET (1..n), \A i \in P : \A j \in 1..i : j \in P
  PROVE  \E k \in 0..n : P = 1..k /\ (k < n => k + 1 \notin P)
<1>1. CASE P = 1..n
  BY <1>1
<1>2. CASE P # 1..n
  <2> DEFINE missing == (1..n) \ P
  <2>1. missing \in SUBSET Nat /\ missing # {}
    <3>1. missing \in SUBSET Nat
      OBVIOUS
    <3>2. missing # {}
      BY <1>2
    <3> QED  BY <3>1, <3>2
  <2>2. PICK m \in missing : \A y \in missing : m <= y
    BY <2>1, MinExists
  <2>3. m \in 1..n /\ m \notin P /\ m - 1 \in 0..n /\ (m - 1) + 1 = m
    BY <2>2
  <2>4. ASSUME NEW i \in P PROVE i \in 1..(m - 1)
    <3>1. i \in 1..n /\ m \notin 1..i
      BY <2>3
    <3>2. i < m
      BY <2>3, <3>1
    <3> QED  BY <2>3, <3>1, <3>2
  <2>5. ASSUME NEW i \in 1..(m - 1) PROVE i \in P
    <3>1. i \in 1..n /\ ~(m <= i)
      BY <2>3
    <3>2. i \notin missing
      BY <2>2, <3>1
    <3> QED  BY <3>1, <3>2
  <2>6. P = 1..(m - 1)
    BY <2>4, <2>5
  <2> QED  BY <2>3, <2>6
<1> QED  BY <1>1, <1>2

JoinAs(u, v, w) ==
  /\ Len(w) = Len(u) + Len(v)
  /\ \A i \in 1..Len(u) : w[i] = u[i]
  /\ \A i \in 1..Len(v) : w[Len(u) + i] = v[i]

LEMMA JoinFacts ==
  ASSUME NEW S, NEW u \in Seq(S), NEW v \in Seq(S)
  PROVE  u \o v \in Seq(S) /\ JoinAs(u, v, u \o v)
BY DEF JoinAs

LEMMA InsertOrdered ==
  ASSUME NEW S, S \subseteq Nat, NEW q \in Seq(S), Ordered(q), NEW x \in S
  PROVE  /\ Ordered(Mux!InsertedByTime(q, x)) /\ Mux!InsertedByTime(q, x) \in Seq(S)
         /\ Len(Mux!InsertedByTime(q, x)) = Len(q) + 1
<1> DEFINE n == Len(q)
           P == {i \in DOMAIN q : \A j \in 1..i : q[j] <= x}
<1>1. n \in Nat /\ DOMAIN q = 1..n /\ q \in [1..n -> S]
  OBVIOUS
<1>2. P \subseteq 1..n /\ \A i \in P : \A j \in 1..i : j \in P
  BY <1>1
<1>3. PICK k \in 0..n : P = 1..k /\ (k < n => k + 1 \notin P)
  <2> HIDE DEF P, n
  <2> QED  BY <1>1, <1>2, FirstPlaces
<1>4. Mux!Cardinality(P) = k
  <2> HIDE DEF P
  <2>1. Cardinality(1..k) = k
    BY <1>1, <1>3, FS_Interval
  <2> QED  BY <1>3, <2>1, MuxSets
<1> DEFINE t == Mux!InsertedByTime(q, x)
<1>5. t = (SubSeq(q, 1, (k + 1) - 1) \o <<x>>) \o SubSeq(q, k + 1, n)
  BY <1>4 DEF Mux!InsertedByTime, Mux!InsertAt
<1>6. \A i \in 1..k : q[i] <= x
  <2>1. ASSUME NEW i \in 1..k PROVE q[i] <= x
    <3>1. i \in P /\ i \in 1..i
      BY <1>3
    <3> QED  BY <3>1
  <2> QED  BY <2>1
<1>7. ASSUME k < n PROVE x < q[k + 1]
  <2>1. k + 1 \in DOMAIN q /\ k + 1 \notin P
    BY <1>1, <1>3, <1>7
  <2>2. PICK j \in 1..(k + 1) : ~(q[j] <= x)
    BY <2>1
  <2>3. j = k + 1
    BY <1>3, <1>6, <2>2
  <2>4. q[k + 1] \in Nat /\ x \in Nat
    BY <1>1, <2>1
  <2> QED  BY <2>2, <2>3, <2>4
<1> HIDE DEF n, P, t
<1>8. (k + 1) - 1 = k /\ k \in Nat /\ k <= n
  BY <1>1, <1>3
<1> DEFINE a == SubSeq(q, 1, k)
           b == SubSeq(q, k + 1, n)
<1>9. a \in Seq(S) /\ Len(a) = k /\ \A i \in 1..k : a[i] = q[i]
  <2>1. a \in Seq(S) /\ Len(a) = k /\ \A i \in 1..k : a[i] = q[1 + i - 1]
    BY <1>1, <1>8, SubSeqProperties DEF n
  <2>2. \A i \in 1..k : 1 + i - 1 = i
    BY <1>8
  <2> QED  BY <2>1, <2>2
<1>10. b \in Seq(S) /\ Len(b) = n - k /\ \A i \in 1..(n - k) : b[i] = q[k + i]
  <2>1. b \in Seq(S) /\ Len(b) = (IF k + 1 <= n THEN n - (k + 1) + 1 ELSE 0)
        /\ \A i \in 1..(n - (k + 1) + 1) : b[i] = q[(k + 1) + i - 1]
    BY <1>1, <1>8, SubSeqProperties DEF n
  <2>2. n - (k + 1) + 1 = n - k /\ (~(k + 1 <= n) => n - k = 0)
    BY <1>1, <1>8
  <2>3. \A i \in 1..(n - k) : (k + 1) + i - 1 = k + i
    BY <1>1, <1>8
  <2> QED  BY <2>1, <2>2, <2>3
<1>11. t = (a \o <<x>>) \o b
  BY <1>5, <1>8
<1> HIDE DEF a, b
<1>12. /\ a \o <<x>> \in Seq(S) /\ Len(a \o <<x>>) = k + 1 /\ (a \o <<x>>)[k + 1] = x
       /\ \A i \in 1..k : (a \o <<x>>)[i] = a[i]
  <2>1. <<x>> \in Seq(S) /\ Len(<<x>>) = 1 /\ <<x>>[1] = x
    OBVIOUS
  <2>2. 1 \in 1..Len(<<x>>)
    BY <2>1
  <2>3. a \o <<x>> \in Seq(S) /\ Len(a \o <<x>>) = k + 1
    BY <1>8, <1>9, <2>1, JoinFacts
  <2>4. (a \o <<x>>)[k + 1] = x
    <3>1. (a \o <<x>>)[Len(a) + 1] = <<x>>[1]
      <4>1. a \in Seq(S) /\ <<x>> \in Seq(S)
        BY <1>9, <2>1
      <4>2. \A i \in 1..Len(<<x>>) : (a \o <<x>>)[Len(a) + i] = <<x>>[i]
        BY <4>1, JoinFacts DEF JoinAs
      <4> QED  BY <2>2, <4>2, Zenon
    <3> QED  BY <1>9, <2>1, <3>1
  <2>5. \A i \in 1..k : (a \o <<x>>)[i] = a[i]
    <3>1. \A i \in 1..Len(a) : (a \o <<x>>)[i] = a[i]
      BY <1>9, <2>1, JoinFacts
    <3> QED  BY <1>9, <3>1
  <2> QED  BY <2>3, <2>4, <2>5
<1>13. /\ t \in Seq(S) /\ Len(t) = (k + 1) + (n - k)
       /\ \A i \in 1..(k + 1) : t[i] = (a \o <<x>>)[i]
       /\ \A i \in 1..(n - k) : t[(k + 1) + i] = b[i]
  <2> DEFINE c == a \o <<x>>
  <2>1. c \in Seq(S) /\ Len(c) = k + 1
    BY <1>12
  <2> HIDE DEF c
  <2>2. /\ c \o b \in Seq(S) /\ Len(c \o b) = Len(c) + Len(b)
        /\ \A i \in 1..Len(c) : (c \o b)[i] = c[i]
        /\ \A i \in 1..Len(b) : (c \o b)[Len(c) + i] = b[i]
    <3>1. b \in Seq(S) /\ c \in Seq(S)
      BY <1>10, <2>1
    <3>2. c \o b \in Seq(S) /\ JoinAs(c, b, c \o b)
      BY <3>1, JoinFacts
    <3> QED  BY <3>2 DEF JoinAs
  <2>3. t = c \o b
    BY <1>11 DEF c
  <2> QED  BY <1>10, <2>1, <2>2, <2>3 DEF c
<1>14. Len(t) = n + 1
  BY <1>1, <1>8, <1>13
<1>15. /\ t[k + 1] = x /\ \A i \in 1..k : t[i] = q[i]
       /\ \A i \in (k + 2)..(n + 1) : i - 1 \in (k + 1)..n /\ t[i] = q[i - 1]
  <2>1. t[k + 1] = x
    BY <1>8, <1>12, <1>13
  <2>2. ASSUME NEW i \in 1..k PROVE t[i] = q[i]
    <3>1. i \in 1..(k + 1)
      BY <1>8
    <3> QED  BY <1>9, <1>12, <1>13, <3>1
  <2>3. ASSUME NEW i \in (k + 2)..(n + 1) PROVE i - 1 \in (k + 1)..n /\ t[i] = q[i - 1]
    <3>1. i - (k + 1) \in 1..(n - k) /\ (k + 1) + (i - (k + 1)) = i /\ k + (i - (k + 1)) = i - 1
          /\ i - 1 \in (k + 1)..n
      BY <1>1, <1>8
    <3>2. t[(k + 1) + (i - (k + 1))] = b[i - (k + 1)]
      BY <1>13, <3>1
    <3>3. b[i - (k + 1)] = q[k + (i - (k + 1))]
      BY <1>10, <3>1
    <3> QED  BY <3>1, <3>2, <3>3
  <2> QED  BY <2>1, <2>2, <2>3
<1>16. \A i \in 1..n : q[i] \in Nat
  BY <1>1
<1>17. \A i, j \in 1..n : i < j => q[i] <= q[j]
  BY <1>1 DEF Ordered
<1>18. \A i \in (k + 1)..n : x < q[i]
  <2>1. ASSUME NEW i \in (k + 1)..n PROVE x < q[i]
    <3>1. k < n /\ k + 1 \in 1..n /\ i \in 1..n
      BY <1>1, <1>8
    <3>2. x < q[k + 1] /\ q[k + 1] \in Nat /\ q[i] \in Nat /\ x \in Nat
      BY <1>7, <1>16, <3>1
    <3>3. q[k + 1] <= q[i]
      <4>1. CASE i = k + 1
        BY <3>2, <4>1
      <4>2. CASE i # k + 1
        <5>1. k + 1 < i
          BY <1>8, <3>1, <4>2
        <5> QED  BY <1>17, <3>1, <5>1
      <4> QED  BY <4>1, <4>2
    <3> QED  BY <3>2, <3>3
  <2> QED  BY <2>1
<1>19. ASSUME NEW i \in 1..(n + 1), NEW j \in 1..(n + 1), i < j PROVE t[i] <= t[j]
  <2>1. CASE j \in 1..k
    <3>1. i \in 1..k /\ i \in 1..n /\ j \in 1..n
      BY <1>1, <1>8, <1>19, <2>1
    <3>2. q[i] <= q[j]
      BY <1>17, <1>19, <3>1
    <3> QED  BY <1>15, <2>1, <3>1, <3>2
  <2>2. CASE j = k + 1
    <3>1. i \in 1..k
      BY <1>8, <1>19, <2>2
    <3>2. q[i] <= x
      BY <1>6, <3>1
    <3> QED  BY <1>15, <2>2, <3>1, <3>2
  <2>3. CASE j \in (k + 2)..(n + 1)
    <3>1. t[j] = q[j - 1] /\ j - 1 \in (k + 1)..n /\ j - 1 \in 1..n
      BY <1>8, <1>15, <2>3
    <3>2. CASE i \in 1..k
      <4>1. i \in 1..n /\ i < j - 1
        BY <1>1, <1>8, <3>1, <3>2
      <4>2. q[i] <= q[j - 1]
        BY <1>17, <3>1, <4>1
      <4> QED  BY <1>15, <3>1, <3>2, <4>2
    <3>3. CASE i = k + 1
      <4>1. x < q[j - 1] /\ q[j - 1] \in Nat /\ x \in Nat
        BY <1>16, <1>18, <3>1
      <4> QED  BY <1>15, <3>1, <3>3, <4>1
    <3>4. CASE i \in (k + 2)..(n + 1)
      <4>1. t[i] = q[i - 1] /\ i - 1 \in 1..n /\ i - 1 < j - 1
        BY <1>8, <1>15, <1>19, <3>4
      <4>2. q[i - 1] <= q[j - 1]
        BY <1>17, <3>1, <4>1
      <4> QED  BY <3>1, <4>1, <4>2
    <3> QED  BY <1>1, <1>8, <3>2, <3>3, <3>4
  <2> QED  BY <1>1, <1>8, <2>1, <2>2, <2>3
<1>20. DOMAIN t = 1..(n + 1)
  BY <1>13, <1>14
<1>21. Ordered(t)
  BY <1>19, <1>20 DEF Ordered
<1> QED  BY <1>13, <1>14, <1>21 DEF t, n

LEMMA MoreTimes ==
  ASSUME NEW n \in Nat, NEW a \in Nat, NEW b \in Nat, a < b
  PROVE  n * a + n <= n * b
<1>1. PICK k \in Nat : b = (a + 1) + k
  <2>1. b - (a + 1) \in Nat /\ b = (a + 1) + (b - (a + 1))
    OBVIOUS
  <2> QED  BY <2>1
<1>2. n * ((a + 1) + k) = (n * a + n) + n * k /\ n * k \in Nat /\ n * a \in Nat
  OBVIOUS
<1>3. \A u, v \in Nat : u <= u + v
  OBVIOUS
<1>4. n * a + n <= (n * a + n) + n * k
  <2>1. n * a + n \in Nat
    BY <1>2
  <2> QED  BY <1>2, <1>3, <2>1
<1> QED  BY <1>1, <1>2, <1>4

\* A remainder is the only one.
LEMMA RemainderIs ==
  ASSUME NEW n \in Nat \ {0}, NEW x \in Nat, NEW q \in Nat, NEW r \in 0..(n - 1), x = n * q + r
  PROVE  x % n = r
<1>1. /\ x \div n \in Nat /\ x % n \in 0..(n - 1) /\ x = n * (x \div n) + (x % n)
  OBVIOUS
<1> DEFINE a == x \div n
           b == x % n
<1>2. a \in Nat /\ b \in 0..(n - 1) /\ n * a + b = n * q + r
  BY <1>1
<1> HIDE DEF a, b
<1>3. n * a \in Nat /\ n * q \in Nat
  BY <1>2
<1>4. CASE a < q
  <2>1. n * a + n <= n * q
    BY <1>2, <1>4, MoreTimes
  <2> QED  BY <1>2, <1>3, <2>1
<1>5. CASE q < a
  <2>1. n * q + n <= n * a
    BY <1>2, <1>5, MoreTimes
  <2> QED  BY <1>2, <1>3, <2>1
<1>6. CASE a = q
  <2>1. n * a + b = n * a + r
    BY <1>2, <1>6
  <2>2. b = r
    BY <1>2, <1>3, <2>1
  <2> QED  BY <2>2 DEF b
<1> QED  BY <1>2, <1>4, <1>5, <1>6

LEMMA RemainderFacts ==
  ASSUME NEW n \in Nat \ {0}, NEW x \in Nat
  PROVE  /\ x % n \in 0..(n - 1) /\ (x < n => x % n = x) /\ (x + n) % n = x % n
         /\ \A d \in Nat : ((x % n) + d) % n = (x + d) % n
<1>1. PICK q \in Nat, r \in 0..(n - 1) : x = n * q + r /\ x % n = r
  <2>1. /\ x \div n \in Nat /\ x % n \in 0..(n - 1) /\ x = n * (x \div n) + (x % n)
    OBVIOUS
  <2> QED  BY <2>1
<1>2. x < n => x % n = x
  OBVIOUS
<1>3. (x + n) % n = r
  <2>1. n * (q + 1) = n * q + n /\ n * q \in Nat
    OBVIOUS
  <2>2. x + n = n * (q + 1) + r /\ x + n \in Nat /\ q + 1 \in Nat
    BY <1>1, <2>1
  <2> QED  BY <2>2, RemainderIs
<1>4. ASSUME NEW d \in Nat PROVE (r + d) % n = (x + d) % n
  <2>1. PICK p \in Nat, s \in 0..(n - 1) : r + d = n * p + s /\ (r + d) % n = s
    <3>1. r + d \in Nat
      OBVIOUS
    <3>2. \A y \in Nat : y \div n \in Nat /\ y % n \in 0..(n - 1) /\ y = n * (y \div n) + (y % n)
      OBVIOUS
    <3> QED  BY <3>1, <3>2
  <2>2. n * (q + p) = n * q + n * p /\ n * q \in Nat /\ n * p \in Nat
    OBVIOUS
  <2>3. x + d = n * (q + p) + s /\ x + d \in Nat /\ q + p \in Nat
    BY <1>1, <2>1, <2>2
  <2>4. (x + d) % n = s
    BY <2>3, RemainderIs
  <2> QED  BY <2>1, <2>4
<1> QED  BY <1>1, <1>2, <1>3, <1>4

\* The stream that an index stands for.
IdIn(ids, i) == ids[(i % Len(ids)) + 1]

\* Within a count of reads that skip it, stream s is next.
OnTurn(ids, r, p, s) == \E d \in Nat : IdIn(ids, r + d) = s /\ p + d < Len(ids)

\* Counting from any index, every stream is met before the first is met again.
LEMMA Meets ==
  ASSUME NEW S, NEW ids \in Seq(S), NEW q \in DOMAIN ids, NEW r \in Nat
  PROVE  \E d \in 0..(Len(ids) - 1) : IdIn(ids, r + d) = ids[q]
<1> DEFINE n == Len(ids)
           a == r % n
<1>1. n \in Nat \ {0} /\ q \in 1..n
  OBVIOUS
<1> HIDE DEF n
<1>2. a \in 0..(n - 1) /\ \A d \in Nat : (a + d) % n = (r + d) % n
  BY <1>1, RemainderFacts
<1> HIDE DEF a
<1>3. \E d \in 0..(n - 1) : (r + d) % n = q - 1
  <2>1. CASE a <= q - 1
    <3>1. (q - 1) - a \in 0..(n - 1) /\ a + ((q - 1) - a) = q - 1 /\ q - 1 \in Nat /\ q - 1 < n
      BY <1>1, <1>2, <2>1
    <3>2. (r + ((q - 1) - a)) % n = (q - 1) % n
      <4>1. (q - 1) - a \in Nat
        BY <3>1
      <4>2. (a + ((q - 1) - a)) % n = (r + ((q - 1) - a)) % n
        BY <1>2, <4>1
      <4> QED  BY <3>1, <4>2
    <3>3. (q - 1) % n = q - 1
      BY <1>1, <3>1, RemainderFacts
    <3> QED  BY <3>1, <3>2, <3>3
  <2>2. CASE q - 1 < a
    <3> DEFINE d == ((q - 1) + n) - a
    <3>1. d \in 0..(n - 1) /\ d \in Nat /\ a + d = (q - 1) + n /\ q - 1 \in Nat /\ q - 1 < n
      BY <1>1, <1>2, <2>2, SMTT(60)
    <3> HIDE DEF d
    <3>2. (r + d) % n = ((q - 1) + n) % n
      <4>1. (a + d) % n = (r + d) % n
        BY <1>2, <3>1
      <4> QED  BY <3>1, <4>1
    <3>3. ((q - 1) + n) % n = (q - 1) % n /\ (q - 1) % n = q - 1
      BY <1>1, <3>1, RemainderFacts
    <3> QED  BY <3>1, <3>2, <3>3
  <2> QED  BY <1>1, <1>2, <2>1, <2>2
<1>4. PICK d \in 0..(n - 1) : (r + d) % n = q - 1
  BY <1>3
<1>5. (q - 1) + 1 = q
  BY <1>1
<1>6. IdIn(ids, r + d) = ids[q]
  BY <1>4, <1>5 DEF IdIn, n
<1> QED  BY <1>6 DEF n

LEMMA MeetsTurn ==
  ASSUME NEW S, NEW ids \in Seq(S), NEW q \in DOMAIN ids, NEW r \in Nat
  PROVE  OnTurn(ids, r, 0, ids[q])
<1>1. PICK d \in 0..(Len(ids) - 1) : IdIn(ids, r + d) = ids[q]
  BY Meets
<1>2. Len(ids) \in Nat
  OBVIOUS
<1>3. d \in Nat /\ 0 + d < Len(ids)
  BY <1>2
<1> QED  BY <1>1, <1>3 DEF OnTurn

\* An index may be reduced.
LEMMA TurnReduced ==
  ASSUME NEW S, NEW ids \in Seq(S), ids # <<>>, NEW r \in Nat, NEW p, NEW s, OnTurn(ids, r, p, s)
  PROVE  OnTurn(ids, r % Len(ids), p, s)
<1>1. PICK d \in Nat : IdIn(ids, r + d) = s /\ p + d < Len(ids)
  BY DEF OnTurn
<1>2. Len(ids) \in Nat \ {0}
  OBVIOUS
<1>3. ((r % Len(ids)) + d) % Len(ids) = (r + d) % Len(ids)
  BY <1>2, RemainderFacts
<1>4. IdIn(ids, (r % Len(ids)) + d) = s
  BY <1>1, <1>3 DEF IdIn
<1> QED  BY <1>1, <1>4 DEF OnTurn

\* Streams other than s were counted off.
LEMMA TurnPast ==
  ASSUME NEW ids, Len(ids) \in Nat, NEW r \in Nat, NEW p \in Nat, NEW s, OnTurn(ids, r, p, s),
         NEW t \in Nat, \A i \in r..(r + t - 1) : IdIn(ids, i) # s
  PROVE  /\ OnTurn(ids, r + t, p, s)
         /\ t > 0 => OnTurn(ids, r + t, p + 1, s)
<1>1. PICK d \in Nat : IdIn(ids, r + d) = s /\ p + d < Len(ids)
  BY DEF OnTurn
<1>2. d >= t
  <2>1. d < t => r + d \in r..(r + t - 1)
    OBVIOUS
  <2> QED  BY <1>1, <2>1
<1>3. /\ d - t \in Nat /\ (r + t) + (d - t) = r + d /\ p + (d - t) < Len(ids)
      /\ t > 0 => (p + 1) + (d - t) < Len(ids)
  BY <1>1, <1>2
<1>4. IdIn(ids, (r + t) + (d - t)) = s
  BY <1>1, <1>3
<1> QED  BY <1>3, <1>4 DEF OnTurn

\* A stream was added behind the others.
LEMMA TurnAdded ==
  ASSUME NEW S, NEW ids \in Seq(S), NEW x \in S, NEW r \in Nat, r < Len(ids) \/ r = 0,
         NEW p \in Nat, NEW s, OnTurn(ids, r, p, s)
  PROVE  OnTurn(Append(ids, x), r, p, s)
<1> DEFINE n == Len(ids)
           more == Append(ids, x)
<1>1. n \in Nat /\ Len(more) = n + 1 /\ \A i \in 1..n : more[i] = ids[i]
      /\ (r < n \/ r = 0)
  OBVIOUS
<1>2. PICK d \in Nat : IdIn(ids, r + d) = s /\ p + d < n
  BY DEF OnTurn
<1> HIDE DEF n, more
<1>3. n \in Nat \ {0} /\ n + 1 \in Nat \ {0} /\ r < n /\ r + d \in Nat /\ d < n
  BY <1>1, <1>2
<1>4. CASE r + d < n
  <2>0. r + d < n + 1
    BY <1>3, <1>4
  <2>1. (r + d) % n = r + d /\ (r + d) % (n + 1) = r + d
    <3>1. (r + d) % n = r + d
      BY <1>3, <1>4, RemainderFacts
    <3>2. (r + d) % (n + 1) = r + d
      BY <1>3, <2>0, RemainderFacts
    <3> QED  BY <3>1, <3>2
  <2>2. (r + d) + 1 \in 1..n
    BY <1>3, <1>4
  <2>3. IdIn(more, r + d) = s
    <3>1. IdIn(more, r + d) = more[(r + d) + 1] /\ IdIn(ids, r + d) = ids[(r + d) + 1]
      BY <1>1, <2>1 DEF IdIn, n
    <3> QED  BY <1>1, <1>2, <2>2, <3>1
  <2>4. p + d < n + 1
    BY <1>1, <1>2
  <2> QED  BY <1>1, <2>3, <2>4 DEF OnTurn, more
<1>5. CASE ~(r + d < n)
  <2> DEFINE e == (r + d) - n
  <2>1. e \in Nat /\ e < n /\ e < n + 1 /\ r + d = e + n /\ r + (d + 1) = e + (n + 1) /\ e + 1 \in 1..n
    BY <1>3, <1>5
  <2> HIDE DEF e
  <2>2. (e + n) % n = e % n /\ e % n = e
    BY <1>3, <2>1, RemainderFacts
  <2>3. (e + (n + 1)) % (n + 1) = e % (n + 1) /\ e % (n + 1) = e
    BY <1>3, <2>1, RemainderFacts
  <2>4. (r + d) % n = e /\ (r + (d + 1)) % (n + 1) = e
    BY <2>1, <2>2, <2>3
  <2>5. IdIn(more, r + (d + 1)) = s
    BY <1>1, <1>2, <2>1, <2>4, SMTT(60) DEF IdIn, n
  <2>6. d + 1 \in Nat /\ p + (d + 1) < n + 1
    BY <1>1, <1>2, SMTT(60)
  <2> QED  BY <1>1, <2>5, <2>6 DEF OnTurn, more
<1> QED  BY <1>4, <1>5

-----------------------------------------------------------------------------
\* The inductive invariant.
Fresh(t) == passed[t] <= reads /\ (buffers[t] = <<>> => passed[t] = 0)
Turns == \A t \in Mux!Added : Mux!TakesTurns(t) => OnTurn(streamIds, robin, passed[t], t)
MuxSafe ==
  /\ Mux!TypeOK /\ Turns
  /\ \A t \in Inputs : Fresh(t) /\ (mode = "TimeOrdered" => Ordered(buffers[t]))

LEMMA MuxConstants ==
  ASSUME Mux!MuxAssumption
  PROVE  /\ IsFiniteSet(Inputs) /\ Stamps \subseteq Nat /\ BufferSize \in Nat \ {0}
         /\ MaxPushes \in Nat /\ MaxReads \in Nat
BY MuxSets DEF Mux!MuxAssumption

LEMMA MuxTypes ==
  ASSUME Mux!MuxAssumption, MuxSafe
  PROVE  /\ mode \in MuxStrategies /\ shares \in Weightings /\ shares \in [Inputs -> Nat]
         /\ buffers \in [Inputs -> Seq(Stamps)] /\ \A t \in Inputs : Len(buffers[t]) <= BufferSize
         /\ streamIds \in Seq(Inputs) /\ Len(streamIds) \in Nat
         /\ Mux!Added = {streamIds[i] : i \in DOMAIN streamIds} /\ Mux!Added \subseteq Inputs
         /\ \A t \in Inputs : buffers[t] # <<>> => t \in Mux!Added
         /\ \A i, j \in DOMAIN streamIds : streamIds[i] = streamIds[j] => i = j
         /\ robin \in Nat /\ (mode # "Weighted" => robin < Len(streamIds) \/ robin = 0)
         /\ pushes \in 0..MaxPushes /\ reads \in 0..MaxReads /\ reads \in Nat
         /\ passed \in [Inputs -> 0..MaxReads] /\ \A t \in Inputs : passed[t] \in Nat
<1>1. Mux!TypeOK
  BY DEF MuxSafe
<1>2. mode \in MuxStrategies /\ shares \in Weightings /\ shares \in [Inputs -> Nat]
  BY <1>1 DEF Mux!TypeOK, Mux!MuxAssumption
<1>3. /\ buffers \in [Inputs -> Seq(Stamps)] /\ \A t \in Inputs : Len(buffers[t]) <= BufferSize
      /\ streamIds \in Seq(Inputs)
  BY <1>1 DEF Mux!TypeOK
<1>4. Len(streamIds) \in Nat
  BY <1>3
<1>5. Mux!Added = {streamIds[i] : i \in DOMAIN streamIds}
  BY DEF Mux!Added, Mux!ToSet
<1>6. Mux!Added \subseteq Inputs
  BY <1>3, <1>5
<1>7. \A t \in Inputs : buffers[t] # <<>> => t \in Mux!Added
  BY <1>1 DEF Mux!TypeOK, Mux!Waiting, Mux!HasSample
<1>8. \A i, j \in DOMAIN streamIds : streamIds[i] = streamIds[j] => i = j
  BY <1>1 DEF Mux!TypeOK, Mux!IsInjective
<1>9. robin \in Nat /\ (mode # "Weighted" => robin < Len(streamIds) \/ robin = 0)
  BY <1>1 DEF Mux!TypeOK, Mux!Count
<1>10. /\ pushes \in 0..MaxPushes /\ reads \in 0..MaxReads /\ passed \in [Inputs -> 0..MaxReads]
  BY <1>1 DEF Mux!TypeOK
<1>11. reads \in Nat /\ \A t \in Inputs : passed[t] \in Nat
  BY <1>10, MuxConstants
<1> QED  BY <1>2, <1>3, <1>4, <1>5, <1>6, <1>7, <1>8, <1>9, <1>10, <1>11

\* The next state's types, from those of its variables.
LEMMA MuxTyped ==
  ASSUME mode' \in MuxStrategies, shares' \in Weightings,
         buffers' \in [Inputs -> Seq(Stamps)], \A t \in Inputs : Len(buffers'[t]) <= BufferSize,
         streamIds' \in Seq(Inputs),
         \A i, j \in DOMAIN streamIds' : streamIds'[i] = streamIds'[j] => i = j,
         \A t \in Inputs : buffers'[t] # <<>> => t \in Mux!Added',
         robin' \in Nat, mode' # "Weighted" => robin' < Len(streamIds') \/ robin' = 0,
         pushes' \in 0..MaxPushes, reads' \in 0..MaxReads, passed' \in [Inputs -> 0..MaxReads]
  PROVE  Mux!TypeOK'
<1>1. Mux!IsInjective(streamIds')
  BY DEF Mux!IsInjective
<1>2. (Mux!Waiting \subseteq Mux!Added)'
  BY DEF Mux!Waiting, Mux!HasSample
<1> QED  BY <1>1, <1>2 DEF Mux!TypeOK, Mux!Count

\* The streams and their weights stay.
LEMMA SameStreams ==
  ASSUME UNCHANGED <<mode, shares, streamIds>>
  PROVE  /\ Mux!Added' = Mux!Added /\ Mux!Count' = Mux!Count
         /\ \A t : Mux!TakesTurns(t)' <=> Mux!TakesTurns(t)
BY DEF Mux!Added, Mux!Count, Mux!TakesTurns, Mux!TotalWeight, Mux!Cardinality, Mux!IsFiniteSet

LEMMA MuxInitial ==
  ASSUME Mux!MuxAssumption, Mux!Init
  PROVE  MuxSafe
<1> USE DEF Mux!Init
<1>1. <<>> \in Seq(Stamps) /\ Len(<<>>) = 0 /\ <<>> \in Seq(Inputs) /\ DOMAIN <<>> = {}
  OBVIOUS
<1>2. /\ BufferSize \in Nat \ {0} /\ MaxPushes \in Nat /\ MaxReads \in Nat
  BY MuxConstants
<1>3. Mux!Added = {}
  BY <1>1 DEF Mux!Added, Mux!ToSet
<1>4. Mux!TypeOK
  <2>1. Mux!IsInjective(streamIds)
    BY <1>1 DEF Mux!IsInjective
  <2>2. Mux!Waiting \subseteq Mux!Added
    BY DEF Mux!Waiting, Mux!HasSample
  <2>3. buffers \in [Inputs -> Seq(Stamps)] /\ \A t \in Inputs : Len(buffers[t]) <= BufferSize
    BY <1>1, <1>2
  <2>4. pushes \in 0..MaxPushes /\ reads \in 0..MaxReads /\ passed \in [Inputs -> 0..MaxReads]
    BY <1>2
  <2>5. streamIds \in Seq(Inputs)
    BY <1>1
  <2> QED  BY <2>1, <2>2, <2>3, <2>4, <2>5 DEF Mux!TypeOK
<1>5. Turns
  BY <1>3 DEF Turns
<1>6. \A t \in Inputs : Fresh(t) /\ Ordered(buffers[t])
  BY <1>1 DEF Fresh, Ordered
<1> QED  BY <1>4, <1>5, <1>6 DEF MuxSafe

\* Wherever the index stands, a stream that no read has passed over is on its turn.
LEMMA NewTurn ==
  ASSUME NEW ids \in Seq(Inputs), NEW r \in Nat, NEW t \in {ids[i] : i \in DOMAIN ids}
  PROVE  OnTurn(ids, r, 0, t)
<1>1. PICK q \in DOMAIN ids : t = ids[q]
  OBVIOUS
<1>2. OnTurn(ids, r, 0, ids[q])
  BY MeetsTurn
<1> QED  BY <1>1, <1>2

LEMMA AddStreamKeeps ==
  ASSUME Mux!MuxAssumption, MuxSafe, NEW x \in Inputs, Mux!AddStream(x)
  PROVE  MuxSafe'
<1>1. /\ x \notin Mux!Added /\ streamIds' = Append(streamIds, x)
      /\ passed' = (IF mode = "Weighted" THEN [t \in Inputs |-> 0] ELSE passed)
      /\ UNCHANGED <<mode, shares, buffers, robin, pushes, reads>>
  BY DEF Mux!AddStream, Mux!config
<1>2. /\ streamIds' \in Seq(Inputs) /\ Len(streamIds') = Len(streamIds) + 1
      /\ DOMAIN streamIds = 1..Len(streamIds) /\ DOMAIN streamIds' = 1..(Len(streamIds) + 1)
      /\ \A i \in 1..Len(streamIds) : streamIds'[i] = streamIds[i]
      /\ streamIds'[Len(streamIds) + 1] = x /\ Len(streamIds) \in Nat
  <2>1. streamIds \in Seq(Inputs)
    BY MuxTypes
  <2> QED  BY <1>1, <2>1
<1>3. Mux!Added' = {streamIds'[i] : i \in DOMAIN streamIds'}
  BY DEF Mux!Added, Mux!ToSet
<1>4. Mux!Added' = Mux!Added \cup {x}
  <2>1. Mux!Added = {streamIds[i] : i \in DOMAIN streamIds}
    BY MuxTypes
  <2>2. ASSUME NEW t \in Mux!Added' PROVE t \in Mux!Added \cup {x}
    <3>1. PICK i \in 1..(Len(streamIds) + 1) : t = streamIds'[i]
      BY <1>2, <1>3
    <3>2. i \in 1..Len(streamIds) \/ i = Len(streamIds) + 1
      BY <1>2
    <3> QED  BY <1>2, <2>1, <3>1, <3>2
  <2>3. ASSUME NEW t \in Mux!Added PROVE t \in Mux!Added'
    <3>1. PICK i \in 1..Len(streamIds) : t = streamIds[i]
      BY <1>2, <2>1
    <3>2. i \in 1..(Len(streamIds) + 1)
      BY <1>2, <3>1
    <3> QED  BY <1>2, <1>3, <3>1, <3>2
  <2>4. x \in Mux!Added'
    <3>1. Len(streamIds) + 1 \in 1..(Len(streamIds) + 1)
      BY <1>2
    <3> QED  BY <1>2, <1>3, <3>1
  <2> QED  BY <2>2, <2>3, <2>4
<1>5. \A i, j \in DOMAIN streamIds' : streamIds'[i] = streamIds'[j] => i = j
  <2>1. \A i, j \in 1..Len(streamIds) : streamIds[i] = streamIds[j] => i = j
    BY <1>2, MuxTypes
  <2>2. \A i \in 1..Len(streamIds) : streamIds[i] # x
    <3>1. Mux!Added = {streamIds[i] : i \in DOMAIN streamIds}
      BY MuxTypes
    <3> QED  BY <1>1, <1>2, <3>1
  <2>3. \A i \in DOMAIN streamIds' : i \in 1..Len(streamIds) \/ i = Len(streamIds) + 1
    BY <1>2
  <2> QED  BY <1>2, <2>1, <2>2, <2>3
<1>6. Mux!TypeOK'
  <2>1. mode' \in MuxStrategies /\ shares' \in Weightings
    BY <1>1, MuxTypes
  <2>2. buffers' \in [Inputs -> Seq(Stamps)] /\ \A t \in Inputs : Len(buffers'[t]) <= BufferSize
    BY <1>1, MuxTypes
  <2>3. \A t \in Inputs : buffers'[t] # <<>> => t \in Mux!Added'
    BY <1>1, <1>4, MuxTypes
  <2>4. robin' \in Nat /\ (mode' # "Weighted" => robin' < Len(streamIds') \/ robin' = 0)
    <3>1. robin \in Nat /\ (mode # "Weighted" => robin < Len(streamIds) \/ robin = 0)
      BY MuxTypes
    <3> QED  BY <1>1, <1>2, <3>1
  <2>5. pushes' \in 0..MaxPushes /\ reads' \in 0..MaxReads
    BY <1>1, MuxTypes
  <2>6. passed' \in [Inputs -> 0..MaxReads]
    <3>1. CASE mode = "Weighted"
      BY <1>1, <3>1, MuxConstants
    <3>2. CASE mode # "Weighted"
      BY <1>1, <3>2, MuxTypes
    <3> QED  BY <3>1, <3>2
  <2> QED  BY <1>2, <1>5, <2>1, <2>2, <2>3, <2>4, <2>5, <2>6, MuxTyped
<1>7. Turns'
  <2> SUFFICES ASSUME NEW t \in Mux!Added', Mux!TakesTurns(t)'
               PROVE  OnTurn(streamIds', robin', passed'[t], t)
    BY DEF Turns
  <2>1. mode = "Weighted" \/ mode = "RoundRobin"
    BY <1>1 DEF Mux!TakesTurns
  <2>2. t \in Inputs /\ robin \in Nat /\ passed[t] \in Nat /\ streamIds \in Seq(Inputs)
    BY <1>4, MuxTypes
  <2>3. OnTurn(streamIds', robin, 0, t)
    BY <1>2, <1>3, <2>2, NewTurn
  <2>4. CASE mode = "Weighted" \/ t = x
    <3>1. passed'[t] = 0
      <4>1. CASE mode = "Weighted"
        BY <1>1, <2>2, <4>1
      <4>2. CASE mode # "Weighted"
        <5>1. t = x /\ passed' = passed /\ buffers[t] = <<>>
          BY <1>1, <2>4, <4>2, MuxTypes
        <5> QED  BY <5>1, <2>2 DEF MuxSafe, Fresh
      <4> QED  BY <4>1, <4>2
    <3> QED  BY <1>1, <2>3, <3>1
  <2>5. CASE mode # "Weighted" /\ t # x
    <3>1. t \in Mux!Added /\ Mux!TakesTurns(t) /\ passed' = passed
      BY <1>1, <1>4, <2>1, <2>5 DEF Mux!TakesTurns
    <3>2. OnTurn(streamIds, robin, passed[t], t)
      BY <3>1 DEF MuxSafe, Turns
    <3>3. robin < Len(streamIds) \/ robin = 0
      BY <2>5, MuxTypes
    <3>4. OnTurn(Append(streamIds, x), robin, passed[t], t)
      BY <2>2, <3>2, <3>3, TurnAdded
    <3> QED  BY <1>1, <3>1, <3>4
  <2> QED  BY <2>4, <2>5
<1>8. ASSUME NEW t \in Inputs
      PROVE  Fresh(t)' /\ (mode' = "TimeOrdered" => Ordered(buffers'[t]))
  <2>1. Fresh(t) /\ (mode = "TimeOrdered" => Ordered(buffers[t])) /\ reads \in Nat
    BY MuxTypes DEF MuxSafe
  <2>2. passed'[t] = 0 \/ passed'[t] = passed[t]
    BY <1>1
  <2>3. Fresh(t)'
    BY <1>1, <2>1, <2>2 DEF Fresh
  <2> QED  BY <1>1, <2>1, <2>3
<1> QED  BY <1>6, <1>7, <1>8 DEF MuxSafe

\* A queue after push, which makes room first.
LEMMA Pushed ==
  ASSUME Mux!MuxAssumption, NEW q \in Seq(Stamps), Len(q) <= BufferSize, NEW x \in Stamps
  PROVE  /\ Mux!MadeRoom(q) \in Seq(Stamps) /\ Len(Mux!MadeRoom(q)) \in Nat
         /\ Len(Mux!MadeRoom(q)) + 1 <= BufferSize
         /\ Ordered(q) => Ordered(Mux!MadeRoom(q))
<1>1. BufferSize \in Nat \ {0} /\ Stamps \subseteq Nat
  BY MuxConstants
<1>2. Len(q) \in Nat
  OBVIOUS
<1>3. CASE Len(q) >= BufferSize
  <2>1. Mux!MadeRoom(q) = Tail(q)
    BY <1>3 DEF Mux!MadeRoom
  <2>2. q # <<>>
    <3>1. q = <<>> => Len(q) = 0
      OBVIOUS
    <3> QED  BY <1>1, <1>2, <1>3, <3>1
  <2>3. Tail(q) \in Seq(Stamps) /\ Len(Tail(q)) = Len(q) - 1
    BY <2>2
  <2>4. Len(q) - 1 \in Nat /\ (Len(q) - 1) + 1 <= BufferSize
    BY <1>1, <1>2, <1>3
  <2>5. Ordered(q) => Ordered(Tail(q))
    BY <2>2, TailOrdered
  <2> QED  BY <2>1, <2>3, <2>4, <2>5
<1>4. CASE ~(Len(q) >= BufferSize)
  <2>1. Mux!MadeRoom(q) = q
    BY <1>4 DEF Mux!MadeRoom
  <2>2. Len(q) + 1 <= BufferSize
    BY <1>1, <1>2, <1>4
  <2> QED  BY <1>2, <2>1, <2>2
<1> QED  BY <1>3, <1>4

LEMMA PushKeeps ==
  ASSUME Mux!MuxAssumption, MuxSafe, NEW x \in Inputs, NEW stamp \in Stamps, Mux!Push(x, stamp)
  PROVE  MuxSafe'
<1> DEFINE q == Mux!MadeRoom(buffers[x])
           new == IF mode = "TimeOrdered" THEN Mux!InsertedByTime(q, stamp) ELSE Append(q, stamp)
<1>1. /\ x \in Mux!Added /\ pushes < MaxPushes /\ pushes' = pushes + 1
      /\ buffers' = [buffers EXCEPT ![x] = new]
      /\ UNCHANGED <<mode, shares, streamIds, robin, reads, passed>>
  BY DEF Mux!Push, Mux!config
<1>2. /\ q \in Seq(Stamps) /\ Len(q) \in Nat /\ Len(q) + 1 <= BufferSize
      /\ mode = "TimeOrdered" => Ordered(q)
  <2>1. buffers[x] \in Seq(Stamps) /\ Len(buffers[x]) <= BufferSize
    BY MuxTypes
  <2>2. mode = "TimeOrdered" => Ordered(buffers[x])
    BY DEF MuxSafe
  <2> QED  BY <2>1, <2>2, Pushed
<1> HIDE DEF q
<1>3. new \in Seq(Stamps) /\ Len(new) = Len(q) + 1 /\ (mode = "TimeOrdered" => Ordered(new))
  <2>1. CASE mode = "TimeOrdered"
    <3>1. Stamps \subseteq Nat
      BY MuxConstants
    <3> QED  BY <1>2, <2>1, <3>1, InsertOrdered
  <2>2. CASE mode # "TimeOrdered"
    <3>1. Append(q, stamp) \in Seq(Stamps) /\ Len(Append(q, stamp)) = Len(q) + 1
      BY <1>2
    <3> QED  BY <2>2, <3>1
  <2> QED  BY <2>1, <2>2
<1> HIDE DEF new
<1>4. new # <<>> /\ Len(new) <= BufferSize
  <2>1. Len(<<>>) = 0
    OBVIOUS
  <2> QED  BY <1>2, <1>3, <2>1
<1>5. buffers \in [Inputs -> Seq(Stamps)] /\ \A t \in Inputs : Len(buffers[t]) <= BufferSize
  BY MuxTypes
<1>6. /\ buffers' \in [Inputs -> Seq(Stamps)] /\ buffers'[x] = new
      /\ \A t \in Inputs : t # x => buffers'[t] = buffers[t]
  BY <1>1, <1>3, <1>5
<1>7. Mux!TypeOK'
  <2>1. mode' \in MuxStrategies /\ shares' \in Weightings
    BY <1>1, MuxTypes
  <2>2. \A t \in Inputs : Len(buffers'[t]) <= BufferSize
    BY <1>4, <1>5, <1>6
  <2>3. /\ streamIds' \in Seq(Inputs)
        /\ \A i, j \in DOMAIN streamIds' : streamIds'[i] = streamIds'[j] => i = j
    BY <1>1, MuxTypes
  <2>4. \A t \in Inputs : buffers'[t] # <<>> => t \in Mux!Added'
    <3>1. Mux!Added' = Mux!Added
      BY <1>1, SameStreams
    <3>2. \A t \in Inputs : buffers[t] # <<>> => t \in Mux!Added
      BY MuxTypes
    <3> QED  BY <1>1, <1>6, <3>1, <3>2
  <2>5. robin' \in Nat /\ (mode' # "Weighted" => robin' < Len(streamIds') \/ robin' = 0)
    <3>1. robin \in Nat /\ (mode # "Weighted" => robin < Len(streamIds) \/ robin = 0)
      BY MuxTypes
    <3> QED  BY <1>1, <3>1
  <2>6. pushes' \in 0..MaxPushes
    <3>1. pushes \in 0..MaxPushes /\ MaxPushes \in Nat
      BY MuxTypes, MuxConstants
    <3> QED  BY <1>1, <3>1
  <2>7. reads' \in 0..MaxReads /\ passed' \in [Inputs -> 0..MaxReads]
    BY <1>1, MuxTypes
  <2> QED  BY <1>6, <2>1, <2>2, <2>3, <2>4, <2>5, <2>6, <2>7, MuxTyped
<1>8. Turns'
  <2> SUFFICES ASSUME NEW t \in Mux!Added', Mux!TakesTurns(t)'
               PROVE  OnTurn(streamIds', robin', passed'[t], t)
    BY DEF Turns
  <2>1. t \in Mux!Added /\ Mux!TakesTurns(t)
    BY <1>1, SameStreams
  <2>2. OnTurn(streamIds, robin, passed[t], t)
    BY <2>1 DEF MuxSafe, Turns
  <2> QED  BY <1>1, <2>2
<1>9. ASSUME NEW t \in Inputs
      PROVE  Fresh(t)' /\ (mode' = "TimeOrdered" => Ordered(buffers'[t]))
  <2>1. Fresh(t) /\ (mode = "TimeOrdered" => Ordered(buffers[t]))
    BY DEF MuxSafe
  <2>2. buffers'[t] = <<>> => buffers[t] = <<>>
    BY <1>4, <1>6
  <2>3. Fresh(t)'
    BY <1>1, <2>1, <2>2 DEF Fresh
  <2>4. mode' = "TimeOrdered" => Ordered(buffers'[t])
    BY <1>1, <1>3, <1>6, <2>1
  <2> QED  BY <2>3, <2>4
<1> QED  BY <1>7, <1>8, <1>9 DEF MuxSafe

LEMMA ClearKeeps ==
  ASSUME Mux!MuxAssumption, MuxSafe, Mux!Clear
  PROVE  MuxSafe'
<1>1. /\ buffers' = [t \in Inputs |-> <<>>] /\ passed' = [t \in Inputs |-> 0]
      /\ UNCHANGED <<mode, shares, streamIds, robin, pushes, reads>>
  BY DEF Mux!Clear, Mux!config
<1>2. <<>> \in Seq(Stamps) /\ Len(<<>>) = 0 /\ DOMAIN <<>> = {}
  OBVIOUS
<1>3. Mux!TypeOK'
  <2>1. mode' \in MuxStrategies /\ shares' \in Weightings
    BY <1>1, MuxTypes
  <2>2. /\ buffers' \in [Inputs -> Seq(Stamps)] /\ \A t \in Inputs : Len(buffers'[t]) <= BufferSize
        /\ \A t \in Inputs : buffers'[t] # <<>> => t \in Mux!Added'
    BY <1>1, <1>2, MuxConstants
  <2>3. /\ streamIds' \in Seq(Inputs)
        /\ \A i, j \in DOMAIN streamIds' : streamIds'[i] = streamIds'[j] => i = j
    BY <1>1, MuxTypes
  <2>4. robin' \in Nat /\ (mode' # "Weighted" => robin' < Len(streamIds') \/ robin' = 0)
    <3>1. robin \in Nat /\ (mode # "Weighted" => robin < Len(streamIds) \/ robin = 0)
      BY MuxTypes
    <3> QED  BY <1>1, <3>1
  <2>5. pushes' \in 0..MaxPushes /\ reads' \in 0..MaxReads
    BY <1>1, MuxTypes
  <2>6. passed' \in [Inputs -> 0..MaxReads]
    BY <1>1, MuxConstants
  <2> QED  BY <2>1, <2>2, <2>3, <2>4, <2>5, <2>6, MuxTyped
<1>4. Turns'
  <2> SUFFICES ASSUME NEW t \in Mux!Added', Mux!TakesTurns(t)'
               PROVE  OnTurn(streamIds', robin', passed'[t], t)
    BY DEF Turns
  <2>1. t \in Mux!Added
    BY <1>1, SameStreams
  <2>2. t \in Inputs /\ t \in {streamIds[i] : i \in DOMAIN streamIds} /\ robin \in Nat
        /\ streamIds \in Seq(Inputs)
    BY <2>1, MuxTypes
  <2>3. OnTurn(streamIds, robin, 0, t)
    BY <2>2, NewTurn
  <2> QED  BY <1>1, <2>2, <2>3
<1>5. ASSUME NEW t \in Inputs
      PROVE  Fresh(t)' /\ (mode' = "TimeOrdered" => Ordered(buffers'[t]))
  <2>1. reads \in Nat
    BY MuxTypes
  <2>2. Fresh(t)'
    BY <1>1, <2>1 DEF Fresh
  <2> QED  BY <1>1, <1>2, <2>2 DEF Ordered
<1> QED  BY <1>3, <1>4, <1>5 DEF MuxSafe

\* What every read leaves as it is, and where the index may go.
ReadFrame ==
  /\ reads < MaxReads /\ reads' = reads + 1 /\ UNCHANGED <<mode, shares, streamIds, pushes>>
  /\ robin' \in Nat /\ (mode # "Weighted" => robin' < Len(streamIds) \/ robin' = 0)

LEMMA ReadTyped ==
  ASSUME Mux!MuxAssumption, MuxSafe, ReadFrame,
         buffers' \in [Inputs -> Seq(Stamps)], \A t \in Inputs : Len(buffers'[t]) <= BufferSize,
         \A t \in Inputs : buffers'[t] # <<>> => buffers[t] # <<>>,
         passed' \in [Inputs -> 0..MaxReads]
  PROVE  Mux!TypeOK'
<1>1. mode' \in MuxStrategies /\ shares' \in Weightings
  BY MuxTypes DEF ReadFrame
<1>2. /\ streamIds' \in Seq(Inputs)
      /\ \A i, j \in DOMAIN streamIds' : streamIds'[i] = streamIds'[j] => i = j
  BY MuxTypes DEF ReadFrame
<1>3. \A t \in Inputs : buffers'[t] # <<>> => t \in Mux!Added'
  <2>1. Mux!Added' = Mux!Added
    BY SameStreams DEF ReadFrame
  <2>2. \A t \in Inputs : buffers[t] # <<>> => t \in Mux!Added
    BY MuxTypes
  <2> QED  BY <2>1, <2>2
<1>4. robin' \in Nat /\ (mode' # "Weighted" => robin' < Len(streamIds') \/ robin' = 0)
  BY DEF ReadFrame
<1>5. pushes' \in 0..MaxPushes
  BY MuxTypes DEF ReadFrame
<1>6. reads' \in 0..MaxReads
  <2>1. reads \in 0..MaxReads /\ MaxReads \in Nat
    BY MuxTypes, MuxConstants
  <2> QED  BY <2>1 DEF ReadFrame
<1> QED  BY <1>1, <1>2, <1>3, <1>4, <1>5, <1>6, MuxTyped

\* A read that returns a sample of x, where the streams that wait come nearer to their turn.
LEMMA ReturnKeeps ==
  ASSUME Mux!MuxAssumption, MuxSafe, ReadFrame, NEW x \in Inputs, buffers[x] # <<>>,
         Mux!Return(x),
         \A t \in Mux!Added : Mux!TakesTurns(t) /\ t # x /\ buffers[t] # <<>>
                                => OnTurn(streamIds, robin', passed[t] + 1, t)
  PROVE  /\ MuxSafe'
         /\ Mux!Taken(x) /\ buffers' = [buffers EXCEPT ![x] = Tail(@)]
<1>1. /\ buffers' = [buffers EXCEPT ![x] = Tail(@)]
      /\ passed' = [t \in Inputs |-> IF t # x /\ buffers[t] # <<>> THEN passed[t] + 1 ELSE 0]
  BY DEF Mux!Return, Mux!HasSample
<1>2. buffers \in [Inputs -> Seq(Stamps)] /\ \A t \in Inputs : Len(buffers[t]) <= BufferSize
  BY MuxTypes
<1>3. BufferSize \in Nat \ {0} /\ MaxReads \in Nat /\ reads \in 0..MaxReads /\ reads < MaxReads
  BY MuxConstants, MuxTypes DEF ReadFrame
<1>4. /\ Tail(buffers[x]) \in Seq(Stamps) /\ Len(Tail(buffers[x])) = Len(buffers[x]) - 1
      /\ Len(buffers[x]) \in Nat \ {0}
  BY <1>2
<1>5. /\ buffers' \in [Inputs -> Seq(Stamps)] /\ buffers'[x] = Tail(buffers[x])
      /\ \A t \in Inputs : t # x => buffers'[t] = buffers[t]
  BY <1>1, <1>2, <1>4
<1>6. Mux!Taken(x)
  <2>1. Len(buffers'[x]) < Len(buffers[x])
    BY <1>4, <1>5
  <2> QED  BY <2>1 DEF Mux!Taken
<1>7. \A t \in Inputs : passed[t] \in Nat /\ passed[t] <= reads /\ (buffers[t] = <<>> => passed[t] = 0)
  BY MuxTypes DEF MuxSafe, Fresh
<1>8. \A t \in Inputs : buffers'[t] # <<>> => buffers[t] # <<>>
  BY <1>5
<1>9. Mux!TypeOK'
  <2>1. \A t \in Inputs : Len(buffers'[t]) <= BufferSize
    <3>1. Len(buffers'[x]) <= BufferSize
      <4>1. Len(buffers[x]) <= BufferSize
        BY <1>2
      <4> QED  BY <1>3, <1>4, <1>5, <4>1
    <3> QED  BY <1>2, <1>5, <3>1
  <2>2. passed' \in [Inputs -> 0..MaxReads]
    <3>1. \A t \in Inputs : (IF t # x /\ buffers[t] # <<>> THEN passed[t] + 1 ELSE 0) \in 0..MaxReads
      BY <1>3, <1>7
    <3> QED  BY <1>1, <3>1
  <2> QED  BY <1>5, <1>8, <2>1, <2>2, ReadTyped
<1>10. Turns'
  <2> SUFFICES ASSUME NEW t \in Mux!Added', Mux!TakesTurns(t)'
               PROVE  OnTurn(streamIds', robin', passed'[t], t)
    BY DEF Turns
  <2>1. t \in Mux!Added /\ Mux!TakesTurns(t) /\ streamIds' = streamIds
    BY SameStreams DEF ReadFrame
  <2>2. t \in Inputs /\ t \in {streamIds[i] : i \in DOMAIN streamIds} /\ streamIds \in Seq(Inputs)
    BY <2>1, MuxTypes
  <2>3. CASE t # x /\ buffers[t] # <<>>
    <3>1. passed'[t] = passed[t] + 1
      BY <1>1, <2>2, <2>3
    <3>2. OnTurn(streamIds, robin', passed[t] + 1, t)
      BY <2>1, <2>3
    <3> QED  BY <2>1, <3>1, <3>2
  <2>4. CASE ~(t # x /\ buffers[t] # <<>>)
    <3>1. passed'[t] = 0
      BY <1>1, <2>2, <2>4
    <3>2. robin' \in Nat
      BY DEF ReadFrame
    <3>3. OnTurn(streamIds, robin', 0, t)
      BY <2>2, <3>2, NewTurn
    <3> QED  BY <2>1, <3>1, <3>3
  <2> QED  BY <2>3, <2>4
<1>11. ASSUME NEW t \in Inputs
       PROVE  Fresh(t)' /\ (mode' = "TimeOrdered" => Ordered(buffers'[t]))
  <2>1. passed[t] \in Nat /\ passed[t] <= reads /\ reads' = reads + 1 /\ reads \in Nat
    BY <1>3, <1>7 DEF ReadFrame
  <2>2. CASE t # x /\ buffers[t] # <<>>
    <3>1. passed'[t] = passed[t] + 1 /\ buffers'[t] = buffers[t]
      BY <1>1, <1>5, <2>2
    <3>2. Fresh(t)'
      BY <2>1, <2>2, <3>1 DEF Fresh
    <3>3. mode' = "TimeOrdered" => Ordered(buffers'[t])
      BY <3>1 DEF MuxSafe, ReadFrame
    <3> QED  BY <3>2, <3>3
  <2>3. CASE ~(t # x /\ buffers[t] # <<>>)
    <3>1. passed'[t] = 0
      BY <1>1, <2>3
    <3>2. Fresh(t)'
      BY <2>1, <3>1 DEF Fresh
    <3>3. mode = "TimeOrdered" => Ordered(buffers[t])
      BY DEF MuxSafe
    <3>4. mode = "TimeOrdered" => Ordered(buffers'[t])
      <4>1. CASE t = x
        <5>1. Ordered(buffers[x]) => Ordered(Tail(buffers[x]))
          BY <1>2, TailOrdered
        <5> QED  BY <1>5, <3>3, <4>1, <5>1
      <4>2. CASE t # x
        BY <1>5, <3>3, <4>2
      <4> QED  BY <4>1, <4>2
    <3> QED  BY <3>2, <3>4 DEF ReadFrame
  <2> QED  BY <2>2, <2>3
<1> QED  BY <1>1, <1>6, <1>9, <1>10, <1>11 DEF MuxSafe

\* A read that returns nothing.
LEMMA ReturnNoneKeeps ==
  ASSUME Mux!MuxAssumption, MuxSafe, ReadFrame, Mux!ReturnNone,
         \A t \in Mux!Added : Mux!TakesTurns(t) => OnTurn(streamIds, robin', passed[t], t)
  PROVE  MuxSafe' /\ UNCHANGED buffers
<1>1. UNCHANGED <<buffers, passed>>
  BY DEF Mux!ReturnNone
<1>2. Mux!TypeOK'
  <2>1. buffers' \in [Inputs -> Seq(Stamps)] /\ \A t \in Inputs : Len(buffers'[t]) <= BufferSize
    BY <1>1, MuxTypes
  <2>2. \A t \in Inputs : buffers'[t] # <<>> => buffers[t] # <<>>
    BY <1>1
  <2>3. passed' \in [Inputs -> 0..MaxReads]
    BY <1>1, MuxTypes
  <2> QED  BY <2>1, <2>2, <2>3, ReadTyped
<1>3. Turns'
  <2> SUFFICES ASSUME NEW t \in Mux!Added', Mux!TakesTurns(t)'
               PROVE  OnTurn(streamIds', robin', passed'[t], t)
    BY DEF Turns
  <2>1. t \in Mux!Added /\ Mux!TakesTurns(t) /\ streamIds' = streamIds
    BY SameStreams DEF ReadFrame
  <2>2. OnTurn(streamIds, robin', passed[t], t)
    BY <2>1
  <2> QED  BY <1>1, <2>1, <2>2
<1>4. ASSUME NEW t \in Inputs
      PROVE  Fresh(t)' /\ (mode' = "TimeOrdered" => Ordered(buffers'[t]))
  <2>1. passed[t] \in Nat /\ passed[t] <= reads /\ (buffers[t] = <<>> => passed[t] = 0)
        /\ reads' = reads + 1 /\ reads \in Nat
    BY MuxTypes DEF MuxSafe, Fresh, ReadFrame
  <2>2. Fresh(t)'
    BY <1>1, <2>1 DEF Fresh
  <2>3. mode' = "TimeOrdered" => Ordered(buffers'[t])
    BY <1>1 DEF MuxSafe, ReadFrame
  <2> QED  BY <2>2, <2>3
<1> QED  BY <1>1, <1>2, <1>3, <1>4 DEF MuxSafe

LEMMA IdIs == \A i : Mux!Id(i) = IdIn(streamIds, i)
BY DEF Mux!Id, Mux!Count, IdIn

\* Of the indices scanned, the first hit leaves the streams that wait nearer to their turn.
LEMMA FirstHit ==
  ASSUME Mux!MuxAssumption, MuxSafe, NEW w \in Nat, NEW hits \in SUBSET (robin..(robin + w - 1)),
         NEW m \in hits, \A i \in hits : m <= i,
         NEW t \in Mux!Added, Mux!TakesTurns(t), t # IdIn(streamIds, m),
         \A i \in robin..(robin + w - 1) : IdIn(streamIds, i) = t => i \in hits
  PROVE  OnTurn(streamIds, m + 1, passed[t] + 1, t)
<1>1. /\ robin \in Nat /\ Len(streamIds) \in Nat /\ t \in Inputs /\ passed[t] \in Nat
      /\ OnTurn(streamIds, robin, passed[t], t)
  <2>1. OnTurn(streamIds, robin, passed[t], t)
    BY DEF MuxSafe, Turns
  <2>2. t \in Inputs
    BY MuxTypes
  <2> QED  BY <2>1, <2>2, MuxTypes
<1> DEFINE k == (m + 1) - robin
<1>2. k \in Nat /\ k > 0 /\ robin + k = m + 1 /\ robin + k - 1 = m /\ m \in robin..(robin + w - 1)
  BY <1>1
<1> HIDE DEF k
<1>3. ASSUME NEW i \in robin..(robin + k - 1) PROVE IdIn(streamIds, i) # t
  <2>1. CASE i = m
    BY <2>1
  <2>2. CASE i # m
    <3>1. i \in robin..(robin + w - 1) /\ ~(m <= i)
      BY <1>1, <1>2, <2>2
    <3> QED  BY <3>1
  <2> QED  BY <2>1, <2>2
<1>4. OnTurn(streamIds, robin + k, passed[t] + 1, t)
  BY <1>1, <1>2, <1>3, TurnPast
<1> QED  BY <1>2, <1>4

\* Scanning as many indices as there are streams meets every stream.
LEMMA AllMet ==
  ASSUME Mux!MuxAssumption, MuxSafe, NEW w \in Nat, Len(streamIds) <= w, NEW t \in Mux!Added
  PROVE  \E i \in robin..(robin + w - 1) : IdIn(streamIds, i) = t
<1>1. /\ robin \in Nat /\ Len(streamIds) \in Nat /\ streamIds \in Seq(Inputs)
      /\ t \in {streamIds[i] : i \in DOMAIN streamIds}
  BY MuxTypes
<1>2. PICK q \in DOMAIN streamIds : t = streamIds[q]
  BY <1>1
<1>3. PICK d \in 0..(Len(streamIds) - 1) : IdIn(streamIds, robin + d) = streamIds[q]
  BY <1>1, Meets
<1>4. robin + d \in robin..(robin + w - 1)
  BY <1>1
<1> QED  BY <1>2, <1>3, <1>4

\* What one call of next_sample has to show.
Reads ==
  /\ MuxSafe'
  /\ \/ \E x \in Inputs :
          /\ Mux!Taken(x) /\ buffers' = [buffers EXCEPT ![x] = Tail(@)]
          /\ mode = "TimeOrdered" =>
               \A t \in Inputs : \A i \in DOMAIN buffers[t] : buffers[x][1] <= buffers[t][i]
          /\ mode = "Sequential" =>
               \A i, j \in DOMAIN streamIds :
                 streamIds[i] = x /\ buffers[streamIds[j]] # <<>> => i <= j
     \/ /\ UNCHANGED buffers
        /\ \/ Mux!Waiting = {}
           \/ mode = "Weighted" /\ \E t \in Mux!Added : shares[t] = 0

ReadGuard == reads < MaxReads /\ reads' = reads + 1 /\ UNCHANGED <<mode, shares, streamIds, pushes>>

LEMMA RoundRobinReads ==
  ASSUME Mux!MuxAssumption, MuxSafe, ReadGuard, mode \in {"RoundRobin", "Weighted"},
         Mux!NextRoundRobin
  PROVE  Reads
<1> DEFINE n == Len(streamIds)
           hits == {i \in robin..(robin + n - 1) : buffers[IdIn(streamIds, i)] # <<>>}
           m == Mux!Min(hits)
<1>1. IF hits = {} THEN Mux!ReturnNone /\ UNCHANGED robin
      ELSE Mux!Return(IdIn(streamIds, m)) /\ robin' = (m + 1) % n
  BY IdIs DEF Mux!NextRoundRobin, Mux!HasSample, Mux!Count
<1>2. /\ n \in Nat /\ robin \in Nat /\ streamIds \in Seq(Inputs)
      /\ (mode # "Weighted" => robin < n \/ robin = 0)
  BY MuxTypes
<1>3. hits \in SUBSET (robin..(robin + n - 1)) /\ hits \in SUBSET Nat
  BY <1>2
<1>4. CASE hits = {}
  <2>1. Mux!ReturnNone /\ UNCHANGED robin
    BY <1>1, <1>4
  <2>2. ReadFrame
    BY <1>2, <2>1 DEF ReadFrame, ReadGuard
  <2>3. \A t \in Mux!Added : Mux!TakesTurns(t) => OnTurn(streamIds, robin', passed[t], t)
    BY <2>1 DEF MuxSafe, Turns
  <2>4. MuxSafe' /\ UNCHANGED buffers
    BY <2>1, <2>2, <2>3, ReturnNoneKeeps
  <2>5. Mux!Waiting = {}
    <3> SUFFICES ASSUME NEW t \in Inputs, buffers[t] # <<>> PROVE FALSE
      BY DEF Mux!Waiting, Mux!HasSample
    <3>1. t \in Mux!Added
      BY MuxTypes
    <3>2. n <= n
      BY <1>2
    <3>3. PICK i \in robin..(robin + n - 1) : IdIn(streamIds, i) = t
      BY <1>2, <3>1, <3>2, AllMet
    <3>4. i \in hits
      BY <3>3
    <3> QED  BY <1>4, <3>4
  <2> QED  BY <2>4, <2>5 DEF Reads
<1>5. CASE hits # {}
  <2>1. m \in hits /\ m \in Nat /\ \A i \in hits : m <= i
    <3> HIDE DEF hits
    <3> QED  BY <1>3, <1>5, MuxMin
  <2> DEFINE x == IdIn(streamIds, m)
  <2>2. Mux!Return(x) /\ robin' = (m + 1) % n
    BY <1>1, <1>5
  <2>3. m \in robin..(robin + n - 1) /\ buffers[x] # <<>>
    BY <2>1
  <2> HIDE DEF m
  <2>4. n \in Nat \ {0}
    BY <1>2, <2>3
  <2>5. robin' \in 0..(n - 1)
    <3>1. m + 1 \in Nat
      BY <2>1
    <3> HIDE DEF n
    <3>2. (m + 1) % n \in 0..(n - 1)
      BY <2>4, <3>1, RemainderFacts
    <3> QED  BY <2>2, <3>2
  <2>6. ReadFrame
    <3>1. robin' \in Nat /\ robin' < n
      BY <2>4, <2>5
    <3> QED  BY <3>1 DEF ReadFrame, ReadGuard
  <2>7. x \in Inputs
    <3>1. (m % n) + 1 \in 1..n
      <4>1. m % n \in 0..(n - 1)
        BY <2>1, <2>4, RemainderFacts
      <4> QED  BY <2>4, <4>1
    <3>2. \A i \in 1..n : streamIds[i] \in Inputs
      BY <1>2
    <3> QED  BY <3>1, <3>2 DEF IdIn
  <2>8. ASSUME NEW t \in Mux!Added, Mux!TakesTurns(t), t # x, buffers[t] # <<>>
        PROVE  OnTurn(streamIds, robin', passed[t] + 1, t)
    <3>1. \A i \in robin..(robin + n - 1) : IdIn(streamIds, i) = t => i \in hits
      BY <2>8
    <3> HIDE DEF hits, n
    <3>2. OnTurn(streamIds, m + 1, passed[t] + 1, t)
      BY <1>2, <1>3, <2>1, <2>8, <3>1, FirstHit
    <3>3. streamIds # <<>>
      BY <2>4 DEF n
    <3>4. OnTurn(streamIds, (m + 1) % Len(streamIds), passed[t] + 1, t)
      <4>1. m + 1 \in Nat
        BY <2>1
      <4> QED  BY <1>2, <3>2, <3>3, <4>1, TurnReduced
    <3> QED  BY <2>2, <3>4 DEF n
  <2> HIDE DEF x
  <2>9. MuxSafe' /\ Mux!Taken(x) /\ buffers' = [buffers EXCEPT ![x] = Tail(@)]
    BY <2>2, <2>3, <2>6, <2>7, <2>8, ReturnKeeps
  <2> QED  BY <2>7, <2>9 DEF Reads
<1> QED  BY <1>4, <1>5

-----------------------------------------------------------------------------
LEMMA TimeOrderedReads ==
  ASSUME Mux!MuxAssumption, MuxSafe, ReadGuard, mode = "TimeOrdered", Mux!NextTimeOrdered
  PROVE  Reads
<1>1. ReadFrame
  BY MuxTypes DEF ReadFrame, ReadGuard, Mux!NextTimeOrdered
<1>2. \A t : ~Mux!TakesTurns(t)
  BY DEF Mux!TakesTurns
<1>3. CASE Mux!Waiting = {}
  <2>1. Mux!ReturnNone
    BY <1>3 DEF Mux!NextTimeOrdered
  <2>2. MuxSafe' /\ UNCHANGED buffers
    BY <1>1, <1>2, <2>1, ReturnNoneKeeps
  <2> QED  BY <1>3, <2>2 DEF Reads
<1>4. CASE Mux!Waiting # {}
  <2>1. PICK x \in Mux!Waiting :
          (\A t \in Mux!Waiting : buffers[x][1] <= buffers[t][1]) /\ Mux!Return(x)
    BY <1>4 DEF Mux!NextTimeOrdered
  <2>2. x \in Inputs /\ buffers[x] # <<>>
    BY DEF Mux!Waiting, Mux!HasSample
  <2>3. MuxSafe' /\ Mux!Taken(x) /\ buffers' = [buffers EXCEPT ![x] = Tail(@)]
    BY <1>1, <1>2, <2>1, <2>2, ReturnKeeps
  <2>4. ASSUME NEW t \in Inputs, NEW i \in DOMAIN buffers[t]
        PROVE  buffers[x][1] <= buffers[t][i]
    <3>1. /\ buffers[x] \in Seq(Stamps) /\ buffers[t] \in Seq(Stamps) /\ Stamps \subseteq Nat
          /\ Ordered(buffers[t])
      BY <2>2, MuxTypes, MuxConstants DEF MuxSafe
    <3> DEFINE p == buffers[x]
               q == buffers[t]
    <3>2. p \in Seq(Stamps) /\ q \in Seq(Stamps) /\ p # <<>> /\ i \in DOMAIN q /\ Ordered(q)
      BY <2>2, <3>1
    <3>3. q # <<>> => p[1] <= q[1]
      <4>1. q # <<>> => t \in Mux!Waiting
        BY DEF Mux!Waiting, Mux!HasSample
      <4> QED  BY <2>1, <4>1
    <3> HIDE DEF p, q
    <3>4. /\ q # <<>> /\ i \in 1..Len(q) /\ 1 \in DOMAIN q /\ i >= 1
          /\ p[1] \in Nat /\ q[1] \in Nat /\ q[i] \in Nat
      <4>1. q # <<>> /\ i \in 1..Len(q) /\ Len(q) \in Nat /\ DOMAIN q = 1..Len(q)
        BY <3>2
      <4>2. 1 \in 1..Len(q) /\ i >= 1
        BY <4>1
      <4>3. Len(p) \in Nat \ {0} /\ DOMAIN p = 1..Len(p)
        BY <3>2
      <4>4. p[1] \in Stamps /\ q[1] \in Stamps /\ q[i] \in Stamps
        BY <3>2, <4>1, <4>2, <4>3
      <4> QED  BY <3>1, <4>1, <4>2, <4>4
    <3>5. q[1] <= q[i]
      <4>1. CASE i = 1
        BY <3>4, <4>1
      <4>2. CASE i # 1
        <5>1. 1 < i
          BY <3>4, <4>2
        <5> QED  BY <3>2, <3>4, <5>1 DEF Ordered
      <4> QED  BY <4>1, <4>2
    <3>6. p[1] <= q[i]
      BY <3>3, <3>4, <3>5
    <3> QED  BY <3>6 DEF p, q
  <2> QED  BY <2>2, <2>3, <2>4 DEF Reads
<1> QED  BY <1>3, <1>4

LEMMA SequentialReads ==
  ASSUME Mux!MuxAssumption, MuxSafe, ReadGuard, mode = "Sequential", Mux!NextSequential
  PROVE  Reads
<1>1. ReadFrame
  BY MuxTypes DEF ReadFrame, ReadGuard, Mux!NextSequential
<1>2. \A t : ~Mux!TakesTurns(t)
  BY DEF Mux!TakesTurns
<1>3. CASE Mux!Waiting = {}
  <2>1. Mux!ReturnNone
    BY <1>3 DEF Mux!NextSequential
  <2>2. MuxSafe' /\ UNCHANGED buffers
    BY <1>1, <1>2, <2>1, ReturnNoneKeeps
  <2> QED  BY <1>3, <2>2 DEF Reads
<1>4. CASE Mux!Waiting # {}
  <2> DEFINE ready == {i \in DOMAIN streamIds : buffers[streamIds[i]] # <<>>}
             m == Mux!Min(ready)
  <2>1. streamIds \in Seq(Inputs) /\ DOMAIN streamIds = 1..Len(streamIds) /\ Len(streamIds) \in Nat
    BY MuxTypes
  <2>2. ready \in SUBSET Nat
    BY <2>1
  <2>3. ready # {}
    <3>1. PICK t \in Inputs : buffers[t] # <<>>
      BY <1>4 DEF Mux!Waiting, Mux!HasSample
    <3>2. t \in {streamIds[i] : i \in DOMAIN streamIds}
      BY <3>1, MuxTypes
    <3> QED  BY <3>1, <3>2
  <2>4. m \in ready /\ \A y \in ready : m <= y
    <3> HIDE DEF ready
    <3> QED  BY <2>2, <2>3, MuxMin
  <2>5. Mux!Return(streamIds[m])
    BY <1>4 DEF Mux!NextSequential, Mux!HasSample
  <2> HIDE DEF m
  <2>6. streamIds[m] \in Inputs /\ buffers[streamIds[m]] # <<>> /\ m \in DOMAIN streamIds
    BY <2>1, <2>4
  <2>7. MuxSafe' /\ Mux!Taken(streamIds[m])
        /\ buffers' = [buffers EXCEPT ![streamIds[m]] = Tail(@)]
    BY <1>1, <1>2, <2>5, <2>6, ReturnKeeps
  <2>8. ASSUME NEW i \in DOMAIN streamIds, NEW j \in DOMAIN streamIds,
               streamIds[i] = streamIds[m], buffers[streamIds[j]] # <<>>
        PROVE  i <= j
    <3>1. i = m
      BY <2>6, <2>8, MuxTypes
    <3>2. j \in ready
      BY <2>8
    <3> QED  BY <2>4, <3>1, <3>2
  <2> QED  BY <2>6, <2>7, <2>8 DEF Reads
<1> QED  BY <1>3, <1>4

\* The weights add up to a number, which is at least the number of streams when none is 0.
LEMMA WeightsSum ==
  ASSUME Mux!MuxAssumption, MuxSafe
  PROVE  /\ Mux!TotalWeight \in Nat
         /\ (\A t \in Mux!Added : shares[t] > 0) => Len(streamIds) <= Mux!TotalWeight
<1> DEFINE n == Len(streamIds)
           units == Units(Mux!Added, shares)
<1>1. /\ Mux!Added \subseteq Inputs /\ IsFiniteSet(Inputs) /\ n \in Nat
      /\ \A t \in Mux!Added : shares[t] \in Nat
      /\ Mux!Added = {streamIds[i] : i \in 1..n}
      /\ \A i, j \in 1..n : streamIds[i] = streamIds[j] => i = j
  <2>1. Mux!Added \subseteq Inputs /\ IsFiniteSet(Inputs) /\ n \in Nat /\ DOMAIN streamIds = 1..n
    BY MuxTypes, MuxConstants
  <2>2. shares \in [Inputs -> Nat]
    BY MuxTypes
  <2>3. Mux!Added = {streamIds[i] : i \in DOMAIN streamIds}
    BY MuxTypes
  <2>4. \A i, j \in DOMAIN streamIds : streamIds[i] = streamIds[j] => i = j
    BY MuxTypes
  <2> QED  BY <2>1, <2>2, <2>3, <2>4
<1>2. IsFiniteSet(Mux!Added)
  BY <1>1, FS_Subset
<1>3. IsFiniteSet(units)
  BY <1>1, <1>2, UnitsFinite
<1>4. Mux!TotalWeight = Cardinality(units)
  BY MuxSets DEF Mux!TotalWeight, Units
<1>5. Cardinality(units) \in Nat
  BY <1>3, FS_CardinalityType
<1>6. ASSUME \A t \in Mux!Added : shares[t] > 0 PROVE n <= Cardinality(units)
  <2> DEFINE f == [i \in 1..n |-> <<streamIds[i], 1>>]
  <2>1. ASSUME NEW i \in 1..n PROVE f[i] \in units
    <3>1. streamIds[i] \in Mux!Added
      BY <1>1
    <3>2. 1 \in 1..shares[streamIds[i]]
      BY <1>1, <1>6, <3>1
    <3>3. <<streamIds[i], 1>> \in {streamIds[i]} \X (1..shares[streamIds[i]])
      BY <3>2
    <3>4. <<streamIds[i], 1>> \in units
      BY <3>1, <3>3 DEF Units
    <3> QED  BY <3>4
  <2>2. \A i, j \in 1..n : f[i] = f[j] => i = j
    <3>1. ASSUME NEW i \in 1..n, NEW j \in 1..n, f[i] = f[j] PROVE i = j
      <4>1. f[i] = <<streamIds[i], 1>> /\ f[j] = <<streamIds[j], 1>>
        OBVIOUS
      <4>2. streamIds[i] = streamIds[j]
        BY <3>1, <4>1
      <4> QED  BY <1>1, <4>2
    <3> QED  BY <3>1
  <2>3. f \in [1..n -> units]
    <3> HIDE DEF units
    <3> QED  BY <2>1
  <2> HIDE DEF f, units
  <2>4. f \in Injection(1..n, units)
    BY <2>2, <2>3 DEF Injection, IsInjective
  <2>5. Cardinality(1..n) <= Cardinality(units)
    BY <1>3, <2>4, FS_Injection
  <2>6. Cardinality(1..n) = n
    <3>1. n \in Nat
      BY <1>1
    <3> HIDE DEF n
    <3>2. \A k \in Nat : Cardinality(1..k) = k
      BY FS_Interval
    <3> QED  BY <3>1, <3>2, Zenon
  <2> QED  BY <2>5, <2>6
<1> QED  BY <1>4, <1>5, <1>6

LEMMA WeightedReads ==
  ASSUME Mux!MuxAssumption, MuxSafe, ReadGuard, mode = "Weighted", Mux!NextWeighted
  PROVE  Reads
<1> DEFINE w == Mux!TotalWeight
           hits == {i \in robin..(robin + w - 1) : /\ buffers[IdIn(streamIds, i)] # <<>>
                                                   /\ shares[IdIn(streamIds, i)] > 0}
           m == Mux!Min(hits)
<1>1. /\ Mux!Added = {} => Mux!ReturnNone /\ UNCHANGED robin
      /\ Mux!Added # {} /\ w = 0 => Mux!NextRoundRobin
      /\ Mux!Added # {} /\ w # 0 /\ hits = {} => Mux!ReturnNone /\ robin' = robin + w
      /\ Mux!Added # {} /\ w # 0 /\ hits # {} =>
           Mux!Return(IdIn(streamIds, m)) /\ robin' = m + 1
  BY IdIs DEF Mux!NextWeighted, Mux!HasSample
<1>2. /\ Len(streamIds) \in Nat /\ robin \in Nat /\ streamIds \in Seq(Inputs)
      /\ shares \in [Inputs -> Nat]
  BY MuxTypes
<1>3. w \in Nat /\ ((\A t \in Mux!Added : shares[t] > 0) => Len(streamIds) <= w)
  BY WeightsSum
<1>4. \A t \in Mux!Added : w # 0 => (Mux!TakesTurns(t) <=> shares[t] > 0)
  BY DEF Mux!TakesTurns
<1> HIDE DEF w
<1>5. hits \in SUBSET (robin..(robin + w - 1)) /\ hits \in SUBSET Nat
  BY <1>2, <1>3
<1>6. CASE Mux!Added = {}
  <2>1. Mux!ReturnNone /\ UNCHANGED robin
    BY <1>1, <1>6
  <2>2. ReadFrame
    BY <1>2, <2>1 DEF ReadFrame, ReadGuard
  <2>3. MuxSafe' /\ UNCHANGED buffers
    BY <1>6, <2>1, <2>2, ReturnNoneKeeps
  <2>4. Mux!Waiting = {}
    BY <1>6, MuxTypes DEF Mux!Waiting, Mux!HasSample
  <2> QED  BY <2>3, <2>4 DEF Reads
<1>7. CASE Mux!Added # {} /\ w = 0
  BY <1>1, <1>7, RoundRobinReads
<1>8. CASE Mux!Added # {} /\ w # 0 /\ hits = {}
  <2>1. Mux!ReturnNone /\ robin' = robin + w
    BY <1>1, <1>8
  <2>2. ReadFrame
    BY <1>2, <1>3, <2>1 DEF ReadFrame, ReadGuard
  <2>3. ASSUME NEW t \in Mux!Added, Mux!TakesTurns(t)
        PROVE  OnTurn(streamIds, robin', passed[t], t)
    <3>1. shares[t] > 0 /\ t \in Inputs /\ passed[t] \in Nat
      <4>1. t \in Inputs
        BY MuxTypes
      <4>2. passed[t] \in Nat
        BY <4>1, MuxTypes
      <4> QED  BY <1>4, <1>8, <2>3, <4>1, <4>2
    <3>2. CASE buffers[t] = <<>>
      <4>1. passed[t] = 0
        BY <3>1, <3>2 DEF MuxSafe, Fresh
      <4>2. t \in {streamIds[i] : i \in DOMAIN streamIds}
        BY MuxTypes
      <4>3. robin' \in Nat
        BY <1>2, <1>3, <2>1
      <4>4. OnTurn(streamIds, robin', 0, t)
        BY <1>2, <4>2, <4>3, NewTurn
      <4> QED  BY <4>1, <4>4
    <3>3. CASE buffers[t] # <<>>
      <4>1. \A i \in robin..(robin + w - 1) : IdIn(streamIds, i) # t
        <5>1. ASSUME NEW i \in robin..(robin + w - 1), IdIn(streamIds, i) = t PROVE FALSE
          <6>1. i \in hits
            BY <3>1, <3>3, <5>1
          <6> QED  BY <1>8, <6>1
        <5> QED  BY <5>1
      <4>2. OnTurn(streamIds, robin, passed[t], t)
        BY <2>3 DEF MuxSafe, Turns
      <4>3. OnTurn(streamIds, robin + w, passed[t], t)
        BY <1>2, <1>3, <3>1, <4>1, <4>2, TurnPast
      <4> QED  BY <2>1, <4>3
    <3> QED  BY <3>2, <3>3
  <2>4. MuxSafe' /\ UNCHANGED buffers
    BY <2>1, <2>2, <2>3, ReturnNoneKeeps
  <2>5. Mux!Waiting = {} \/ \E t \in Mux!Added : shares[t] = 0
    <3> SUFFICES ASSUME NEW t \in Inputs, buffers[t] # <<>>, \A s \in Mux!Added : shares[s] # 0
                 PROVE  FALSE
      BY DEF Mux!Waiting, Mux!HasSample
    <3>1. \A s \in Mux!Added : shares[s] > 0
      <4>1. \A s \in Mux!Added : s \in Inputs
        BY MuxTypes
      <4> QED  BY <1>2, <4>1
    <3>2. t \in Mux!Added
      BY MuxTypes
    <3>3. PICK i \in robin..(robin + w - 1) : IdIn(streamIds, i) = t
      BY <1>3, <3>1, <3>2, AllMet
    <3>4. i \in hits
      BY <3>1, <3>2, <3>3
    <3> QED  BY <1>8, <3>4
  <2> QED  BY <2>4, <2>5 DEF Reads
<1>9. CASE Mux!Added # {} /\ w # 0 /\ hits # {}
  <2>1. m \in hits /\ m \in Nat /\ \A i \in hits : m <= i
    <3> HIDE DEF hits
    <3> QED  BY <1>5, <1>9, MuxMin
  <2> DEFINE x == IdIn(streamIds, m)
  <2>2. Mux!Return(x) /\ robin' = m + 1
    BY <1>1, <1>9
  <2>3. m \in robin..(robin + w - 1) /\ buffers[x] # <<>>
    BY <2>1
  <2> HIDE DEF m
  <2>4. ReadFrame
    BY <2>1, <2>2 DEF ReadFrame, ReadGuard
  <2>5. x \in Inputs
    <3>1. Len(streamIds) \in Nat \ {0} /\ DOMAIN streamIds = 1..Len(streamIds)
      <4>1. \E i \in DOMAIN streamIds : TRUE
        BY <1>9, MuxTypes
      <4> QED  BY <1>2, <4>1
    <3>2. (m % Len(streamIds)) + 1 \in 1..Len(streamIds)
      <4>1. m % Len(streamIds) \in 0..(Len(streamIds) - 1)
        BY <2>1, <3>1, RemainderFacts
      <4> QED  BY <3>1, <4>1
    <3>3. \A i \in 1..Len(streamIds) : streamIds[i] \in Inputs
      BY <1>2
    <3> QED  BY <3>2, <3>3 DEF IdIn
  <2>6. ASSUME NEW t \in Mux!Added, Mux!TakesTurns(t), t # x, buffers[t] # <<>>
        PROVE  OnTurn(streamIds, robin', passed[t] + 1, t)
    <3>1. \A i \in robin..(robin + w - 1) : IdIn(streamIds, i) = t => i \in hits
      BY <1>4, <1>9, <2>6
    <3> HIDE DEF hits
    <3>2. OnTurn(streamIds, m + 1, passed[t] + 1, t)
      BY <1>3, <1>5, <2>1, <2>6, <3>1, FirstHit
    <3> QED  BY <2>2, <3>2
  <2> HIDE DEF x
  <2>7. MuxSafe' /\ Mux!Taken(x) /\ buffers' = [buffers EXCEPT ![x] = Tail(@)]
    BY <2>2, <2>3, <2>4, <2>5, <2>6, ReturnKeeps
  <2> QED  BY <2>5, <2>7 DEF Reads
<1> QED  BY <1>6, <1>7, <1>8, <1>9

-----------------------------------------------------------------------------
LEMMA NextSampleReads ==
  ASSUME Mux!MuxAssumption, MuxSafe, Mux!NextSample
  PROVE  Reads
<1>1. ReadGuard
  BY DEF Mux!NextSample, Mux!config, ReadGuard
<1>2. \/ mode = "RoundRobin" /\ Mux!NextRoundRobin
      \/ mode = "TimeOrdered" /\ Mux!NextTimeOrdered
      \/ mode = "Sequential" /\ Mux!NextSequential
      \/ mode = "Weighted" /\ Mux!NextWeighted
  BY DEF Mux!NextSample
<1> QED
  BY <1>1, <1>2, RoundRobinReads, TimeOrderedReads, SequentialReads, WeightedReads

LEMMA ReadsFollow ==
  ASSUME Reads
  PROVE  Mux!ReadsInOrder
BY DEF Reads, Mux!ReadsInOrder, Mux!HasSample

LEMMA MuxStep ==
  ASSUME Mux!MuxAssumption, MuxSafe, [Mux!Next]_muxVars
  PROVE  MuxSafe' /\ [Mux!ReadsInOrder]_muxVars
<1>1. CASE UNCHANGED muxVars
  <2>1. UNCHANGED <<mode, shares, buffers, streamIds, robin, pushes, reads, passed>>
    BY <1>1 DEF muxVars
  <2>2. Mux!TypeOK'
    <3>1. Mux!TypeOK
      BY DEF MuxSafe
    <3> QED  BY <2>1, <3>1 DEF Mux!TypeOK, Mux!Waiting, Mux!HasSample, Mux!Added, Mux!Count
  <2>3. Turns'
    <3> SUFFICES ASSUME NEW t \in Mux!Added', Mux!TakesTurns(t)'
                 PROVE  OnTurn(streamIds', robin', passed'[t], t)
      BY DEF Turns
    <3>1. t \in Mux!Added /\ Mux!TakesTurns(t)
      BY <2>1, SameStreams
    <3>2. OnTurn(streamIds, robin, passed[t], t)
      BY <3>1 DEF MuxSafe, Turns
    <3> QED  BY <2>1, <3>2
  <2>4. \A t \in Inputs : Fresh(t)' /\ (mode' = "TimeOrdered" => Ordered(buffers'[t]))
    BY <2>1 DEF MuxSafe, Fresh
  <2> QED  BY <1>1, <2>2, <2>3, <2>4 DEF MuxSafe
<1>2. ASSUME NEW x \in Inputs, Mux!AddStream(x) PROVE MuxSafe' /\ Mux!ReadsInOrder
  <2>1. MuxSafe'
    BY <1>2, AddStreamKeeps
  <2>2. reads' = reads /\ reads \in Nat
    BY <1>2, MuxTypes DEF Mux!AddStream
  <2>3. ~(reads' > reads)
    BY <2>2
  <2> QED  BY <2>1, <2>3 DEF Mux!ReadsInOrder
<1>3. ASSUME NEW x \in Inputs, NEW stamp \in Stamps, Mux!Push(x, stamp)
      PROVE  MuxSafe' /\ Mux!ReadsInOrder
  <2>1. MuxSafe'
    BY <1>3, PushKeeps
  <2>2. reads' = reads /\ reads \in Nat
    BY <1>3, MuxTypes DEF Mux!Push
  <2>3. ~(reads' > reads)
    BY <2>2
  <2> QED  BY <2>1, <2>3 DEF Mux!ReadsInOrder
<1>4. CASE Mux!NextSample
  BY <1>4, NextSampleReads, ReadsFollow DEF Reads
<1>5. CASE Mux!Clear
  <2>1. MuxSafe'
    BY <1>5, ClearKeeps
  <2>2. reads' = reads /\ reads \in Nat
    BY <1>5, MuxTypes DEF Mux!Clear
  <2>3. ~(reads' > reads)
    BY <2>2
  <2> QED  BY <2>1, <2>3 DEF Mux!ReadsInOrder
<1> QED
  BY <1>1, <1>2, <1>3, <1>4, <1>5 DEF Mux!Next

LEMMA MuxImplies ==
  ASSUME Mux!MuxAssumption, MuxSafe
  PROVE  Mux!MuxInv
<1>1. Mux!TypeOK
  BY DEF MuxSafe
<1>2. Mux!Interleaves
  <2> SUFFICES ASSUME NEW t \in Mux!Added, Mux!TakesTurns(t) PROVE passed[t] < Mux!Count
    BY DEF Mux!Interleaves
  <2>1. OnTurn(streamIds, robin, passed[t], t)
    BY DEF MuxSafe, Turns
  <2>2. PICK d \in Nat : passed[t] + d < Len(streamIds)
    BY <2>1 DEF OnTurn
  <2>3. t \in Inputs /\ Len(streamIds) \in Nat
    BY MuxTypes
  <2>4. passed[t] \in Nat
    BY <2>3, MuxTypes
  <2> QED  BY <2>2, <2>3, <2>4 DEF Mux!Count
<1>3. Mux!Sorted
  BY DEF MuxSafe, Mux!Sorted, Ordered
<1> QED  BY <1>1, <1>2, <1>3 DEF Mux!MuxInv

\* While a stream waits, each other is read once at most before it; buffers in the order of time
\* stay so, and every read returns what its strategy says: for any number of streams, weights,
\* timestamps and buffer size.
THEOREM StreamsTakeTurns == AllSpec => MuxContract
<1>1. AllInit => MuxSafe
  BY MuxInitial, ServicesAssumption DEF AllInit
<1>2. MuxSafe /\ [AllNext]_allVars => MuxSafe'
  BY PartSteps, MuxStep, ServicesAssumption
<1>3. MuxSafe => (unit = "mux" => Mux!MuxInv)
  BY MuxImplies, ServicesAssumption
<1>4. MuxSafe /\ [AllNext]_allVars => [unit = "mux" => [Mux!ReadsInOrder]_muxVars]_allVars
  BY PartSteps, MuxStep, ServicesAssumption
<1> QED
  BY <1>1, <1>2, <1>3, <1>4, PTL DEF AllSpec, MuxContract

-----------------------------------------------------------------------------
(* LTLChecker *)

LEMMA LtlSets ==
  \A S : Ltl!Cardinality(S) = Cardinality(S) /\ (Ltl!IsFiniteSet(S) <=> IsFiniteSet(S))
BY DEF Ltl!Cardinality, Cardinality, Ltl!IsFiniteSet, IsFiniteSet

LEMMA LtlMin ==
  ASSUME NEW S \in SUBSET Nat, S # {}
  PROVE  Ltl!Min(S) \in S /\ Ltl!Min(S) \in Nat /\ \A y \in S : Ltl!Min(S) <= y
<1>1. \E x \in S : \A y \in S : x <= y
  BY MinExists
<1>2. Ltl!Min(S) \in S /\ \A y \in S : Ltl!Min(S) <= y
  BY <1>1 DEF Ltl!Min
<1> QED  BY <1>2

\* What the definition of Nested says of its value at d.
NestedAt(g, d) ==
  IF d = 0 THEN Ltl!Literals ELSE g[d - 1] \cup Ltl!Over(g[d - 1], g[d - 1])

LEMMA NestedIs ==
  ASSUME Depth \in Nat
  PROVE  Ltl!Nested = [d \in 0..Depth |-> NestedAt(Ltl!Nested, d)]
<1> DEFINE Fits(g, n) == \A d \in 0..n : g[d] = NestedAt(g, d)
           bad == {n \in 0..Depth : ~\E g : Fits(g, n)}
<1>1. bad = {}
  <2> SUFFICES ASSUME bad # {} PROVE FALSE
    OBVIOUS
  <2>1. bad \in SUBSET Nat
    OBVIOUS
  <2>2. PICK m \in bad : \A y \in bad : m <= y
    BY <2>1, MinExists
  <2>3. m \in 0..Depth /\ m \in Nat
    BY <2>1
  <2>4. CASE m = 0
    <3> DEFINE g == [d \in {0} |-> Ltl!Literals]
    <3>1. \A d \in 0..0 : d = 0
      OBVIOUS
    <3>2. Fits(g, 0)
      BY <3>1 DEF NestedAt
    <3>3. \E h : Fits(h, 0)
      BY <3>2
    <3> QED  BY <2>4, <3>3
  <2>5. CASE m # 0
    <3>1. m - 1 \in 0..Depth /\ ~(m <= m - 1)
      BY <2>3, <2>5
    <3>2. m - 1 \notin bad
      BY <2>2, <3>1
    <3>3. PICK g : Fits(g, m - 1)
      BY <3>1, <3>2
    <3> DEFINE h == [d \in 0..m |-> IF d = m THEN NestedAt(g, m) ELSE g[d]]
    <3>4. ASSUME NEW d \in 0..m PROVE h[d] = NestedAt(h, d)
      <4>1. CASE d = 0
        <5>1. d \in 0..(m - 1) /\ d # m
          BY <2>3, <2>5, <4>1
        <5>2. g[d] = NestedAt(g, d) /\ h[d] = g[d]
          BY <3>3, <5>1
        <5> QED  BY <4>1, <5>2 DEF NestedAt
      <4>2. CASE d # 0
        <5>1. d - 1 \in 0..m /\ d - 1 # m
          BY <2>3, <4>2
        <5>2. h[d - 1] = g[d - 1]
          BY <5>1
        <5>3. h[d] = NestedAt(g, d)
          <6>1. CASE d = m
            BY <6>1
          <6>2. CASE d # m
            <7>1. d \in 0..(m - 1)
              BY <2>3, <6>2
            <7> QED  BY <3>3, <6>2, <7>1
          <6> QED  BY <6>1, <6>2
        <5> HIDE DEF h
        <5> QED  BY <4>2, <5>2, <5>3 DEF NestedAt
      <4> QED  BY <4>1, <4>2
    <3> HIDE DEF h
    <3>5. Fits(h, m)
      BY <3>4
    <3>6. \E e : Fits(e, m)
      BY <3>5
    <3> QED  BY <3>6
  <2> QED  BY <2>4, <2>5
<1>2. Depth \notin bad /\ Depth \in 0..Depth
  BY <1>1
<1>3. PICK g : Fits(g, Depth)
  BY <1>2
<1> DEFINE h == [d \in 0..Depth |-> g[d]]
<1>4. ASSUME NEW d \in 0..Depth PROVE g[d] = NestedAt(h, d)
  <2>1. g[d] = NestedAt(g, d)
    BY <1>3
  <2>2. d # 0 => h[d - 1] = g[d - 1]
    OBVIOUS
  <2> HIDE DEF h
  <2> QED  BY <2>1, <2>2 DEF NestedAt
<1>5. h = [d \in 0..Depth |-> NestedAt(h, d)]
  BY <1>4
<1> HIDE DEF h
<1>6. \E e : e = [d \in 0..Depth |-> NestedAt(e, d)]
  BY <1>5
<1> QED  BY <1>6 DEF Ltl!Nested, NestedAt

\* Induction up to a number, over a set.
LEMMA Climb ==
  ASSUME NEW n \in Nat, NEW P, 0 \in P, \A d \in 0..n : d # n /\ d \in P => d + 1 \in P
  PROVE  \A d \in 0..n : d \in P
<1> SUFFICES ASSUME {d \in 0..n : d \notin P} # {} PROVE FALSE
  OBVIOUS
<1> DEFINE bad == {d \in 0..n : d \notin P}
<1>1. bad \in SUBSET Nat /\ bad # {}
  OBVIOUS
<1>2. PICK m \in bad : \A y \in bad : m <= y
  BY <1>1, MinExists
<1>3. m \in 0..n /\ m \notin P /\ m # 0
  BY <1>2
<1>4. m - 1 \in 0..n /\ m - 1 # n /\ (m - 1) + 1 = m /\ ~(m <= m - 1)
  BY <1>3
<1>5. m - 1 \in P
  BY <1>2, <1>4
<1>6. m \in P
  BY <1>4, <1>5
<1> QED  BY <1>3, <1>6

LEMMA NestedFacts ==
  ASSUME Depth \in Nat
  PROVE  /\ Ltl!Nested[0] = Ltl!Literals
         /\ \A d \in 0..Depth : d # Depth =>
              Ltl!Nested[d + 1] = Ltl!Nested[d] \cup Ltl!Over(Ltl!Nested[d], Ltl!Nested[d])
<1>1. \A d \in 0..Depth : Ltl!Nested[d] = NestedAt(Ltl!Nested, d)
  <2>1. Ltl!Nested = [d \in 0..Depth |-> NestedAt(Ltl!Nested, d)]
    BY NestedIs
  <2> QED  BY <2>1, Zenon
<1>2. Ltl!Nested[0] = Ltl!Literals
  <2>1. 0 \in 0..Depth
    OBVIOUS
  <2> QED  BY <1>1, <2>1 DEF NestedAt
<1>3. ASSUME NEW d \in 0..Depth, d # Depth
      PROVE  Ltl!Nested[d + 1] = Ltl!Nested[d] \cup Ltl!Over(Ltl!Nested[d], Ltl!Nested[d])
  <2>1. d + 1 \in 0..Depth /\ d + 1 # 0 /\ (d + 1) - 1 = d
    BY <1>3
  <2>2. Ltl!Nested[d + 1] = NestedAt(Ltl!Nested, d + 1)
    BY <1>1, <2>1
  <2> QED  BY <2>1, <2>2 DEF NestedAt
<1> QED  BY <1>2, <1>3

\* Every level is within the last.
LEMMA NestedWithin ==
  ASSUME Depth \in Nat
  PROVE  \A d \in 0..Depth : Ltl!Nested[d] \subseteq Ltl!Formulas
<1> DEFINE P == {k \in 0..Depth : Ltl!Nested[Depth - k] \subseteq Ltl!Formulas}
<1>1. 0 \in P
  <2>1. Depth - 0 = Depth /\ 0 \in 0..Depth
    OBVIOUS
  <2> QED  BY <2>1 DEF Ltl!Formulas
<1>2. ASSUME NEW k \in 0..Depth, k # Depth, k \in P PROVE k + 1 \in P
  <2>1. /\ k + 1 \in 0..Depth /\ Depth - (k + 1) \in 0..Depth /\ Depth - (k + 1) # Depth
        /\ (Depth - (k + 1)) + 1 = Depth - k
    BY <1>2
  <2>2. Ltl!Nested[Depth - (k + 1)] \subseteq Ltl!Nested[(Depth - (k + 1)) + 1]
    BY <2>1, NestedFacts
  <2>3. Ltl!Nested[Depth - k] \subseteq Ltl!Formulas
    BY <1>2
  <2>4. Ltl!Nested[Depth - (k + 1)] \subseteq Ltl!Formulas
    BY <2>1, <2>2, <2>3
  <2> QED  BY <2>1, <2>4
<1>3. \A k \in 0..Depth : k \in P
  <2> HIDE DEF P
  <2> QED  BY <1>1, <1>2, Climb
<1>4. ASSUME NEW d \in 0..Depth PROVE Ltl!Nested[d] \subseteq Ltl!Formulas
  <2>1. Depth - d \in 0..Depth /\ Depth - (Depth - d) = d
    OBVIOUS
  <2>2. Ltl!Nested[Depth - (Depth - d)] \subseteq Ltl!Formulas
    BY <1>3, <2>1
  <2> QED  BY <2>1, <2>2
<1> QED  BY <1>4

\* A formula of a level is an atom, or an operator over formulas of the level below.
Composed(f, fs) ==
  \/ f[1] \in Ltl!Unary /\ f[2] \in fs
  \/ f[1] \in Ltl!Binary /\ f[2] \in fs /\ f[3] \in fs

LEMMA OverComposed ==
  ASSUME NEW fs, NEW f \in Ltl!Over(fs, fs)
  PROVE  Composed(f, fs)
BY DEF Ltl!Over, Composed

LEMMA LiteralIs ==
  ASSUME NEW f \in Ltl!Literals
  PROVE  f[1] = "Atom" /\ f[2] \in Atoms
BY DEF Ltl!Literals

LEMMA NestedSplit ==
  ASSUME Depth \in Nat
  PROVE  \A d \in 0..Depth : d # Depth =>
           \A f \in Ltl!Nested[d + 1] : f \in Ltl!Literals \/ Composed(f, Ltl!Nested[d])
<1> DEFINE P == {d \in 0..Depth : d # Depth =>
                   \A f \in Ltl!Nested[d + 1] : f \in Ltl!Literals \/ Composed(f, Ltl!Nested[d])}
<1>1. 0 \in P
  <2> SUFFICES ASSUME 0 # Depth, NEW f \in Ltl!Nested[0 + 1]
               PROVE  f \in Ltl!Literals \/ Composed(f, Ltl!Nested[0])
    OBVIOUS
  <2>1. Ltl!Nested[0 + 1] = Ltl!Nested[0] \cup Ltl!Over(Ltl!Nested[0], Ltl!Nested[0])
    BY NestedFacts
  <2> QED  BY <2>1, NestedFacts, OverComposed
<1>2. ASSUME NEW d \in 0..Depth, d # Depth, d \in P PROVE d + 1 \in P
  <2>1. d + 1 \in 0..Depth
    BY <1>2
  <2>2. ASSUME d + 1 # Depth, NEW f \in Ltl!Nested[(d + 1) + 1]
        PROVE  f \in Ltl!Literals \/ Composed(f, Ltl!Nested[d + 1])
    <3>1. Ltl!Nested[(d + 1) + 1]
            = Ltl!Nested[d + 1] \cup Ltl!Over(Ltl!Nested[d + 1], Ltl!Nested[d + 1])
      BY <2>1, <2>2, NestedFacts
    <3>2. CASE f \in Ltl!Over(Ltl!Nested[d + 1], Ltl!Nested[d + 1])
      BY <3>2, OverComposed
    <3>3. CASE f \in Ltl!Nested[d + 1]
      <4>1. f \in Ltl!Literals \/ Composed(f, Ltl!Nested[d])
        BY <1>2, <3>3
      <4>2. Ltl!Nested[d] \subseteq Ltl!Nested[d + 1]
        BY <1>2, NestedFacts
      <4> QED  BY <4>1, <4>2 DEF Composed
    <3> QED  BY <2>2, <3>1, <3>2, <3>3
  <2> QED  BY <2>1, <2>2
<1>3. \A d \in 0..Depth : d \in P
  <2> HIDE DEF P
  <2> QED  BY <1>1, <1>2, Climb
<1> QED  BY <1>3

Positions == 1..(Len(trace) + 1)

\* What the definitions of CheckFormula, CountViolations and Where say of a formula, given
\* their values for its parts.
CheckOf(f, Phi, Psi) ==
  [pos \in Positions |->
     \/ pos > Len(trace)
     \/ f[1] = "Atom" /\ f[2] \in trace[pos]
     \/ f[1] = "Always" /\ \A i \in pos..Len(trace) : Phi[i]
     \/ f[1] = "Eventually" /\ \E i \in pos..Len(trace) : Phi[i]
     \/ f[1] = "Next" /\ Phi[pos + 1]
     \/ f[1] = "Until" /\ Ltl!CheckUntil(Phi, Psi, pos)
     \/ f[1] = "Release" /\ Ltl!CheckRelease(Phi, Psi, pos)
     \/ f[1] = "And" /\ Phi[pos] /\ Psi[pos]
     \/ f[1] = "Or" /\ (Phi[pos] \/ Psi[pos])
     \/ f[1] = "Not" /\ ~Phi[pos]]

ScoreOf(f, Phi, Psi) ==
  [pos \in Positions |->
     IF pos > Len(trace) THEN 0
     ELSE IF f[1] = "Always" THEN Ltl!Sum(Phi, pos..Len(trace))
     ELSE IF f[1] = "Next" THEN Phi[pos + 1]
     ELSE IF f[1] = "And" THEN Phi[pos] + Psi[pos]
     ELSE IF f[1] = "Or" THEN Ltl!Min({Phi[pos], Psi[pos]})
     ELSE IF Ltl!CheckFormula[f][pos] THEN 0 ELSE 1]

WhereOf(f, Phi, Psi) ==
  {i \in DOMAIN trace :
     \/ f[1] = "Atom" /\ f[2] \in trace[i]
     \/ f[1] = "Not" /\ i \notin Phi
     \/ f[1] = "And" /\ i \in Phi /\ i \in Psi
     \/ f[1] = "Or" /\ (i \in Phi \/ i \in Psi)
     \/ f[1] = "Next" /\ (i + 1 \in Phi \/ i = Len(trace))
     \/ f[1] = "Always" /\ i..Len(trace) \subseteq Phi
     \/ f[1] = "Eventually" /\ i..Len(trace) \cap Phi # {}
     \/ f[1] = "Until" /\ \E k \in Psi : k >= i /\ i..(k - 1) \subseteq Phi
     \/ f[1] = "Release" /\ \A k \in i..Len(trace) : k \in Psi \/ i..(k - 1) \cap Phi # {}}

\* An atom is judged by itself, a formula of one part by that part.
LEMMA AtomAlone ==
  ASSUME NEW f, f[1] = "Atom", NEW P, NEW Q, NEW R, NEW S
  PROVE  /\ CheckOf(f, P, Q) = CheckOf(f, R, S) /\ ScoreOf(f, P, Q) = ScoreOf(f, R, S)
         /\ WhereOf(f, P, Q) = WhereOf(f, R, S)
BY DEF CheckOf, ScoreOf, WhereOf

LEMMA UnaryAlone ==
  ASSUME NEW f, f[1] \in Ltl!Unary, NEW P, NEW Q, NEW S
  PROVE  /\ CheckOf(f, P, Q) = CheckOf(f, P, S) /\ ScoreOf(f, P, Q) = ScoreOf(f, P, S)
         /\ WhereOf(f, P, Q) = WhereOf(f, P, S)
BY DEF CheckOf, ScoreOf, WhereOf, Ltl!Unary

LEMMA FormulaSplit ==
  ASSUME Depth \in Nat, NEW f \in Ltl!Formulas
  PROVE  f[1] = "Atom" \/ Composed(f, Ltl!Formulas)
<1>1. CASE Depth = 0
  BY <1>1, NestedFacts, LiteralIs DEF Ltl!Formulas
<1>2. CASE Depth # 0
  <2>1. Depth - 1 \in 0..Depth /\ Depth - 1 # Depth /\ (Depth - 1) + 1 = Depth
    BY <1>2
  <2>2. f \in Ltl!Nested[(Depth - 1) + 1]
    BY <2>1 DEF Ltl!Formulas
  <2>3. f \in Ltl!Literals \/ Composed(f, Ltl!Nested[Depth - 1])
    BY <2>1, <2>2, NestedSplit
  <2>4. Ltl!Nested[Depth - 1] \subseteq Ltl!Formulas
    BY <2>1, NestedWithin
  <2> QED  BY <2>3, <2>4, LiteralIs DEF Composed
<1> QED  BY <1>1, <1>2

\* What CheckFormula is, from the inside: the recursion is justified by the levels of formulas.
LEMMA CheckIs ==
  ASSUME Depth \in Nat
  PROVE  Ltl!CheckFormula = [f \in Ltl!Formulas |-> CheckOf(f, Ltl!CheckFormula[f[2]], Ltl!CheckFormula[f[3]])]
<1> DEFINE Fits(g, fs) == \A f \in fs : g[f] = CheckOf(f, g[f[2]], g[f[3]])
           P == {d \in 0..Depth : \E g : Fits(g, Ltl!Nested[d])}
<1>1. 0 \in P
  <2> DEFINE g == [f \in Ltl!Formulas |-> CheckOf(f, 0, 0)]
  <2>1. ASSUME NEW f \in Ltl!Nested[0] PROVE g[f] = CheckOf(f, g[f[2]], g[f[3]])
    <3>1. f \in Ltl!Formulas /\ f[1] = "Atom"
      <4>1. f \in Ltl!Literals /\ 0 \in 0..Depth
        BY NestedFacts
      <4> QED  BY <4>1, NestedWithin, LiteralIs
    <3>2. g[f] = CheckOf(f, 0, 0)
      BY <3>1
    <3> HIDE DEF g
    <3>3. CheckOf(f, 0, 0) = CheckOf(f, g[f[2]], g[f[3]])
      BY <3>1, AtomAlone
    <3> QED  BY <3>2, <3>3
  <2> HIDE DEF g
  <2>2. Fits(g, Ltl!Nested[0])
    BY <2>1
  <2>3. \E h : Fits(h, Ltl!Nested[0])
    BY <2>2
  <2>4. 0 \in 0..Depth
    OBVIOUS
  <2> QED  BY <2>3, <2>4
<1>2. ASSUME NEW d \in 0..Depth, d # Depth, d \in P PROVE d + 1 \in P
  <2>1. PICK g : Fits(g, Ltl!Nested[d])
    BY <1>2
  <2>2. d + 1 \in 0..Depth
    BY <1>2
  <2> DEFINE h == [f \in Ltl!Formulas |-> CheckOf(f, g[f[2]], g[f[3]])]
  <2>3. ASSUME NEW c \in Ltl!Nested[d] PROVE h[c] = g[c]
    <3>1. c \in Ltl!Formulas
      BY NestedWithin
    <3> QED  BY <2>1, <3>1
  <2>4. ASSUME NEW f \in Ltl!Nested[d + 1] PROVE h[f] = CheckOf(f, h[f[2]], h[f[3]])
    <3>1. f \in Ltl!Formulas
      BY <2>2, NestedWithin
    <3>2. h[f] = CheckOf(f, g[f[2]], g[f[3]])
      BY <3>1
    <3> HIDE DEF h
    <3>3. f \in Ltl!Literals \/ Composed(f, Ltl!Nested[d])
      BY <1>2, NestedSplit
    <3>4. CASE f \in Ltl!Literals
      <4>1. CheckOf(f, g[f[2]], g[f[3]]) = CheckOf(f, h[f[2]], h[f[3]])
        BY <3>4, LiteralIs, AtomAlone
      <4> QED  BY <3>2, <4>1
    <3>5. CASE f[1] \in Ltl!Unary /\ f[2] \in Ltl!Nested[d]
      <4>1. h[f[2]] = g[f[2]]
        BY <2>3, <3>5
      <4>2. CheckOf(f, g[f[2]], g[f[3]]) = CheckOf(f, g[f[2]], h[f[3]])
        BY <3>5, UnaryAlone
      <4> QED  BY <3>2, <4>1, <4>2
    <3>6. CASE f[2] \in Ltl!Nested[d] /\ f[3] \in Ltl!Nested[d]
      <4>1. h[f[2]] = g[f[2]] /\ h[f[3]] = g[f[3]]
        BY <2>3, <3>6
      <4> QED  BY <3>2, <4>1
    <3> QED  BY <3>3, <3>4, <3>5, <3>6 DEF Composed
  <2> HIDE DEF h
  <2>5. Fits(h, Ltl!Nested[d + 1])
    BY <2>4
  <2>6. \E e : Fits(e, Ltl!Nested[d + 1])
    BY <2>5
  <2> QED  BY <2>2, <2>6
<1>3. Depth \in P
  <2>1. \A d \in 0..Depth : d \in P
    <3> HIDE DEF P
    <3> QED  BY <1>1, <1>2, Climb
  <2>2. Depth \in 0..Depth
    OBVIOUS
  <2> QED  BY <2>1, <2>2
<1>4. PICK g : Fits(g, Ltl!Formulas)
  BY <1>3 DEF Ltl!Formulas
<1> DEFINE h == [f \in Ltl!Formulas |-> g[f]]
<1>5. ASSUME NEW f \in Ltl!Formulas PROVE h[f] = CheckOf(f, h[f[2]], h[f[3]])
  <2>1. h[f] = CheckOf(f, g[f[2]], g[f[3]])
    BY <1>4
  <2>2. \A c \in Ltl!Formulas : h[c] = g[c]
    OBVIOUS
  <2> HIDE DEF h
  <2>3. f[1] = "Atom" \/ Composed(f, Ltl!Formulas)
    BY FormulaSplit
  <2>4. CASE f[1] = "Atom"
    <3>1. CheckOf(f, g[f[2]], g[f[3]]) = CheckOf(f, h[f[2]], h[f[3]])
      BY <2>4, AtomAlone
    <3> QED  BY <2>1, <3>1
  <2>5. CASE f[1] \in Ltl!Unary /\ f[2] \in Ltl!Formulas
    <3>1. h[f[2]] = g[f[2]]
      BY <2>2, <2>5
    <3>2. CheckOf(f, g[f[2]], g[f[3]]) = CheckOf(f, g[f[2]], h[f[3]])
      BY <2>5, UnaryAlone
    <3> QED  BY <2>1, <3>1, <3>2
  <2>6. CASE f[2] \in Ltl!Formulas /\ f[3] \in Ltl!Formulas
    <3>1. h[f[2]] = g[f[2]] /\ h[f[3]] = g[f[3]]
      BY <2>2, <2>6
    <3> QED  BY <2>1, <3>1
  <2> QED  BY <2>3, <2>4, <2>5, <2>6 DEF Composed
<1>6. h = [f \in Ltl!Formulas |-> CheckOf(f, h[f[2]], h[f[3]])]
  <2>1. h = [f \in Ltl!Formulas |-> h[f]]
    OBVIOUS
  <2> HIDE DEF h
  <2> QED  BY <1>5, <2>1
<1> HIDE DEF h
<1>7. \E e : e = [f \in Ltl!Formulas |-> CheckOf(f, e[f[2]], e[f[3]])]
  BY <1>6
<1> QED  BY <1>7, ZenonT(60) DEF Ltl!CheckFormula, CheckOf, Positions

\* What CountViolations is, from the inside: the recursion is justified by the levels of formulas.
LEMMA ScoreIs ==
  ASSUME Depth \in Nat
  PROVE  Ltl!CountViolations = [f \in Ltl!Formulas |-> ScoreOf(f, Ltl!CountViolations[f[2]], Ltl!CountViolations[f[3]])]
<1> DEFINE Fits(g, fs) == \A f \in fs : g[f] = ScoreOf(f, g[f[2]], g[f[3]])
           P == {d \in 0..Depth : \E g : Fits(g, Ltl!Nested[d])}
<1>1. 0 \in P
  <2> DEFINE g == [f \in Ltl!Formulas |-> ScoreOf(f, 0, 0)]
  <2>1. ASSUME NEW f \in Ltl!Nested[0] PROVE g[f] = ScoreOf(f, g[f[2]], g[f[3]])
    <3>1. f \in Ltl!Formulas /\ f[1] = "Atom"
      <4>1. f \in Ltl!Literals /\ 0 \in 0..Depth
        BY NestedFacts
      <4> QED  BY <4>1, NestedWithin, LiteralIs
    <3>2. g[f] = ScoreOf(f, 0, 0)
      BY <3>1
    <3> HIDE DEF g
    <3>3. ScoreOf(f, 0, 0) = ScoreOf(f, g[f[2]], g[f[3]])
      BY <3>1, AtomAlone
    <3> QED  BY <3>2, <3>3
  <2> HIDE DEF g
  <2>2. Fits(g, Ltl!Nested[0])
    BY <2>1
  <2>3. \E h : Fits(h, Ltl!Nested[0])
    BY <2>2
  <2>4. 0 \in 0..Depth
    OBVIOUS
  <2> QED  BY <2>3, <2>4
<1>2. ASSUME NEW d \in 0..Depth, d # Depth, d \in P PROVE d + 1 \in P
  <2>1. PICK g : Fits(g, Ltl!Nested[d])
    BY <1>2
  <2>2. d + 1 \in 0..Depth
    BY <1>2
  <2> DEFINE h == [f \in Ltl!Formulas |-> ScoreOf(f, g[f[2]], g[f[3]])]
  <2>3. ASSUME NEW c \in Ltl!Nested[d] PROVE h[c] = g[c]
    <3>1. c \in Ltl!Formulas
      BY NestedWithin
    <3> QED  BY <2>1, <3>1
  <2>4. ASSUME NEW f \in Ltl!Nested[d + 1] PROVE h[f] = ScoreOf(f, h[f[2]], h[f[3]])
    <3>1. f \in Ltl!Formulas
      BY <2>2, NestedWithin
    <3>2. h[f] = ScoreOf(f, g[f[2]], g[f[3]])
      BY <3>1
    <3> HIDE DEF h
    <3>3. f \in Ltl!Literals \/ Composed(f, Ltl!Nested[d])
      BY <1>2, NestedSplit
    <3>4. CASE f \in Ltl!Literals
      <4>1. ScoreOf(f, g[f[2]], g[f[3]]) = ScoreOf(f, h[f[2]], h[f[3]])
        BY <3>4, LiteralIs, AtomAlone
      <4> QED  BY <3>2, <4>1
    <3>5. CASE f[1] \in Ltl!Unary /\ f[2] \in Ltl!Nested[d]
      <4>1. h[f[2]] = g[f[2]]
        BY <2>3, <3>5
      <4>2. ScoreOf(f, g[f[2]], g[f[3]]) = ScoreOf(f, g[f[2]], h[f[3]])
        BY <3>5, UnaryAlone
      <4> QED  BY <3>2, <4>1, <4>2
    <3>6. CASE f[2] \in Ltl!Nested[d] /\ f[3] \in Ltl!Nested[d]
      <4>1. h[f[2]] = g[f[2]] /\ h[f[3]] = g[f[3]]
        BY <2>3, <3>6
      <4> QED  BY <3>2, <4>1
    <3> QED  BY <3>3, <3>4, <3>5, <3>6 DEF Composed
  <2> HIDE DEF h
  <2>5. Fits(h, Ltl!Nested[d + 1])
    BY <2>4
  <2>6. \E e : Fits(e, Ltl!Nested[d + 1])
    BY <2>5
  <2> QED  BY <2>2, <2>6
<1>3. Depth \in P
  <2>1. \A d \in 0..Depth : d \in P
    <3> HIDE DEF P
    <3> QED  BY <1>1, <1>2, Climb
  <2>2. Depth \in 0..Depth
    OBVIOUS
  <2> QED  BY <2>1, <2>2
<1>4. PICK g : Fits(g, Ltl!Formulas)
  BY <1>3 DEF Ltl!Formulas
<1> DEFINE h == [f \in Ltl!Formulas |-> g[f]]
<1>5. ASSUME NEW f \in Ltl!Formulas PROVE h[f] = ScoreOf(f, h[f[2]], h[f[3]])
  <2>1. h[f] = ScoreOf(f, g[f[2]], g[f[3]])
    BY <1>4
  <2>2. \A c \in Ltl!Formulas : h[c] = g[c]
    OBVIOUS
  <2> HIDE DEF h
  <2>3. f[1] = "Atom" \/ Composed(f, Ltl!Formulas)
    BY FormulaSplit
  <2>4. CASE f[1] = "Atom"
    <3>1. ScoreOf(f, g[f[2]], g[f[3]]) = ScoreOf(f, h[f[2]], h[f[3]])
      BY <2>4, AtomAlone
    <3> QED  BY <2>1, <3>1
  <2>5. CASE f[1] \in Ltl!Unary /\ f[2] \in Ltl!Formulas
    <3>1. h[f[2]] = g[f[2]]
      BY <2>2, <2>5
    <3>2. ScoreOf(f, g[f[2]], g[f[3]]) = ScoreOf(f, g[f[2]], h[f[3]])
      BY <2>5, UnaryAlone
    <3> QED  BY <2>1, <3>1, <3>2
  <2>6. CASE f[2] \in Ltl!Formulas /\ f[3] \in Ltl!Formulas
    <3>1. h[f[2]] = g[f[2]] /\ h[f[3]] = g[f[3]]
      BY <2>2, <2>6
    <3> QED  BY <2>1, <3>1
  <2> QED  BY <2>3, <2>4, <2>5, <2>6 DEF Composed
<1>6. h = [f \in Ltl!Formulas |-> ScoreOf(f, h[f[2]], h[f[3]])]
  <2>1. h = [f \in Ltl!Formulas |-> h[f]]
    OBVIOUS
  <2> HIDE DEF h
  <2> QED  BY <1>5, <2>1
<1> HIDE DEF h
<1>7. \E e : e = [f \in Ltl!Formulas |-> ScoreOf(f, e[f[2]], e[f[3]])]
  BY <1>6
<1> QED  BY <1>7, ZenonT(60) DEF Ltl!CountViolations, ScoreOf, Positions

\* What Where is, from the inside: the recursion is justified by the levels of formulas.
LEMMA WhereIs ==
  ASSUME Depth \in Nat
  PROVE  Ltl!Where = [f \in Ltl!Formulas |-> WhereOf(f, Ltl!Where[f[2]], Ltl!Where[f[3]])]
<1> DEFINE Fits(g, fs) == \A f \in fs : g[f] = WhereOf(f, g[f[2]], g[f[3]])
           P == {d \in 0..Depth : \E g : Fits(g, Ltl!Nested[d])}
<1>1. 0 \in P
  <2> DEFINE g == [f \in Ltl!Formulas |-> WhereOf(f, 0, 0)]
  <2>1. ASSUME NEW f \in Ltl!Nested[0] PROVE g[f] = WhereOf(f, g[f[2]], g[f[3]])
    <3>1. f \in Ltl!Formulas /\ f[1] = "Atom"
      <4>1. f \in Ltl!Literals /\ 0 \in 0..Depth
        BY NestedFacts
      <4> QED  BY <4>1, NestedWithin, LiteralIs
    <3>2. g[f] = WhereOf(f, 0, 0)
      BY <3>1
    <3> HIDE DEF g
    <3>3. WhereOf(f, 0, 0) = WhereOf(f, g[f[2]], g[f[3]])
      BY <3>1, AtomAlone
    <3> QED  BY <3>2, <3>3
  <2> HIDE DEF g
  <2>2. Fits(g, Ltl!Nested[0])
    BY <2>1
  <2>3. \E h : Fits(h, Ltl!Nested[0])
    BY <2>2
  <2>4. 0 \in 0..Depth
    OBVIOUS
  <2> QED  BY <2>3, <2>4
<1>2. ASSUME NEW d \in 0..Depth, d # Depth, d \in P PROVE d + 1 \in P
  <2>1. PICK g : Fits(g, Ltl!Nested[d])
    BY <1>2
  <2>2. d + 1 \in 0..Depth
    BY <1>2
  <2> DEFINE h == [f \in Ltl!Formulas |-> WhereOf(f, g[f[2]], g[f[3]])]
  <2>3. ASSUME NEW c \in Ltl!Nested[d] PROVE h[c] = g[c]
    <3>1. c \in Ltl!Formulas
      BY NestedWithin
    <3> QED  BY <2>1, <3>1
  <2>4. ASSUME NEW f \in Ltl!Nested[d + 1] PROVE h[f] = WhereOf(f, h[f[2]], h[f[3]])
    <3>1. f \in Ltl!Formulas
      BY <2>2, NestedWithin
    <3>2. h[f] = WhereOf(f, g[f[2]], g[f[3]])
      BY <3>1
    <3> HIDE DEF h
    <3>3. f \in Ltl!Literals \/ Composed(f, Ltl!Nested[d])
      BY <1>2, NestedSplit
    <3>4. CASE f \in Ltl!Literals
      <4>1. WhereOf(f, g[f[2]], g[f[3]]) = WhereOf(f, h[f[2]], h[f[3]])
        BY <3>4, LiteralIs, AtomAlone
      <4> QED  BY <3>2, <4>1
    <3>5. CASE f[1] \in Ltl!Unary /\ f[2] \in Ltl!Nested[d]
      <4>1. h[f[2]] = g[f[2]]
        BY <2>3, <3>5
      <4>2. WhereOf(f, g[f[2]], g[f[3]]) = WhereOf(f, g[f[2]], h[f[3]])
        BY <3>5, UnaryAlone
      <4> QED  BY <3>2, <4>1, <4>2
    <3>6. CASE f[2] \in Ltl!Nested[d] /\ f[3] \in Ltl!Nested[d]
      <4>1. h[f[2]] = g[f[2]] /\ h[f[3]] = g[f[3]]
        BY <2>3, <3>6
      <4> QED  BY <3>2, <4>1
    <3> QED  BY <3>3, <3>4, <3>5, <3>6 DEF Composed
  <2> HIDE DEF h
  <2>5. Fits(h, Ltl!Nested[d + 1])
    BY <2>4
  <2>6. \E e : Fits(e, Ltl!Nested[d + 1])
    BY <2>5
  <2> QED  BY <2>2, <2>6
<1>3. Depth \in P
  <2>1. \A d \in 0..Depth : d \in P
    <3> HIDE DEF P
    <3> QED  BY <1>1, <1>2, Climb
  <2>2. Depth \in 0..Depth
    OBVIOUS
  <2> QED  BY <2>1, <2>2
<1>4. PICK g : Fits(g, Ltl!Formulas)
  BY <1>3 DEF Ltl!Formulas
<1> DEFINE h == [f \in Ltl!Formulas |-> g[f]]
<1>5. ASSUME NEW f \in Ltl!Formulas PROVE h[f] = WhereOf(f, h[f[2]], h[f[3]])
  <2>1. h[f] = WhereOf(f, g[f[2]], g[f[3]])
    BY <1>4
  <2>2. \A c \in Ltl!Formulas : h[c] = g[c]
    OBVIOUS
  <2> HIDE DEF h
  <2>3. f[1] = "Atom" \/ Composed(f, Ltl!Formulas)
    BY FormulaSplit
  <2>4. CASE f[1] = "Atom"
    <3>1. WhereOf(f, g[f[2]], g[f[3]]) = WhereOf(f, h[f[2]], h[f[3]])
      BY <2>4, AtomAlone
    <3> QED  BY <2>1, <3>1
  <2>5. CASE f[1] \in Ltl!Unary /\ f[2] \in Ltl!Formulas
    <3>1. h[f[2]] = g[f[2]]
      BY <2>2, <2>5
    <3>2. WhereOf(f, g[f[2]], g[f[3]]) = WhereOf(f, g[f[2]], h[f[3]])
      BY <2>5, UnaryAlone
    <3> QED  BY <2>1, <3>1, <3>2
  <2>6. CASE f[2] \in Ltl!Formulas /\ f[3] \in Ltl!Formulas
    <3>1. h[f[2]] = g[f[2]] /\ h[f[3]] = g[f[3]]
      BY <2>2, <2>6
    <3> QED  BY <2>1, <3>1
  <2> QED  BY <2>3, <2>4, <2>5, <2>6 DEF Composed
<1>6. h = [f \in Ltl!Formulas |-> WhereOf(f, h[f[2]], h[f[3]])]
  <2>1. h = [f \in Ltl!Formulas |-> h[f]]
    OBVIOUS
  <2> HIDE DEF h
  <2> QED  BY <1>5, <2>1
<1> HIDE DEF h
<1>7. \E e : e = [f \in Ltl!Formulas |-> WhereOf(f, e[f[2]], e[f[3]])]
  BY <1>6
<1> QED  BY <1>7, ZenonT(60) DEF Ltl!Where, WhereOf, Positions

LEMMA SumIs ==
  ASSUME NEW a \in Nat, NEW b \in Nat, NEW v, \A i \in a..b : v[i] \in Nat
  PROVE  Ltl!Sum(v, a..b) \in Nat /\ (Ltl!Sum(v, a..b) = 0 <=> \A i \in a..b : v[i] = 0)
<1>1. Ltl!Sum(v, a..b) = Cardinality(Units(a..b, v))
  BY LtlSets DEF Ltl!Sum, Units
<1>2. IsFiniteSet(a..b)
  BY FS_Interval
<1>3. IsFiniteSet(Units(a..b, v))
  BY <1>2, UnitsFinite
<1>4. /\ Cardinality(Units(a..b, v)) \in Nat
      /\ Cardinality(Units(a..b, v)) = 0 <=> Units(a..b, v) = {}
  BY <1>3, FS_CardinalityType, FS_EmptySet
<1>5. Units(a..b, v) = {} <=> \A i \in a..b : v[i] = 0
  <2>1. ASSUME \A i \in a..b : v[i] = 0 PROVE Units(a..b, v) = {}
    <3>1. ASSUME NEW i \in a..b PROVE {i} \X (1..v[i]) = {}
      BY <2>1
    <3> QED  BY <3>1 DEF Units
  <2>2. ASSUME Units(a..b, v) = {}, NEW i \in a..b PROVE v[i] = 0
    <3>1. \A k \in 1..v[i] : <<i, k>> \in Units(a..b, v)
      BY DEF Units
    <3>2. 1 \notin 1..v[i]
      BY <2>2, <3>1
    <3>3. v[i] \in Nat
      OBVIOUS
    <3> QED  BY <3>2, <3>3
  <2> QED  BY <2>1, <2>2
<1> QED  BY <1>1, <1>4, <1>5

LEMMA LeastIsZero ==
  ASSUME NEW a \in Nat, NEW b \in Nat
  PROVE  Ltl!Min({a, b}) \in Nat /\ (Ltl!Min({a, b}) = 0 <=> a = 0 \/ b = 0)
<1>1. Ltl!Min({a, b}) \in {a, b} /\ \A y \in {a, b} : Ltl!Min({a, b}) <= y
  BY LtlMin
<1> QED  BY <1>1

\* The walk, the score and the semantics of one formula agree wherever the trace may be judged.
Agree(C, S, W) ==
  /\ \A pos \in 1..Len(trace) :
       (C[pos] <=> pos \in W) /\ S[pos] \in Nat /\ (S[pos] = 0 <=> C[pos])
  /\ W \subseteq 1..Len(trace)
  /\ C[Len(trace) + 1] /\ S[Len(trace) + 1] = 0

\* The loop of Until finds the position that the semantics asks for.
LEMMA UntilAgrees ==
  ASSUME Len(trace) \in Nat, NEW C, NEW D, NEW W, NEW X, X \subseteq 1..Len(trace),
         \A i \in 1..Len(trace) : (C[i] <=> i \in W) /\ (D[i] <=> i \in X),
         NEW pos \in 1..Len(trace)
  PROVE  Ltl!CheckUntil(C, D, pos) <=> \E k \in X : k >= pos /\ pos..(k - 1) \subseteq W
<1> DEFINE found == {i \in pos..Len(trace) : D[i]}
           m == Ltl!Min(found)
<1>1. \A i : i \in found <=> i \in X /\ i >= pos
  <2>1. ASSUME NEW i \in found PROVE i \in X /\ i >= pos
    <3>1. i \in pos..Len(trace) /\ D[i] /\ i \in 1..Len(trace)
      OBVIOUS
    <3> QED  BY <3>1
  <2>2. ASSUME NEW i \in X, i >= pos PROVE i \in found
    <3>1. i \in 1..Len(trace) /\ i \in pos..Len(trace)
      BY <2>2
    <3>2. D[i]
      BY <3>1
    <3> QED  BY <3>1, <3>2
  <2> QED  BY <2>1, <2>2
<1>2. found \in SUBSET Nat
  OBVIOUS
<1>3. Ltl!CheckUntil(C, D, pos) <=> found # {} /\ \A j \in pos..(m - 1) : C[j]
  BY DEF Ltl!CheckUntil
<1>4. ASSUME found # {} PROVE m \in found /\ m \in Nat /\ \A y \in found : m <= y
  <2> HIDE DEF found
  <2> QED  BY <1>2, <1>4, LtlMin
<1>5. \A k \in found : k \in pos..Len(trace) /\ k \in Nat
  OBVIOUS
<1> HIDE DEF found, m
<1>6. ASSUME found # {}, \A j \in pos..(m - 1) : C[j]
      PROVE  \E k \in X : k >= pos /\ pos..(k - 1) \subseteq W
  <2>1. m \in X /\ m >= pos /\ m \in pos..Len(trace) /\ m \in Nat
    BY <1>1, <1>4, <1>5, <1>6
  <2>2. ASSUME NEW j \in pos..(m - 1) PROVE j \in W
    <3>1. j \in 1..Len(trace)
      BY <2>1
    <3> QED  BY <1>6, <3>1
  <2> QED  BY <2>1, <2>2
<1>7. ASSUME NEW k \in X, k >= pos, pos..(k - 1) \subseteq W
      PROVE  found # {} /\ \A j \in pos..(m - 1) : C[j]
  <2>1. k \in found
    BY <1>1, <1>7
  <2>2. m <= k /\ m \in Nat /\ k \in pos..Len(trace)
    BY <1>4, <1>5, <2>1
  <2>3. ASSUME NEW j \in pos..(m - 1) PROVE C[j]
    <3>1. j \in pos..(k - 1) /\ j \in 1..Len(trace)
      BY <2>2
    <3> QED  BY <1>7, <3>1
  <2> QED  BY <2>1, <2>3
<1> QED  BY <1>3, <1>6, <1>7

\* So does the loop of Release, which stops early where psi fails.
LEMMA ReleaseAgrees ==
  ASSUME Len(trace) \in Nat, NEW C, NEW D, NEW W, NEW X, W \subseteq 1..Len(trace),
         \A i \in 1..Len(trace) : (C[i] <=> i \in W) /\ (D[i] <=> i \in X),
         NEW pos \in 1..Len(trace)
  PROVE  Ltl!CheckRelease(C, D, pos)
           <=> \A k \in pos..Len(trace) : k \in X \/ pos..(k - 1) \cap W # {}
<1> DEFINE ends == {i \in pos..Len(trace) : C[i] \/ ~D[i]}
           m == Ltl!Min(ends)
<1>1. \A i : i \in ends <=> i \in pos..Len(trace) /\ (i \in W \/ i \notin X)
  OBVIOUS
<1>2. ends \in SUBSET Nat
  OBVIOUS
<1>3. /\ ends = {} => (Ltl!CheckRelease(C, D, pos) <=> \A j \in pos..Len(trace) : D[j])
      /\ ends # {} => (Ltl!CheckRelease(C, D, pos) <=> C[m] /\ \A j \in pos..m : D[j])
  BY DEF Ltl!CheckRelease
<1>4. ASSUME ends # {} PROVE m \in ends /\ m \in Nat /\ \A y \in ends : m <= y
  <2> HIDE DEF ends
  <2> QED  BY <1>2, <1>4, LtlMin
<1>5. \A k \in pos..Len(trace) : k \in 1..Len(trace) /\ k \in Nat
  OBVIOUS
<1> HIDE DEF ends, m
<1>6. CASE ends = {}
  <2>1. \A k \in pos..Len(trace) : k \notin W /\ k \in X
    BY <1>1, <1>6
  <2>2. \A k \in pos..Len(trace) : D[k]
    BY <1>5, <2>1
  <2> QED  BY <1>3, <1>6, <2>1, <2>2
<1>7. CASE ends # {}
  <2>1. m \in pos..Len(trace) /\ m \in Nat /\ m \in 1..Len(trace) /\ (m \in W \/ m \notin X)
    BY <1>1, <1>4, <1>5, <1>7
  <2>2. ASSUME NEW j \in pos..(m - 1) PROVE j \in pos..Len(trace) /\ j \notin W /\ j \in X
    <3>1. j \in pos..Len(trace) /\ ~(m <= j)
      BY <2>1
    <3>2. j \notin ends
      BY <1>4, <1>7, <3>1
    <3> QED  BY <1>1, <3>1, <3>2
  <2>3. ASSUME C[m], \A j \in pos..m : D[j], NEW k \in pos..Len(trace)
        PROVE  k \in X \/ pos..(k - 1) \cap W # {}
    <3>1. CASE k <= m
      <4>1. k \in pos..m /\ k \in 1..Len(trace)
        BY <1>5, <2>1, <3>1
      <4> QED  BY <2>3, <4>1
    <3>2. CASE ~(k <= m)
      <4>1. m \in pos..(k - 1)
        BY <2>1, <3>2
      <4>2. m \in W
        BY <2>1, <2>3
      <4> QED  BY <4>1, <4>2
    <3> QED  BY <3>1, <3>2
  <2>4. ASSUME \A k \in pos..Len(trace) : k \in X \/ pos..(k - 1) \cap W # {}
        PROVE  C[m] /\ \A j \in pos..m : D[j]
    <3>1. pos..(m - 1) \cap W = {}
      BY <2>2
    <3>2. m \in X
      BY <2>1, <2>4, <3>1
    <3>3. C[m]
      BY <2>1, <3>2
    <3>4. ASSUME NEW j \in pos..m PROVE D[j]
      <4>1. j = m \/ j \in pos..(m - 1)
        BY <2>1
      <4>2. j \in X /\ j \in 1..Len(trace)
        BY <1>5, <2>1, <2>2, <3>2, <4>1
      <4> QED  BY <4>2
    <3> QED  BY <3>3, <3>4
  <2> QED  BY <1>3, <1>7, <2>3, <2>4
<1> QED  BY <1>6, <1>7

\* An operator over parts that agree gives a formula that agrees.
LEMMA AgreeOver ==
  ASSUME Len(trace) \in Nat, DOMAIN trace = 1..Len(trace),
         NEW f, NEW C, NEW D, NEW S, NEW T, NEW W, NEW X,
         \/ f[1] = "Atom"
         \/ f[1] \in Ltl!Unary /\ Agree(C, S, W)
         \/ f[1] \in Ltl!Binary /\ Agree(C, S, W) /\ Agree(D, T, X),
         Ltl!CheckFormula[f] = CheckOf(f, C, D)
  PROVE  Agree(CheckOf(f, C, D), ScoreOf(f, S, T), WhereOf(f, W, X))
<1> DEFINE n == Len(trace)
           check == CheckOf(f, C, D)
           score == ScoreOf(f, S, T)
           where == WhereOf(f, W, X)
<1>1. check[n + 1] /\ score[n + 1] = 0 /\ where \subseteq 1..n
  <2>1. n + 1 \in Positions /\ n + 1 > n
    BY DEF Positions
  <2>2. check[n + 1]
    BY <2>1 DEF CheckOf
  <2>3. score[n + 1] = 0
    BY <2>1 DEF ScoreOf
  <2>4. where \subseteq 1..n
    BY DEF WhereOf
  <2> QED  BY <2>2, <2>3, <2>4
<1>2. ASSUME NEW pos \in 1..n
      PROVE  (check[pos] <=> pos \in where) /\ score[pos] \in Nat /\ (score[pos] = 0 <=> check[pos])
  <2>1. pos \in Positions /\ ~(pos > n) /\ pos \in DOMAIN trace /\ pos \in Nat /\ pos..n \subseteq 1..n
    BY DEF Positions
  <2>2. check[pos] <=>
          \/ f[1] = "Atom" /\ f[2] \in trace[pos]
          \/ f[1] = "Always" /\ \A i \in pos..n : C[i]
          \/ f[1] = "Eventually" /\ \E i \in pos..n : C[i]
          \/ f[1] = "Next" /\ C[pos + 1]
          \/ f[1] = "Until" /\ Ltl!CheckUntil(C, D, pos)
          \/ f[1] = "Release" /\ Ltl!CheckRelease(C, D, pos)
          \/ f[1] = "And" /\ C[pos] /\ D[pos]
          \/ f[1] = "Or" /\ (C[pos] \/ D[pos])
          \/ f[1] = "Not" /\ ~C[pos]
    BY <2>1 DEF CheckOf
  <2>3. pos \in where <=>
          \/ f[1] = "Atom" /\ f[2] \in trace[pos]
          \/ f[1] = "Not" /\ pos \notin W
          \/ f[1] = "And" /\ pos \in W /\ pos \in X
          \/ f[1] = "Or" /\ (pos \in W \/ pos \in X)
          \/ f[1] = "Next" /\ (pos + 1 \in W \/ pos = n)
          \/ f[1] = "Always" /\ pos..n \subseteq W
          \/ f[1] = "Eventually" /\ pos..n \cap W # {}
          \/ f[1] = "Until" /\ \E k \in X : k >= pos /\ pos..(k - 1) \subseteq W
          \/ f[1] = "Release" /\ \A k \in pos..n : k \in X \/ pos..(k - 1) \cap W # {}
    BY <2>1 DEF WhereOf
  <2>4. score[pos] = (IF f[1] = "Always" THEN Ltl!Sum(S, pos..n)
                      ELSE IF f[1] = "Next" THEN S[pos + 1]
                      ELSE IF f[1] = "And" THEN S[pos] + T[pos]
                      ELSE IF f[1] = "Or" THEN Ltl!Min({S[pos], T[pos]})
                      ELSE IF check[pos] THEN 0 ELSE 1)
    BY <2>1 DEF ScoreOf
  <2> HIDE DEF check, score, where
  <2>5. f[1] \in Ltl!Unary => Agree(C, S, W)
    BY DEF Ltl!Unary, Ltl!Binary
  <2>6. f[1] \in Ltl!Binary => Agree(C, S, W) /\ Agree(D, T, X)
    BY DEF Ltl!Unary, Ltl!Binary
  <2>7. ASSUME f[1] # "Always", f[1] # "Next", f[1] # "And", f[1] # "Or"
        PROVE  score[pos] \in Nat /\ (score[pos] = 0 <=> check[pos])
    <3>1. score[pos] = IF check[pos] THEN 0 ELSE 1
      BY <2>4, <2>7
    <3> QED  BY <3>1
  <2>8. CASE f[1] = "Atom"
    <3>1. check[pos] <=> f[2] \in trace[pos]
      BY <2>2, <2>8
    <3>2. pos \in where <=> f[2] \in trace[pos]
      BY <2>3, <2>8
    <3> QED  BY <2>7, <2>8, <3>1, <3>2
  <2>9. ASSUME Agree(C, S, W)
        PROVE  /\ \A i \in 1..n : (C[i] <=> i \in W) /\ S[i] \in Nat /\ (S[i] = 0 <=> C[i])
               /\ W \subseteq 1..n /\ C[n + 1] /\ S[n + 1] = 0
    BY <2>9 DEF Agree
  <2>10. CASE f[1] = "Always"
    <3>1. Agree(C, S, W)
      BY <2>5, <2>10 DEF Ltl!Unary
    <3>2. check[pos] <=> \A i \in pos..n : C[i]
      BY <2>2, <2>10
    <3>3. pos \in where <=> pos..n \subseteq W
      BY <2>3, <2>10
    <3>4. \A i \in pos..n : (C[i] <=> i \in W) /\ S[i] \in Nat /\ (S[i] = 0 <=> C[i])
      BY <2>1, <2>9, <3>1
    <3>5. score[pos] = Ltl!Sum(S, pos..n)
      BY <2>4, <2>10
    <3> HIDE DEF n
    <3>6. Ltl!Sum(S, pos..n) \in Nat /\ (Ltl!Sum(S, pos..n) = 0 <=> \A i \in pos..n : S[i] = 0)
      <4>1. n \in Nat
        BY DEF n
      <4> QED  BY <2>1, <3>4, <4>1, SumIs
    <3>7. check[pos] <=> pos \in where
      BY <3>2, <3>3, <3>4
    <3>8. score[pos] \in Nat /\ (score[pos] = 0 <=> check[pos])
      BY <3>2, <3>4, <3>5, <3>6
    <3> QED  BY <3>7, <3>8
  <2>11. CASE f[1] = "Eventually"
    <3>1. Agree(C, S, W)
      BY <2>5, <2>11 DEF Ltl!Unary
    <3>2. check[pos] <=> \E i \in pos..n : C[i]
      BY <2>2, <2>11
    <3>3. pos \in where <=> pos..n \cap W # {}
      BY <2>3, <2>11
    <3>4. \A i \in pos..n : C[i] <=> i \in W
      BY <2>1, <2>9, <3>1
    <3>5. check[pos] <=> pos \in where
      BY <3>2, <3>3, <3>4
    <3> QED  BY <2>7, <2>11, <3>5
  <2>12. CASE f[1] = "Next"
    <3>1. Agree(C, S, W)
      BY <2>5, <2>12 DEF Ltl!Unary
    <3>2. (check[pos] <=> C[pos + 1]) /\ score[pos] = S[pos + 1]
      BY <2>2, <2>4, <2>12
    <3>3. pos \in where <=> (pos + 1 \in W \/ pos = n)
      BY <2>3, <2>12
    <3>4. CASE pos = n
      <4>1. C[pos + 1] /\ S[pos + 1] = 0
        BY <2>9, <3>1, <3>4
      <4> QED  BY <3>2, <3>3, <3>4, <4>1
    <3>5. CASE pos # n
      <4>1. pos + 1 \in 1..n
        BY <2>1, <3>5
      <4>2. (C[pos + 1] <=> pos + 1 \in W) /\ S[pos + 1] \in Nat /\ (S[pos + 1] = 0 <=> C[pos + 1])
        BY <2>9, <3>1, <4>1
      <4> QED  BY <3>2, <3>3, <3>5, <4>2, ZenonT(60)
    <3> QED  BY <3>4, <3>5, ZenonT(60)
  <2>13. CASE f[1] = "Not"
    <3>1. Agree(C, S, W)
      BY <2>5, <2>13 DEF Ltl!Unary
    <3>2. check[pos] <=> ~C[pos]
      BY <2>2, <2>13
    <3>3. pos \in where <=> pos \notin W
      BY <2>3, <2>13
    <3>4. C[pos] <=> pos \in W
      BY <2>9, <3>1
    <3> QED  BY <2>7, <2>13, <3>2, <3>3, <3>4
  <2>14. ASSUME Agree(D, T, X)
         PROVE  /\ \A i \in 1..n : (D[i] <=> i \in X) /\ T[i] \in Nat /\ (T[i] = 0 <=> D[i])
                /\ X \subseteq 1..n
    BY <2>14 DEF Agree
  <2>15. CASE f[1] \in Ltl!Binary
    <3>1. /\ \A i \in 1..n : (C[i] <=> i \in W) /\ (D[i] <=> i \in X)
          /\ W \subseteq 1..n /\ X \subseteq 1..n
      BY <2>6, <2>9, <2>14, <2>15
    <3>2. /\ S[pos] \in Nat /\ (S[pos] = 0 <=> C[pos]) /\ T[pos] \in Nat /\ (T[pos] = 0 <=> D[pos])
      BY <2>6, <2>9, <2>14, <2>15
    <3>3. CASE f[1] = "Until"
      <4>1. check[pos] <=> Ltl!CheckUntil(C, D, pos)
        BY <2>2, <3>3
      <4>2. pos \in where <=> \E k \in X : k >= pos /\ pos..(k - 1) \subseteq W
        BY <2>3, <3>3
      <4>3. Ltl!CheckUntil(C, D, pos) <=> \E k \in X : k >= pos /\ pos..(k - 1) \subseteq W
        BY <3>1, UntilAgrees, ZenonT(60)
      <4>4. check[pos] <=> pos \in where
        BY <4>1, <4>2, <4>3
      <4> QED  BY <2>7, <3>3, <4>4
    <3>4. CASE f[1] = "Release"
      <4>1. check[pos] <=> Ltl!CheckRelease(C, D, pos)
        BY <2>2, <3>4
      <4>2. pos \in where <=> \A k \in pos..n : k \in X \/ pos..(k - 1) \cap W # {}
        BY <2>3, <3>4
      <4>3. Ltl!CheckRelease(C, D, pos) <=> \A k \in pos..n : k \in X \/ pos..(k - 1) \cap W # {}
        BY <3>1, ReleaseAgrees
      <4>4. check[pos] <=> pos \in where
        BY <4>1, <4>2, <4>3
      <4> QED  BY <2>7, <3>4, <4>4
    <3>5. CASE f[1] = "And"
      <4>1. (check[pos] <=> C[pos] /\ D[pos]) /\ score[pos] = S[pos] + T[pos]
        BY <2>2, <2>4, <3>5
      <4>2. pos \in where <=> pos \in W /\ pos \in X
        BY <2>3, <3>5
      <4>3. \A a, b \in Nat : a + b \in Nat /\ (a + b = 0 <=> a = 0 /\ b = 0)
        OBVIOUS
      <4>4. S[pos] + T[pos] \in Nat /\ (S[pos] + T[pos] = 0 <=> S[pos] = 0 /\ T[pos] = 0)
        BY <3>2, <4>3
      <4> QED  BY <3>1, <3>2, <4>1, <4>2, <4>4
    <3>6. CASE f[1] = "Or"
      <4>1. (check[pos] <=> C[pos] \/ D[pos]) /\ score[pos] = Ltl!Min({S[pos], T[pos]})
        BY <2>2, <2>4, <3>6
      <4>2. pos \in where <=> pos \in W \/ pos \in X
        BY <2>3, <3>6
      <4>3. /\ Ltl!Min({S[pos], T[pos]}) \in Nat
            /\ Ltl!Min({S[pos], T[pos]}) = 0 <=> S[pos] = 0 \/ T[pos] = 0
        BY <3>2, LeastIsZero
      <4> QED  BY <3>1, <3>2, <4>1, <4>2, <4>3
    <3> QED  BY <2>15, <3>3, <3>4, <3>5, <3>6 DEF Ltl!Binary
  <2> QED  BY <2>8, <2>10, <2>11, <2>12, <2>13, <2>15 DEF Ltl!Unary
<1> HIDE DEF check, score, where
<1>3. Agree(check, score, where)
  BY <1>1, <1>2 DEF Agree
<1> QED  BY <1>3 DEF check, score, where

Agreed(f) == Agree(Ltl!CheckFormula[f], Ltl!CountViolations[f], Ltl!Where[f])

LEMMA FormulaAgrees ==
  ASSUME Depth \in Nat, Len(trace) \in Nat, DOMAIN trace = 1..Len(trace), NEW f \in Ltl!Formulas,
         f[1] = "Atom" \/ (f[1] \in Ltl!Unary /\ Agreed(f[2]))
           \/ (f[1] \in Ltl!Binary /\ Agreed(f[2]) /\ Agreed(f[3]))
  PROVE  Agreed(f)
<1>1. Ltl!CheckFormula[f] = CheckOf(f, Ltl!CheckFormula[f[2]], Ltl!CheckFormula[f[3]])
  BY CheckIs, Zenon
<1>2. Ltl!CountViolations[f] = ScoreOf(f, Ltl!CountViolations[f[2]], Ltl!CountViolations[f[3]])
  BY ScoreIs, Zenon
<1>3. Ltl!Where[f] = WhereOf(f, Ltl!Where[f[2]], Ltl!Where[f[3]])
  BY WhereIs, Zenon
<1>4. Agree(CheckOf(f, Ltl!CheckFormula[f[2]], Ltl!CheckFormula[f[3]]),
            ScoreOf(f, Ltl!CountViolations[f[2]], Ltl!CountViolations[f[3]]),
            WhereOf(f, Ltl!Where[f[2]], Ltl!Where[f[3]]))
  BY <1>1, AgreeOver DEF Agreed
<1> QED  BY <1>1, <1>2, <1>3, <1>4 DEF Agreed

LEMMA FormulasAgree ==
  ASSUME Depth \in Nat, Len(trace) \in Nat, DOMAIN trace = 1..Len(trace)
  PROVE  \A f \in Ltl!Formulas : Agreed(f)
<1> DEFINE P == {d \in 0..Depth : \A f \in Ltl!Nested[d] : Agreed(f)}
<1>1. 0 \in P
  <2>1. ASSUME NEW f \in Ltl!Nested[0] PROVE Agreed(f)
    <3>1. f \in Ltl!Literals /\ 0 \in 0..Depth
      BY NestedFacts
    <3>2. f \in Ltl!Formulas /\ f[1] = "Atom"
      BY <3>1, NestedWithin, LiteralIs
    <3> QED  BY <3>2, FormulaAgrees
  <2>2. 0 \in 0..Depth
    OBVIOUS
  <2> QED  BY <2>1, <2>2
<1>2. ASSUME NEW d \in 0..Depth, d # Depth, d \in P PROVE d + 1 \in P
  <2>1. d + 1 \in 0..Depth
    BY <1>2
  <2>2. ASSUME NEW f \in Ltl!Nested[d + 1] PROVE Agreed(f)
    <3>1. f \in Ltl!Formulas
      BY <2>1, NestedWithin
    <3>2. f \in Ltl!Literals \/ Composed(f, Ltl!Nested[d])
      BY <1>2, NestedSplit
    <3>3. \A c \in Ltl!Nested[d] : Agreed(c)
      BY <1>2
    <3>4. f[1] = "Atom" \/ (f[1] \in Ltl!Unary /\ Agreed(f[2]))
            \/ (f[1] \in Ltl!Binary /\ Agreed(f[2]) /\ Agreed(f[3]))
      BY <3>2, <3>3, LiteralIs DEF Composed
    <3> QED  BY <3>1, <3>4, FormulaAgrees
  <2> QED  BY <2>1, <2>2
<1>3. \A d \in 0..Depth : d \in P
  <2> HIDE DEF P
  <2> QED  BY <1>1, <1>2, Climb
<1>4. Depth \in 0..Depth
  OBVIOUS
<1> QED  BY <1>3, <1>4 DEF Ltl!Formulas

\* The inductive invariant is about the trace alone.
LtlSafe == trace \in Seq(SUBSET Atoms) /\ Len(trace) <= MaxTraceLength

LEMMA LtlConstants ==
  ASSUME Ltl!LTLAssumption
  PROVE  MaxTraceLength \in Nat /\ Depth \in Nat
BY DEF Ltl!LTLAssumption

LEMMA LtlInitial ==
  ASSUME Ltl!LTLAssumption, Ltl!Init
  PROVE  LtlSafe
<1>1. <<>> \in Seq(SUBSET Atoms) /\ Len(<<>>) = 0
  OBVIOUS
<1> QED  BY <1>1, LtlConstants DEF Ltl!Init, LtlSafe

LEMMA LtlStep ==
  ASSUME Ltl!LTLAssumption, LtlSafe, [Ltl!Next]_ltlVars
  PROVE  LtlSafe'
<1>1. <<>> \in Seq(SUBSET Atoms) /\ Len(<<>>) = 0 /\ MaxTraceLength \in Nat
  BY LtlConstants
<1>2. CASE UNCHANGED ltlVars
  BY <1>2 DEF ltlVars, LtlSafe
<1>3. CASE Ltl!Reset
  BY <1>1, <1>3 DEF Ltl!Reset, LtlSafe
<1>4. ASSUME NEW value \in SUBSET Atoms, Ltl!Push(value) PROVE LtlSafe'
  <2> DEFINE longer == Append(trace, value)
  <2>1. trace \in Seq(SUBSET Atoms) /\ Len(trace) <= MaxTraceLength
    BY DEF LtlSafe
  <2>2. /\ longer \in Seq(SUBSET Atoms) /\ Len(longer) = Len(trace) + 1 /\ Len(trace) \in Nat
        /\ longer # <<>>
    BY <2>1
  <2>3. trace' = IF Len(longer) > MaxTraceLength THEN Tail(longer) ELSE longer
    BY <1>4 DEF Ltl!Push
  <2> HIDE DEF longer
  <2>4. Tail(longer) \in Seq(SUBSET Atoms) /\ Len(Tail(longer)) = Len(longer) - 1
    BY <2>2
  <2>5. CASE Len(longer) > MaxTraceLength
    <3>1. trace' = Tail(longer)
      BY <2>3, <2>5
    <3>2. Len(Tail(longer)) <= MaxTraceLength
      BY <1>1, <2>1, <2>2, <2>4
    <3> QED  BY <2>4, <3>1, <3>2 DEF LtlSafe
  <2>6. CASE ~(Len(longer) > MaxTraceLength)
    <3>1. trace' = longer
      BY <2>3, <2>6
    <3>2. Len(longer) <= MaxTraceLength
      BY <1>1, <2>2, <2>6
    <3> QED  BY <2>2, <3>1, <3>2 DEF LtlSafe
  <2> QED  BY <2>5, <2>6
<1> QED  BY <1>2, <1>3, <1>4 DEF Ltl!Next

LEMMA LtlImplies ==
  ASSUME Ltl!LTLAssumption, LtlSafe
  PROVE  Ltl!LTLInv
<1>1. /\ trace \in Seq(SUBSET Atoms) /\ Len(trace) <= MaxTraceLength
      /\ Len(trace) \in Nat /\ DOMAIN trace = 1..Len(trace) /\ Depth \in Nat
      /\ (trace = <<>> <=> Len(trace) = 0)
  BY LtlConstants DEF LtlSafe
<1>2. ASSUME NEW f \in Ltl!Formulas
      PROVE  /\ Ltl!Check(f) <=> (trace = <<>> \/ 1 \in Ltl!Where[f])
             /\ Ltl!Check(f) <=> Ltl!CountViolations[f][1] = 0
  <2>1. Agreed(f)
    BY <1>1, FormulasAgree
  <2>2. CASE trace = <<>>
    <3>1. Len(trace) + 1 = 1
      BY <1>1, <2>2
    <3>2. Ltl!CountViolations[f][Len(trace) + 1] = 0
      BY <2>1 DEF Agreed, Agree
    <3>3. Ltl!CountViolations[f][1] = 0
      BY <3>1, <3>2
    <3> QED  BY <2>2, <3>3 DEF Ltl!Check
  <2>3. CASE trace # <<>>
    <3>1. 1 \in 1..Len(trace)
      BY <1>1, <2>3
    <3>2. /\ Ltl!CheckFormula[f][1] <=> 1 \in Ltl!Where[f]
          /\ Ltl!CountViolations[f][1] = 0 <=> Ltl!CheckFormula[f][1]
      BY <2>1, <3>1 DEF Agreed, Agree
    <3> QED  BY <2>3, <3>2 DEF Ltl!Check
  <2> QED  BY <2>2, <2>3
<1> QED  BY <1>1, <1>2 DEF Ltl!LTLInv

\* The verdict of the checker is the meaning of the formula on the trace it kept, and the score is
\* 0 exactly then: for formulas of any depth over any atoms, and traces of any length.
THEOREM VerdictIsMeaning == AllSpec => []LTLInv
<1>1. AllInit => LtlSafe
  BY LtlInitial, ServicesAssumption DEF AllInit
<1>2. LtlSafe /\ [AllNext]_allVars => LtlSafe'
  BY PartSteps, LtlStep, ServicesAssumption
<1>3. LtlSafe => LTLInv
  BY LtlImplies, ServicesAssumption DEF LTLInv
<1> QED
  BY <1>1, <1>2, <1>3, PTL DEF AllSpec
=============================================================================
