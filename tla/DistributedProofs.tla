------------------------- MODULE DistributedProofs -------------------------
(***************************************************************************)
(* The gradient exchanges, for any number of workers, lengths and calls:   *)
(* ThreadedGradientSync keeps its rounds apart, SharedGradientStore takes  *)
(* each mean once and reports what became of it, and both are all-reduces. *)
(* The WebSocket stream, for any buffer, delays and faults: it keeps the   *)
(* order of the messages over all its connections and mislays none.        *)
(***************************************************************************)
EXTENDS MCDistributed, FiniteSetTheorems, SequenceTheorems, TLAPS

-----------------------------------------------------------------------------
(* ThreadedGradientSync: counting the workers *)

\* The operators of FiniteSets as GradientBarrier sees them.
LEMMA BarrierSets ==
  ASSUME NEW S
  PROVE  /\ Barrier!IsFiniteSet(S) <=> IsFiniteSet(S)
         /\ Barrier!Cardinality(S) = Cardinality(S)
BY DEF IsFiniteSet, Barrier!IsFiniteSet, Cardinality, Barrier!Cardinality

LEMMA ThreadsCounted ==
  ASSUME Barrier!BarrierAssumption, NEW S \in SUBSET Threads
  PROVE  /\ IsFiniteSet(S) /\ Cardinality(S) \in Nat
         /\ Barrier!Cardinality(S) = Cardinality(S)
         /\ Barrier!WorkerCount \in Nat \ {0}
         /\ Cardinality(S) <= Barrier!WorkerCount
         /\ Cardinality(S) = Barrier!WorkerCount <=> S = Threads
         /\ Cardinality(S) = 0 <=> S = {}
<1>1. IsFiniteSet(Threads) /\ Threads # {} /\ Barrier!WorkerCount = Cardinality(Threads)
  BY BarrierSets DEF Barrier!BarrierAssumption, Barrier!WorkerCount
<1>2. IsFiniteSet(S) /\ Cardinality(S) <= Cardinality(Threads)
      /\ (Cardinality(S) = Cardinality(Threads) => S = Threads)
  BY <1>1, FS_Subset
<1>3. Cardinality(S) \in Nat /\ Cardinality(Threads) \in Nat
  BY <1>1, <1>2, FS_CardinalityType
<1>4. (Cardinality(S) = 0 <=> S = {}) /\ Cardinality(Threads) # 0
  BY <1>1, <1>2, FS_EmptySet
<1> QED
  BY <1>1, <1>2, <1>3, <1>4, BarrierSets

LEMMA OneMoreThread ==
  ASSUME Barrier!BarrierAssumption, NEW S \in SUBSET Threads, NEW w \in Threads \ S
  PROVE  Cardinality(S \cup {w}) = Cardinality(S) + 1
BY ThreadsCounted, FS_AddElement

-----------------------------------------------------------------------------
(* ThreadedGradientSync: the rounds do not overlap *)

\* Gradients of one length, and what they come to, as operators of the gradients.
Fits(gave, S) == \A v, w \in S : gave[v].len = gave[w].len
Total(gave, S) == {gave[w] : w \in S}

\* What a worker brings, and whether the round is lost with it.
Brings(w, n) == [by |-> w, call |-> syncs[w] + 1, len |-> n]
Bad(n) == aborted \/ Barrier!Mismatch(n)

\* A worker joins those who wait: the round is lost exactly if the lengths differ.
LEMMA JoinsRound ==
  ASSUME Barrier!TypeOK, Barrier!Filling, NEW w \in Threads, bpc[w] = "out", NEW n \in Lens,
         gradients' = [gradients EXCEPT ![w] = Brings(w, n)]
  PROVE  /\ \A v \in Barrier!Waiting : gradients'[v] = gradients[v]
         /\ gradients'[w] = Brings(w, n)
         /\ Bad(n) <=> ~Fits(gradients', Barrier!Waiting \cup {w})
         /\ ~Bad(n) => accumulator \cup {Brings(w, n)} = Total(gradients', Barrier!Waiting \cup {w})
<1> DEFINE W == Barrier!Waiting
<1>1. W \subseteq Threads /\ w \notin W
  BY DEF Barrier!Waiting
<1>2. gradients'[w] = Brings(w, n) /\ \A v \in W : gradients'[v] = gradients[v]
  BY <1>1 DEF Barrier!TypeOK
<1>3. (aborted <=> ~Fits(gradients, W)) /\ (~aborted => accumulator = Total(gradients, W))
  BY DEF Barrier!Filling, Barrier!SameLen, Barrier!Sum, Fits, Total
<1>4. Brings(w, n).len = n
  BY DEF Brings
<1> HIDE DEF W
<1>5. Bad(n) <=> ~Fits(gradients', W \cup {w})
  <2>1. CASE aborted
    BY <2>1, <1>2, <1>3 DEF Bad, Fits
  <2>2. CASE ~aborted
    <3>1. Barrier!Mismatch(n) <=> \E v \in W : gradients[v].len # n
      BY <2>2, <1>3 DEF Barrier!Mismatch, Total
    <3> QED
      BY <2>2, <3>1, <1>2, <1>3, <1>4 DEF Bad, Fits
  <2> QED
    BY <2>1, <2>2
<1>6. ~Bad(n) => accumulator \cup {Brings(w, n)} = Total(gradients', W \cup {w})
  BY <1>2, <1>3 DEF Bad, Total
<1> QED
  BY <1>2, <1>5, <1>6 DEF W

\* The gradient of a call within the bound is one.
LEMMA BroughtGradient ==
  ASSUME Barrier!BarrierAssumption, Barrier!TypeOK, NEW w \in Threads, NEW n \in Lens,
         syncs[w] < MaxSyncs
  PROVE  Brings(w, n) \in Barrier!Gradients /\ syncs[w] + 1 \in 0..MaxSyncs
BY DEF Barrier!BarrierAssumption, Barrier!TypeOK, Brings, Barrier!Gradients

LEMMA DepositWaitInv ==
  ASSUME Barrier!BarrierAssumption, Barrier!BarrierInv, NEW w \in Threads, NEW n \in Lens,
         bpc[w] = "out", syncs[w] < MaxSyncs,
         syncs' = [syncs EXCEPT ![w] = @ + 1],
         gradients' = [gradients EXCEPT ![w] = Brings(w, n)],
         aborted' = Bad(n), arrived' = arrived + 1, arrived + 1 # Barrier!WorkerCount,
         Barrier!DepositWait(w, Brings(w, n), Bad(n)), departed' = departed
  PROVE  Barrier!BarrierInv'
<1>1. Barrier!Filling /\ Barrier!TypeOK
  BY DEF Barrier!BarrierInv, Barrier!Draining, Barrier!Passed, Barrier!Leaving
<1> DEFINE W == Barrier!Waiting
<1>2. W \in SUBSET Threads /\ w \notin W
  BY DEF Barrier!Waiting
<1>3. arrived = Cardinality(W) /\ W # Threads
  BY <1>1, <1>2, ThreadsCounted DEF Barrier!Filling
<1>4. Cardinality(W \cup {w}) = arrived + 1
  BY <1>2, <1>3, OneMoreThread
<1>5. Barrier!Waiting' = W \cup {w}
  BY <1>1 DEF Barrier!DepositWait, Barrier!Waiting, Barrier!TypeOK
<1>6. Barrier!Passed' = {}
  BY <1>1 DEF Barrier!DepositWait, Barrier!Passed, Barrier!TypeOK, Barrier!Filling
<1>7. Brings(w, n) \in Barrier!Gradients /\ syncs[w] + 1 \in 0..MaxSyncs
  BY <1>1, BroughtGradient
<1>8. W \cup {w} # Threads /\ Barrier!Cardinality(W \cup {w}) = arrived + 1
      /\ arrived + 1 \in 0..Barrier!WorkerCount
  <2>1. W \cup {w} \in SUBSET Threads /\ arrived \in Nat
    BY <1>2, <1>3, ThreadsCounted
  <2> HIDE DEF W
  <2>2. /\ Barrier!Cardinality(W \cup {w}) = Cardinality(W \cup {w})
        /\ Barrier!WorkerCount \in Nat
        /\ Cardinality(W \cup {w}) <= Barrier!WorkerCount
        /\ W \cup {w} = Threads => Cardinality(W \cup {w}) = Barrier!WorkerCount
    BY <2>1, ThreadsCounted
  <2> QED
    BY <2>1, <2>2, <1>4
<1>9. Barrier!Filling'
  <2>1. (aborted' <=> ~Barrier!SameLen(Barrier!Waiting)')
        /\ (~aborted' => accumulator' = Barrier!Sum(Barrier!Waiting)')
    BY <1>1, <1>5, JoinsRound DEF Barrier!SameLen, Barrier!Sum, Fits, Total, Barrier!DepositWait
  <2>2. departed' = 0 /\ result' = {}
    BY <1>1 DEF Barrier!Filling, Barrier!DepositWait
  <2> QED
    BY <1>5, <1>6, <1>8, <2>1, <2>2 DEF Barrier!Filling
<1>10. Barrier!TypeOK'
  BY <1>1, <1>7, <1>8 DEF Barrier!TypeOK, Barrier!DepositWait, Bad
<1> QED
  BY <1>9, <1>10 DEF Barrier!BarrierInv

LEMMA DepositLastInv ==
  ASSUME Barrier!BarrierAssumption, Barrier!BarrierInv, NEW w \in Threads, NEW n \in Lens,
         bpc[w] = "out", syncs[w] < MaxSyncs,
         syncs' = [syncs EXCEPT ![w] = @ + 1],
         gradients' = [gradients EXCEPT ![w] = Brings(w, n)],
         aborted' = Bad(n), arrived' = arrived + 1, arrived + 1 = Barrier!WorkerCount,
         Barrier!DepositLast(w, Brings(w, n), Bad(n)), departed' = departed
  PROVE  /\ Barrier!BarrierInv'
         /\ Barrier!Filling /\ Barrier!Waiting \cup {w} = Threads
         /\ Barrier!Passed' = Threads /\ Barrier!Leaving' = {}
         /\ result' = IF Bad(n) THEN {} ELSE Total(gradients', Threads)
         /\ Bad(n) <=> ~Fits(gradients', Threads)
<1>1. Barrier!Filling /\ Barrier!TypeOK
  BY DEF Barrier!BarrierInv, Barrier!Draining, Barrier!Passed, Barrier!Leaving
<1> DEFINE W == Barrier!Waiting
<1>2. W \in SUBSET Threads /\ w \notin W /\ W \cup {w} \in SUBSET Threads
  BY DEF Barrier!Waiting
<1>3. arrived = Cardinality(W)
  BY <1>1, <1>2, ThreadsCounted DEF Barrier!Filling
<1>4. W \cup {w} = Threads
  BY <1>2, <1>3, OneMoreThread, ThreadsCounted
<1>5. \A v \in Threads \ {w} : bpc[v] = "arrive" /\ genBefore[v] = generation
  BY <1>4 DEF Barrier!Waiting
<1>6. bpc \in [Threads -> {"out", "arrive", "copy", "depart", "leave"}] /\ generation \in Nat
      /\ abort \in [Threads -> BOOLEAN]
  BY <1>1 DEF Barrier!TypeOK
<1>7. /\ bpc'[w] = IF Bad(n) THEN "depart" ELSE "copy"
      /\ \A v \in Threads \ {w} : bpc'[v] = "arrive" /\ genBefore'[v] # generation'
  BY <1>5, <1>6 DEF Barrier!DepositLast, Barrier!Pass
<1>8. Barrier!Waiting' = {} /\ Barrier!Passed' = Threads /\ Barrier!Leaving' = {}
  BY <1>7 DEF Barrier!Waiting, Barrier!Passed, Barrier!Leaving
<1>9. /\ Bad(n) <=> ~Fits(gradients', Threads)
      /\ ~Bad(n) => accumulator \cup {Brings(w, n)} = Total(gradients', Threads)
  BY <1>1, <1>4, JoinsRound
<1>10. result' = IF Bad(n) THEN {} ELSE Total(gradients', Threads)
  BY <1>1, <1>9 DEF Barrier!DepositLast, Barrier!Filling
<1>11. Barrier!Draining'
  <2>1. arrived' = Barrier!WorkerCount /\ departed' = Barrier!Cardinality({})
    BY <1>1, ThreadsCounted DEF Barrier!Filling
  <2>2. aborted' <=> ~Barrier!SameLen(Threads)'
    BY <1>9 DEF Barrier!SameLen, Fits
  <2>3. result' = IF aborted' THEN {} ELSE Barrier!Sum(Threads)'
    BY <1>10 DEF Barrier!Sum, Total
  <2>4. \A v \in Threads : bpc'[v] = "copy" => ~aborted'
    BY <1>7
  <2>5. \A v \in Threads : bpc'[v] \in {"depart", "leave"} => outcome'[v] = result'
    BY <1>1, <1>7, <1>10 DEF Barrier!DepositLast, Barrier!Pass, Barrier!TypeOK
  <2>6. \A v \in Threads : bpc'[v] # "arrive" => abort'[v] = aborted'
    BY <1>6, <1>7 DEF Barrier!DepositLast, Barrier!Pass
  <2>7. Threads # {}
    BY DEF Barrier!BarrierAssumption
  <2> QED
    BY <1>8, <2>1, <2>2, <2>3, <2>4, <2>5, <2>6, <2>7 DEF Barrier!Draining
<1>12. Barrier!TypeOK'
  <2>1. Brings(w, n) \in Barrier!Gradients /\ syncs[w] + 1 \in 0..MaxSyncs
    BY <1>1, BroughtGradient
  <2>2. arrived' \in 0..Barrier!WorkerCount
    BY ThreadsCounted
  <2>3. accumulator' \subseteq Barrier!Gradients /\ result' \subseteq Barrier!Gradients
    BY <1>1, <2>1 DEF Barrier!TypeOK, Barrier!DepositLast
  <2>4. generation' \in Nat /\ departed' \in 0..Barrier!WorkerCount /\ syncs' \in [Threads -> 0..MaxSyncs]
    BY <1>1, <2>1 DEF Barrier!TypeOK, Barrier!DepositLast
  <2>5. bpc' \in [Threads -> {"out", "arrive", "copy", "depart", "leave"}]
    BY <1>6 DEF Barrier!DepositLast, Barrier!Pass
  <2>6. asleep' \subseteq {v \in Threads : bpc'[v] \in {"arrive", "leave"}}
    BY <1>1, <1>6, <1>7, <1>5 DEF Barrier!TypeOK, Barrier!DepositLast
  <2>7. aborted' \in BOOLEAN /\ abort' \in [Threads -> BOOLEAN]
    BY <1>6 DEF Bad, Barrier!DepositLast, Barrier!Pass
  <2>8. outcome' \in [Threads -> SUBSET Barrier!Gradients] /\ genBefore' \in [Threads -> Nat]
    BY <1>1 DEF Barrier!TypeOK, Barrier!DepositLast, Barrier!Pass
  <2>9. /\ gradients' \in [Threads -> Barrier!Gradients \cup
                            {[by |-> v, call |-> 0, len |-> 0] : v \in Threads}]
        /\ \A v \in Threads : bpc'[v] \in {"arrive", "copy", "depart"}
                                => gradients'[v] \in Barrier!Gradients
    BY <1>1, <1>5, <2>1 DEF Barrier!TypeOK
  <2> QED
    BY <2>2, <2>3, <2>4, <2>5, <2>6, <2>7, <2>8, <2>9 DEF Barrier!TypeOK
<1> QED
  BY <1>1, <1>4, <1>8, <1>9, <1>10, <1>11, <1>12 DEF Barrier!BarrierInv

\* A deposit is one of the two.
LEMMA DepositSplits ==
  ASSUME NEW w \in Threads, Barrier!Deposit(w)
  PROVE  /\ bpc[w] = "out" /\ syncs[w] < MaxSyncs
         /\ syncs' = [syncs EXCEPT ![w] = @ + 1]
         /\ departed' = departed /\ arrived' = arrived + 1
         /\ \E n \in Lens :
              /\ gradients' = [gradients EXCEPT ![w] = Brings(w, n)]
              /\ aborted' = Bad(n)
              /\ \/ /\ arrived + 1 = Barrier!WorkerCount
                    /\ Barrier!DepositLast(w, Brings(w, n), Bad(n))
                 \/ /\ arrived + 1 # Barrier!WorkerCount
                    /\ Barrier!DepositWait(w, Brings(w, n), Bad(n))
BY DEF Barrier!Deposit, Brings, Bad

-----------------------------------------------------------------------------
(* ThreadedGradientSync: the round drains *)

LEMMA BarrierPcs ==
  ASSUME Barrier!TypeOK
  PROVE  /\ bpc \in [Threads -> {"out", "arrive", "copy", "depart", "leave"}]
         /\ abort \in [Threads -> BOOLEAN]
         /\ outcome \in [Threads -> SUBSET Barrier!Gradients]
BY DEF Barrier!TypeOK

\* What the round has come to: lost, or the mean of what everybody brought.
Decided ==
  /\ aborted <=> ~Barrier!SameLen(Threads)
  /\ result = IF aborted THEN {} ELSE Barrier!Sum(Threads)

LEMMA DecidedStays ==
  ASSUME Decided, UNCHANGED <<aborted, result, gradients>> PROVE Decided'
<1>1. Barrier!SameLen(Threads)' <=> Barrier!SameLen(Threads)
  BY DEF Barrier!SameLen
<1>2. Barrier!Sum(Threads)' = Barrier!Sum(Threads)
  BY DEF Barrier!Sum
<1> QED
  BY <1>1, <1>2 DEF Decided

LEMMA DrainsOn ==
  ASSUME Barrier!Draining, UNCHANGED <<arrived, aborted, result, gradients>>,
         Barrier!Waiting' = {}, Barrier!Passed' # {},
         Barrier!Passed' \cup Barrier!Leaving' = Threads,
         departed' = Barrier!Cardinality(Barrier!Leaving'),
         \A v \in Threads : bpc'[v] = "copy" => ~aborted,
         \A v \in Threads : bpc'[v] \in {"depart", "leave"} => outcome'[v] = result,
         \A v \in Barrier!Passed' : bpc'[v] # "arrive" => abort'[v] = aborted
  PROVE  Barrier!Draining'
<1>1. Decided
  BY DEF Barrier!Draining, Decided
<1>2. Decided'
  BY <1>1, DecidedStays
<1>3. arrived' = Barrier!WorkerCount
  BY DEF Barrier!Draining
<1>4. /\ \A v \in Threads : bpc'[v] = "copy" => ~aborted'
      /\ \A v \in Threads : bpc'[v] \in {"depart", "leave"} => outcome'[v] = result'
      /\ \A v \in Barrier!Passed' : bpc'[v] # "arrive" => abort'[v] = aborted'
  OBVIOUS
<1> QED
  BY <1>2, <1>3, <1>4, Zenon DEF Barrier!Draining, Decided

LEMMA RoundFull ==
  ASSUME Barrier!Draining
  PROVE  /\ Barrier!Waiting = {} /\ Barrier!Passed # {}
         /\ Barrier!Passed \cup Barrier!Leaving = Threads
         /\ departed = Barrier!Cardinality(Barrier!Leaving)
         /\ \A v \in Threads : bpc[v] = "copy" => ~aborted
         /\ \A v \in Threads : bpc[v] \in {"depart", "leave"} => outcome[v] = result
         /\ \A v \in Barrier!Passed : bpc[v] # "arrive" => abort[v] = aborted
BY DEF Barrier!Draining

LEMMA ArriveInv ==
  ASSUME Barrier!BarrierInv, NEW w \in Threads, Barrier!Arrive(w)
  PROVE  Barrier!BarrierInv'
<1>1. Barrier!TypeOK
  BY DEF Barrier!BarrierInv
<1>2. bpc[w] = "arrive" /\ UNCHANGED <<accumulator, result, arrived, departed, generation, aborted,
                                       gradients, genBefore, syncs>>
  BY DEF Barrier!Arrive, Barrier!barrierState
<1>3. CASE generation = genBefore[w]
  <2>1. UNCHANGED <<bpc, abort, outcome>> /\ asleep' = asleep \cup {w}
    BY <1>3 DEF Barrier!Arrive
  <2>2. Barrier!TypeOK'
    BY <1>1, <1>2, <2>1 DEF Barrier!TypeOK
  <2>3. Barrier!Filling => Barrier!Filling'
    BY <1>2, <2>1 DEF Barrier!Filling, Barrier!Passed, Barrier!Waiting, Barrier!SameLen, Barrier!Sum
  <2>4. Barrier!Draining => Barrier!Draining'
    <3> SUFFICES ASSUME Barrier!Draining PROVE Barrier!Draining'
      OBVIOUS
    <3>1. /\ Barrier!Waiting' = Barrier!Waiting /\ Barrier!Passed' = Barrier!Passed
          /\ Barrier!Leaving' = Barrier!Leaving
      BY <1>2, <2>1 DEF Barrier!Passed, Barrier!Waiting, Barrier!Leaving
    <3>2. UNCHANGED <<arrived, aborted, result, gradients, departed, bpc, outcome, abort>>
      BY <1>2, <2>1
    <3> QED
      BY <3>1, <3>2, RoundFull, DrainsOn
  <2> QED
    BY <2>2, <2>3, <2>4 DEF Barrier!BarrierInv
<1>4. CASE generation # genBefore[w]
  <2>1. Barrier!Draining
    BY <1>2, <1>4 DEF Barrier!BarrierInv, Barrier!Filling, Barrier!Passed
  <2>2. Barrier!Pass(w, aborted) /\ asleep' = asleep /\ w \notin asleep
    BY <1>4 DEF Barrier!Arrive
  <2>3. /\ bpc' = [bpc EXCEPT ![w] = IF aborted THEN "depart" ELSE "copy"]
        /\ abort' = [abort EXCEPT ![w] = aborted]
        /\ outcome' = IF aborted THEN [outcome EXCEPT ![w] = {}] ELSE outcome
    BY <2>2 DEF Barrier!Pass
  <2>4. Barrier!TypeOK'
    BY <1>1, <1>2, <2>2, <2>3 DEF Barrier!TypeOK
  <2>5. /\ Barrier!Waiting' = {} /\ Barrier!Passed' = Barrier!Passed
        /\ Barrier!Leaving' = Barrier!Leaving
    <3>1. bpc'[w] \in {"depart", "copy"} /\ \A v \in Threads \ {w} : bpc'[v] = bpc[v]
      BY <1>1, <2>3, BarrierPcs
    <3> QED
      BY <1>2, <1>4, <2>1, <3>1
         DEF Barrier!Draining, Barrier!Waiting, Barrier!Passed, Barrier!Leaving
  <2>6. \A v \in Threads : bpc'[v] = "copy" => ~aborted
    BY <1>1, <2>1, <2>3, BarrierPcs DEF Barrier!Draining
  <2>7. \A v \in Threads : bpc'[v] \in {"depart", "leave"} => outcome'[v] = result
    BY <1>1, <2>1, <2>3, BarrierPcs DEF Barrier!Draining
  <2>8. \A v \in Barrier!Passed : bpc'[v] # "arrive" => abort'[v] = aborted
    BY <1>1, <2>1, <2>3, BarrierPcs DEF Barrier!Draining, Barrier!Passed
  <2>9. Barrier!Draining'
    BY <1>2, <2>1, <2>5, <2>6, <2>7, <2>8, RoundFull, DrainsOn
  <2> QED
    BY <2>4, <2>9 DEF Barrier!BarrierInv
<1> QED
  BY <1>3, <1>4

LEMMA CopyInv ==
  ASSUME Barrier!BarrierAssumption, Barrier!BarrierInv, NEW w \in Threads, Barrier!Copy(w)
  PROVE  /\ Barrier!BarrierInv' /\ Barrier!Draining
         /\ outcome' = [outcome EXCEPT ![w] = result] /\ result # {}
         /\ Barrier!Waiting' = {} /\ Barrier!Passed' = Barrier!Passed
         /\ Barrier!Leaving' = Barrier!Leaving
<1>1. Barrier!TypeOK
  BY DEF Barrier!BarrierInv
<1>2. bpc[w] = "copy" /\ bpc' = [bpc EXCEPT ![w] = "depart"]
      /\ UNCHANGED <<accumulator, result, arrived, departed, generation, aborted,
                     asleep, gradients, genBefore, abort, syncs>>
  BY DEF Barrier!Copy, Barrier!barrierState
<1>3. Barrier!Draining
  BY <1>2 DEF Barrier!BarrierInv, Barrier!Filling, Barrier!Passed
<1>4. result # {}
  BY <1>2, <1>3 DEF Barrier!Draining, Barrier!Sum
<1>5. outcome' = [outcome EXCEPT ![w] = result]
  BY <1>4 DEF Barrier!Copy
<1>6. Barrier!TypeOK'
  BY <1>1, <1>2, <1>5 DEF Barrier!TypeOK
<1>7. /\ Barrier!Waiting' = {} /\ Barrier!Passed' = Barrier!Passed
      /\ Barrier!Leaving' = Barrier!Leaving
  BY <1>1, <1>2, <1>3, BarrierPcs
     DEF Barrier!Draining, Barrier!Waiting, Barrier!Passed, Barrier!Leaving
<1>8. \A v \in Threads : bpc'[v] = "copy" => ~aborted
  BY <1>1, <1>2, <1>3, BarrierPcs DEF Barrier!Draining
<1>9. \A v \in Threads : bpc'[v] \in {"depart", "leave"} => outcome'[v] = result
  BY <1>1, <1>2, <1>3, <1>5, BarrierPcs DEF Barrier!Draining
<1>10. \A v \in Barrier!Passed : bpc'[v] # "arrive" => abort[v] = aborted
  BY <1>1, <1>2, <1>3, BarrierPcs DEF Barrier!Draining, Barrier!Passed
<1>11. Barrier!Draining'
  BY <1>2, <1>3, <1>7, <1>8, <1>9, <1>10, RoundFull, DrainsOn
<1> QED
  BY <1>3, <1>4, <1>5, <1>6, <1>7, <1>11 DEF Barrier!BarrierInv

\* The last to depart: nobody else is on the way out any more, and the round is reset.
LEMMA LastDeparts ==
  ASSUME Barrier!BarrierAssumption, Barrier!BarrierInv, NEW w \in Threads, Barrier!Depart(w),
         departed + 1 = Barrier!WorkerCount
  PROVE  /\ Barrier!BarrierInv'
         /\ Barrier!Draining /\ Barrier!Passed = {w} /\ Barrier!Leaving = Threads \ {w}
         /\ Barrier!Waiting' = {} /\ Barrier!Passed' = {} /\ Barrier!Leaving' = Threads \ {w}
<1>1. Barrier!TypeOK
  BY DEF Barrier!BarrierInv
<1>2. /\ bpc[w] = "depart" /\ bpc' = [bpc EXCEPT ![w] = "out"]
      /\ accumulator' = {} /\ result' = {} /\ arrived' = 0 /\ departed' = 0 /\ aborted' = FALSE
      /\ asleep' = {v \in asleep : bpc[v] # "leave"}
      /\ UNCHANGED <<generation, gradients, genBefore, abort, syncs, outcome>>
  BY DEF Barrier!Depart
<1>3. Barrier!Draining
  BY <1>2 DEF Barrier!BarrierInv, Barrier!Filling, Barrier!Passed
<1>4. Barrier!Leaving = Threads \ {w}
  <2>1. Barrier!Leaving \in SUBSET Threads /\ w \in Threads \ Barrier!Leaving
    BY <1>2 DEF Barrier!Leaving
  <2>2. departed = Cardinality(Barrier!Leaving) /\ departed \in Nat
    BY <1>3, <2>1, RoundFull, ThreadsCounted
  <2>3. Cardinality(Barrier!Leaving \cup {w}) = Barrier!WorkerCount
    BY <2>1, <2>2, OneMoreThread
  <2>4. Barrier!Leaving \cup {w} \in SUBSET Threads
    BY <2>1
  <2>5. Barrier!Leaving \cup {w} = Threads
    BY <2>3, <2>4, ThreadsCounted
  <2> QED
    BY <2>1, <2>5
<1>5. \A v \in Threads \ {w} : bpc'[v] = "leave" /\ bpc[v] = "leave"
  BY <1>1, <1>2, <1>4, BarrierPcs DEF Barrier!Leaving
<1>6. bpc'[w] = "out"
  BY <1>1, <1>2, BarrierPcs
<1>7. Barrier!Waiting' = {} /\ Barrier!Passed' = {} /\ Barrier!Leaving' = Threads \ {w}
      /\ Barrier!Passed = {w}
  BY <1>2, <1>5, <1>6 DEF Barrier!Waiting, Barrier!Passed, Barrier!Leaving
<1>8. Barrier!Filling'
  <2>1. arrived' = Barrier!Cardinality({}) /\ Threads # {}
    BY <1>2, ThreadsCounted DEF Barrier!BarrierAssumption
  <2>2. Barrier!SameLen({})' /\ Barrier!Sum({})' = {}
    BY DEF Barrier!SameLen, Barrier!Sum
  <2>3. aborted' <=> ~Barrier!SameLen(Barrier!Waiting)'
    BY <1>2, <1>7, <2>2 DEF Barrier!SameLen
  <2>4. accumulator' = Barrier!Sum(Barrier!Waiting)'
    BY <1>2, <1>7, <2>2 DEF Barrier!Sum
  <2> QED
    BY <1>2, <1>7, <2>1, <2>3, <2>4 DEF Barrier!Filling
<1>9. Barrier!TypeOK'
  <2>1. 0 \in 0..Barrier!WorkerCount
    BY ThreadsCounted
  <2>2. bpc' \in [Threads -> {"out", "arrive", "copy", "depart", "leave"}]
    BY <1>1, <1>2, BarrierPcs
  <2>3. asleep' \subseteq {v \in Threads : bpc'[v] \in {"arrive", "leave"}}
    BY <1>1, <1>2, <1>5 DEF Barrier!TypeOK
  <2>4. \A v \in Threads : bpc'[v] \in {"arrive", "copy", "depart"} => gradients'[v] \in Barrier!Gradients
    BY <1>5, <1>6
  <2> QED
    BY <1>1, <1>2, <2>1, <2>2, <2>3, <2>4 DEF Barrier!TypeOK
<1> QED
  BY <1>3, <1>4, <1>7, <1>8, <1>9 DEF Barrier!BarrierInv

LEMMA OtherDeparts ==
  ASSUME Barrier!BarrierAssumption, Barrier!BarrierInv, NEW w \in Threads, Barrier!Depart(w),
         departed + 1 # Barrier!WorkerCount
  PROVE  /\ Barrier!BarrierInv' /\ Barrier!Draining
         /\ Barrier!Waiting' = {} /\ Barrier!Passed' = Barrier!Passed \ {w}
         /\ Barrier!Leaving' = Barrier!Leaving \cup {w}
<1>1. Barrier!TypeOK
  BY DEF Barrier!BarrierInv
<1>2. /\ bpc[w] = "depart" /\ bpc' = [bpc EXCEPT ![w] = "leave"]
      /\ departed' = departed + 1
      /\ UNCHANGED <<accumulator, result, arrived, aborted, asleep, generation, gradients,
                     genBefore, abort, syncs, outcome>>
  BY DEF Barrier!Depart
<1>3. Barrier!Draining
  BY <1>2 DEF Barrier!BarrierInv, Barrier!Filling, Barrier!Passed
<1>4. bpc'[w] = "leave" /\ \A v \in Threads \ {w} : bpc'[v] = bpc[v]
  BY <1>1, <1>2, BarrierPcs
<1>5. /\ Barrier!Waiting' = {} /\ Barrier!Passed' = Barrier!Passed \ {w}
      /\ Barrier!Leaving' = Barrier!Leaving \cup {w}
  BY <1>2, <1>3, <1>4 DEF Barrier!Draining, Barrier!Waiting, Barrier!Passed, Barrier!Leaving
<1>6. Barrier!Leaving \in SUBSET Threads /\ w \in Threads \ Barrier!Leaving
      /\ Barrier!Leaving' \in SUBSET Threads
  BY <1>2, <1>5 DEF Barrier!Leaving
<1>7. departed = Cardinality(Barrier!Leaving) /\ departed \in Nat
      /\ departed' = Cardinality(Barrier!Leaving')
  BY <1>2, <1>3, <1>5, <1>6, RoundFull, ThreadsCounted, OneMoreThread
<1>8. /\ departed' = Barrier!Cardinality(Barrier!Leaving')
      /\ departed' \in 0..Barrier!WorkerCount
      /\ Barrier!Leaving' # Threads
  BY <1>2, <1>6, <1>7, ThreadsCounted
<1>9. Barrier!Passed' # {} /\ Barrier!Passed' \cup Barrier!Leaving' = Threads
  BY <1>3, <1>5, <1>8, RoundFull
<1>10. \A v \in Threads : bpc'[v] = "copy" => ~aborted
  BY <1>3, <1>4, RoundFull
<1>11. \A v \in Threads : bpc'[v] \in {"depart", "leave"} => outcome'[v] = result
  BY <1>2, <1>3, <1>4, RoundFull
<1>12. \A v \in Barrier!Passed' : bpc'[v] # "arrive" => abort'[v] = aborted
  BY <1>2, <1>3, <1>4, <1>5, RoundFull
<1>13. Barrier!Draining'
  BY <1>2, <1>3, <1>5, <1>8, <1>9, <1>10, <1>11, <1>12, DrainsOn
<1>14. Barrier!TypeOK'
  BY <1>1, <1>2, <1>4, <1>8 DEF Barrier!TypeOK
<1> QED
  BY <1>3, <1>5, <1>13, <1>14 DEF Barrier!BarrierInv

\* Who has left can only see the round end in the next one.
LEMMA LeaveInv ==
  ASSUME Barrier!BarrierAssumption, Barrier!BarrierInv, NEW w \in Threads, Barrier!Leave(w)
  PROVE  /\ Barrier!BarrierInv'
         /\ Barrier!Waiting' = Barrier!Waiting /\ Barrier!Passed' = Barrier!Passed
         /\ \/ bpc' = bpc /\ Barrier!Leaving' = Barrier!Leaving
            \/ /\ bpc' = [bpc EXCEPT ![w] = "out"] /\ Barrier!Leaving' = Barrier!Leaving \ {w}
               /\ Barrier!Filling
<1>1. Barrier!TypeOK
  BY DEF Barrier!BarrierInv
<1>2. bpc[w] = "leave" /\ w \notin asleep
      /\ UNCHANGED <<accumulator, result, arrived, departed, generation, aborted, gradients,
                     genBefore, abort, syncs, outcome>>
  BY DEF Barrier!Leave, Barrier!barrierState
<1>3. CASE departed # 0
  <2>1. bpc' = bpc /\ asleep' = asleep \cup {w}
    BY <1>3 DEF Barrier!Leave
  <2>2. /\ Barrier!Waiting' = Barrier!Waiting /\ Barrier!Passed' = Barrier!Passed
        /\ Barrier!Leaving' = Barrier!Leaving
    BY <1>2, <2>1 DEF Barrier!Passed, Barrier!Waiting, Barrier!Leaving
  <2>3. Barrier!Draining
    BY <1>3 DEF Barrier!BarrierInv, Barrier!Filling
  <2>4. Barrier!Draining'
    BY <1>2, <2>1, <2>2, <2>3, RoundFull, DrainsOn
  <2>5. Barrier!TypeOK'
    BY <1>1, <1>2, <2>1 DEF Barrier!TypeOK
  <2> QED
    BY <2>1, <2>2, <2>4, <2>5 DEF Barrier!BarrierInv
<1>4. CASE departed = 0
  <2>1. bpc' = [bpc EXCEPT ![w] = "out"] /\ asleep' = asleep
    BY <1>4 DEF Barrier!Leave
  <2>2. bpc'[w] = "out" /\ \A v \in Threads \ {w} : bpc'[v] = bpc[v]
    BY <1>1, <2>1, BarrierPcs
  <2>3. /\ Barrier!Waiting' = Barrier!Waiting /\ Barrier!Passed' = Barrier!Passed
        /\ Barrier!Leaving' = Barrier!Leaving \ {w}
    BY <1>2, <2>2 DEF Barrier!Passed, Barrier!Waiting, Barrier!Leaving
  <2>4. Barrier!Filling
    <3>1. ASSUME Barrier!Draining PROVE FALSE
      <4>1. Barrier!Leaving \in SUBSET Threads /\ w \in Barrier!Leaving
        BY <1>2 DEF Barrier!Leaving
      <4> QED
        BY <1>4, <3>1, <4>1, RoundFull, ThreadsCounted
    <3> QED
      BY <3>1 DEF Barrier!BarrierInv
  <2>5. Barrier!Filling'
    BY <1>2, <2>3, <2>4 DEF Barrier!Filling, Barrier!SameLen, Barrier!Sum
  <2>6. Barrier!TypeOK'
    BY <1>1, <1>2, <2>1, <2>2 DEF Barrier!TypeOK
  <2> QED
    BY <2>1, <2>3, <2>4, <2>5, <2>6 DEF Barrier!BarrierInv
<1> QED
  BY <1>3, <1>4

LEMMA BarrierSetsStay ==
  ASSUME UNCHANGED <<bpc, genBefore, generation>>
  PROVE  /\ Barrier!Waiting' = Barrier!Waiting /\ Barrier!Passed' = Barrier!Passed
         /\ Barrier!Leaving' = Barrier!Leaving
BY DEF Barrier!Waiting, Barrier!Passed, Barrier!Leaving

LEMMA WakeInv ==
  ASSUME Barrier!BarrierInv, asleep' \subseteq asleep,
         UNCHANGED <<accumulator, result, arrived, departed, generation, aborted, bpc,
                     gradients, genBefore, abort, syncs, outcome>>
  PROVE  Barrier!BarrierInv'
<1>1. Barrier!TypeOK'
  BY DEF Barrier!BarrierInv, Barrier!TypeOK
<1>2. Barrier!Filling => Barrier!Filling'
  BY BarrierSetsStay DEF Barrier!Filling, Barrier!SameLen, Barrier!Sum
<1>3. Barrier!Draining => Barrier!Draining'
  BY BarrierSetsStay, RoundFull, DrainsOn
<1> QED
  BY <1>1, <1>2, <1>3 DEF Barrier!BarrierInv

LEMMA BarrierInitial == ASSUME Barrier!BarrierAssumption, Barrier!Init PROVE Barrier!BarrierInv
<1>1. Barrier!TypeOK
  <2>1. 0 \in 0..Barrier!WorkerCount /\ MaxSyncs \in Nat
    BY ThreadsCounted DEF Barrier!BarrierAssumption
  <2>2. aborted \in BOOLEAN /\ abort \in [Threads -> BOOLEAN]
    BY DEF Barrier!Init
  <2>3. /\ accumulator = {} /\ result = {} /\ arrived = 0 /\ departed = 0 /\ generation = 0
        /\ asleep = {} /\ genBefore \in [Threads -> Nat]
        /\ bpc = [w \in Threads |-> "out"] /\ outcome = [w \in Threads |-> {}]
        /\ syncs \in [Threads -> 0..MaxSyncs]
        /\ gradients = [w \in Threads |-> [by |-> w, call |-> 0, len |-> 0]]
    BY <2>1 DEF Barrier!Init
  <2> QED
    BY <2>1, <2>2, <2>3 DEF Barrier!TypeOK
<1>2. Barrier!Waiting = {} /\ Barrier!Passed = {} /\ Barrier!Leaving = {}
  BY DEF Barrier!Init, Barrier!Waiting, Barrier!Passed, Barrier!Leaving
<1>3. Barrier!Cardinality({}) = 0 /\ Threads # {}
  BY ThreadsCounted, FS_EmptySet DEF Barrier!BarrierAssumption
<1>4. Barrier!SameLen({}) /\ Barrier!Sum({}) = {}
  BY DEF Barrier!SameLen, Barrier!Sum
<1>5. accumulator = {} /\ result = {} /\ arrived = 0 /\ departed = 0 /\ aborted = FALSE
  BY Zenon DEF Barrier!Init
<1>6. Barrier!Filling
  BY <1>2, <1>3, <1>4, <1>5 DEF Barrier!Filling
<1> QED
  BY <1>1, <1>6 DEF Barrier!BarrierInv

LEMMA BarrierStep ==
  ASSUME Barrier!BarrierAssumption, Barrier!BarrierInv, [Barrier!Next]_barrierVars
  PROVE  Barrier!BarrierInv'
<1>1. CASE UNCHANGED barrierVars
  BY <1>1, WakeInv DEF barrierVars
<1>2. ASSUME NEW w \in Threads, Barrier!SpuriousWakeup(w) PROVE Barrier!BarrierInv'
  BY <1>2, WakeInv DEF Barrier!SpuriousWakeup, Barrier!barrierState
<1>3. ASSUME NEW w \in Threads, Barrier!Deposit(w) PROVE Barrier!BarrierInv'
  BY <1>3, DepositSplits, DepositWaitInv, DepositLastInv
<1>4. ASSUME NEW w \in Threads, Barrier!Arrive(w) \/ Barrier!Copy(w) PROVE Barrier!BarrierInv'
  BY <1>4, ArriveInv, CopyInv
<1>5. ASSUME NEW w \in Threads, Barrier!Depart(w) \/ Barrier!Leave(w) PROVE Barrier!BarrierInv'
  BY <1>5, LastDeparts, OtherDeparts, LeaveInv
<1> QED
  BY <1>1, <1>2, <1>3, <1>4, <1>5 DEF Barrier!Next, Barrier!Step

-----------------------------------------------------------------------------
(* ThreadedGradientSync implements AllReduce *)

LEMMA ReduceStutters ==
  ASSUME gradients' = gradients, Barrier!Waiting' = Barrier!Waiting,
         Barrier!Passed' \cup Barrier!Leaving' = Barrier!Passed \cup Barrier!Leaving,
         \A v \in Threads : Barrier!Answer'[v] = Barrier!Answer[v]
  PROVE  UNCHANGED Barrier!Reduce!reduceVars
<1>1. Barrier!Stage' = Barrier!Stage
  BY DEF Barrier!Stage
<1>2. Barrier!Answer' = Barrier!Answer
  BY DEF Barrier!Answer
<1> QED
  BY <1>1, <1>2 DEF Barrier!Reduce!reduceVars

LEMMA AnswerStays ==
  ASSUME UNCHANGED <<bpc, outcome, result>>, Barrier!Passed' = Barrier!Passed
  PROVE  \A v \in Threads : Barrier!Answer'[v] = Barrier!Answer[v]
BY DEF Barrier!Answer

LEMMA DepositWaitReduces ==
  ASSUME Barrier!BarrierAssumption, Barrier!BarrierInv, NEW w \in Threads, NEW n \in Lens,
         bpc[w] = "out", syncs[w] < MaxSyncs,
         gradients' = [gradients EXCEPT ![w] = Brings(w, n)],
         Barrier!DepositWait(w, Brings(w, n), Bad(n))
  PROVE  Barrier!Reduce!Give(w)
<1>1. Barrier!Filling /\ Barrier!TypeOK
  BY DEF Barrier!BarrierInv, Barrier!Draining, Barrier!Passed, Barrier!Leaving
<1>2. bpc' = [bpc EXCEPT ![w] = "arrive"] /\ genBefore' = [genBefore EXCEPT ![w] = generation]
      /\ UNCHANGED <<generation, outcome, result>>
  BY DEF Barrier!DepositWait
<1>3. genBefore \in [Threads -> Nat] /\ bpc' \in [Threads -> {"out", "arrive", "copy", "depart", "leave"}]
  BY <1>1, <1>2 DEF Barrier!TypeOK
<1>4. bpc'[w] = "arrive" /\ genBefore'[w] = generation
      /\ \A v \in Threads \ {w} : bpc'[v] = bpc[v] /\ genBefore'[v] = genBefore[v]
  BY <1>1, <1>2, <1>3 DEF Barrier!TypeOK
<1>5. /\ Barrier!Waiting' = Barrier!Waiting \cup {w} /\ Barrier!Passed' = Barrier!Passed
      /\ Barrier!Leaving' = Barrier!Leaving
      /\ w \notin Barrier!Waiting /\ w \notin Barrier!Passed /\ w \notin Barrier!Leaving
  BY <1>2, <1>4 DEF Barrier!Waiting, Barrier!Passed, Barrier!Leaving
<1>6. Barrier!Stage[w] = "out"
  BY <1>5 DEF Barrier!Stage
<1>7. Barrier!Stage' = [Barrier!Stage EXCEPT ![w] = "in"]
  BY <1>5 DEF Barrier!Stage
<1>8. Barrier!Answer' = Barrier!Answer
  BY <1>1, <1>2, <1>5 DEF Barrier!Answer, Barrier!Filling
<1>9. gradients'[w] \in Barrier!Gradients /\ \A v \in Threads \ {w} : gradients'[v] = gradients[v]
  BY <1>1, BroughtGradient DEF Barrier!TypeOK
<1> QED
  BY <1>6, <1>7, <1>8, <1>9 DEF Barrier!Reduce!Give

LEMMA DepositLastReduces ==
  ASSUME Barrier!BarrierAssumption, Barrier!BarrierInv, NEW w \in Threads, NEW n \in Lens,
         bpc[w] = "out", syncs[w] < MaxSyncs,
         syncs' = [syncs EXCEPT ![w] = @ + 1],
         gradients' = [gradients EXCEPT ![w] = Brings(w, n)],
         aborted' = Bad(n), arrived' = arrived + 1, arrived + 1 = Barrier!WorkerCount,
         Barrier!DepositLast(w, Brings(w, n), Bad(n)), departed' = departed
  PROVE  Barrier!Reduce!Exchange
<1>1. /\ Barrier!TypeOK
      /\ Barrier!Filling /\ Barrier!Waiting \cup {w} = Threads
      /\ Barrier!Passed' = Threads /\ Barrier!Leaving' = {}
      /\ result' = IF Bad(n) THEN {} ELSE Total(gradients', Threads)
      /\ Bad(n) <=> ~Fits(gradients', Threads)
  BY DepositLastInv DEF Barrier!BarrierInv
<1>2. w \notin Barrier!Waiting /\ w \notin Barrier!Passed /\ w \notin Barrier!Leaving
  BY DEF Barrier!Waiting, Barrier!Passed, Barrier!Leaving
<1>3. \A v \in Threads : Barrier!Stage[v] # "ready"
  BY <1>1, <1>2 DEF Barrier!Stage
<1>4. gradients'[w] \in Barrier!Gradients /\ \A v \in Threads \ {w} : gradients'[v] = gradients[v]
  BY <1>1, BroughtGradient DEF Barrier!TypeOK
<1>5. \A v \in Threads : gradients'[v] \in Barrier!Gradients
  BY <1>1, <1>4 DEF Barrier!TypeOK, Barrier!Waiting
<1>6. \A v \in Threads : Barrier!Stage[v] = "in" => gradients'[v] = gradients[v]
  BY <1>2, <1>4 DEF Barrier!Stage
<1>7. Barrier!Stage' \in [Threads -> {"out", "ready"}]
  <2>1. Barrier!Waiting' = {}
    BY <1>1 DEF Barrier!Waiting, Barrier!Passed
  <2> QED
    BY <1>1, <2>1 DEF Barrier!Stage
<1>8. Barrier!Reduce!Mean(gradients') = result'
  BY <1>1 DEF Barrier!Reduce!Mean, Barrier!OneLen, Fits, Total
<1>9. ASSUME NEW v \in Threads PROVE Barrier!Answer'[v] = result'
  <2>1. CASE bpc'[v] \in {"arrive", "copy"}
    BY <1>1, <2>1 DEF Barrier!Answer
  <2>2. CASE bpc'[v] \notin {"arrive", "copy"}
    <3>1. Barrier!Answer'[v] = outcome'[v]
      BY <2>2 DEF Barrier!Answer
    <3>2. v \in Barrier!Passed'
      BY <1>1
    <3>3. bpc'[v] = "depart"
      BY <2>2, <3>2 DEF Barrier!Passed
    <3>4. ~Barrier!Filling' \/ ~(v \in Barrier!Passed')
      BY <3>2 DEF Barrier!Filling
    <3>5. Barrier!Draining'
      BY <3>2, <3>4, DepositLastInv DEF Barrier!BarrierInv
    <3>6. outcome'[v] = result'
      BY <3>3, <3>5 DEF Barrier!Draining
    <3> QED
      BY <3>1, <3>6
  <2> QED
    BY <2>1, <2>2
<1>10. Barrier!Answer' = [v \in Threads |-> Barrier!Reduce!Mean(gradients')]
  BY <1>8, <1>9 DEF Barrier!Answer
<1> QED
  BY <1>3, <1>5, <1>6, <1>7, <1>10 DEF Barrier!Reduce!Exchange

LEMMA ArriveReduces ==
  ASSUME Barrier!BarrierInv, NEW w \in Threads, Barrier!Arrive(w)
  PROVE  UNCHANGED Barrier!Reduce!reduceVars
<1>1. Barrier!TypeOK
  BY DEF Barrier!BarrierInv
<1>2. bpc[w] = "arrive" /\ UNCHANGED <<result, generation, gradients, genBefore>>
  BY DEF Barrier!Arrive, Barrier!barrierState
<1>3. CASE generation = genBefore[w]
  <2>1. UNCHANGED <<bpc, outcome>>
    BY <1>3 DEF Barrier!Arrive
  <2> QED
    BY <1>2, <2>1, BarrierSetsStay, AnswerStays, ReduceStutters
<1>4. CASE generation # genBefore[w]
  <2>1. Barrier!Draining
    BY <1>2, <1>4 DEF Barrier!BarrierInv, Barrier!Filling, Barrier!Passed
  <2>2. /\ bpc' = [bpc EXCEPT ![w] = IF aborted THEN "depart" ELSE "copy"]
        /\ outcome' = IF aborted THEN [outcome EXCEPT ![w] = {}] ELSE outcome
    BY <1>4 DEF Barrier!Arrive, Barrier!Pass
  <2>3. /\ bpc'[w] = IF aborted THEN "depart" ELSE "copy"
        /\ outcome'[w] = IF aborted THEN {} ELSE outcome[w]
        /\ \A v \in Threads \ {w} : bpc'[v] = bpc[v] /\ outcome'[v] = outcome[v]
    BY <1>1, <2>2, BarrierPcs
  <2>4. /\ Barrier!Waiting' = Barrier!Waiting /\ Barrier!Passed' = Barrier!Passed
        /\ Barrier!Leaving' = Barrier!Leaving
    BY <1>2, <1>4, <2>3 DEF Barrier!Waiting, Barrier!Passed, Barrier!Leaving
  <2>5. w \in Barrier!Passed
    BY <1>2, <1>4 DEF Barrier!Passed
  <2>6. aborted => result = {}
    BY <2>1 DEF Barrier!Draining
  <2>7. \A v \in Threads : Barrier!Answer'[v] = Barrier!Answer[v]
    BY <1>2, <2>3, <2>4, <2>5, <2>6 DEF Barrier!Answer
  <2> QED
    BY <1>2, <2>4, <2>7, ReduceStutters
<1> QED
  BY <1>3, <1>4

LEMMA CopyReduces ==
  ASSUME Barrier!BarrierAssumption, Barrier!BarrierInv, NEW w \in Threads, Barrier!Copy(w)
  PROVE  UNCHANGED Barrier!Reduce!reduceVars
<1>1. Barrier!TypeOK
  BY DEF Barrier!BarrierInv
<1>2. bpc[w] = "copy" /\ bpc' = [bpc EXCEPT ![w] = "depart"] /\ UNCHANGED <<result, gradients>>
  BY DEF Barrier!Copy, Barrier!barrierState
<1>3. /\ Barrier!Draining /\ outcome' = [outcome EXCEPT ![w] = result]
      /\ Barrier!Waiting' = {} /\ Barrier!Passed' = Barrier!Passed
      /\ Barrier!Leaving' = Barrier!Leaving
  BY CopyInv
<1>4. /\ bpc'[w] = "depart" /\ outcome'[w] = result
      /\ \A v \in Threads \ {w} : bpc'[v] = bpc[v] /\ outcome'[v] = outcome[v]
  BY <1>1, <1>2, <1>3, BarrierPcs
<1>5. w \in Barrier!Passed /\ Barrier!Waiting = {}
  BY <1>2, <1>3, RoundFull DEF Barrier!Passed
<1>6. \A v \in Threads : Barrier!Answer'[v] = Barrier!Answer[v]
  BY <1>2, <1>3, <1>4, <1>5 DEF Barrier!Answer
<1> QED
  BY <1>2, <1>3, <1>5, <1>6, ReduceStutters

LEMMA DepartReduces ==
  ASSUME Barrier!BarrierAssumption, Barrier!BarrierInv, NEW w \in Threads, Barrier!Depart(w)
  PROVE  Barrier!Reduce!Leave(w) \/ UNCHANGED Barrier!Reduce!reduceVars
<1>1. Barrier!TypeOK
  BY DEF Barrier!BarrierInv
<1>2. bpc[w] = "depart" /\ UNCHANGED <<outcome, gradients>>
  BY DEF Barrier!Depart
<1>3. w \in Barrier!Passed
  BY <1>2 DEF Barrier!Passed
<1>4. CASE departed + 1 = Barrier!WorkerCount
  <2>1. /\ Barrier!Waiting = {} /\ Barrier!Passed = {w} /\ Barrier!Leaving = Threads \ {w}
        /\ Barrier!Waiting' = {} /\ Barrier!Passed' = {} /\ Barrier!Leaving' = Threads \ {w}
    BY <1>4, LastDeparts, RoundFull
  <2>2. Barrier!Stage[w] = "ready" /\ Barrier!Stage' = [Barrier!Stage EXCEPT ![w] = "out"]
    BY <2>1 DEF Barrier!Stage
  <2>3. Barrier!Answer' = Barrier!Answer
    BY <1>2, <2>1 DEF Barrier!Answer
  <2> QED
    BY <1>2, <2>2, <2>3 DEF Barrier!Reduce!Leave
<1>5. CASE departed + 1 # Barrier!WorkerCount
  <2>1. /\ Barrier!Waiting = {} /\ Barrier!Waiting' = {}
        /\ Barrier!Passed' = Barrier!Passed \ {w} /\ Barrier!Leaving' = Barrier!Leaving \cup {w}
    BY <1>5, OtherDeparts, RoundFull
  <2>2. bpc' = [bpc EXCEPT ![w] = "leave"] /\ result' = result
    BY <1>5 DEF Barrier!Depart
  <2>3. \A v \in Threads \ {w} : bpc'[v] = bpc[v]
    BY <1>1, <2>2, BarrierPcs
  <2>4. \A v \in Threads : Barrier!Answer'[v] = Barrier!Answer[v]
    BY <1>2, <2>1, <2>2, <2>3 DEF Barrier!Answer
  <2> QED
    BY <1>2, <1>3, <2>1, <2>4, ReduceStutters
<1> QED
  BY <1>4, <1>5

LEMMA LeaveReduces ==
  ASSUME Barrier!BarrierAssumption, Barrier!BarrierInv, NEW w \in Threads, Barrier!Leave(w)
  PROVE  Barrier!Reduce!Leave(w) \/ UNCHANGED Barrier!Reduce!reduceVars
<1>1. bpc[w] = "leave" /\ UNCHANGED <<result, gradients, outcome>>
  BY DEF Barrier!Leave, Barrier!barrierState
<1>2. Barrier!Waiting' = Barrier!Waiting /\ Barrier!Passed' = Barrier!Passed
  BY LeaveInv
<1>3. CASE bpc' = bpc /\ Barrier!Leaving' = Barrier!Leaving
  BY <1>1, <1>2, <1>3, AnswerStays, ReduceStutters
<1>4. CASE /\ bpc' = [bpc EXCEPT ![w] = "out"] /\ Barrier!Leaving' = Barrier!Leaving \ {w}
           /\ Barrier!Filling
  <2>1. Barrier!Passed = {} /\ Barrier!Passed' = {}
    BY <1>2, <1>4 DEF Barrier!Filling
  <2>2. w \in Barrier!Leaving /\ w \notin Barrier!Waiting
    BY <1>1 DEF Barrier!Leaving, Barrier!Waiting
  <2>3. Barrier!Stage[w] = "ready" /\ Barrier!Stage' = [Barrier!Stage EXCEPT ![w] = "out"]
    <3>1. \A v \in Threads \ {w} : v \in Barrier!Leaving' <=> v \in Barrier!Leaving
      BY <1>4
    <3>2. w \notin Barrier!Leaving' /\ w \notin Barrier!Waiting'
      BY <1>2, <1>4, <2>2
    <3> QED
      BY <1>2, <2>1, <2>2, <3>1, <3>2 DEF Barrier!Stage
  <2>4. Barrier!Answer' = Barrier!Answer
    BY <1>1, <2>1 DEF Barrier!Answer
  <2> QED
    BY <1>1, <2>3, <2>4 DEF Barrier!Reduce!Leave
<1> QED
  BY <1>3, <1>4, LeaveInv

LEMMA WakeReduces ==
  ASSUME UNCHANGED <<result, generation, bpc, gradients, genBefore, outcome>>
  PROVE  UNCHANGED Barrier!Reduce!reduceVars
BY BarrierSetsStay, AnswerStays, ReduceStutters

LEMMA BarrierReduces ==
  ASSUME Barrier!BarrierAssumption, Barrier!BarrierInv, [Barrier!Next]_barrierVars
  PROVE  [Barrier!Reduce!ReduceNext]_(Barrier!Reduce!reduceVars)
<1>1. CASE UNCHANGED barrierVars
  BY <1>1, WakeReduces DEF barrierVars
<1>2. ASSUME NEW w \in Threads, Barrier!SpuriousWakeup(w)
      PROVE  UNCHANGED Barrier!Reduce!reduceVars
  BY <1>2, WakeReduces DEF Barrier!SpuriousWakeup, Barrier!barrierState
<1>3. ASSUME NEW w \in Threads, Barrier!Deposit(w)
      PROVE  Barrier!Reduce!Give(w) \/ Barrier!Reduce!Exchange
  BY <1>3, DepositSplits, DepositWaitReduces, DepositLastReduces
<1>4. ASSUME NEW w \in Threads, Barrier!Arrive(w) \/ Barrier!Copy(w)
      PROVE  UNCHANGED Barrier!Reduce!reduceVars
  BY <1>4, ArriveReduces, CopyReduces
<1>5. ASSUME NEW w \in Threads, Barrier!Depart(w) \/ Barrier!Leave(w)
      PROVE  Barrier!Reduce!Leave(w) \/ UNCHANGED Barrier!Reduce!reduceVars
  BY <1>5, DepartReduces, LeaveReduces
<1> QED
  BY <1>1, <1>2, <1>3, <1>4, <1>5 DEF Barrier!Next, Barrier!Step, Barrier!Reduce!ReduceNext

LEMMA BarrierReduceInit ==
  ASSUME Barrier!Init PROVE Barrier!Reduce!ReduceInit
<1>1. Barrier!Waiting = {} /\ Barrier!Passed = {} /\ Barrier!Leaving = {}
  BY DEF Barrier!Init, Barrier!Waiting, Barrier!Passed, Barrier!Leaving
<1> QED
  BY <1>1 DEF Barrier!Init, Barrier!Reduce!ReduceInit, Barrier!Stage, Barrier!Answer

-----------------------------------------------------------------------------
(* SharedGradientStore: the inductive invariant *)

\* Where a rank is in its step, with what it pushed and the slot it pushed it to.
LocalLists == [by : Store!Ranks, step : 0..MaxSteps, size : Sizes \cup {0}, odd : Odds]
StoreTypes ==
  /\ steps \in [Store!Ranks -> 0..MaxSteps] /\ got \in [Store!Ranks -> 0..MaxSteps]
  /\ rpc \in [Store!Ranks -> {"out", "push", "reduce", "apply"}]
  /\ given \in [Store!Ranks -> SUBSET Store!GradientLists]
  /\ local \in [Store!Ranks -> LocalLists]
  /\ buffers \in [Store!Ranks -> SUBSET Store!GradientLists]
  /\ left \in Nat
  /\ sleeping \subseteq {r \in Store!Ranks : rpc[r] \in {"push", "reduce"}}
  /\ mean \subseteq Store!GradientLists
  /\ errors \in [Store!Ranks -> SUBSET (1..MaxSteps)]

Pushed(r) ==
  /\ buffers[r] = {} \/ \E g \in Store!GradientLists : buffers[r] = {g}
  /\ rpc[r] # "out" => steps[r] >= 1
  /\ rpc[r] = "apply" => r = 0
  /\ rpc[r] = "reduce" =>
       /\ local[r] \in Store!GradientLists /\ local[r].by = r /\ local[r].step = steps[r]
       /\ buffers[r] = {local[r]}

\* The slots while a round fills and after it is decided.
Gone == {r \in Store!Ranks : rpc[r] # "reduce"}
Slots ==
  /\ failed \in BOOLEAN
  /\ failed => mean = {}
  /\ ~Store!Published => left = 0 /\ \A r \in Gone : buffers[r] = {}
  /\ Store!Published => /\ \A r \in Store!Ranks : buffers[r] # {}
                        /\ left = Cardinality(Gone) /\ left < WorldSize

\* The round a rank has seen the end of, or sees it when it looks, and the means it will have
\* been given then: both are the same for all ranks.
Round(r) ==
  IF rpc[r] = "push" \/ (rpc[r] = "reduce" /\ ~Store!Published) THEN steps[r] - 1 ELSE steps[r]
Owed(r) == IF rpc[r] = "reduce" /\ mean # {} THEN got[r] + 1 ELSE got[r]
Level ==
  /\ \A q, r \in Store!Ranks : Round(q) = Round(r) /\ Owed(q) = Owed(r)
  /\ \A r \in Store!Ranks :
       got[r] <= IF rpc[r] \in {"push", "reduce"} THEN steps[r] - 1 ELSE steps[r]

\* A mean has a list of each rank, all of one round.
Whole(M) ==
  {g.by : g \in M} = Store!Ranks /\ Cardinality(M) = WorldSize
OfRound(M, k) == \A g \in M : g.step = k

\* The rounds a rank is done with, and those rank 0 is, weights included.
BehindOf(r) == IF rpc[r] = "out" THEN steps[r] ELSE steps[r] - 1
Behind == IF rpc[0] = "out" THEN steps[0] ELSE steps[0] - 1

Means ==
  /\ mean # {} => Whole(mean) /\ OfRound(mean, Round(0))
  /\ rpc[0] = "apply" => Whole(given[0]) /\ OfRound(given[0], steps[0])

Weighed ==
  /\ weights \in Seq(Store!Updates)
  /\ Len(weights) = IF rpc[0] = "apply" THEN got[0] - 1 ELSE got[0]
  /\ \A m \in 1..Len(weights) :
       Whole(weights[m].mean) /\ \A g \in weights[m].mean : g.step <= Behind
  /\ \A m, n \in 1..Len(weights) :
       m < n => \A g \in weights[m].mean, h \in weights[n].mean : g.step < h.step

\* What became of a round: its mean was taken to the weights, and landed as a whole.  Of a
\* round rank 0 is not done with, whether it failed decides.
Written(k) == \E m \in 1..Len(weights) : OfRound(weights[m].mean, k)
LandedWhole(k) ==
  \E m \in 1..Len(weights) :
    /\ OfRound(weights[m].mean, k)
    /\ weights[m].landed = Store!Lead(weights[m].mean).size
Good(k) == IF k > Behind THEN ~failed ELSE Written(k)

Told ==
  /\ \A r \in Store!Ranks : errors[r] \subseteq 1..BehindOf(r)
  /\ \A r \in Store!Ranks \ {0} : \A k \in 1..BehindOf(r) : k \notin errors[r] <=> Good(k)
  /\ \A k \in 1..Behind : k \notin errors[0] <=> LandedWhole(k)
  /\ \A k : Store!Published /\ k = Round(0) => (failed <=> ~Good(k))
  /\ rpc[0] = "apply" => ~failed

StoreInv ==
  /\ StoreTypes /\ \A r \in Store!Ranks : Pushed(r)
  /\ Slots /\ Level /\ Means /\ Weighed /\ Told

LEMMA StoreSets ==
  ASSUME NEW S
  PROVE  Store!Cardinality(S) = Cardinality(S)
BY DEF IsFiniteSet, Store!IsFiniteSet, Cardinality, Store!Cardinality

LEMMA RanksCounted ==
  ASSUME Store!StoreAssumption
  PROVE  /\ WorldSize \in Nat \ {0, 1} /\ 0 \in Store!Ranks
         /\ \A r \in Store!Ranks : r \in Int
         /\ IsFiniteSet(Store!Ranks) /\ Cardinality(Store!Ranks) = WorldSize
         /\ \A S \in SUBSET Store!Ranks : 
              /\ IsFiniteSet(S) /\ Cardinality(S) \in Nat /\ Cardinality(S) <= WorldSize
              /\ Cardinality(S) = WorldSize => S = Store!Ranks
              /\ \A r \in Store!Ranks \ S : Cardinality(S \cup {r}) = Cardinality(S) + 1
<1>1. WorldSize \in Nat \ {0, 1} /\ WorldSize - 1 \in Int
  BY DEF Store!StoreAssumption
<1>2. 0 \in Store!Ranks /\ \A r \in Store!Ranks : r \in Int
  BY <1>1 DEF Store!Ranks
<1>3. IsFiniteSet(Store!Ranks) /\ Cardinality(Store!Ranks) = WorldSize
  BY <1>1, FS_Interval DEF Store!Ranks
<1>4. ASSUME NEW S \in SUBSET Store!Ranks
      PROVE  /\ IsFiniteSet(S) /\ Cardinality(S) \in Nat /\ Cardinality(S) <= WorldSize
             /\ Cardinality(S) = WorldSize => S = Store!Ranks
             /\ \A r \in Store!Ranks \ S : Cardinality(S \cup {r}) = Cardinality(S) + 1
  <2>1. IsFiniteSet(S) /\ Cardinality(S) <= WorldSize
        /\ (Cardinality(S) = WorldSize => S = Store!Ranks)
    BY <1>3, FS_Subset
  <2>2. Cardinality(S) \in Nat
    BY <2>1, FS_CardinalityType
  <2>3. \A r \in Store!Ranks \ S : Cardinality(S \cup {r}) = Cardinality(S) + 1
    BY <2>1, FS_AddElement
  <2> QED
    BY <2>1, <2>2, <2>3
<1> QED
  BY <1>1, <1>2, <1>3, <1>4

\* The numbers of a rank.
LEMMA RankAt ==
  ASSUME StoreTypes, NEW r \in Store!Ranks, MaxSteps \in Nat
  PROVE  /\ steps[r] \in 0..MaxSteps /\ steps[r] \in Nat /\ got[r] \in Nat
         /\ rpc[r] \in {"out", "push", "reduce", "apply"}
         /\ given[r] \in SUBSET Store!GradientLists
BY DEF StoreTypes

LEMMA NoHalfMean ==
  ASSUME Slots PROVE Store!Published <=> failed \/ mean # {}
BY DEF Store!Published

\* What is in the weights.
LEMMA UpdateAt ==
  ASSUME Store!StoreAssumption, Weighed, NEW m \in 1..Len(weights)
  PROVE  /\ Len(weights) \in Nat
         /\ weights[m] \in Store!Updates /\ weights[m].mean \in SUBSET Store!GradientLists
         /\ Whole(weights[m].mean) /\ weights[m].mean # {}
         /\ \A g \in weights[m].mean : g.step \in Int /\ g.step <= Behind
<1>1. weights[m] \in Store!Updates /\ Len(weights) \in Nat /\ Whole(weights[m].mean)
  BY DEF Weighed
<1>2. weights[m].mean \in SUBSET Store!GradientLists
  BY <1>1 DEF Store!Updates
<1>3. \A g \in weights[m].mean : g.step \in Int
  BY <1>2 DEF Store!GradientLists
<1>4. weights[m].mean # {}
  <2>1. 0 \in Store!Ranks /\ {g.by : g \in weights[m].mean} = Store!Ranks
    BY <1>1, RanksCounted DEF Whole
  <2> QED
    BY <2>1
<1> QED
  BY <1>1, <1>2, <1>3, <1>4 DEF Weighed

\* The weights stay; rank 0 may be done with one more round.
LEMMA WeightsStay ==
  ASSUME Store!StoreAssumption, StoreTypes, Weighed, weights' = weights,
         Behind \in Int, Behind' \in Int, Behind <= Behind',
         Len(weights) = IF rpc'[0] = "apply" THEN got'[0] - 1 ELSE got'[0]
  PROVE  Weighed'
<1>1. ASSUME NEW m \in 1..Len(weights), NEW g \in weights[m].mean PROVE g.step <= Behind'
  <2>1. g.step <= Behind /\ g.step \in Int
    BY <1>1, UpdateAt
  <2> QED
    BY <2>1
<1>2. \A m \in 1..Len(weights) : Whole(weights[m].mean)
  BY DEF Weighed
<1>3. \A m \in 1..Len(weights') :
        Whole(weights[m].mean)' /\ \A g \in weights'[m].mean : g.step <= Behind'
  BY <1>1, <1>2 DEF Whole
<1> QED
  BY <1>3 DEF Weighed

LEMMA BehindInt ==
  ASSUME Store!StoreAssumption, StoreTypes PROVE Behind \in Int
BY RankAt, RanksCounted DEF Behind, Store!StoreAssumption

\* No rank is done with a round that has not ended, and rank 0 lacks at most the last.
LEMMA RoundOrder ==
  ASSUME Store!StoreAssumption, StoreTypes, Level
  PROVE  /\ Behind \in Int /\ Behind = BehindOf(0)
         /\ Round(0) \in Int /\ Behind <= Round(0) /\ Round(0) <= Behind + 1
         /\ rpc[0] = "apply" => Round(0) = steps[0] /\ Behind = steps[0] - 1
         /\ rpc[0] \in {"out", "push"} => Behind = Round(0)
         /\ \A r \in Store!Ranks :
              /\ BehindOf(r) \in Int /\ Round(r) = Round(0) /\ BehindOf(r) <= Round(0)
              /\ rpc[r] = "reduce" /\ Store!Published =>
                   Round(0) = steps[r] /\ BehindOf(r) = steps[r] - 1
              /\ rpc[r] = "reduce" /\ ~Store!Published =>
                   Round(0) = steps[r] - 1 /\ BehindOf(r) = steps[r] - 1
<1>1. MaxSteps \in Nat /\ 0 \in Store!Ranks
  BY RanksCounted DEF Store!StoreAssumption
<1>2. \A r \in Store!Ranks : steps[r] \in Nat /\ rpc[r] \in {"out", "push", "reduce", "apply"}
  BY <1>1, RankAt
<1>3. \A r \in Store!Ranks : Round(r) = Round(0)
  BY <1>1 DEF Level
<1>4. Behind = BehindOf(0) /\ Behind \in Int /\ Behind <= Round(0) /\ Round(0) <= Behind + 1
      /\ Round(0) \in Int
      /\ (rpc[0] = "apply" => Round(0) = steps[0] /\ Behind = steps[0] - 1)
      /\ (rpc[0] \in {"out", "push"} => Behind = Round(0))
  BY <1>1, <1>2 DEF Behind, BehindOf, Round
<1>5. ASSUME NEW r \in Store!Ranks
      PROVE  /\ BehindOf(r) \in Int /\ BehindOf(r) <= Round(r)
             /\ rpc[r] = "reduce" /\ Store!Published =>
                  Round(r) = steps[r] /\ BehindOf(r) = steps[r] - 1
             /\ rpc[r] = "reduce" /\ ~Store!Published =>
                  Round(r) = steps[r] - 1 /\ BehindOf(r) = steps[r] - 1
  BY <1>2 DEF BehindOf, Round
<1> QED
  BY <1>3, <1>4, <1>5

\* Nobody is done with another round, and no round is decided.
LEMMA ToldStays ==
  ASSUME Told, weights' = weights, errors' = errors, failed' = failed, Behind' = Behind,
         \A r \in Store!Ranks : BehindOf(r)' = BehindOf(r),
         Store!Published' => Store!Published /\ Round(0)' = Round(0),
         rpc'[0] = "apply" => rpc[0] = "apply"
  PROVE  Told'
<1>1. \A k : (Written(k)' <=> Written(k)) /\ (LandedWhole(k)' <=> LandedWhole(k)) /\ (Good(k)' <=> Good(k))
  BY DEF Written, LandedWhole, Good, OfRound
<1> QED
  BY <1>1 DEF Told

-----------------------------------------------------------------------------
(* SharedGradientStore: what leaves the round as it is *)

LEMMA BeginInv ==
  ASSUME Store!StoreAssumption, StoreInv, NEW r \in Store!Ranks, Store!Begin(r)
  PROVE  StoreInv'
<1>1. MaxSteps \in Nat /\ 0 \in Store!Ranks
  BY RanksCounted DEF Store!StoreAssumption
<1>2. /\ rpc[r] = "out" /\ steps[r] < MaxSteps /\ rpc' = [rpc EXCEPT ![r] = "push"]
      /\ steps' = [steps EXCEPT ![r] = @ + 1]
      /\ UNCHANGED <<buffers, mean, failed, left, weights, sleeping, local, given, got, errors>>
  BY DEF Store!Begin, Store!roundState
<1>3. /\ rpc'[r] = "push" /\ steps'[r] = steps[r] + 1
      /\ \A q \in Store!Ranks \ {r} : rpc'[q] = rpc[q] /\ steps'[q] = steps[q]
  BY <1>2 DEF StoreInv, StoreTypes
<1>4. StoreTypes'
  BY <1>1, <1>2, <1>3, RankAt DEF StoreInv, StoreTypes, Store!Published
<1>5. \A q \in Store!Ranks : Pushed(q)'
  <2>1. steps[r] \in Nat
    BY <1>1, RankAt DEF StoreInv
  <2> QED
    BY <1>2, <1>3, <2>1 DEF StoreInv, Pushed
<1>6. Gone' = Gone /\ (Store!Published' <=> Store!Published)
  BY <1>2, <1>3 DEF Gone, Store!Published
<1>7. Slots'
  BY <1>2, <1>6 DEF StoreInv, Slots
<1>8. \A q \in Store!Ranks : Round(q)' = Round(q) /\ Owed(q)' = Owed(q)
  BY <1>1, <1>2, <1>3, <1>6, RankAt DEF StoreInv, Round, Owed
<1>9. Level'
  BY <1>1, <1>2, <1>3, <1>8, RankAt DEF StoreInv, Level
<1>10. Means'
  BY <1>1, <1>2, <1>3, <1>8 DEF StoreInv, Means, OfRound, Whole
<1>11. Behind' = Behind
  BY <1>1, <1>2, <1>3, RankAt DEF StoreInv, Behind
<1>12. Weighed'
  BY <1>1, <1>2, <1>3, <1>11, WeightsStay, BehindInt DEF StoreInv, Weighed
<1>13. \A q \in Store!Ranks : BehindOf(q)' = BehindOf(q)
  BY <1>1, <1>2, <1>3, RankAt DEF StoreInv, BehindOf
<1>14. Told'
  BY <1>1, <1>2, <1>3, <1>6, <1>8, <1>11, <1>13, ToldStays DEF StoreInv
<1> QED
  BY <1>4, <1>5, <1>7, <1>9, <1>10, <1>12, <1>14 DEF StoreInv

\* Going to sleep and waking up.
LEMMA SleepInv ==
  ASSUME StoreInv, sleeping' \subseteq {r \in Store!Ranks : rpc[r] \in {"push", "reduce"}},
         UNCHANGED <<buffers, mean, failed, left, weights, rpc, steps, local, given, got, errors>>
  PROVE  StoreInv'
<1>1. StoreTypes'
  BY DEF StoreInv, StoreTypes
<1>2. \A q \in Store!Ranks : Pushed(q)'
  BY DEF StoreInv, Pushed
<1>3. Gone' = Gone /\ (Store!Published' <=> Store!Published)
  BY DEF Gone, Store!Published
<1>4. Slots'
  BY <1>3 DEF StoreInv, Slots
<1>5. \A q \in Store!Ranks : Round(q)' = Round(q) /\ Owed(q)' = Owed(q)
  BY <1>3 DEF Round, Owed
<1>6. Level'
  BY <1>5 DEF StoreInv, Level
<1>7. Round(0)' = Round(0) /\ Behind' = Behind
  BY <1>3 DEF Round, Behind
<1>8. Means'
  BY <1>7 DEF StoreInv, Means, Whole, OfRound
<1>9. Weighed'
  BY <1>7 DEF StoreInv, Weighed, Whole
<1>10. \A q \in Store!Ranks : BehindOf(q)' = BehindOf(q)
  BY DEF BehindOf
<1>11. Told'
  BY <1>3, <1>7, <1>10, ToldStays DEF StoreInv
<1> QED
  BY <1>1, <1>2, <1>4, <1>6, <1>8, <1>9, <1>11 DEF StoreInv

-----------------------------------------------------------------------------
(* SharedGradientStore: a push, and the weights *)

\* A rank fills its slot: the round is not decided.
LEMMA FillInv ==
  ASSUME Store!StoreAssumption, StoreInv, NEW r \in Store!Ranks, NEW n \in Sizes,
         NEW o \in Odds, NEW g, g = [by |-> r, step |-> steps[r], size |-> n, odd |-> o],
         rpc[r] = "push", buffers[r] = {},
         local' = [local EXCEPT ![r] = g], buffers' = [buffers EXCEPT ![r] = {g}],
         sleeping' = {}, rpc' = [rpc EXCEPT ![r] = "reduce"],
         UNCHANGED <<mean, failed, left, weights, steps, given, got, errors>>
  PROVE  StoreInv' /\ ~Store!Published /\ ~Store!Published' /\ g \in Store!GradientLists
<1>1. MaxSteps \in Nat /\ 0 \in Store!Ranks
  BY RanksCounted DEF Store!StoreAssumption
<1>2. ~Store!Published /\ ~Store!Published'
  BY DEF StoreInv, Slots, Store!Published
<1>3. g \in Store!GradientLists /\ g.by = r /\ g.step = steps[r]
  <2>1. steps[r] \in 0..MaxSteps /\ steps[r] >= 1
    BY <1>1, RankAt DEF StoreInv, Pushed
  <2>2. steps[r] \in 1..MaxSteps
    BY <1>1, <2>1
  <2> QED
    BY <2>2 DEF Store!GradientLists
<1>4. /\ rpc'[r] = "reduce" /\ local'[r] = g /\ buffers'[r] = {g}
      /\ \A q \in Store!Ranks \ {r} :
           rpc'[q] = rpc[q] /\ local'[q] = local[q] /\ buffers'[q] = buffers[q]
  BY DEF StoreInv, StoreTypes
<1>5. StoreTypes'
  <2>1. g \in LocalLists
    BY <1>1, RankAt DEF StoreInv, LocalLists
  <2>2. local' \in [Store!Ranks -> LocalLists]
    BY <2>1 DEF StoreInv, StoreTypes
  <2>3. buffers' \in [Store!Ranks -> SUBSET Store!GradientLists]
    BY <1>3 DEF StoreInv, StoreTypes
  <2> QED
    BY <2>2, <2>3 DEF StoreInv, StoreTypes
<1>6. \A q \in Store!Ranks : Pushed(q)'
  <2>1. Pushed(r)'
    BY <1>3, <1>4 DEF StoreInv, Pushed
  <2>2. ASSUME NEW q \in Store!Ranks \ {r} PROVE Pushed(q)'
    BY <1>4 DEF StoreInv, Pushed
  <2> QED
    BY <2>1, <2>2
<1>7. Gone' \subseteq Gone \ {r}
  BY <1>4 DEF Gone
<1>8. Slots'
  BY <1>2, <1>4, <1>7 DEF StoreInv, Slots, Gone
<1>9. mean = {} /\ mean' = {}
  BY <1>2 DEF Store!Published
<1>10. \A q \in Store!Ranks : Round(q)' = Round(q) /\ Owed(q)' = Owed(q)
  BY <1>2, <1>4, <1>9 DEF Round, Owed
<1>11. Level'
  BY <1>4, <1>10 DEF StoreInv, Level
<1>12. Means'
  BY <1>1, <1>4, <1>9 DEF StoreInv, Means, OfRound, Whole
<1>13. Behind' = Behind
  BY <1>1, <1>4 DEF Behind
<1>14. Weighed'
  BY <1>1, <1>4, <1>13, WeightsStay, BehindInt DEF StoreInv, Weighed
<1>15. \A q \in Store!Ranks : BehindOf(q)' = BehindOf(q)
  BY <1>4 DEF BehindOf
<1>16. Told'
  BY <1>1, <1>2, <1>4, <1>13, <1>15, ToldStays DEF StoreInv
<1> QED
  BY <1>2, <1>3, <1>5, <1>6, <1>8, <1>11, <1>12, <1>14, <1>16 DEF StoreInv

\* A mean has a list of rank 0, and with it a number of buffers that land.
LEMMA LeadOf ==
  ASSUME Store!StoreAssumption, NEW M \in SUBSET Store!GradientLists, Whole(M)
  PROVE  M # {} /\ Store!Landed(M) \in Int
<1>1. PICK g \in M : g.by = 0
  <2>1. 0 \in Store!Ranks /\ {g.by : g \in M} = Store!Ranks
    BY RanksCounted DEF Whole
  <2> QED
    BY <2>1
<1>2. Store!Lead(M) \in M
  BY <1>1 DEF Store!Lead
<1>3. \A h \in M : h.size \in Int /\ h.odd \in Int
  <2>1. \A h \in M : h.size \in Sizes /\ h.odd \in Odds
    BY DEF Store!GradientLists
  <2>2. Sizes \subseteq Int
    BY DEF Store!StoreAssumption
  <2>3. Odds \subseteq Int
    BY DEF Store!StoreAssumption
  <2> QED
    BY <2>1, <2>2, <2>3
<1> QED
  BY <1>1, <1>2, <1>3 DEF Store!Landed

\* Rank 0 writes its mean, of a later round than all the others, to the weights.
LEMMA ApplyInv ==
  ASSUME Store!StoreAssumption, StoreInv, Store!Apply
  PROVE  StoreInv' /\ Store!Published' = Store!Published
<1>1. MaxSteps \in Nat /\ 0 \in Store!Ranks
  BY RanksCounted DEF Store!StoreAssumption
<1>2. /\ rpc[0] = "apply" /\ rpc' = [rpc EXCEPT ![0] = "out"]
      /\ weights' = Append(weights, [mean |-> given[0], landed |-> Store!Landed(given[0])])
      /\ errors' = IF Store!Landed(given[0]) = Store!Lead(given[0]).size THEN errors
                    ELSE [errors EXCEPT ![0] = @ \cup {steps[0]}]
      /\ UNCHANGED <<buffers, mean, failed, left, sleeping, steps, local, given, got>>
  BY DEF Store!Apply, Store!roundState
<1>3. rpc'[0] = "out" /\ \A q \in Store!Ranks \ {0} : rpc'[q] = rpc[q]
  BY <1>1, <1>2 DEF StoreInv, StoreTypes
<1>4. StoreTypes'
  <2>1. steps[0] \in 1..MaxSteps
    <3>1. steps[0] \in 0..MaxSteps /\ steps[0] >= 1
      BY <1>1, <1>2, RankAt DEF StoreInv, Pushed
    <3> QED
      BY <1>1, <3>1
  <2>2. errors' \in [Store!Ranks -> SUBSET (1..MaxSteps)]
    BY <1>2, <2>1 DEF StoreInv, StoreTypes
  <2> QED
    BY <1>2, <1>3, <2>2 DEF StoreInv, StoreTypes
<1>5. \A q \in Store!Ranks : Pushed(q)'
  BY <1>2, <1>3 DEF StoreInv, Pushed
<1>6. Gone' = Gone /\ (Store!Published' <=> Store!Published)
  BY <1>2, <1>3 DEF Gone, Store!Published
<1>7. Slots'
  BY <1>2, <1>6 DEF StoreInv, Slots
<1>8. \A q \in Store!Ranks : Round(q)' = Round(q) /\ Owed(q)' = Owed(q)
  BY <1>2, <1>3, <1>6 DEF Round, Owed
<1>9. Level'
  BY <1>2, <1>3, <1>8 DEF StoreInv, Level
<1>10. Means'
  BY <1>1, <1>2, <1>3, <1>8 DEF StoreInv, Means, OfRound, Whole
<1>11. steps[0] \in Nat /\ given[0] \in SUBSET Store!GradientLists
       /\ Behind = steps[0] - 1 /\ Behind' = steps[0]
  BY <1>1, <1>2, <1>3, RankAt DEF StoreInv, Behind
<1>12. Whole(given[0]) /\ (\A g \in given[0] : g.step = steps[0]) /\ given[0] # {}
       /\ Store!Landed(given[0]) \in Int
  BY <1>2, <1>11, LeadOf DEF StoreInv, Means, OfRound
<1>13. /\ weights \in Seq(Store!Updates)
       /\ Len(weights) = got[0] - 1 /\ Len(weights) \in Nat
  BY <1>2 DEF StoreInv, Weighed
<1>14. /\ weights' \in Seq(Store!Updates) /\ Len(weights') = Len(weights) + 1
       /\ weights'[Len(weights) + 1] = [mean |-> given[0], landed |-> Store!Landed(given[0])]
       /\ \A m \in 1..Len(weights) : weights'[m] = weights[m]
  <2>1. [mean |-> given[0], landed |-> Store!Landed(given[0])] \in Store!Updates
    BY <1>11, <1>12 DEF Store!Updates
  <2> QED
    BY <1>2, <1>13, <2>1
<1>15. Weighed'
  <2>1. Len(weights') = got'[0]
    <3>1. got[0] \in Nat
      BY <1>1, RankAt DEF StoreInv
    <3> QED
      BY <1>2, <1>13, <1>14, <3>1
  <2>2. ASSUME NEW m \in 1..Len(weights')
        PROVE  Whole(weights'[m].mean) /\ \A g \in weights'[m].mean : g.step <= Behind'
    <3>1. CASE m = Len(weights) + 1
      <4>1. weights'[m].mean = given[0]
        BY <1>14, <3>1
      <4> QED
        BY <1>11, <1>12, <4>1
    <3>2. CASE m \in 1..Len(weights)
      <4>1. weights'[m] = weights[m] /\ Whole(weights[m].mean)
        BY <1>14, <3>2, UpdateAt DEF StoreInv
      <4>2. \A g \in weights[m].mean : g.step <= steps[0]
        BY <1>11, <3>2, UpdateAt DEF StoreInv
      <4> QED
        BY <1>11, <4>1, <4>2
    <3> QED
      BY <1>13, <1>14, <3>1, <3>2
  <2>3. ASSUME NEW m \in 1..Len(weights'), NEW n \in 1..Len(weights'), m < n,
               NEW g \in weights'[m].mean, NEW h \in weights'[n].mean
        PROVE  g.step < h.step
    <3>1. m \in 1..Len(weights) /\ g \in weights[m].mean
      BY <1>13, <1>14, <2>3
    <3>2. CASE n = Len(weights) + 1
      <4>1. h.step = steps[0]
        BY <1>12, <1>14, <2>3, <3>2
      <4>2. g.step <= Behind /\ g.step \in Int
        BY <3>1, UpdateAt DEF StoreInv
      <4> QED
        BY <1>11, <4>1, <4>2
    <3>3. CASE n \in 1..Len(weights)
      BY <1>13, <1>14, <2>3, <3>1, <3>3 DEF StoreInv, Weighed
    <3> QED
      BY <1>13, <1>14, <3>2, <3>3
  <2>4. \A m \in 1..Len(weights') :
          Whole(weights[m].mean)' /\ \A g \in weights'[m].mean : g.step <= Behind'
    BY <2>2 DEF Whole
  <2> QED
    BY <1>3, <1>14, <2>1, <2>3, <2>4 DEF Weighed
<1>16. Told'
  <2>1. /\ Behind = BehindOf(0) /\ Behind \in Int /\ Round(0) = steps[0]
        /\ \A q \in Store!Ranks : BehindOf(q) \in Int /\ BehindOf(q) <= steps[0]
    BY <1>2, RoundOrder DEF StoreInv
  <2>2. BehindOf(0)' = steps[0] /\ \A q \in Store!Ranks \ {0} : BehindOf(q)' = BehindOf(q)
    BY <1>2, <1>3 DEF BehindOf
  <2>3. /\ \A q \in Store!Ranks \ {0} : errors'[q] = errors[q]
        /\ errors'[0] = IF Store!Landed(given[0]) = Store!Lead(given[0]).size THEN errors[0]
                         ELSE errors[0] \cup {steps[0]}
        /\ errors[0] \subseteq 1..Behind
    BY <1>1, <1>2, <2>1 DEF StoreInv, StoreTypes, Told
  \* Of the round just written there was nothing before; of the others nothing is new.
  <2>4. ASSUME NEW k, k = steps[0]
        PROVE  /\ Written(k)'
               /\ LandedWhole(k)' <=> Store!Landed(given[0]) = Store!Lead(given[0]).size
    <3>1. ASSUME NEW m \in 1..Len(weights) PROVE ~OfRound(weights'[m].mean, k)
      BY <1>11, <1>14, <2>4, UpdateAt DEF StoreInv, OfRound
    <3>2. /\ OfRound(weights'[Len(weights) + 1].mean, k)
          /\ weights'[Len(weights) + 1].mean = given[0]
          /\ weights'[Len(weights) + 1].landed = Store!Landed(given[0])
      BY <1>12, <1>14, <2>4 DEF OfRound
    <3>3. \A m \in 1..Len(weights') : m \in 1..Len(weights) \/ m = Len(weights) + 1
      BY <1>13, <1>14
    <3>4. Len(weights) + 1 \in 1..Len(weights')
      BY <1>13, <1>14
    <3>5. (\E m \in 1..Len(weights') : OfRound(weights'[m].mean, k))
          /\ ((\E m \in 1..Len(weights') :
                 /\ OfRound(weights'[m].mean, k)
                 /\ weights'[m].landed = Store!Lead(weights'[m].mean).size)
              <=> Store!Landed(given[0]) = Store!Lead(given[0]).size)
      BY <3>1, <3>2, <3>3, <3>4
    <3> QED
      BY <3>5 DEF Written, LandedWhole, OfRound
  <2>5. ASSUME NEW k \in 1..Behind
        PROVE  (Written(k)' <=> Written(k)) /\ (LandedWhole(k)' <=> LandedWhole(k))
    <3>1. ~OfRound(weights'[Len(weights) + 1].mean, k) /\ k # steps[0]
      BY <1>11, <1>12, <1>14, <2>5 DEF OfRound
    <3>2. \A m : m \in 1..Len(weights') <=> m \in 1..Len(weights) \/ m = Len(weights) + 1
      BY <1>13, <1>14
    <3>3. ((\E m \in 1..Len(weights') : OfRound(weights'[m].mean, k)) <=> Written(k))
          /\ ((\E m \in 1..Len(weights') :
                 /\ OfRound(weights'[m].mean, k)
                 /\ weights'[m].landed = Store!Lead(weights'[m].mean).size) <=> LandedWhole(k))
      BY <1>14, <3>1, <3>2 DEF Written, LandedWhole
    <3> QED
      BY <3>3 DEF Written, LandedWhole, OfRound
  <2>6. \A k \in 1..steps[0] : k \in 1..Behind \/ (k = steps[0] /\ k > Behind)
    BY <1>11
  <2>7. ~failed /\ ~failed'
    BY <1>2 DEF StoreInv, Told
  <2>8. ASSUME NEW k \in 1..steps[0] PROVE Good(k)' <=> Good(k)
    <3>1. CASE k \in 1..Behind
      BY <1>11, <2>5, <3>1 DEF Good
    <3>2. CASE k = steps[0] /\ k > Behind
      BY <1>11, <2>4, <2>7, <3>2 DEF Good
    <3> QED
      BY <2>6, <3>1, <3>2
  <2>9. \A q \in Store!Ranks : errors'[q] \subseteq 1..BehindOf(q)'
    <3>1. steps[0] >= 1
      BY <1>1, <1>2 DEF StoreInv, Pushed
    <3>2. errors'[0] \subseteq 1..steps[0]
      BY <1>11, <2>3, <3>1
    <3> QED
      BY <2>2, <2>3, <3>2 DEF StoreInv, Told
  <2>10. ASSUME NEW q \in Store!Ranks \ {0}, NEW k \in 1..BehindOf(q)'
         PROVE  k \notin errors'[q] <=> Good(k)'
    <3>1. k \in 1..BehindOf(q) /\ k \in 1..steps[0]
      BY <1>11, <2>1, <2>2, <2>10
    <3> QED
      BY <2>3, <2>8, <3>1 DEF StoreInv, Told
  <2>11. ASSUME NEW k \in 1..Behind' PROVE k \notin errors'[0] <=> LandedWhole(k)'
    <3>1. CASE k \in 1..Behind
      <4>1. k # steps[0]
        BY <1>11, <3>1
      <4> QED
        BY <2>3, <2>5, <3>1, <4>1 DEF StoreInv, Told
    <3>2. CASE k = steps[0]
      <4>1. steps[0] \notin errors[0]
        BY <1>11, <2>3
      <4> QED
        BY <2>3, <2>4, <3>2, <4>1
    <3> QED
      BY <1>11, <2>6, <2>11, <3>1, <3>2
  <2>12. ASSUME NEW k, k = Round(0)' PROVE failed' <=> ~Good(k)'
    <3>1. k = steps[0] /\ Behind' = steps[0]
      BY <1>1, <1>8, <1>11, <2>1, <2>12
    <3> QED
      BY <1>11, <2>4, <2>7, <3>1 DEF Good
  <2> QED
    BY <1>3, <2>9, <2>10, <2>11, <2>12 DEF Told
<1> QED
  BY <1>4, <1>5, <1>6, <1>7, <1>9, <1>10, <1>15, <1>16 DEF StoreInv

-----------------------------------------------------------------------------
(* SharedGradientStore: a rank takes the mean and departs *)

\* What all departures have in common: the rank that goes takes M, the mean of its round.
Departs(r, M, bad) ==
  /\ rpc[r] = "reduce"
  /\ rpc' = [rpc EXCEPT ![r] = IF r = 0 /\ ~bad THEN "apply" ELSE "out"]
  /\ given' = [given EXCEPT ![r] = IF bad THEN {} ELSE M]
  /\ got' = IF bad THEN got ELSE [got EXCEPT ![r] = @ + 1]
  /\ errors' = IF bad THEN [errors EXCEPT ![r] = @ \cup {steps[r]}] ELSE errors
  /\ UNCHANGED <<weights, steps, local>>

LEMMA DepartsAt ==
  ASSUME StoreTypes, NEW r \in Store!Ranks, NEW M, NEW bad \in BOOLEAN, Departs(r, M, bad)
  PROVE  /\ rpc'[r] = IF r = 0 /\ ~bad THEN "apply" ELSE "out"
         /\ given'[r] = IF bad THEN {} ELSE M
         /\ got'[r] = IF bad THEN got[r] ELSE got[r] + 1
         /\ \A q \in Store!Ranks \ {r} :
              rpc'[q] = rpc[q] /\ given'[q] = given[q] /\ got'[q] = got[q]
         /\ Gone' = Gone \cup {r} /\ r \notin Gone
<1>1. CASE bad
  BY <1>1 DEF StoreTypes, Departs, Gone
<1>2. CASE ~bad
  BY <1>2 DEF StoreTypes, Departs, Gone
<1> QED
  BY <1>1, <1>2

LEMMA DepartsErrors ==
  ASSUME StoreTypes, NEW r \in Store!Ranks, NEW M, NEW bad \in BOOLEAN, Departs(r, M, bad)
  PROVE  /\ errors'[r] = IF bad THEN errors[r] \cup {steps[r]} ELSE errors[r]
         /\ \A q \in Store!Ranks \ {r} : errors'[q] = errors[q]
<1>1. CASE bad
  BY <1>1 DEF StoreTypes, Departs
<1>2. CASE ~bad
  BY <1>2 DEF Departs
<1> QED
  BY <1>1, <1>2

LEMMA DepartsTypes ==
  ASSUME Store!StoreAssumption, StoreInv, NEW r \in Store!Ranks, NEW bad \in BOOLEAN,
         NEW M \in SUBSET Store!GradientLists, Departs(r, M, bad), left' \in Nat,
         buffers' \in [Store!Ranks -> SUBSET Store!GradientLists], mean' \subseteq Store!GradientLists,
         sleeping' \subseteq sleeping, r \notin sleeping
  PROVE  StoreTypes'
<1>1. MaxSteps \in Nat
  BY DEF Store!StoreAssumption
<1>2. got[r] \in Nat /\ got[r] <= steps[r] - 1 /\ steps[r] \in 0..MaxSteps
  BY <1>1, RankAt DEF StoreInv, Level, Departs
<1>3. got'[r] \in 0..MaxSteps
  BY <1>1, <1>2, DepartsAt DEF StoreInv
<1>4. got' \in [Store!Ranks -> 0..MaxSteps]
  BY <1>3, DepartsAt DEF StoreInv, StoreTypes, Departs
<1>5. rpc' \in [Store!Ranks -> {"out", "push", "reduce", "apply"}]
      /\ given' \in [Store!Ranks -> SUBSET Store!GradientLists]
  BY DEF StoreInv, StoreTypes, Departs
<1>6. sleeping' \subseteq {q \in Store!Ranks : rpc'[q] \in {"push", "reduce"}}
  BY DepartsAt DEF StoreInv, StoreTypes
<1>7. errors' \in [Store!Ranks -> SUBSET (1..MaxSteps)]
  <2>1. steps[r] >= 1
    BY DEF StoreInv, Pushed, Departs
  <2>2. steps[r] \in 1..MaxSteps
    BY <1>1, <1>2, <2>1
  <2> QED
    BY <2>2 DEF StoreInv, StoreTypes, Departs
<1> QED
  BY <1>4, <1>5, <1>6, <1>7 DEF StoreInv, StoreTypes, Departs

LEMMA DepartsWeights ==
  ASSUME Store!StoreAssumption, StoreInv, StoreTypes', NEW r \in Store!Ranks,
         NEW bad \in BOOLEAN, NEW M, Departs(r, M, bad)
  PROVE  Weighed'
<1>1. MaxSteps \in Nat /\ 0 \in Store!Ranks
  BY RanksCounted DEF Store!StoreAssumption
<1>2. steps[0] \in Nat /\ got[0] \in Nat
  BY <1>1, RankAt DEF StoreInv
<1>3. Behind \in Int /\ Behind' \in Int
  <2>1. steps'[0] = steps[0]
    BY DEF Departs
  <2> QED
    BY <1>2, <2>1 DEF Behind
<1>4. Behind <= Behind'
  <2>1. steps' = steps /\ (rpc[0] = "out" => rpc'[0] = "out")
    BY <1>1, DepartsAt DEF StoreInv, Departs
  <2> QED
    BY <1>2, <2>1 DEF Behind
<1>5. Len(weights) = IF rpc'[0] = "apply" THEN got'[0] - 1 ELSE got'[0]
  <2>1. Len(weights) = IF rpc[0] = "apply" THEN got[0] - 1 ELSE got[0]
    BY DEF StoreInv, Weighed
  <2>2. CASE r = 0
    <3>1. rpc[0] = "reduce" /\ rpc'[0] = (IF ~bad THEN "apply" ELSE "out")
          /\ got'[0] = IF bad THEN got[0] ELSE got[0] + 1
      BY <2>2, DepartsAt DEF StoreInv, Departs
    <3> QED
      BY <1>2, <2>1, <3>1
  <2>3. CASE r # 0
    <3>1. rpc'[0] = rpc[0] /\ got'[0] = got[0]
      BY <1>1, <2>3, DepartsAt DEF StoreInv
    <3> QED
      BY <2>1, <3>1
  <2> QED
    BY <2>2, <2>3
<1> QED
  BY <1>3, <1>4, <1>5, WeightsStay DEF StoreInv, Departs

\* What rank 0 has taken to apply it.
LEMMA DepartsMean ==
  ASSUME Store!StoreAssumption, StoreInv, NEW r \in Store!Ranks, NEW bad \in BOOLEAN,
         NEW M, Departs(r, M, bad), ~bad => Whole(M) /\ OfRound(M, steps[r]), rpc'[0] = "apply"
  PROVE  Whole(given'[0]) /\ OfRound(given'[0], steps'[0])
<1>1. 0 \in Store!Ranks
  BY RanksCounted
<1>2. CASE r = 0
  <2>1. given'[0] = (IF bad THEN {} ELSE M) /\ rpc'[0] = IF ~bad THEN "apply" ELSE "out"
    BY <1>2, DepartsAt DEF StoreInv
  <2>2. steps' = steps
    BY DEF Departs
  <2> QED
    BY <1>2, <2>1, <2>2
<1>3. CASE r # 0
  <2>1. rpc'[0] = rpc[0] /\ given'[0] = given[0]
    BY <1>1, <1>3, DepartsAt DEF StoreInv
  <2>2. steps' = steps
    BY DEF Departs
  <2> QED
    BY <2>1, <2>2 DEF StoreInv, Means
<1> QED
  BY <1>2, <1>3

\* What step returns to the rank that goes is what became of its round.  The last one resets
\* the round, when rank 0 has already taken what it needs.
LEMMA DepartsTold ==
  ASSUME Store!StoreAssumption, StoreInv, NEW r \in Store!Ranks, NEW bad \in BOOLEAN, NEW M,
         Departs(r, M, bad), NEW K, K = steps[r], BehindOf(r) = K - 1,
         Behind \in {K - 1, K}, \A q \in Store!Ranks : BehindOf(q) \in Int /\ BehindOf(q) <= K,
         \A q \in Store!Ranks \ {0} : K \in 1..BehindOf(q) => (K \notin errors[q] <=> ~bad),
         Behind = K => (bad <=> ~Written(K)),
         rpc[0] = "apply" => ~bad,
         failed' = bad \/ (failed' = FALSE /\ (rpc'[0] = "apply" \/ Behind' = K)),
         Store!Published' => failed' = bad /\ Round(0)' = K
  PROVE  Told'
<1>1. MaxSteps \in Nat /\ 0 \in Store!Ranks /\ K \in Nat /\ K >= 1
  <2>1. K >= 1
    BY DEF StoreInv, Pushed, Departs
  <2> QED
    BY <2>1, RanksCounted, RankAt DEF StoreInv, Store!StoreAssumption
<1>2. Behind \in Int /\ Behind = BehindOf(0)
  BY RoundOrder DEF StoreInv
<1>3. /\ rpc'[r] = IF r = 0 /\ ~bad THEN "apply" ELSE "out"
      /\ errors'[r] = IF bad THEN errors[r] \cup {K} ELSE errors[r]
      /\ \A q \in Store!Ranks \ {r} : rpc'[q] = rpc[q] /\ errors'[q] = errors[q]
      /\ steps' = steps /\ weights' = weights
  <2>1. StoreTypes /\ steps' = steps /\ weights' = weights
    BY DEF StoreInv, Departs
  <2>2. /\ rpc'[r] = IF r = 0 /\ ~bad THEN "apply" ELSE "out"
        /\ \A q \in Store!Ranks \ {r} : rpc'[q] = rpc[q]
    BY <2>1, DepartsAt
  <2>3. /\ errors'[r] = IF bad THEN errors[r] \cup {steps[r]} ELSE errors[r]
        /\ \A q \in Store!Ranks \ {r} : errors'[q] = errors[q]
    BY <2>1, DepartsErrors
  <2> QED
    BY <2>1, <2>2, <2>3
<1>4. /\ BehindOf(r)' = IF r = 0 /\ ~bad THEN K - 1 ELSE K
      /\ \A q \in Store!Ranks \ {r} : BehindOf(q)' = BehindOf(q)
  BY <1>3 DEF BehindOf
<1>5. Behind' = BehindOf(0)' /\ Behind' = IF r = 0 /\ bad THEN K ELSE Behind
  <2>1. Behind' = BehindOf(0)'
    BY DEF Behind, BehindOf
  <2> QED
    BY <1>1, <1>2, <1>4, <2>1
<1>6. \A k : (Written(k)' <=> Written(k)) /\ (LandedWhole(k)' <=> LandedWhole(k))
  BY <1>3 DEF Written, LandedWhole, OfRound
<1>7. \A k : LandedWhole(k) => Written(k)
  BY DEF Written, LandedWhole
<1>8. \A k \in Int : k > Behind => ~Written(k)
  <2> SUFFICES ASSUME NEW k \in Int, k > Behind, NEW m \in 1..Len(weights),
                      OfRound(weights[m].mean, k)
               PROVE  FALSE
    BY DEF Written
  <2> QED
    BY <1>2, UpdateAt DEF StoreInv, OfRound
<1>9. K \notin errors[r] /\ \A q \in Store!Ranks : errors[q] \subseteq 1..BehindOf(q)
  BY <1>1 DEF StoreInv, Told
<1>10. \A q \in Store!Ranks : errors'[q] \subseteq 1..BehindOf(q)'
  <2>1. errors'[r] \subseteq 1..BehindOf(r)'
    BY <1>1, <1>3, <1>4, <1>9
  <2> QED
    BY <1>3, <1>4, <1>9, <2>1
\* Seen from any rank, the fate of the round of r is bad, and that of the others is settled.
<1>11. ASSUME NEW k \in 1..K PROVE Good(k)' <=> IF k = K THEN ~bad ELSE Written(k)
  <2>1. CASE k = K
    <3>1. CASE Behind' = K
      <4>1. CASE r = 0 /\ bad
        <5>1. ~Written(K)
          BY <1>1, <1>2, <1>8, <4>1
        <5> QED
          BY <1>1, <1>6, <2>1, <3>1, <4>1, <5>1 DEF Good
      <4>2. CASE ~(r = 0 /\ bad)
        BY <1>1, <1>5, <1>6, <2>1, <3>1, <4>2 DEF Good
      <4> QED
        BY <4>1, <4>2
    <3>2. CASE Behind' # K
      <4>1. K > Behind' /\ (rpc'[0] = "apply" => ~bad)
        BY <1>1, <1>2, <1>3, <1>5, <3>2
      <4>2. failed' <=> bad
        BY <3>2, <4>1
      <4> QED
        BY <2>1, <4>1, <4>2 DEF Good
    <3> QED
      BY <3>1, <3>2
  <2>2. CASE k # K
    <3>1. ~(k > Behind')
      BY <1>1, <1>2, <1>5, <1>11, <2>2
    <3> QED
      BY <1>6, <2>2, <3>1 DEF Good
  <2> QED
    BY <2>1, <2>2
<1>12. ASSUME NEW q \in Store!Ranks \ {0}, NEW k \in 1..BehindOf(q)'
       PROVE  k \notin errors'[q] <=> Good(k)'
  <2>1. k \in 1..K
    BY <1>1, <1>4, <1>12
  <2>2. CASE k \in 1..BehindOf(q) /\ k # K
    <3>1. k \notin errors[q] <=> Good(k)
      BY <2>2 DEF StoreInv, Told
    <3>2. Good(k) <=> Written(k)
      BY <1>1, <1>2, <2>1, <2>2 DEF Good
    <3>3. k \in errors'[q] <=> k \in errors[q]
      BY <1>3, <2>2
    <3> QED
      BY <1>11, <2>1, <2>2, <3>1, <3>2, <3>3
  <2>3. CASE k \in 1..BehindOf(q) /\ k = K
    <3>1. q # r /\ (k \notin errors[q] <=> ~bad)
      BY <1>1, <2>3
    <3> QED
      BY <1>3, <1>11, <2>1, <2>3, <3>1
  <2>4. CASE k \notin 1..BehindOf(q)
    <3>1. q = r /\ k = K
      BY <1>1, <1>4, <1>12, <2>1, <2>4
    <3> QED
      BY <1>3, <1>9, <1>11, <2>1, <3>1
  <2> QED
    BY <2>2, <2>3, <2>4
<1>13. ASSUME NEW k \in 1..Behind' PROVE k \notin errors'[0] <=> LandedWhole(k)'
  <2>1. CASE k \in 1..Behind
    <3>1. k \notin errors[0] <=> LandedWhole(k)
      BY <2>1 DEF StoreInv, Told
    <3>2. k \in errors'[0] <=> k \in errors[0]
      <4>1. CASE r = 0
        BY <1>1, <1>2, <1>3, <2>1, <4>1
      <4>2. CASE r # 0
        BY <1>1, <1>3, <4>2
      <4> QED
        BY <4>1, <4>2
    <3> QED
      BY <1>6, <3>1, <3>2
  <2>2. CASE k \notin 1..Behind
    <3>1. r = 0 /\ bad /\ k = K /\ k > Behind
      BY <1>1, <1>2, <1>5, <1>13, <2>2
    <3> QED
      BY <1>1, <1>3, <1>6, <1>7, <1>8, <3>1
  <2> QED
    BY <2>1, <2>2
<1>14. ASSUME NEW k, Store!Published', k = Round(0)' PROVE failed' <=> ~Good(k)'
  <2>1. k = K /\ failed' = bad /\ k \in 1..K
    BY <1>1, <1>14
  <2> QED
    BY <1>11, <2>1
<1>15. rpc'[0] = "apply" => ~failed'
  BY <1>1, <1>3
<1> QED
  BY <1>10, <1>12, <1>13, <1>14, <1>15 DEF Told

LEMMA DepartWithDeparts ==
  ASSUME NEW r \in Store!Ranks, NEW M, NEW bad, NEW wakes, rpc[r] = "reduce",
         Store!DepartWith(r, M, bad, wakes), UNCHANGED <<weights, steps, local>>
  PROVE  Departs(r, M, bad)
BY DEF Departs, Store!DepartWith

\* What a rank that finds the round decided can tell from what the others know of it.
LEMMA ReadKnows ==
  ASSUME Store!StoreAssumption, StoreInv, NEW r \in Store!Ranks, rpc[r] = "reduce",
         Store!Published, NEW K, K = steps[r]
  PROVE  /\ K = Round(0) /\ BehindOf(r) = K - 1 /\ Behind \in {K - 1, K}
         /\ \A q \in Store!Ranks : BehindOf(q) \in Int /\ BehindOf(q) <= K
         /\ \A q \in Store!Ranks \ {0} : K \in 1..BehindOf(q) => (K \notin errors[q] <=> ~failed)
         /\ Behind = K => (failed <=> ~Written(K))
         /\ rpc[0] = "apply" => ~failed
<1>1. /\ K = Round(0) /\ BehindOf(r) = K - 1 /\ K \in Int /\ Behind \in Int
      /\ Behind <= K /\ K <= Behind + 1
      /\ \A q \in Store!Ranks : BehindOf(q) \in Int /\ BehindOf(q) <= K
  BY RoundOrder DEF StoreInv
<1>2. failed <=> ~Good(K)
  BY <1>1 DEF StoreInv, Told
<1>3. \A q \in Store!Ranks \ {0} : K \in 1..BehindOf(q) => (K \notin errors[q] <=> ~failed)
  BY <1>2 DEF StoreInv, Told
<1>4. Behind = K => (failed <=> ~Written(K))
  BY <1>1, <1>2 DEF Good
<1> QED
  BY <1>1, <1>3, <1>4 DEF StoreInv, Told

\* The last to read resets the round.
LEMMA ReadLastInv ==
  ASSUME Store!StoreAssumption, StoreInv, NEW r \in Store!Ranks, Store!ReadBack(r),
         left + 1 >= WorldSize
  PROVE  StoreInv' /\ ~Store!Published' /\ Gone' = Store!Ranks
<1>1. MaxSteps \in Nat /\ 0 \in Store!Ranks /\ failed \in BOOLEAN
  BY RanksCounted DEF Store!StoreAssumption, StoreInv, Slots
<1>2. /\ rpc[r] = "reduce" /\ r \notin sleeping /\ Store!Published
      /\ buffers' = [s \in Store!Ranks |-> {}] /\ mean' = {} /\ failed' = FALSE /\ left' = 0
      /\ sleeping' = {} /\ Departs(r, mean, failed)
  <2>1. /\ rpc[r] = "reduce" /\ r \notin sleeping /\ Store!Published
        /\ Store!DepartWith(r, mean, failed, FALSE) /\ UNCHANGED <<weights, steps, local>>
    BY DEF Store!ReadBack
  <2> QED
    BY <2>1, DepartWithDeparts DEF Store!DepartWith
<1>3. mean \in SUBSET Store!GradientLists
  BY DEF StoreInv, StoreTypes
<1>4. StoreTypes'
  BY <1>1, <1>2, <1>3, DepartsTypes
<1>5. Gone' = Store!Ranks
  <2>1. left = Cardinality(Gone) /\ left < WorldSize /\ left \in Nat
    BY <1>2 DEF StoreInv, Slots, StoreTypes
  <2>2. Gone \in SUBSET Store!Ranks /\ r \in Store!Ranks \ Gone
    BY <1>2 DEF Gone
  <2>3. Cardinality(Gone \cup {r}) = left + 1 /\ WorldSize \in Nat
    BY <2>1, <2>2, RanksCounted
  <2>4. Cardinality(Gone \cup {r}) = WorldSize
    BY <2>1, <2>3
  <2>5. Gone \cup {r} \in SUBSET Store!Ranks
    BY <2>2
  <2>6. Gone \cup {r} = Store!Ranks
    BY <2>4, <2>5, RanksCounted
  <2>7. Gone' = Gone \cup {r}
    BY <1>1, <1>2, DepartsAt DEF StoreInv
  <2> QED
    BY <2>6, <2>7
<1>6. ~Store!Published' /\ \A q \in Store!Ranks : rpc'[q] # "reduce"
  BY <1>2, <1>5 DEF Store!Published, Gone
<1>7. Slots'
  <2>1. failed' \in BOOLEAN /\ mean' = {} /\ left' = 0
    BY <1>2, Zenon
  <2>2. \A q \in Store!Ranks : buffers'[q] = {}
    BY <1>2
  <2>3. \A q \in Gone' : buffers'[q] = {}
    BY <1>5, <2>2
  <2> QED
    BY <1>6, <2>1, <2>3 DEF Slots
<1>8. /\ rpc'[r] = IF r = 0 /\ ~failed THEN "apply" ELSE "out"
      /\ got'[r] = IF failed THEN got[r] ELSE got[r] + 1
      /\ \A q \in Store!Ranks \ {r} : rpc'[q] = rpc[q] /\ got'[q] = got[q]
      /\ steps' = steps
  <2>1. StoreTypes /\ Departs(r, mean, failed) /\ steps' = steps
    BY <1>2 DEF StoreInv, Departs
  <2> QED
    BY <1>1, <2>1, DepartsAt
<1>9. \A q \in Store!Ranks : Pushed(q)'
  BY <1>2, <1>6, <1>8 DEF StoreInv, Pushed
<1>10. mean # {} <=> ~failed
  BY <1>2 DEF StoreInv, Slots, Store!Published
<1>11. \A q \in Store!Ranks : Round(q)' = Round(q) /\ Owed(q)' = Owed(q)
  BY <1>2, <1>6, <1>8, <1>10 DEF Round, Owed
<1>12. Level'
  <2>1. \A q \in Store!Ranks : got'[q] <= steps'[q] /\ (rpc'[q] = "push" => got'[q] <= steps'[q] - 1)
    <3>1. \A q \in Store!Ranks : got[q] <= IF rpc[q] \in {"push", "reduce"} THEN steps[q] - 1 ELSE steps[q]
      BY DEF StoreInv, Level
    <3>2. \A q \in Store!Ranks : got[q] \in Nat /\ steps[q] \in Nat
      BY <1>1, RankAt DEF StoreInv
    <3> QED
      BY <1>2, <1>8, <3>1, <3>2
  <2> QED
    BY <1>6, <1>11, <2>1 DEF StoreInv, Level
<1>13. Means'
  <2>1. ~failed => Whole(mean) /\ OfRound(mean, steps[r])
    BY <1>1, <1>2, <1>10 DEF StoreInv, Means, Level, Round
  <2>2. rpc'[0] = "apply" => Whole(given'[0]) /\ OfRound(given'[0], steps'[0])
    BY <1>1, <1>2, <2>1, DepartsMean
  <2>3. rpc'[0] = "apply" => Whole(given[0])' /\ OfRound(given[0], steps[0])'
    BY <2>2 DEF Whole, OfRound
  <2> QED
    BY <1>2, <2>3 DEF Means
<1>14. Weighed'
  BY <1>1, <1>2, <1>4, DepartsWeights
<1>15. Told'
  <2>1. PICK K : K = steps[r]
    OBVIOUS
  <2>2. rpc'[0] = "apply" \/ Behind' = K
    <3>1. CASE r = 0
      <4>1. rpc'[0] \in {"apply", "out"} /\ steps'[0] = K
        BY <1>8, <2>1, <3>1
      <4> QED
        BY <4>1 DEF Behind
    <3>2. CASE r # 0
      <4>1. rpc'[0] = rpc[0] /\ rpc[0] \in {"out", "push", "apply"} /\ steps'[0] = steps[0]
        BY <1>1, <1>6, <1>8, <3>2, RankAt DEF StoreInv
      <4>2. CASE rpc[0] \in {"out", "push"}
        <5>1. Behind = Round(0) /\ Round(0) = K
          BY <1>2, <2>1, <4>2, ReadKnows, RoundOrder DEF StoreInv
        <5> QED
          BY <4>1, <5>1 DEF Behind
      <4> QED
        BY <4>1, <4>2
    <3> QED
      BY <3>1, <3>2
  <2>3. failed' = failed \/ (failed' = FALSE /\ (rpc'[0] = "apply" \/ Behind' = K))
    BY <1>2, <2>2
  <2>4. /\ BehindOf(r) = K - 1 /\ Behind \in {K - 1, K}
        /\ \A q \in Store!Ranks : BehindOf(q) \in Int /\ BehindOf(q) <= K
        /\ \A q \in Store!Ranks \ {0} : K \in 1..BehindOf(q) => (K \notin errors[q] <=> ~failed)
        /\ Behind = K => (failed <=> ~Written(K))
        /\ rpc[0] = "apply" => ~failed
    BY <1>2, <2>1, ReadKnows
  <2>5. Departs(r, mean, failed) /\ ~Store!Published'
    BY <1>2, <1>6
  <2> QED
    BY <1>1, <2>1, <2>3, <2>4, <2>5, DepartsTold
<1> QED
  BY <1>4, <1>5, <1>6, <1>7, <1>9, <1>12, <1>13, <1>14, <1>15 DEF StoreInv

\* Any other leaves it to the rest.
LEMMA ReadOtherInv ==
  ASSUME Store!StoreAssumption, StoreInv, NEW r \in Store!Ranks, Store!ReadBack(r),
         ~(left + 1 >= WorldSize)
  PROVE  StoreInv' /\ Store!Published' /\ Gone' = Gone \cup {r}
<1>1. MaxSteps \in Nat /\ 0 \in Store!Ranks /\ failed \in BOOLEAN
  BY RanksCounted DEF Store!StoreAssumption, StoreInv, Slots
<1>2. /\ rpc[r] = "reduce" /\ r \notin sleeping /\ Store!Published
      /\ buffers' = buffers /\ mean' = mean /\ failed' = failed /\ left' = left + 1
      /\ sleeping' = sleeping /\ Departs(r, mean, failed)
  <2>1. /\ rpc[r] = "reduce" /\ r \notin sleeping /\ Store!Published
        /\ Store!DepartWith(r, mean, failed, FALSE) /\ UNCHANGED <<weights, steps, local>>
    BY DEF Store!ReadBack
  <2> QED
    BY <2>1, DepartWithDeparts DEF Store!DepartWith
<1>3. mean \in SUBSET Store!GradientLists /\ left \in Nat
      /\ buffers \in [Store!Ranks -> SUBSET Store!GradientLists]
  BY DEF StoreInv, StoreTypes
<1>4. StoreTypes'
  BY <1>1, <1>2, <1>3, DepartsTypes
<1>5. Gone' = Gone \cup {r} /\ r \notin Gone
  BY <1>1, <1>2, DepartsAt DEF StoreInv
<1>6. Store!Published'
  BY <1>2 DEF Store!Published
<1>7. Slots'
  <2>1. left' = Cardinality(Gone') /\ left' < WorldSize
    <3>1. left = Cardinality(Gone)
      BY <1>2 DEF StoreInv, Slots
    <3>2. Gone \in SUBSET Store!Ranks /\ r \in Store!Ranks \ Gone
      BY <1>5 DEF Gone
    <3>3. Cardinality(Gone \cup {r}) = left + 1 /\ WorldSize \in Nat
      BY <3>1, <3>2, RanksCounted
    <3> QED
      BY <1>2, <1>3, <1>5, <3>3
  <2>2. /\ failed' \in BOOLEAN /\ (failed' => mean' = {})
        /\ \A q \in Store!Ranks : buffers'[q] # {}
    BY <1>2 DEF StoreInv, Slots
  <2> QED
    BY <1>6, <2>1, <2>2 DEF Slots
<1>8. /\ rpc'[r] = IF r = 0 /\ ~failed THEN "apply" ELSE "out"
      /\ got'[r] = IF failed THEN got[r] ELSE got[r] + 1
      /\ \A q \in Store!Ranks \ {r} : rpc'[q] = rpc[q] /\ got'[q] = got[q]
      /\ steps' = steps /\ local' = local
  <2>1. StoreTypes /\ Departs(r, mean, failed) /\ steps' = steps /\ local' = local
    BY <1>2 DEF StoreInv, Departs
  <2> QED
    BY <1>1, <2>1, DepartsAt
<1>9. \A q \in Store!Ranks : Pushed(q)'
  BY <1>2, <1>8 DEF StoreInv, Pushed
<1>10. mean # {} <=> ~failed
  BY <1>2 DEF StoreInv, Slots, Store!Published
<1>11. \A q \in Store!Ranks : Round(q)' = Round(q) /\ Owed(q)' = Owed(q)
  BY <1>2, <1>6, <1>8, <1>10 DEF Round, Owed
<1>12. Level'
  <2>1. \A q \in Store!Ranks :
          got'[q] <= IF rpc'[q] \in {"push", "reduce"} THEN steps'[q] - 1 ELSE steps'[q]
    <3>1. \A q \in Store!Ranks : got[q] <= IF rpc[q] \in {"push", "reduce"} THEN steps[q] - 1 ELSE steps[q]
      BY DEF StoreInv, Level
    <3>2. \A q \in Store!Ranks : got[q] \in Nat /\ steps[q] \in Nat
      BY <1>1, RankAt DEF StoreInv
    <3> QED
      BY <1>2, <1>8, <3>1, <3>2
  <2> QED
    BY <1>11, <2>1 DEF StoreInv, Level
<1>13. Means'
  <2>1. ~failed => Whole(mean) /\ OfRound(mean, steps[r])
    BY <1>1, <1>2, <1>10 DEF StoreInv, Means, Level, Round
  <2>2. rpc'[0] = "apply" => Whole(given'[0]) /\ OfRound(given'[0], steps'[0])
    BY <1>1, <1>2, <2>1, DepartsMean
  <2>3. rpc'[0] = "apply" => Whole(given[0])' /\ OfRound(given[0], steps[0])'
    BY <2>2 DEF Whole, OfRound
  <2>4. mean' # {} => Whole(mean)' /\ OfRound(mean, Round(0))'
    BY <1>1, <1>2, <1>11 DEF StoreInv, Means, Whole, OfRound
  <2> QED
    BY <2>3, <2>4 DEF Means
<1>14. Weighed'
  BY <1>1, <1>2, <1>4, DepartsWeights
<1>15. Told'
  <2>1. PICK K : K = steps[r]
    OBVIOUS
  <2>2. Round(0)' = K
    BY <1>1, <1>2, <1>11, <2>1, ReadKnows
  <2> QED
    BY <1>1, <1>2, <2>1, <2>2, ReadKnows, DepartsTold
<1> QED
  BY <1>4, <1>5, <1>6, <1>7, <1>9, <1>12, <1>13, <1>14, <1>15 DEF StoreInv

\* The mean of a full store has one list of each rank, of its present step.
Lists == [s \in Store!Ranks |-> CHOOSE g \in buffers[s] : TRUE]
Mean == {Lists[s] : s \in Store!Ranks}

LEMMA FullStore ==
  ASSUME Store!StoreAssumption, StoreInv, ~Store!Published,
         \A s \in Store!Ranks : buffers[s] # {}
  PROVE  /\ Gone = {} /\ left = 0 /\ mean = {} /\ failed = FALSE
         /\ \A s \in Store!Ranks :
              rpc[s] = "reduce" /\ Lists[s] = local[s] /\ local[s] \in Store!GradientLists
         /\ Mean \in SUBSET Store!GradientLists /\ Mean # {}
         /\ Whole(Mean)
         /\ \A s \in Store!Ranks : OfRound(Mean, steps[s])
         /\ \A q, s \in Store!Ranks : steps[q] = steps[s]
<1>1. 0 \in Store!Ranks
  BY RanksCounted
<1>2. mean = {} /\ failed = FALSE
  BY DEF StoreInv, Slots, Store!Published
<1>3. left = 0 /\ Gone = {}
  <2>1. left = 0 /\ \A s \in Gone : buffers[s] = {}
    BY DEF StoreInv, Slots
  <2> QED
    BY <2>1 DEF Gone
<1>4. \A s \in Store!Ranks :
        /\ rpc[s] = "reduce" /\ buffers[s] = {local[s]} /\ local[s] \in Store!GradientLists
        /\ local[s].by = s /\ local[s].step = steps[s]
  BY <1>3 DEF Gone, StoreInv, Pushed
<1>5. \A s \in Store!Ranks : Lists[s] = local[s]
  BY <1>4 DEF Lists
<1>6. Mean = {local[s] : s \in Store!Ranks}
  BY <1>5 DEF Mean
<1>7. Mean \in SUBSET Store!GradientLists /\ Mean # {}
  BY <1>1, <1>4, <1>6
<1>8. \A q, s \in Store!Ranks : steps[q] = steps[s]
  <2>1. \A q, s \in Store!Ranks : steps[q] - 1 = steps[s] - 1
    BY <1>4 DEF StoreInv, Level, Round
  <2>2. \A q \in Store!Ranks : steps[q] \in Nat
    BY RankAt DEF StoreInv, Store!StoreAssumption
  <2> QED
    BY <2>1, <2>2
<1>9. \A s \in Store!Ranks : OfRound(Mean, steps[s])
  BY <1>4, <1>6, <1>8 DEF OfRound
<1>10. Whole(Mean)
  <2>1. {g.by : g \in Mean} = Store!Ranks
    BY <1>4, <1>6
  <2>2. Cardinality(Mean) = WorldSize
    <3> DEFINE f == [s \in Store!Ranks |-> local[s]]
    <3>1. f \in [Store!Ranks -> Mean]
      BY <1>6
    <3>2. \A s, q \in Store!Ranks : f[s] = f[q] => s = q
      BY <1>4
    <3>6. IsInjective(f)
      BY <3>2 DEF IsInjective
    <3>3. \A g \in Mean : \E s \in Store!Ranks : f[s] = g
      BY <1>6
    <3>4. f \in Bijection(Store!Ranks, Mean)
      BY <3>1, <3>3, <3>6 DEF Bijection, Injection, Surjection
    <3>5. ExistsBijection(Store!Ranks, Mean)
      BY <3>4 DEF ExistsBijection
    <3> QED
      BY <3>5, RanksCounted, FS_Bijection
  <2> QED
    BY <2>1, <2>2 DEF Whole
<1> QED
  BY <1>2, <1>3, <1>4, <1>5, <1>7, <1>8, <1>9, <1>10

Unfit == ~Store!Averages(Lists)

\* The rank that finds the store full decides the round.
LEMMA AverageInv ==
  ASSUME Store!StoreAssumption, StoreInv, NEW r \in Store!Ranks, Store!Average(r)
  PROVE  /\ StoreInv' /\ Store!Published' /\ Gone' = {r}
         /\ mean' = IF Unfit THEN {} ELSE Mean
         /\ given'[r] = mean' /\ \A q \in Store!Ranks \ {r} : given'[q] = given[q]
<1> DEFINE M == IF Unfit THEN {} ELSE Mean
<1>1. WorldSize \in Nat \ {0, 1} /\ MaxSteps \in Nat /\ 0 \in Store!Ranks /\ Unfit \in BOOLEAN
  BY RanksCounted DEF Store!StoreAssumption, Unfit
<1>2. /\ rpc[r] = "reduce" /\ r \notin sleeping /\ ~Store!Published
      /\ \A s \in Store!Ranks : buffers[s] # {}
      /\ Store!DepartWith(r, M, Unfit, TRUE) /\ UNCHANGED <<weights, steps, local>>
  BY DEF Store!Average, Unfit, Lists, Mean
<1>3. /\ Gone = {} /\ left = 0 /\ mean = {} /\ failed = FALSE
      /\ \A s \in Store!Ranks : rpc[s] = "reduce"
      /\ Mean \in SUBSET Store!GradientLists /\ Mean # {} /\ Whole(Mean)
      /\ \A s \in Store!Ranks : OfRound(Mean, steps[s])
      /\ \A q, s \in Store!Ranks : steps[q] = steps[s]
  BY <1>2, FullStore
<1>4. M \in SUBSET Store!GradientLists /\ (M # {} <=> ~Unfit) /\ (~Unfit => M = Mean)
  BY <1>3
<1> HIDE DEF M
<1>5. ~(left + 1 >= WorldSize)
  BY <1>1, <1>3
<1>6. /\ buffers' = buffers /\ mean' = M /\ failed' = Unfit /\ left' = left + 1
      /\ sleeping' = {} /\ Departs(r, M, Unfit)
  BY <1>2, <1>5, DepartWithDeparts DEF Store!DepartWith
<1>7. left' = 1 /\ buffers \in [Store!Ranks -> SUBSET Store!GradientLists]
  BY <1>3, <1>6 DEF StoreInv, StoreTypes
<1>8. StoreTypes'
  BY <1>1, <1>2, <1>4, <1>6, <1>7, DepartsTypes
<1>9. Gone' = {r}
  <2>1. Gone' = Gone \cup {r}
    BY <1>1, <1>6, DepartsAt DEF StoreInv
  <2> QED
    BY <1>3, <2>1
<1>10. Store!Published'
  <2>1. Unfit \/ M # {}
    BY <1>4
  <2> QED
    BY <1>6, <2>1 DEF Store!Published
<1>11. Slots'
  <2>1. left' = Cardinality(Gone') /\ left' < WorldSize
    BY <1>1, <1>7, <1>9, FS_Singleton
  <2>2. failed' \in BOOLEAN
    BY <1>1, <1>6
  <2>3. failed' => mean' = {}
    BY <1>4, <1>6
  <2>4. \A q \in Store!Ranks : buffers'[q] # {}
    BY <1>2, <1>6
  <2> QED
    BY <1>10, <2>1, <2>2, <2>3, <2>4 DEF Slots
<1>12. /\ rpc'[r] = IF r = 0 /\ ~Unfit THEN "apply" ELSE "out"
       /\ got'[r] = IF Unfit THEN got[r] ELSE got[r] + 1
       /\ given'[r] = IF Unfit THEN {} ELSE M
       /\ \A q \in Store!Ranks \ {r} : rpc'[q] = rpc[q] /\ got'[q] = got[q] /\ given'[q] = given[q]
       /\ steps' = steps /\ local' = local
  <2>1. StoreTypes /\ Departs(r, M, Unfit)
    BY <1>6 DEF StoreInv
  <2>2. steps' = steps /\ local' = local
    BY <2>1 DEF Departs
  <2> QED
    BY <1>1, <2>1, <2>2, DepartsAt
<1>13. \A q \in Store!Ranks : Pushed(q)'
  BY <1>3, <1>6, <1>12 DEF StoreInv, Pushed
<1>14. \A q \in Store!Ranks : Round(q)' = steps[q]
  BY <1>3, <1>10, <1>12 DEF Round
<1>15. \A q \in Store!Ranks : Owed(q)' = (IF Unfit THEN got[q] ELSE got[q] + 1) /\ Owed(q) = got[q]
  BY <1>3, <1>4, <1>6, <1>12 DEF Owed
<1>16. Level'
  <2>1. \A q \in Store!Ranks :
          got'[q] <= IF rpc'[q] \in {"push", "reduce"} THEN steps'[q] - 1 ELSE steps'[q]
    <3>1. \A q \in Store!Ranks : got[q] <= steps[q] - 1
      BY <1>3 DEF StoreInv, Level
    <3>2. \A q \in Store!Ranks : got[q] \in Nat /\ steps[q] \in Nat
      BY <1>1, RankAt DEF StoreInv
    <3> QED
      BY <1>3, <1>12, <3>1, <3>2
  <2>2. \A q, s \in Store!Ranks : got[q] = got[s]
    BY <1>15 DEF StoreInv, Level
  <2> QED
    BY <1>3, <1>14, <1>15, <2>1, <2>2 DEF Level
<1>17. Means'
  <2>1. ~Unfit => Whole(M) /\ OfRound(M, steps[r]) /\ OfRound(M, steps[0])
    BY <1>1, <1>3, <1>4
  <2>2. rpc'[0] = "apply" => Whole(given'[0]) /\ OfRound(given'[0], steps'[0])
    BY <1>1, <1>6, <2>1, DepartsMean
  <2>3. rpc'[0] = "apply" => Whole(given[0])' /\ OfRound(given[0], steps[0])'
    BY <2>2 DEF Whole, OfRound
  <2>4. mean' # {} => Whole(mean)' /\ OfRound(mean, Round(0))'
    BY <1>1, <1>4, <1>6, <1>14, <2>1 DEF Whole, OfRound
  <2> QED
    BY <2>3, <2>4 DEF Means
<1>18. Weighed'
  BY <1>1, <1>6, <1>8, DepartsWeights
<1>19. mean' = (IF Unfit THEN {} ELSE Mean) /\ given'[r] = mean'
  BY <1>4, <1>6, <1>12
<1>20. Told'
  <2>1. PICK K : K = steps[r]
    OBVIOUS
  <2>2. /\ K \in Int /\ Behind = K - 1
        /\ \A q \in Store!Ranks : BehindOf(q) = K - 1
    <3>1. K \in Int
      BY <1>1, <2>1, RankAt DEF StoreInv
    <3>2. Behind = BehindOf(0) /\ \A q \in Store!Ranks : BehindOf(q) = steps[q] - 1
      BY <1>2, <1>3, RoundOrder DEF StoreInv
    <3> QED
      BY <1>1, <1>3, <2>1, <3>1, <3>2
  <2>3. rpc[0] # "apply" /\ Round(0)' = K /\ failed' = Unfit
    BY <1>1, <1>3, <1>6, <1>14, <2>1
  <2>4. /\ Behind \in {K - 1, K} /\ BehindOf(r) = K - 1 /\ Behind # K
        /\ \A q \in Store!Ranks : BehindOf(q) \in Int /\ BehindOf(q) <= K /\ K \notin 1..BehindOf(q)
    BY <2>2
  <2> QED
    BY <1>1, <1>6, <2>1, <2>3, <2>4, DepartsTold
<1> QED
  BY <1>8, <1>9, <1>10, <1>11, <1>12, <1>13, <1>16, <1>17, <1>18, <1>19, <1>20 DEF StoreInv

-----------------------------------------------------------------------------
(* SharedGradientStore: the invariant *)

LEMMA StoreInitial == ASSUME Store!StoreAssumption, Store!Init PROVE StoreInv
<1>1. 0 \in Store!Ranks /\ MaxSteps \in Nat
  BY RanksCounted DEF Store!StoreAssumption
<1>2. /\ buffers = [r \in Store!Ranks |-> {}] /\ mean = {} /\ left = 0 /\ weights = <<>>
      /\ rpc = [r \in Store!Ranks |-> "out"] /\ sleeping = {} /\ steps = [r \in Store!Ranks |-> 0]
      /\ local = [r \in Store!Ranks |-> [by |-> r, step |-> 0, size |-> 0, odd |-> 0]]
      /\ given = [r \in Store!Ranks |-> {}] /\ got = [r \in Store!Ranks |-> 0]
      /\ errors = [r \in Store!Ranks |-> {}]
  BY DEF Store!Init
<1>3. failed = FALSE
  BY Zenon DEF Store!Init
<1>4. StoreTypes
  <2>1. local \in [Store!Ranks -> LocalLists]
    BY <1>1, <1>2 DEF LocalLists, Store!StoreAssumption
  <2> QED
    BY <1>1, <1>2, <2>1 DEF StoreTypes
<1>5. \A r \in Store!Ranks : Pushed(r)
  BY <1>2 DEF Pushed
<1>6. ~Store!Published
  BY <1>2, <1>3 DEF Store!Published
<1>7. Slots
  <2>1. failed \in BOOLEAN /\ ~failed
    BY <1>3
  <2>2. \A r \in Gone : buffers[r] = {}
    BY <1>2 DEF Gone
  <2> QED
    BY <1>2, <1>6, <2>1, <2>2 DEF Slots
<1>8. Level
  BY <1>2, <1>6 DEF Level, Round, Owed
<1>9. Means /\ Weighed
  BY <1>1, <1>2 DEF Means, Weighed
<1>10. Told
  <2>1. (\A r \in Store!Ranks : BehindOf(r) = 0 /\ errors[r] = {}) /\ Behind = 0
    BY <1>1, <1>2 DEF Behind, BehindOf
  <2>2. ~failed /\ rpc[0] # "apply"
    BY <1>1, <1>2, <1>3
  <2> QED
    BY <1>6, <2>1, <2>2 DEF Told
<1> QED
  BY <1>4, <1>5, <1>7, <1>8, <1>9, <1>10 DEF StoreInv

LEMMA PushCases ==
  ASSUME Store!StoreAssumption, StoreInv, NEW r \in Store!Ranks, Store!Push(r)
  PROVE  /\ StoreInv'
         /\ \/ UNCHANGED <<mean, failed, rpc, local, given>>
            \/ /\ ~Store!Published /\ ~Store!Published' /\ rpc[r] = "push"
               /\ rpc' = [rpc EXCEPT ![r] = "reduce"] /\ UNCHANGED <<mean, given>>
               /\ \E g \in Store!GradientLists : local' = [local EXCEPT ![r] = g]
<1>1. CASE buffers[r] # {}
  <2>1. /\ sleeping' = sleeping \cup {r} /\ rpc[r] = "push"
        /\ UNCHANGED <<buffers, mean, failed, left, weights, rpc, steps, local, given, got, errors>>
    BY <1>1 DEF Store!Push
  <2> QED
    BY <2>1, SleepInv DEF StoreInv, StoreTypes
<1>2. CASE buffers[r] = {}
  <2>1. /\ rpc[r] = "push" /\ sleeping' = {} /\ rpc' = [rpc EXCEPT ![r] = "reduce"]
        /\ UNCHANGED <<mean, failed, left, weights, steps, given, got, errors>>
        /\ Store!Fill(r)
    BY <1>2 DEF Store!Push
  <2>2. PICK n \in Sizes, o \in Odds :
          LET f == [by |-> r, step |-> steps[r], size |-> n, odd |-> o]
          IN  local' = [local EXCEPT ![r] = f] /\ buffers' = [buffers EXCEPT ![r] = {f}]
    BY <2>1 DEF Store!Fill
  <2> DEFINE g == [by |-> r, step |-> steps[r], size |-> n, odd |-> o]
  <2>3. local' = [local EXCEPT ![r] = g] /\ buffers' = [buffers EXCEPT ![r] = {g}]
    BY <2>2
  <2>4. StoreInv' /\ ~Store!Published /\ ~Store!Published' /\ g \in Store!GradientLists
    BY <1>2, <2>1, <2>3, FillInv
  <2> QED
    BY <2>1, <2>3, <2>4
<1> QED
  BY <1>1, <1>2

LEMMA StoreStep ==
  ASSUME Store!StoreAssumption, StoreInv, [Store!Next]_storeVars
  PROVE  StoreInv'
<1>1. CASE UNCHANGED storeVars
  BY <1>1, SleepInv DEF storeVars, StoreInv, StoreTypes
<1>2. ASSUME NEW r \in Store!Ranks, Store!SpuriousWakeup(r) \/ Store!Wait(r) PROVE StoreInv'
  <2>1. sleeping' \subseteq {q \in Store!Ranks : rpc[q] \in {"push", "reduce"}}
    BY <1>2 DEF Store!SpuriousWakeup, Store!Wait, StoreInv, StoreTypes
  <2> QED
    BY <1>2, <2>1, SleepInv DEF Store!SpuriousWakeup, Store!Wait, Store!roundState
<1>3. ASSUME NEW r \in Store!Ranks, Store!Begin(r) \/ Store!Push(r) PROVE StoreInv'
  BY <1>3, BeginInv, PushCases
<1>4. ASSUME NEW r \in Store!Ranks, Store!ReadBack(r) \/ Store!Average(r) PROVE StoreInv'
  BY <1>4, ReadLastInv, ReadOtherInv, AverageInv
<1>5. ASSUME Store!Apply PROVE StoreInv'
  BY <1>5, ApplyInv
<1> QED
  BY <1>1, <1>2, <1>3, <1>4, <1>5 DEF Store!Next, Store!Step

LEMMA StoreImplies ==
  ASSUME Store!StoreAssumption, StoreInv
  PROVE  Store!TypeOK /\ Store!LockStep /\ Store!AppliedOnce /\ Store!Reported
<1>1. WorldSize \in Nat \ {0, 1} /\ MaxSteps \in Nat /\ 0 \in Store!Ranks
  BY RanksCounted DEF Store!StoreAssumption
<1>2. \A r \in Store!Ranks : steps[r] \in Nat /\ got[r] \in Nat
  BY <1>1, RankAt DEF StoreInv
<1>3. Store!TypeOK
  <2>1. left \in 0..WorldSize - 1
    <3>1. left \in Nat /\ (Store!Published => left < WorldSize) /\ (~Store!Published => left = 0)
      BY DEF StoreInv, StoreTypes, Slots
    <3> QED
      BY <1>1, <3>1
  <2>2. failed \in BOOLEAN
    BY DEF StoreInv, Slots
  <2>3. \A r \in Store!Ranks : buffers[r] = {} \/ \E g \in Store!GradientLists : buffers[r] = {g}
    BY DEF StoreInv, Pushed
  <2>4. weights \in Seq(Store!Updates)
    BY DEF StoreInv, Weighed
  <2> QED
    BY <2>1, <2>2, <2>3, <2>4 DEF StoreInv, StoreTypes, Store!TypeOK
<1>4. Store!LockStep
  <2> SUFFICES ASSUME NEW r \in Store!Ranks
               PROVE  /\ Len(weights) \in got[r] - 1..got[r] + 1
                      /\ \A q \in Store!Ranks : steps[q] - steps[r] \in -1..1
    BY DEF Store!LockStep
  <2>1. Len(weights) \in got[r] - 1..got[r] + 1
    <3>1. Owed(0) = Owed(r) /\ Len(weights) = IF rpc[0] = "apply" THEN got[0] - 1 ELSE got[0]
      BY <1>1 DEF StoreInv, Level, Weighed
    <3> QED
      BY <1>1, <1>2, <3>1 DEF Owed
  <2>2. ASSUME NEW q \in Store!Ranks PROVE steps[q] - steps[r] \in -1..1
    <3>1. Round(q) = Round(r)
      BY DEF StoreInv, Level
    <3> QED
      BY <1>2, <3>1 DEF Round
  <2> QED
    BY <2>1, <2>2
<1>5. Store!AppliedOnce
  <2>1. /\ DOMAIN weights = 1..Len(weights) /\ Len(weights) \in Nat
        /\ \A m \in 1..Len(weights) : Whole(weights[m].mean)
    BY DEF StoreInv, Weighed
  <2>2. \A m, n \in 1..Len(weights) : m < n => weights[m].mean \cap weights[n].mean = {}
    <3> SUFFICES ASSUME NEW m \in 1..Len(weights), NEW n \in 1..Len(weights), m < n,
                        NEW g \in weights[m].mean, g \in weights[n].mean
                 PROVE  FALSE
      OBVIOUS
    <3>1. g.step \in Int
      BY UpdateAt DEF StoreInv
    <3>2. g.step < g.step
      BY DEF StoreInv, Weighed
    <3> QED
      BY <3>1, <3>2
  <2>3. \A m, n \in 1..Len(weights) : m # n => weights[m].mean \cap weights[n].mean = {}
    <3> SUFFICES ASSUME NEW m \in 1..Len(weights), NEW n \in 1..Len(weights), m # n
                 PROVE  weights[m].mean \cap weights[n].mean = {}
      OBVIOUS
    <3>1. m < n \/ n < m
      BY <2>1
    <3> QED
      BY <2>2, <3>1
  <2> QED
    BY <2>1, <2>3, StoreSets DEF Store!AppliedOnce, Whole
<1>6. Store!Reported
  <2> SUFFICES ASSUME NEW r \in Store!Ranks, NEW k \in Store!Settled(r) \cap Store!Settled(0)
               PROVE  k \notin errors[r] <=>
                        \E m \in DOMAIN weights :
                          /\ \A g \in weights[m].mean : g.step = k
                          /\ r = 0 => weights[m].landed = Store!Lead(weights[m].mean).size
    BY DEF Store!Reported
  <2>1. /\ k \in 1..BehindOf(r) /\ k \in 1..Behind /\ Behind \in Int
        /\ DOMAIN weights = 1..Len(weights)
    BY <1>1, <1>2 DEF Store!Settled, BehindOf, Behind, StoreInv, Weighed
  <2>2. CASE r = 0
    BY <2>1, <2>2 DEF StoreInv, Told, LandedWhole, OfRound
  <2>3. CASE r # 0
    <3>1. k \notin errors[r] <=> Written(k)
      BY <2>1, <2>3 DEF StoreInv, Told, Good
    <3> QED
      BY <2>1, <2>3, <3>1 DEF Written, OfRound
  <2> QED
    BY <2>2, <2>3
<1> QED
  BY <1>3, <1>4, <1>5, <1>6

-----------------------------------------------------------------------------
(* SharedGradientStore implements AllReduce *)

LEMMA StoreStutters ==
  ASSUME UNCHANGED <<mean, failed, rpc, local, given>>
  PROVE  UNCHANGED Store!Reduce!reduceVars
<1>1. (Store!Published' <=> Store!Published)
      /\ \A r \in Store!Ranks : Store!InRound(r)' <=> Store!InRound(r)
  BY DEF Store!Published, Store!InRound
<1>2. Store!Stage' = Store!Stage
  BY <1>1 DEF Store!Stage
<1>3. Store!Answer' = Store!Answer
  BY <1>1 DEF Store!Answer
<1> QED
  BY <1>2, <1>3 DEF Store!Reduce!reduceVars

\* A rank that is not in a round moves on.
LEMMA OutsideStutters ==
  ASSUME StoreTypes, NEW r \in Store!Ranks, NEW l \in {"out", "push", "apply"},
         rpc[r] # "reduce", rpc' = [rpc EXCEPT ![r] = l],
         UNCHANGED <<mean, failed, local, given>>
  PROVE  UNCHANGED Store!Reduce!reduceVars
<1>1. (Store!Published' <=> Store!Published)
      /\ \A q \in Store!Ranks : Store!InRound(q)' <=> Store!InRound(q)
  BY DEF Store!Published, Store!InRound, StoreTypes
<1>2. Store!Stage' = Store!Stage
  BY <1>1 DEF Store!Stage
<1>3. Store!Answer' = Store!Answer
  BY <1>1 DEF Store!Answer
<1> QED
  BY <1>2, <1>3 DEF Store!Reduce!reduceVars

LEMMA PushReduces ==
  ASSUME Store!StoreAssumption, StoreInv, NEW r \in Store!Ranks, Store!Push(r)
  PROVE  Store!Reduce!Give(r) \/ UNCHANGED Store!Reduce!reduceVars
<1>1. CASE UNCHANGED <<mean, failed, rpc, local, given>>
  BY <1>1, StoreStutters
<1>2. CASE /\ ~Store!Published /\ ~Store!Published' /\ rpc[r] = "push"
           /\ rpc' = [rpc EXCEPT ![r] = "reduce"] /\ UNCHANGED <<mean, given>>
           /\ \E g \in Store!GradientLists : local' = [local EXCEPT ![r] = g]
  <2>1. /\ rpc'[r] = "reduce" /\ \A q \in Store!Ranks \ {r} : rpc'[q] = rpc[q]
        /\ local'[r] \in Store!GradientLists
        /\ \A q \in Store!Ranks \ {r} : local'[q] = local[q]
    BY <1>2 DEF StoreInv, StoreTypes
  <2>2. /\ Store!InRound(r)' /\ ~Store!InRound(r)
        /\ \A q \in Store!Ranks \ {r} : Store!InRound(q)' <=> Store!InRound(q)
    BY <1>2, <2>1 DEF Store!InRound
  <2>3. Store!Stage[r] = "out" /\ Store!Stage' = [Store!Stage EXCEPT ![r] = "in"]
    BY <1>2, <2>2 DEF Store!Stage
  <2>4. Store!Answer' = Store!Answer
    BY <1>2 DEF Store!Answer
  <2> QED
    BY <2>1, <2>3, <2>4 DEF Store!Reduce!Give
<1> QED
  BY <1>1, <1>2, PushCases

LEMMA ReadBackReduces ==
  ASSUME Store!StoreAssumption, StoreInv, NEW r \in Store!Ranks, Store!ReadBack(r)
  PROVE  Store!Reduce!Leave(r)
<1>1. /\ rpc[r] = "reduce" /\ Store!Published /\ Departs(r, mean, failed)
  BY DepartWithDeparts DEF Store!ReadBack
<1>2. StoreTypes /\ failed \in BOOLEAN /\ (failed => mean = {})
  BY DEF StoreInv, Slots
<1>3. /\ rpc'[r] # "reduce" /\ given'[r] = (IF failed THEN {} ELSE mean)
      /\ \A q \in Store!Ranks \ {r} : rpc'[q] = rpc[q] /\ given'[q] = given[q]
  BY <1>1, <1>2, DepartsAt
<1>4. given'[r] = mean /\ local' = local
  BY <1>1, <1>2, <1>3 DEF Departs
<1>5. \/ ~Store!Published' /\ Gone' = Store!Ranks
      \/ Store!Published' /\ mean' = mean
  <2>1. CASE left + 1 >= WorldSize
    BY <2>1, ReadLastInv
  <2>2. CASE ~(left + 1 >= WorldSize)
    BY <2>2, ReadOtherInv DEF Store!ReadBack, Store!DepartWith
  <2> QED
    BY <2>1, <2>2
<1>6. \A q \in Store!Ranks \ {r} : /\ Store!InRound(q)' <=> Store!InRound(q)
                                   /\ Store!InRound(q)' => Store!Published' /\ mean' = mean
  BY <1>3, <1>5 DEF Store!InRound, Gone
<1>7. Store!InRound(r) /\ ~Store!InRound(r)'
  BY <1>1, <1>3 DEF Store!InRound
<1>8. Store!Stage[r] = "ready" /\ Store!Stage' = [Store!Stage EXCEPT ![r] = "out"]
  BY <1>1, <1>6, <1>7 DEF Store!Stage
<1>9. Store!Answer' = Store!Answer
  BY <1>1, <1>3, <1>4, <1>6, <1>7 DEF Store!Answer
<1> QED
  BY <1>4, <1>8, <1>9 DEF Store!Reduce!Leave

LEMMA AverageReduces ==
  ASSUME Store!StoreAssumption, StoreInv, NEW r \in Store!Ranks, Store!Average(r)
  PROVE  Store!Reduce!Exchange
<1>1. ~Store!Published /\ local' = local /\ \A s \in Store!Ranks : buffers[s] # {}
  BY DEF Store!Average
<1>2. /\ Store!Published' /\ Gone' = {r}
      /\ mean' = IF Unfit THEN {} ELSE Mean
      /\ given'[r] = mean' /\ \A q \in Store!Ranks \ {r} : given'[q] = given[q]
  BY AverageInv
<1>3. \A s \in Store!Ranks :
        rpc[s] = "reduce" /\ Lists[s] = local[s] /\ local[s] \in Store!GradientLists
  BY <1>1, FullStore
<1>4. \A q \in Store!Ranks : Store!InRound(q)' <=> q # r
  BY <1>2 DEF Gone, Store!InRound
<1>5. \A q \in Store!Ranks : Store!Stage[q] # "ready"
  BY <1>1 DEF Store!Stage
<1>6. Store!Stage' \in [Store!Ranks -> {"out", "ready"}]
  BY <1>2 DEF Store!Stage
<1>7. Store!Reduce!Mean(local') = mean'
  <2>1. Store!Averages(Lists) <=> Store!Averages(local)
    <3>1. 0 \in Store!Ranks
      BY RanksCounted
    <3> QED
      BY <1>3, <3>1 DEF Store!Averages
  <2>2. Mean = {local[s] : s \in Store!Ranks}
    BY <1>3 DEF Mean
  <2> QED
    BY <1>1, <1>2, <2>1, <2>2 DEF Store!Reduce!Mean, Unfit
<1>8. Store!Answer' = [q \in Store!Ranks |-> Store!Reduce!Mean(local')]
  BY <1>2, <1>4, <1>7 DEF Store!Answer
<1> QED
  BY <1>1, <1>3, <1>5, <1>6, <1>8 DEF Store!Reduce!Exchange

LEMMA StoreReduces ==
  ASSUME Store!StoreAssumption, StoreInv, [Store!Next]_storeVars
  PROVE  [Store!Reduce!ReduceNext]_(Store!Reduce!reduceVars)
<1>1. CASE UNCHANGED storeVars
  BY <1>1, StoreStutters DEF storeVars
<1>2. ASSUME NEW r \in Store!Ranks, Store!SpuriousWakeup(r) \/ Store!Wait(r)
      PROVE  UNCHANGED Store!Reduce!reduceVars
  BY <1>2, StoreStutters DEF Store!SpuriousWakeup, Store!Wait, Store!roundState
<1>3. ASSUME NEW r \in Store!Ranks, Store!Begin(r) PROVE UNCHANGED Store!Reduce!reduceVars
  <2>1. rpc[r] # "reduce" /\ rpc' = [rpc EXCEPT ![r] = "push"]
        /\ UNCHANGED <<mean, failed, local, given>>
    BY <1>3 DEF Store!Begin, Store!roundState
  <2> QED
    BY <2>1, OutsideStutters DEF StoreInv
<1>4. ASSUME Store!Apply PROVE UNCHANGED Store!Reduce!reduceVars
  <2>1. rpc[0] # "reduce" /\ rpc' = [rpc EXCEPT ![0] = "out"]
        /\ UNCHANGED <<mean, failed, local, given>>
    BY <1>4 DEF Store!Apply, Store!roundState
  <2>2. 0 \in Store!Ranks
    BY RanksCounted
  <2> QED
    BY <2>1, <2>2, OutsideStutters DEF StoreInv
<1> QED
  BY <1>1, <1>2, <1>3, <1>4, PushReduces, ReadBackReduces, AverageReduces
     DEF Store!Next, Store!Step, Store!Reduce!ReduceNext

LEMMA StoreReduceInit ==
  ASSUME Store!Init PROVE Store!Reduce!ReduceInit
BY DEF Store!Init, Store!Reduce!ReduceInit, Store!Stage, Store!Answer, Store!InRound

-----------------------------------------------------------------------------
(* The theorems *)

\* The exchanges take their own steps or stutter.
LEMMA ExchangeSteps ==
  ASSUME [AllNext]_allVars
  PROVE  [Barrier!Next]_barrierVars /\ [Store!Next]_storeVars
BY DEF AllNext, allVars, predictorVars, barrierVars, storeVars, socketVars, vars

LEMMA BarrierAlways == AllFair => []Barrier!BarrierInv
<1>1. AllInit => Barrier!BarrierInv
  BY BarrierInitial, DistributedAssumption DEF AllInit
<1>2. Barrier!BarrierInv /\ [AllNext]_allVars => Barrier!BarrierInv'
  BY BarrierStep, ExchangeSteps, DistributedAssumption
<1> QED
  BY <1>1, <1>2, PTL DEF AllFair

LEMMA StoreAlways == AllFair => []StoreInv
<1>1. AllInit => StoreInv
  BY StoreInitial, DistributedAssumption DEF AllInit
<1>2. StoreInv /\ [AllNext]_allVars => StoreInv'
  BY StoreStep, ExchangeSteps, DistributedAssumption
<1> QED
  BY <1>1, <1>2, PTL DEF AllFair

\* ThreadedGradientSync alone: for any number of workers, a round never drains before all have
\* deposited and never fills before all have read.
THEOREM BarrierCorrect == Barrier!Spec => []Barrier!BarrierInv
<1>1. Barrier!Init => Barrier!BarrierInv
  BY BarrierInitial, DistributedAssumption
<1>2. Barrier!BarrierInv /\ [Barrier!Next]_(Barrier!vars) => Barrier!BarrierInv'
  <2> SUFFICES ASSUME Barrier!BarrierInv, [Barrier!Next]_(Barrier!vars) PROVE Barrier!BarrierInv'
    OBVIOUS
  <2>1. [Barrier!Next]_barrierVars
    BY DEF Barrier!vars, barrierVars
  <2> QED
    BY <2>1, BarrierStep, DistributedAssumption
<1> QED
  BY <1>1, <1>2, PTL DEF Barrier!Spec

\* SharedGradientStore alone: for any number of ranks and steps they run at most one round
\* apart, every mean is taken to the weights once, and what step returns tells each rank what
\* came of its round.
THEOREM StoreCorrect ==
  Store!Spec => [](Store!TypeOK /\ Store!LockStep /\ Store!AppliedOnce /\ Store!Reported)
<1>1. Store!Init => StoreInv
  BY StoreInitial, DistributedAssumption
<1>2. StoreInv /\ [Store!Next]_(Store!vars) => StoreInv'
  <2> SUFFICES ASSUME StoreInv, [Store!Next]_(Store!vars) PROVE StoreInv'
    OBVIOUS
  <2>1. [Store!Next]_storeVars
    BY DEF Store!vars, storeVars
  <2> QED
    BY <2>1, StoreStep, DistributedAssumption
<1>3. StoreInv => Store!TypeOK /\ Store!LockStep /\ Store!AppliedOnce /\ Store!Reported
  BY StoreImplies, DistributedAssumption
<1> QED
  BY <1>1, <1>2, <1>3, PTL DEF Store!Spec

\* Both where the run checks them, beside the parts that share nothing with them.
THEOREM ExchangesCorrect == AllFair => []ExchangeInv
<1>1. Barrier!BarrierInv /\ StoreInv => ExchangeInv
  BY StoreImplies, DistributedAssumption DEF ExchangeInv
<1> QED
  BY <1>1, BarrierAlways, StoreAlways, PTL

\* ThreadedGradientSync implements the all-reduce: the round is exchanged by the deposit that
\* completes it, and everybody leaves it with its mean or with the error.
THEOREM BarrierIsAllReduce == AllFair => ReduceContract
<1>1. AllInit => Barrier!Reduce!ReduceInit
  BY BarrierReduceInit DEF AllInit
<1>2. Barrier!BarrierInv /\ [AllNext]_allVars
        => [Barrier!Reduce!ReduceNext]_(Barrier!Reduce!reduceVars)
  BY BarrierReduces, ExchangeSteps, DistributedAssumption
<1> QED
  BY <1>1, <1>2, BarrierAlways, PTL
     DEF AllFair, ReduceContract, Barrier!ReduceContract, Barrier!Reduce!ReduceSpec

\* SharedGradientStore implements the all-reduce: the round is exchanged by the rank that finds
\* every slot full, and is over when the last has read the mean.
THEOREM StoreIsAllReduce == AllFair => StoreContract
<1>1. AllInit => Store!Reduce!ReduceInit
  BY StoreReduceInit DEF AllInit
<1>2. StoreInv /\ [AllNext]_allVars => [Store!Reduce!ReduceNext]_(Store!Reduce!reduceVars)
  BY StoreReduces, ExchangeSteps, DistributedAssumption
<1> QED
  BY <1>1, <1>2, StoreAlways, PTL
     DEF AllFair, StoreContract, Store!StoreContract, Store!Reduce!ReduceSpec

-----------------------------------------------------------------------------
(* WebSocketStream: the order of the messages, one part of the line at a time *)

InOrder(s) ==
  \A m, n \in 1..Len(s) : m < n /\ s[m] > 0 /\ s[n] > 0 => s[m] < s[n]
Below(S, T) == \A x \in S, y \in T : x < y
Numbers(s) == {s[n] : n \in {m \in 1..Len(s) : s[m] > 0}}
Number(x) == IF x > 0 THEN {x} ELSE {}

LEMMA DataNumbers ==
  ASSUME NEW s \in Seq(Int)
  PROVE  /\ Socket!Data(s) = Numbers(s) /\ Numbers(s) \subseteq Nat \ {0}
         /\ Socket!Data(s) \subseteq Nat \ {0}
<1>1. DOMAIN s = 1..Len(s) /\ \A n \in 1..Len(s) : s[n] \in Int
  BY LenProperties, ElementOfSeq
<1> QED  BY <1>1 DEF Socket!Data, Socket!ToSet, Numbers

LEMMA OfJoin ==
  ASSUME NEW s \in Seq(Int), NEW t \in Seq(Int)
  PROVE  /\ s \o t \in Seq(Int)
         /\ Numbers(s \o t) = Numbers(s) \cup Numbers(t)
         /\ InOrder(s \o t)
              <=> InOrder(s) /\ InOrder(t) /\ Below(Numbers(s), Numbers(t))
<1> DEFINE u == s \o t
<1>1. /\ u \in Seq(Int) /\ Len(u) = Len(s) + Len(t) /\ Len(s) \in Nat /\ Len(t) \in Nat
      /\ \A n \in 1..Len(s) : n \in 1..Len(u) /\ u[n] = s[n]
      /\ \A n \in 1..Len(t) : Len(s) + n \in 1..Len(u) /\ u[Len(s) + n] = t[n]
      /\ \A n \in 1..Len(u) : n \in 1..Len(s) \/ n - Len(s) \in 1..Len(t)
      /\ \A n \in 1..Len(u) : n \notin 1..Len(s) => u[n] = t[n - Len(s)]
  BY ConcatProperties, LenProperties
<1>2. \A n \in 1..Len(s) : s[n] \in Int
  BY ElementOfSeq
<1>3. \A n \in 1..Len(t) : t[n] \in Int
  BY ElementOfSeq
<1> HIDE DEF u
<1>4. Numbers(u) = Numbers(s) \cup Numbers(t)
  <2>1. ASSUME NEW x \in Numbers(u) PROVE x \in Numbers(s) \cup Numbers(t)
    <3>1. PICK n \in 1..Len(u) : u[n] = x /\ x > 0
      BY DEF Numbers
    <3>2. CASE n \in 1..Len(s)
      BY <1>1, <3>1, <3>2 DEF Numbers
    <3>3. CASE n \notin 1..Len(s)
      <4>1. n - Len(s) \in 1..Len(t) /\ t[n - Len(s)] = x
        BY <1>1, <3>1, <3>3
      <4> QED  BY <3>1, <4>1 DEF Numbers
    <3> QED  BY <3>2, <3>3
  <2>2. ASSUME NEW x \in Numbers(s) PROVE x \in Numbers(u)
    BY <1>1 DEF Numbers
  <2>3. ASSUME NEW x \in Numbers(t) PROVE x \in Numbers(u)
    BY <1>1 DEF Numbers
  <2> QED  BY <2>1, <2>2, <2>3
<1>5. ASSUME InOrder(u) PROVE InOrder(s) /\ InOrder(t) /\ Below(Numbers(s), Numbers(t))
  <2>1. InOrder(s)
    <3> SUFFICES ASSUME NEW m \in 1..Len(s), NEW n \in 1..Len(s), m < n, s[m] > 0, s[n] > 0
                 PROVE  s[m] < s[n]
      BY DEF InOrder
    <3> QED  BY <1>1, <1>5 DEF InOrder
  <2>2. InOrder(t)
    <3> SUFFICES ASSUME NEW m \in 1..Len(t), NEW n \in 1..Len(t), m < n, t[m] > 0, t[n] > 0
                 PROVE  t[m] < t[n]
      BY DEF InOrder
    <3>1. /\ Len(s) + m \in 1..Len(u) /\ Len(s) + n \in 1..Len(u) /\ Len(s) + m < Len(s) + n
          /\ u[Len(s) + m] = t[m] /\ u[Len(s) + n] = t[n]
      BY <1>1
    <3> QED  BY <1>5, <3>1 DEF InOrder
  <2>3. Below(Numbers(s), Numbers(t))
    <3> SUFFICES ASSUME NEW m \in 1..Len(s), NEW n \in 1..Len(t), s[m] > 0, t[n] > 0
                 PROVE  s[m] < t[n]
      BY DEF Below, Numbers
    <3>1. /\ m \in 1..Len(u) /\ Len(s) + n \in 1..Len(u) /\ m < Len(s) + n
          /\ u[m] = s[m] /\ u[Len(s) + n] = t[n]
      BY <1>1
    <3> QED  BY <1>5, <3>1 DEF InOrder
  <2> QED  BY <2>1, <2>2, <2>3
<1>6. ASSUME InOrder(s), InOrder(t), Below(Numbers(s), Numbers(t)) PROVE InOrder(u)
  <2> SUFFICES ASSUME NEW m \in 1..Len(u), NEW n \in 1..Len(u), m < n, u[m] > 0, u[n] > 0
               PROVE  u[m] < u[n]
    BY DEF InOrder
  <2>1. CASE n \in 1..Len(s)
    <3>1. m \in 1..Len(s) /\ u[m] = s[m] /\ u[n] = s[n]
      BY <1>1, <2>1, SMTT(60)
    <3> QED  BY <1>6, <2>1, <3>1 DEF InOrder
  <2>2. CASE m \notin 1..Len(s)
    <3>1. /\ m - Len(s) \in 1..Len(t) /\ n - Len(s) \in 1..Len(t) /\ m - Len(s) < n - Len(s)
          /\ u[m] = t[m - Len(s)] /\ u[n] = t[n - Len(s)]
      BY <1>1, <2>2, SMTT(60)
    <3> QED  BY <1>6, <3>1 DEF InOrder
  <2>3. CASE m \in 1..Len(s) /\ n \notin 1..Len(s)
    <3>1. u[m] \in Numbers(s)
      BY <1>1, <2>3 DEF Numbers
    <3>2. n - Len(s) \in 1..Len(t) /\ u[n] = t[n - Len(s)]
      BY <1>1, <2>3
    <3>3. u[n] \in Numbers(t)
      BY <3>2 DEF Numbers
    <3> QED  BY <1>6, <3>1, <3>3 DEF Below
  <2> QED  BY <2>1, <2>2, <2>3
<1> QED  BY <1>1, <1>4, <1>5, <1>6 DEF u

LEMMA OfOne ==
  ASSUME NEW x \in Int
  PROVE  /\ <<x>> \in Seq(Int) /\ InOrder(<<x>>)
         /\ Numbers(<<x>>) = Number(x)
<1>1. <<x>> \in Seq(Int) /\ Len(<<x>>) = 1 /\ <<x>>[1] = x
  OBVIOUS
<1> QED  BY <1>1 DEF InOrder, Numbers, Number

LEMMA OfNone == InOrder(<<>>) /\ Numbers(<<>>) = {}
BY DEF InOrder, Numbers

\* What a message more at the end, one less at the front, and a cut make of a sequence.
LEMMA OfAppend ==
  ASSUME NEW s \in Seq(Int), NEW x \in Int
  PROVE  /\ Append(s, x) \in Seq(Int)
         /\ Numbers(Append(s, x)) = Numbers(s) \cup Number(x)
         /\ InOrder(Append(s, x))
              <=> InOrder(s) /\ Below(Numbers(s), Number(x))
<1>1. Append(s, x) = s \o <<x>>
  BY AppendIsConcat
<1>2. <<x>> \in Seq(Int) /\ InOrder(<<x>>) /\ Numbers(<<x>>) = Number(x)
  BY OfOne
<1>3. /\ s \o <<x>> \in Seq(Int)
      /\ Numbers(s \o <<x>>) = Numbers(s) \cup Numbers(<<x>>)
      /\ InOrder(s \o <<x>>)
           <=> InOrder(s) /\ InOrder(<<x>>) /\ Below(Numbers(s), Numbers(<<x>>))
  BY <1>2, OfJoin
<1> QED  BY <1>1, <1>2, <1>3, Zenon

LEMMA OfTail ==
  ASSUME NEW s \in Seq(Int), s # <<>>
  PROVE  /\ Head(s) \in Int /\ Tail(s) \in Seq(Int)
         /\ Numbers(s) = Number(Head(s)) \cup Numbers(Tail(s))
         /\ InOrder(s) <=> /\ InOrder(Tail(s))
                           /\ Below(Number(Head(s)), Numbers(Tail(s)))
<1>1. Head(s) \in Int /\ Tail(s) \in Seq(Int) /\ Len(s) \in Nat \ {0} /\ Head(s) = s[1]
      /\ Tail(s) = SubSeq(s, 2, Len(s))
  BY HeadTailProperties, TailIsSubSeq, EmptySeq
<1>2. s = <<s[1]>> \o SubSeq(s, 2, Len(s))
  BY <1>1, SubSeqRecursiveFirst, SubSeqFull, 1 \in 1..Len(s), Len(s) \in 1..Len(s)
<1>3. s = <<Head(s)>> \o Tail(s)
  BY <1>1, <1>2
<1> DEFINE h == Head(s)
           r == Tail(s)
<1>4. <<h>> \in Seq(Int) /\ InOrder(<<h>>) /\ Numbers(<<h>>) = Number(h)
  BY <1>1, OfOne
<1>5. /\ Numbers(<<h>> \o r) = Numbers(<<h>>) \cup Numbers(r)
      /\ InOrder(<<h>> \o r)
           <=> InOrder(<<h>>) /\ InOrder(r) /\ Below(Numbers(<<h>>), Numbers(r))
  BY <1>1, <1>4, OfJoin
<1> QED  BY <1>1, <1>3, <1>4, <1>5, Zenon

LEMMA OfCut ==
  ASSUME NEW s \in Seq(Int), NEW n \in 0..Len(s)
  PROVE  LET p == SubSeq(s, 1, n)
             q == SubSeq(s, n + 1, Len(s))
         IN  /\ p \in Seq(Int) /\ q \in Seq(Int)
             /\ Numbers(s) = Numbers(p) \cup Numbers(q)
             /\ InOrder(s) <=> InOrder(p) /\ InOrder(q) /\ Below(Numbers(p), Numbers(q))
<1> DEFINE p == SubSeq(s, 1, n)
           q == SubSeq(s, n + 1, Len(s))
<1>1. Len(s) \in Nat /\ \A i \in 1..Len(s) : s[i] \in Int
  BY LenProperties, ElementOfSeq
<1>2. p \in Seq(Int) /\ q \in Seq(Int)
  BY <1>1, SubSeqProperties
<1>3. p \o q = s
  <2>1. 1 \in 1..Len(s) + 1 /\ n \in (1 - 1)..Len(s) /\ Len(s) \in n..Len(s)
    BY <1>1
  <2>2. SubSeq(s, 1, n) \o SubSeq(s, n + 1, Len(s)) = SubSeq(s, 1, Len(s))
    BY <2>1, ConcatAdjacentSubSeq
  <2> QED  BY <2>2, SubSeqFull
<1>4. /\ Numbers(p \o q) = Numbers(p) \cup Numbers(q)
      /\ InOrder(p \o q) <=> InOrder(p) /\ InOrder(q) /\ Below(Numbers(p), Numbers(q))
  BY <1>2, OfJoin
<1> QED  BY <1>2, <1>3, <1>4, Zenon

\* NothingMislaid, one part of the line at a time.
Line(g, b, w, n, l) ==
  /\ InOrder(g) /\ InOrder(b) /\ InOrder(w)
  /\ Below(Numbers(g), Numbers(b)) /\ Below(Numbers(g), Numbers(w))
  /\ Below(Numbers(b), Numbers(w))
  /\ Numbers(g) \cup Numbers(b) \cup Numbers(w) = 1..n \ l

LEMMA MislaidParts ==
  ASSUME read \in Seq(Int), buffer \in Seq(Int), wire \in Seq(Int)
  PROVE  Socket!NothingMislaid <=> Line(read, buffer, wire, sent, lost)
<1> DEFINE gb == read \o buffer
           line == gb \o wire
<1>1. /\ gb \in Seq(Int)
      /\ Numbers(gb) = Numbers(read) \cup Numbers(buffer)
      /\ InOrder(gb) <=> InOrder(read) /\ InOrder(buffer) /\ Below(Numbers(read), Numbers(buffer))
  BY OfJoin
<1> HIDE DEF gb
<1>2. /\ line \in Seq(Int)
      /\ Numbers(line) = Numbers(gb) \cup Numbers(wire)
      /\ InOrder(line) <=> InOrder(gb) /\ InOrder(wire) /\ Below(Numbers(gb), Numbers(wire))
  BY <1>1, OfJoin
<1>3. Below(Numbers(gb), Numbers(wire))
        <=> Below(Numbers(read), Numbers(wire)) /\ Below(Numbers(buffer), Numbers(wire))
  BY <1>1 DEF Below
<1>4. Socket!Data(line) = Numbers(line)
  BY <1>2, DataNumbers
<1>5. Socket!NothingMislaid <=> InOrder(line) /\ Socket!Data(line) = 1..sent \ lost
  BY DEF Socket!NothingMislaid, InOrder, gb
<1> HIDE DEF line
<1> QED  BY <1>1, <1>2, <1>3, <1>4, <1>5 DEF Line

LEMMA NumbersNat == ASSUME NEW s \in Seq(Int) PROVE Numbers(s) \subseteq Nat \ {0}
BY DataNumbers

LEMMA LineGrows ==
  ASSUME NEW g \in Seq(Int), NEW b \in Seq(Int), NEW w \in Seq(Int), NEW n \in Nat,
         NEW l \in SUBSET (1..n), Line(g, b, w, n, l)
  PROVE  /\ Line(g, b, Append(w, n + 1), n + 1, l)
         /\ \A f \in Int : f <= 0 => Line(g, b, Append(w, f), n, l)
<1> DEFINE G == Numbers(g)
           B == Numbers(b)
           W == Numbers(w)
<1>1. /\ InOrder(g) /\ InOrder(b) /\ InOrder(w)
      /\ Below(G, B) /\ Below(G, W) /\ Below(B, W) /\ G \cup B \cup W = 1..n \ l
  BY DEF Line
<1>2. G \subseteq Nat /\ B \subseteq Nat /\ W \subseteq Nat
  BY NumbersNat
<1> HIDE DEF G, B, W
<1>3. Line(g, b, Append(w, n + 1), n + 1, l)
  <2>1. Number(n + 1) = {n + 1}
    BY DEF Number
  <2>2. Below(G, {n + 1}) /\ Below(B, {n + 1}) /\ Below(W, {n + 1})
    BY <1>1, <1>2 DEF Below
  <2>3. Below(G, W \cup {n + 1}) /\ Below(B, W \cup {n + 1})
    BY <1>1, <2>2 DEF Below
  <2>4. G \cup B \cup (W \cup {n + 1}) = 1..(n + 1) \ l
    BY <1>1, <1>2
  <2>5. Numbers(Append(w, n + 1)) = W \cup {n + 1} /\ InOrder(Append(w, n + 1))
    <3>1. n + 1 \in Int
      OBVIOUS
    <3>2. /\ Numbers(Append(w, n + 1)) = W \cup Number(n + 1)
          /\ InOrder(Append(w, n + 1)) <=> InOrder(w) /\ Below(W, Number(n + 1))
      BY <3>1, OfAppend DEF W
    <3> QED  BY <1>1, <2>1, <2>2, <3>2
  <2> QED  BY <1>1, <2>3, <2>4, <2>5 DEF Line, G, B
<1>4. ASSUME NEW f \in Int, f <= 0 PROVE Line(g, b, Append(w, f), n, l)
  <2>1. Number(f) = {}
    BY <1>4 DEF Number
  <2>2. Numbers(Append(w, f)) = W /\ InOrder(Append(w, f))
    BY <1>1, <2>1, OfAppend, ZenonT(60) DEF W, Below
  <2> QED  BY <1>1, <2>2 DEF Line, G, B
<1> QED  BY <1>3, <1>4

\* A cut in what is on its way, and the loss of all of it.
LEMMA LineBreaks ==
  ASSUME NEW g \in Seq(Int), NEW b \in Seq(Int), NEW w \in Seq(Int), NEW n \in Nat,
         NEW l \in SUBSET (1..n), Line(g, b, w, n, l), NEW k \in 0..Len(w)
  PROVE  LET lose == Numbers(SubSeq(w, k + 1, Len(w)))
         IN  lose \subseteq 1..n /\ Line(g, b, SubSeq(w, 1, k), n, l \cup lose)
<1> DEFINE p == SubSeq(w, 1, k)
           q == SubSeq(w, k + 1, Len(w))
           G == Numbers(g)
           B == Numbers(b)
           P == Numbers(p)
           Q == Numbers(q)
<1>1. /\ InOrder(g) /\ InOrder(b) /\ InOrder(w)
      /\ Below(G, B) /\ Below(G, Numbers(w)) /\ Below(B, Numbers(w))
      /\ G \cup B \cup Numbers(w) = 1..n \ l
  BY SMTT(60) DEF Line
<1>2. /\ p \in Seq(Int) /\ q \in Seq(Int)
      /\ Numbers(w) = P \cup Q /\ InOrder(p) /\ Below(P, Q)
  BY <1>1, OfCut
<1> HIDE DEF p, q
<1>3. G \subseteq Nat /\ B \subseteq Nat /\ P \subseteq Nat /\ Q \subseteq Nat
  BY <1>2, NumbersNat
<1> HIDE DEF G, B, P, Q
<1>4. Below(G, P) /\ Below(B, P)
  BY <1>1, <1>2 DEF Below
<1>5. Q \subseteq 1..n
  BY <1>1, <1>2
<1>6. G \cap Q = {} /\ B \cap Q = {} /\ P \cap Q = {}
  BY <1>1, <1>2, <1>3 DEF Below
<1>7. G \cup B \cup P = 1..n \ (l \cup Q)
  BY <1>1, <1>2, <1>6
<1>8. Line(g, b, p, n, l \cup Q)
  BY <1>1, <1>2, <1>4, <1>7 DEF Line, G, B, P
<1> QED  BY <1>5, <1>8 DEF p, q, Q

LEMMA LineLost ==
  ASSUME NEW g \in Seq(Int), NEW b \in Seq(Int), NEW w \in Seq(Int), NEW n \in Nat,
         NEW l \in SUBSET (1..n), Line(g, b, w, n, l)
  PROVE  Numbers(w) \subseteq 1..n /\ Line(g, b, <<>>, n, l \cup Numbers(w))
<1>1. 0 \in 0..Len(w) /\ SubSeq(w, 1, 0) = <<>>
  BY LenProperties, SubSeqEmpty
<1>2. SubSeq(w, 0 + 1, Len(w)) = w
  BY SubSeqFull
<1>3. /\ Numbers(SubSeq(w, 0 + 1, Len(w))) \subseteq 1..n
      /\ Line(g, b, SubSeq(w, 1, 0), n, l \cup Numbers(SubSeq(w, 0 + 1, Len(w))))
  BY <1>1, LineBreaks
<1> QED  BY <1>1, <1>2, <1>3, Zenon

\* The first message moves on.
LEMMA LineMoves ==
  ASSUME NEW g \in Seq(Int), NEW b \in Seq(Int), NEW w \in Seq(Int), NEW n \in Nat,
         NEW l \in SUBSET (1..n), Line(g, b, w, n, l)
  PROVE  /\ b # <<>> => Line(Append(g, Head(b)), Tail(b), w, n, l)
         /\ w # <<>> /\ b = <<>> => Line(Append(g, Head(w)), b, Tail(w), n, l)
         /\ w # <<>> => Line(g, Append(b, Head(w)), Tail(w), n, l)
         /\ w # <<>> /\ Head(w) <= 0 => Line(g, b, Tail(w), n, l)
<1> DEFINE G == Numbers(g)
           B == Numbers(b)
           W == Numbers(w)
<1>1. /\ InOrder(g) /\ InOrder(b) /\ InOrder(w)
      /\ Below(G, B) /\ Below(G, W) /\ Below(B, W) /\ G \cup B \cup W = 1..n \ l
  BY DEF Line
<1> HIDE DEF G, B, W
<1>2. ASSUME b # <<>> PROVE Line(Append(g, Head(b)), Tail(b), w, n, l)
  <2> DEFINE h == Number(Head(b))
             T == Numbers(Tail(b))
  <2>1. /\ Head(b) \in Int /\ Tail(b) \in Seq(Int) /\ B = h \cup T
        /\ InOrder(Tail(b)) /\ Below(h, T)
    BY <1>1, <1>2, OfTail DEF B
  <2> HIDE DEF h, T
  <2>2. Below(G, h) /\ Below(G \cup h, T) /\ Below(G \cup h, W) /\ Below(T, W)
    BY <1>1, <2>1 DEF Below
  <2>3. Numbers(Append(g, Head(b))) = G \cup h /\ InOrder(Append(g, Head(b)))
    BY <1>1, <2>1, <2>2, OfAppend DEF G, h
  <2>4. (G \cup h) \cup T \cup W = 1..n \ l
    BY <1>1, <2>1
  <2> QED  BY <1>1, <2>1, <2>2, <2>3, <2>4 DEF Line, T, W
<1>3. ASSUME w # <<>> PROVE /\ b = <<>> => Line(Append(g, Head(w)), b, Tail(w), n, l)
                            /\ Line(g, Append(b, Head(w)), Tail(w), n, l)
                            /\ Head(w) <= 0 => Line(g, b, Tail(w), n, l)
  <2> DEFINE h == Number(Head(w))
             T == Numbers(Tail(w))
  <2>1. /\ Head(w) \in Int /\ Tail(w) \in Seq(Int) /\ W = h \cup T
        /\ InOrder(Tail(w)) /\ Below(h, T)
    BY <1>1, <1>3, OfTail DEF W
  <2>2. Head(w) <= 0 => h = {}
    BY <2>1 DEF Number
  <2> HIDE DEF h, T
  <2>3. Below(G, h) /\ Below(B, h) /\ Below(G, T) /\ Below(B, T) /\ Below(G, B \cup h)
        /\ Below(B \cup h, T) /\ Below(G \cup h, T)
    BY <1>1, <2>1 DEF Below
  <2>4. /\ Numbers(Append(g, Head(w))) = G \cup h /\ InOrder(Append(g, Head(w)))
        /\ Numbers(Append(b, Head(w))) = B \cup h /\ InOrder(Append(b, Head(w)))
    BY <1>1, <2>1, <2>3, OfAppend DEF G, B, h
  <2>5. ASSUME b = <<>> PROVE Line(Append(g, Head(w)), b, Tail(w), n, l)
    <3>1. B = {}
      BY <2>5, OfNone DEF B
    <3>2. Below(G \cup h, B) /\ Below(B, T) /\ (G \cup h) \cup B \cup T = 1..n \ l
      BY <1>1, <2>1, <3>1 DEF Below
    <3> QED  BY <1>1, <2>1, <2>3, <2>4, <3>2 DEF Line, B, T
  <2>6. Line(g, Append(b, Head(w)), Tail(w), n, l)
    <3>1. G \cup (B \cup h) \cup T = 1..n \ l
      BY <1>1, <2>1
    <3> QED  BY <1>1, <2>1, <2>3, <2>4, <3>1 DEF Line, G, T
  <2>7. ASSUME Head(w) <= 0 PROVE Line(g, b, Tail(w), n, l)
    <3>1. W = T
      BY <2>1, <2>2, <2>7
    <3> QED  BY <1>1, <2>1, <3>1 DEF Line, G, B, T
  <2> QED  BY <2>5, <2>6, <2>7
<1> QED  BY <1>2, <1>3

\* The inductive invariant: the contract, a buffer that is empty while next waits, and room
\* in it while fill_buffer does.
SocketSmall ==
  /\ reconnect \in BOOLEAN /\ ws \in BOOLEAN
  /\ delay \in Nat /\ goal \in Nat /\ filled \in Nat /\ signals \in 0..SignalCap
  /\ socketPc \in {"idle", "top", "dial", "receive", "pong"} /\ task \in {"next", "fill"}
  /\ sent \in 0..MaxSent /\ faults \in 0..MaxFaults /\ growth \in 1..MaxGrowth + 1
Frames(n) == (1..n) \cup {Socket!Ping, Socket!Other, Socket!CloseFrame, Socket!End}
SocketSeqs ==
  /\ buffer \in Seq(1..sent) /\ Len(buffer) <= BufferSize
  /\ wire \in Seq(Frames(sent)) /\ (ws \/ wire = <<>>)
  /\ read \in Seq(1..sent) /\ lost \subseteq 1..sent
SocketLine == Line(read, buffer, wire, sent, lost)
SocketCalls ==
  /\ task = "next" /\ socketPc # "idle" => buffer = <<>>
  /\ task = "fill" /\ socketPc \in {"dial", "receive", "pong"} => Len(buffer) < BufferSize
SocketSafe ==
  SocketSmall /\ SocketSeqs /\ SocketLine /\ SocketCalls /\ Socket!BackoffExact

LEMMA SocketConstants ==
  ASSUME Socket!SocketAssumption
  PROVE  /\ BufferSize \in Nat /\ BufferSize > 0 /\ SignalCap \in Nat /\ SignalCap > 0
         /\ FillSizes \subseteq Nat /\ Delay \in Nat /\ MaxDelay \in Nat
         /\ MaxSent \in Nat /\ MaxFaults \in Nat /\ MaxGrowth \in Nat
BY DEF Socket!SocketAssumption

LEMMA FramesInt ==
  ASSUME NEW n \in Int
  PROVE  /\ Frames(n) \subseteq Int /\ 1..n \subseteq Frames(n)
         /\ {Socket!Ping, Socket!Other, Socket!CloseFrame, Socket!End} \subseteq Frames(n)
         /\ \A f \in Frames(n) : f > 0 => f \in 1..n
         /\ \A f \in {Socket!Ping, Socket!Other, Socket!CloseFrame, Socket!End} :
              f \in Int /\ f <= 0
BY DEF Frames, Socket!Ping, Socket!Other, Socket!CloseFrame, Socket!End

LEMMA SocketSequences ==
  ASSUME SocketSmall, SocketSeqs
  PROVE  /\ sent \in Nat /\ lost \in SUBSET (1..sent)
         /\ read \in Seq(Int) /\ buffer \in Seq(Int) /\ wire \in Seq(Int)
         /\ Len(buffer) \in Nat /\ Len(wire) \in Nat
         /\ Socket!Data(wire) = Numbers(wire)
<1>1. sent \in Nat /\ 1..sent \subseteq Int /\ Frames(sent) \subseteq Int
  BY FramesInt DEF SocketSmall
<1>2. read \in Seq(Int) /\ buffer \in Seq(Int) /\ wire \in Seq(Int)
  BY <1>1, SeqMonotonic DEF SocketSeqs
<1> QED  BY <1>1, <1>2, LenProperties, DataNumbers DEF SocketSeqs

LEMMA SmallStays ==
  ASSUME Socket!SocketAssumption, SocketSmall, Socket!Next
  PROVE  SocketSmall'
<1> USE SocketConstants
<1>1. CASE Socket!SendData
  BY <1>1 DEF SocketSmall, Socket!SendData, Socket!fill
<1>2. CASE Socket!SendControl
  BY <1>2 DEF SocketSmall, Socket!SendControl, Socket!fill
<1>3. CASE Socket!Break
  BY <1>3 DEF SocketSmall, Socket!Break, Socket!fill
<1>4. CASE Socket!CallNext
  BY <1>4 DEF SocketSmall, Socket!CallNext, Socket!link, Socket!peer
<1>5. CASE Socket!CallFill
  BY <1>5 DEF SocketSmall, Socket!CallFill, Socket!link, Socket!peer
<1>6. CASE Socket!Loop
  BY <1>6 DEF SocketSmall, Socket!Loop, Socket!link, Socket!peer, Socket!fill
<1>7. CASE Socket!ReceiveData
  <2>1. /\ UNCHANGED <<reconnect, sent, faults, task, goal, signals, delay, growth, ws>>
        /\ filled' \in {filled, filled + 1} /\ socketPc' \in {"idle", "top"}
    BY <1>7 DEF Socket!ReceiveData, Socket!peer
  <2> QED  BY <2>1 DEF SocketSmall
<1>8. CASE Socket!ReceiveOther
  <2>1. /\ UNCHANGED <<reconnect, sent, faults, task, goal, filled, signals, delay, growth>>
        /\ ws' \in {FALSE, ws} /\ socketPc' \in {"top", "pong"}
    BY <1>8 DEF Socket!ReceiveOther, Socket!Unlink, Socket!link, Socket!peer, Socket!fill
  <2> QED  BY <2>1 DEF SocketSmall
<1>9. CASE Socket!DialOk
  BY <1>9 DEF SocketSmall, Socket!DialOk, Socket!link, Socket!peer, Socket!fill
<1>10. CASE Socket!DialErr
  BY <1>10 DEF SocketSmall, Socket!DialErr, Socket!Smaller, Socket!link, Socket!peer, Socket!fill
<1>11. CASE Socket!Pong
  BY <1>11 DEF SocketSmall, Socket!Pong, Socket!Unlink, Socket!link, Socket!peer, Socket!fill
<1>12. CASE Socket!Cancel
  BY <1>12 DEF SocketSmall, Socket!Cancel, Socket!link, Socket!peer, Socket!fill
<1>13. CASE Socket!TryRecv
  BY <1>13 DEF SocketSmall, Socket!TryRecv, Socket!link, Socket!peer, Socket!fill
<1>14. CASE Socket!Close
  <2>1. /\ faults < MaxFaults /\ faults' = faults + 1 /\ ws' = FALSE
        /\ UNCHANGED <<reconnect, sent, socketPc, task, goal, filled, signals, delay, growth>>
    BY <1>14 DEF Socket!Close, Socket!Unlink, Socket!fill
  <2>2. faults' \in 0..MaxFaults
    BY <2>1, SocketConstants DEF SocketSmall
  <2> QED  BY <2>1, <2>2, Zenon DEF SocketSmall
<1>15. CASE Socket!Signal
  BY <1>15 DEF SocketSmall, Socket!Signal, Socket!link, Socket!peer, Socket!fill
<1>16. CASE Socket!CheckSignals
  BY <1>16 DEF SocketSmall, Socket!CheckSignals, Socket!link, Socket!peer, Socket!fill
<1> HIDE SocketConstants
<1> QED
  BY <1>1, <1>2, <1>3, <1>4, <1>5, <1>6, <1>7, <1>8, <1>9, <1>10, <1>11, <1>12, <1>13,
     <1>14, <1>15, <1>16, Zenon DEF Socket!Next, Socket!Receive, Socket!Settle

LEMMA CallsStay ==
  ASSUME Socket!SocketAssumption, SocketSmall, SocketSeqs, SocketCalls, Socket!Next
  PROVE  SocketCalls'
<1> USE SocketConstants, SocketSequences DEF SocketCalls
<1>1. CASE Socket!SendData \/ Socket!SendControl \/ Socket!Break
  BY <1>1 DEF Socket!SendData, Socket!SendControl, Socket!Break, Socket!fill
<1>2. CASE Socket!CallNext
  BY <1>2 DEF Socket!CallNext
<1>3. CASE Socket!CallFill
  BY <1>3 DEF Socket!CallFill
<1>4. CASE Socket!Loop
  BY <1>4 DEF Socket!Loop, Socket!Goes, Socket!fill
<1>5. CASE Socket!ReceiveData
  BY <1>5 DEF Socket!ReceiveData, SocketSmall
<1>6. CASE Socket!ReceiveOther
  BY <1>6 DEF Socket!ReceiveOther, Socket!fill
<1>7. CASE Socket!DialOk \/ Socket!DialErr \/ Socket!Pong \/ Socket!Cancel
  BY <1>7 DEF Socket!DialOk, Socket!DialErr, Socket!Pong, Socket!Cancel, Socket!fill
<1>8. CASE Socket!TryRecv
  BY <1>8 DEF Socket!TryRecv, Socket!fill
<1>9. CASE Socket!Close \/ Socket!Signal \/ Socket!CheckSignals
  BY <1>9 DEF Socket!Close, Socket!Signal, Socket!CheckSignals, Socket!fill
<1> QED
  BY <1>1, <1>2, <1>3, <1>4, <1>5, <1>6, <1>7, <1>8, <1>9, Zenon
  DEF Socket!Next, Socket!Receive, Socket!Settle

LEMMA BackoffStays ==
  ASSUME Socket!SocketAssumption, SocketSmall, Socket!BackoffExact, Socket!Next
  PROVE  Socket!BackoffExact'
<1> USE DEF Socket!BackoffExact
<1>1. CASE Socket!DialOk
  BY <1>1 DEF Socket!DialOk
<1>2. CASE Socket!DialErr
  <2>1. /\ growth \in Nat \ {0} /\ Delay \in Nat /\ MaxDelay \in Nat
        /\ growth' = 2 * growth /\ delay' = Socket!Smaller(2 * delay, MaxDelay)
    BY <1>2, SocketConstants DEF SocketSmall, Socket!DialErr
  <2>2. growth' # 1 /\ Delay * growth' = 2 * (Delay * growth) /\ Delay * growth \in Nat
    BY <2>1, SMT
  <2>3. delay = IF growth = 1 THEN Delay ELSE Socket!Smaller(Delay * growth, MaxDelay)
    OBVIOUS
  <2>4. CASE growth = 1
    BY <2>1, <2>2, <2>3, <2>4
  <2>5. CASE growth # 1
    <3> DEFINE d == Delay * growth
    <3>1. d \in Nat /\ delay = Socket!Smaller(d, MaxDelay) /\ Delay * growth' = 2 * d
      BY <2>2, <2>3, <2>5
    <3> HIDE DEF d
    <3>2. delay' = Socket!Smaller(2 * d, MaxDelay)
      BY <2>1, <3>1 DEF Socket!Smaller
    <3> QED  BY <2>2, <3>1, <3>2
  <2> QED  BY <2>4, <2>5
<1>3. CASE UNCHANGED <<delay, growth>>
  BY <1>3
<1>4. UNCHANGED <<delay, growth>> \/ Socket!DialOk \/ Socket!DialErr
  BY DEF Socket!Next, Socket!Receive, Socket!Settle, Socket!SendData, Socket!SendControl,
     Socket!Break, Socket!CallNext, Socket!CallFill, Socket!Loop, Socket!ReceiveData,
     Socket!ReceiveOther, Socket!Unlink, Socket!Pong, Socket!Cancel, Socket!TryRecv,
     Socket!Close, Socket!Signal, Socket!CheckSignals, Socket!link, Socket!peer, Socket!fill
<1> QED  BY <1>1, <1>2, <1>3, <1>4

\* The sequences and the line, action by action; actions that touch neither stutter here.
SocketQueues == SocketSeqs /\ SocketLine

LEMMA SendDataKeeps ==
  ASSUME Socket!SocketAssumption, SocketSmall, SocketQueues, Socket!SendData
  PROVE  SocketQueues'
<1>1. /\ sent' = sent + 1 /\ wire' = Append(wire, sent + 1) /\ ws /\ ws' = ws
      /\ UNCHANGED <<read, buffer, lost>>
  BY DEF Socket!SendData, Socket!Alive, Socket!fill
<1>2. sent \in Nat /\ sent + 1 \in Frames(sent + 1) /\ 1..sent \subseteq 1..(sent + 1)
      /\ Frames(sent) \subseteq Frames(sent + 1)
  BY DEF SocketSmall, Frames
<1>3. /\ buffer \in Seq(1..(sent + 1)) /\ read \in Seq(1..(sent + 1))
      /\ wire \in Seq(Frames(sent + 1))
  BY <1>2, SeqMonotonic DEF SocketSeqs, SocketQueues
<1>4. wire' \in Seq(Frames(sent + 1))
  BY <1>1, <1>2, <1>3, AppendProperties
<1>5. SocketSeqs'
  BY <1>1, <1>2, <1>3, <1>4 DEF SocketSeqs, SocketQueues
<1>6. Line(read, buffer, wire', sent', lost)
  BY <1>1, SocketSequences, LineGrows DEF SocketQueues, SocketLine
<1> QED  BY <1>1, <1>5, <1>6 DEF SocketQueues, SocketLine

LEMMA SendControlKeeps ==
  ASSUME Socket!SocketAssumption, SocketSmall, SocketQueues, Socket!SendControl
  PROVE  SocketQueues'
<1>1. /\ ws /\ UNCHANGED <<read, buffer, lost, sent, ws>>
      /\ \E f \in {Socket!Ping, Socket!Other, Socket!CloseFrame} : wire' = Append(wire, f)
  BY DEF Socket!SendControl, Socket!Alive, Socket!fill
<1>2. PICK f \in {Socket!Ping, Socket!Other, Socket!CloseFrame} : wire' = Append(wire, f)
  BY <1>1
<1>3. f \in Frames(sent) /\ f \in Int /\ f <= 0
  BY FramesInt, SocketSequences DEF SocketQueues
<1>4. wire' \in Seq(Frames(sent))
  BY <1>2, <1>3, AppendProperties DEF SocketSeqs, SocketQueues
<1>5. Line(read, buffer, wire', sent, lost)
  BY <1>2, <1>3, SocketSequences, LineGrows DEF SocketQueues, SocketLine
<1> QED  BY <1>1, <1>4, <1>5 DEF SocketQueues, SocketLine, SocketSeqs

LEMMA BreakKeeps ==
  ASSUME Socket!SocketAssumption, SocketSmall, SocketQueues, Socket!Break
  PROVE  SocketQueues'
<1>1. /\ ws /\ UNCHANGED <<read, buffer, sent, ws>>
      /\ \E n \in 0..Len(wire) :
           /\ wire' = Append(SubSeq(wire, 1, n), Socket!End)
           /\ lost' = lost \cup Socket!Data(SubSeq(wire, n + 1, Len(wire)))
  BY DEF Socket!Break, Socket!Alive, Socket!fill
<1>2. PICK n \in 0..Len(wire) :
        /\ wire' = Append(SubSeq(wire, 1, n), Socket!End)
        /\ lost' = lost \cup Socket!Data(SubSeq(wire, n + 1, Len(wire)))
  BY <1>1
<1> DEFINE p == SubSeq(wire, 1, n)
           q == SubSeq(wire, n + 1, Len(wire))
<1>3. /\ sent \in Nat /\ lost \in SUBSET (1..sent) /\ Len(wire) \in Nat
      /\ read \in Seq(Int) /\ buffer \in Seq(Int) /\ wire \in Seq(Int)
      /\ wire \in Seq(Frames(sent))
  BY SocketSequences DEF SocketQueues, SocketSeqs
<1>4. Socket!End \in Frames(sent) /\ Socket!End \in Int /\ Socket!End <= 0
  BY <1>3, FramesInt
<1>5. p \in Seq(Frames(sent)) /\ p \in Seq(Int) /\ q \in Seq(Int)
  <2>1. \A i \in 1..Len(wire) : wire[i] \in Frames(sent)
    BY <1>3, ElementOfSeq
  <2> QED  BY <1>3, <2>1, SubSeqProperties, OfCut
<1>6. Numbers(q) \subseteq 1..sent /\ Line(read, buffer, p, sent, lost \cup Numbers(q))
  BY <1>3, LineBreaks DEF SocketQueues, SocketLine
<1>7. lost' = lost \cup Numbers(q) /\ wire' = Append(p, Socket!End)
  BY <1>2, <1>5, DataNumbers
<1> HIDE DEF p, q
<1>8. wire' \in Seq(Frames(sent))
  BY <1>4, <1>5, <1>7, AppendProperties
<1>9. lost' \in SUBSET (1..sent)
  BY <1>3, <1>6, <1>7
<1>10. Line(read, buffer, wire', sent, lost')
  BY <1>3, <1>4, <1>5, <1>6, <1>7, <1>9, LineGrows
<1> QED  BY <1>1, <1>8, <1>9, <1>10 DEF SocketQueues, SocketLine, SocketSeqs

LEMMA TakeKeeps ==
  ASSUME Socket!SocketAssumption, SocketSmall, SocketQueues, buffer # <<>>,
         read' = Append(read, Head(buffer)), buffer' = Tail(buffer),
         UNCHANGED <<wire, sent, lost, ws>>
  PROVE  SocketQueues'
<1>1. /\ sent \in Nat /\ lost \in SUBSET (1..sent)
      /\ read \in Seq(Int) /\ buffer \in Seq(Int) /\ wire \in Seq(Int)
      /\ read \in Seq(1..sent) /\ buffer \in Seq(1..sent)
  BY SocketSequences DEF SocketQueues, SocketSeqs
<1>2. /\ Head(buffer) \in 1..sent /\ Tail(buffer) \in Seq(1..sent)
      /\ Len(Tail(buffer)) = Len(buffer) - 1
  BY <1>1, HeadTailProperties
<1>3. Append(read, Head(buffer)) \in Seq(1..sent)
  BY <1>1, <1>2, AppendProperties
<1>4. Line(Append(read, Head(buffer)), Tail(buffer), wire, sent, lost)
  BY <1>1, LineMoves DEF SocketQueues, SocketLine
<1>5. Len(Tail(buffer)) <= BufferSize
  BY <1>2, SocketConstants, SocketSequences DEF SocketQueues, SocketSeqs
<1> QED  BY <1>2, <1>3, <1>4, <1>5 DEF SocketQueues, SocketLine, SocketSeqs

LEMMA ReceiveDataKeeps ==
  ASSUME Socket!SocketAssumption, SocketSmall, SocketQueues, SocketCalls, Socket!ReceiveData
  PROVE  SocketQueues'
<1>1. /\ wire # <<>> /\ Head(wire) > 0 /\ wire' = Tail(wire)
      /\ UNCHANGED <<ws, lost, sent>> /\ socketPc = "receive" /\ task \in {"next", "fill"}
      /\ IF task = "next"
         THEN read' = Append(read, Head(wire)) /\ buffer' = buffer
         ELSE read' = read /\ IF Len(buffer) < BufferSize
                              THEN buffer' = Append(buffer, Head(wire))
                              ELSE buffer' = buffer
  BY DEF Socket!ReceiveData, Socket!peer, SocketSmall
<1>2. /\ sent \in Nat /\ lost \in SUBSET (1..sent)
      /\ read \in Seq(Int) /\ buffer \in Seq(Int) /\ wire \in Seq(Int)
      /\ read \in Seq(1..sent) /\ buffer \in Seq(1..sent) /\ wire \in Seq(Frames(sent))
      /\ Len(buffer) \in Nat /\ BufferSize \in Nat
  BY SocketSequences, SocketConstants DEF SocketQueues, SocketSeqs
<1>3. Head(wire) \in Frames(sent) /\ Tail(wire) \in Seq(Frames(sent))
  BY <1>1, <1>2, HeadTailProperties
<1>4. Head(wire) \in 1..sent
  BY <1>1, <1>2, <1>3, FramesInt
<1>5. ws \/ Tail(wire) = <<>>
  BY <1>1 DEF SocketQueues, SocketSeqs
<1>6. CASE task = "next"
  <2>1. buffer = <<>>
    BY <1>1, <1>6 DEF SocketCalls
  <2>2. Line(Append(read, Head(wire)), buffer, Tail(wire), sent, lost)
    BY <1>1, <1>2, <2>1, LineMoves DEF SocketQueues, SocketLine
  <2>3. Append(read, Head(wire)) \in Seq(1..sent)
    BY <1>2, <1>4, AppendProperties
  <2> QED  BY <1>1, <1>3, <1>5, <1>6, <2>2, <2>3 DEF SocketQueues, SocketLine, SocketSeqs
<1>7. CASE task = "fill"
  <2>1. Len(buffer) < BufferSize
    BY <1>1, <1>7 DEF SocketCalls
  <2>2. read' = read /\ buffer' = Append(buffer, Head(wire))
    BY <1>1, <1>7, <2>1
  <2>3. Line(read, Append(buffer, Head(wire)), Tail(wire), sent, lost)
    BY <1>1, <1>2, LineMoves DEF SocketQueues, SocketLine
  <2>4. /\ Append(buffer, Head(wire)) \in Seq(1..sent)
        /\ Len(Append(buffer, Head(wire))) = Len(buffer) + 1
    BY <1>2, <1>4, AppendProperties
  <2>5. Len(buffer) + 1 <= BufferSize
    BY <1>2, <2>1
  <2> QED
    BY <1>1, <1>3, <1>5, <2>2, <2>3, <2>4, <2>5 DEF SocketQueues, SocketLine, SocketSeqs
<1> QED  BY <1>1, <1>6, <1>7

LEMMA UnlinkKeeps ==
  ASSUME Socket!SocketAssumption, SocketSmall, SocketQueues, Socket!Unlink,
         UNCHANGED <<read, buffer, sent>>
  PROVE  SocketQueues'
<1>1. wire' = <<>> /\ lost' = lost \cup Numbers(wire) /\ wire' \in Seq(Frames(sent))
  BY SocketSequences, EmptySeq DEF Socket!Unlink, SocketQueues
<1>2. Numbers(wire) \subseteq 1..sent /\ Line(read, buffer, <<>>, sent, lost \cup Numbers(wire))
  BY SocketSequences, LineLost DEF SocketQueues, SocketLine
<1> QED  BY <1>1, <1>2 DEF SocketQueues, SocketLine, SocketSeqs

LEMMA ReceiveOtherKeeps ==
  ASSUME Socket!SocketAssumption, SocketSmall, SocketQueues, Socket!ReceiveOther
  PROVE  SocketQueues'
<1>1. CASE Socket!Unlink
  BY <1>1, UnlinkKeeps DEF Socket!ReceiveOther, Socket!peer, Socket!fill
<1>2. CASE ~Socket!Unlink
  <2>1. /\ wire # <<>> /\ Head(wire) <= 0 /\ wire' = Tail(wire)
        /\ UNCHANGED <<ws, lost, sent, read, buffer>>
    BY <1>2 DEF Socket!ReceiveOther, Socket!peer, Socket!fill
  <2>2. wire' \in Seq(Frames(sent))
    BY <2>1, HeadTailProperties DEF SocketQueues, SocketSeqs
  <2>3. Line(read, buffer, Tail(wire), sent, lost)
    BY <2>1, SocketSequences, LineMoves DEF SocketQueues, SocketLine
  <2> QED  BY <2>1, <2>2, <2>3 DEF SocketQueues, SocketLine, SocketSeqs
<1> QED  BY <1>1, <1>2

LEMMA OthersKeep ==
  ASSUME SocketQueues, UNCHANGED <<wire, sent, lost, read, buffer>>, (ws' = ws) \/ ws'
  PROVE  SocketQueues'
BY DEF SocketQueues, SocketLine, SocketSeqs

LEMMA SocketStep ==
  ASSUME Socket!SocketAssumption, SocketSafe, [Socket!Next]_socketVars
  PROVE  SocketSafe'
<1> USE DEF SocketSafe
<1>1. CASE Socket!Next
  <2>1. SocketSmall' /\ SocketCalls' /\ Socket!BackoffExact'
    BY <1>1, SmallStays, CallsStay, BackoffStays
  <2>2. SocketQueues
    BY DEF SocketQueues
  <2>3. SocketQueues'
    <3>1. CASE Socket!SendData
      BY <2>2, <3>1, SendDataKeeps
    <3>2. CASE Socket!SendControl
      BY <2>2, <3>2, SendControlKeeps
    <3>3. CASE Socket!Break
      BY <2>2, <3>3, BreakKeeps
    <3>4. CASE Socket!ReceiveData
      BY <2>2, <3>4, ReceiveDataKeeps
    <3>5. CASE Socket!ReceiveOther
      BY <2>2, <3>5, ReceiveOtherKeeps
    <3>6. CASE Socket!CallNext
      <4>1. UNCHANGED <<wire, sent, lost, ws>>
        BY <3>6 DEF Socket!CallNext, Socket!link, Socket!peer
      <4>2. CASE buffer # <<>>
        BY <2>2, <3>6, <4>1, <4>2, TakeKeeps DEF Socket!CallNext
      <4>3. CASE buffer = <<>>
        BY <2>2, <3>6, <4>1, <4>3, OthersKeep DEF Socket!CallNext
      <4> QED  BY <4>2, <4>3
    <3>7. CASE Socket!TryRecv
      BY <2>2, <3>7, TakeKeeps DEF Socket!TryRecv, Socket!link, Socket!peer
    <3>8. CASE Socket!Pong
      <4>1. UNCHANGED <<sent, read, buffer>>
        BY <3>8 DEF Socket!Pong, Socket!peer, Socket!fill
      <4>2. CASE Socket!Unlink
        BY <2>2, <4>1, <4>2, UnlinkKeeps
      <4>3. CASE UNCHANGED Socket!link
        BY <2>2, <4>1, <4>3, OthersKeep DEF Socket!link
      <4> QED  BY <3>8, <4>2, <4>3 DEF Socket!Pong
    <3>9. CASE Socket!Close
      BY <2>2, <3>9, UnlinkKeeps DEF Socket!Close
    <3>10. CASE Socket!DialOk
      BY <2>2, <3>10, OthersKeep DEF Socket!DialOk, Socket!peer, Socket!fill
    <3>11. CASE Socket!DialErr
      BY <2>2, <3>11, OthersKeep DEF Socket!DialErr, Socket!peer, Socket!fill
    <3>12. CASE Socket!CallFill \/ Socket!Loop \/ Socket!Cancel \/ Socket!Signal
                \/ Socket!CheckSignals
      BY <2>2, <3>12, OthersKeep
      DEF Socket!CallFill, Socket!Loop, Socket!Cancel, Socket!Signal, Socket!CheckSignals,
          Socket!link, Socket!peer, Socket!fill
    <3> QED
      BY <1>1, <3>1, <3>2, <3>3, <3>4, <3>5, <3>6, <3>7, <3>8, <3>9, <3>10, <3>11, <3>12, Zenon
      DEF Socket!Next, Socket!Receive, Socket!Settle
  <2> QED  BY <2>1, <2>3 DEF SocketQueues
<1>2. CASE UNCHANGED socketVars
  BY <1>2 DEF socketVars, SocketSmall, SocketSeqs, SocketLine, SocketCalls, Socket!BackoffExact
<1> QED  BY <1>1, <1>2

LEMMA SocketInitial == ASSUME Socket!SocketAssumption, Socket!Init PROVE SocketSafe
<1>1. read = <<>> /\ buffer = <<>> /\ wire = <<>> /\ lost = {} /\ sent = 0
  BY DEF Socket!Init
<1>2. SocketSmall
  BY SocketConstants DEF Socket!Init, SocketSmall
<1>3. SocketSeqs
  BY <1>1, SocketConstants, EmptySeq DEF SocketSeqs, Socket!Init
<1>4. SocketLine
  <2>1. 1..0 = {}
    OBVIOUS
  <2> QED  BY <1>1, <2>1, OfNone DEF SocketLine, Line, Below
<1>5. SocketCalls /\ Socket!BackoffExact
  BY SocketConstants DEF Socket!Init, SocketCalls, Socket!BackoffExact
<1> QED  BY <1>2, <1>3, <1>4, <1>5 DEF SocketSafe

LEMMA SocketImplies == ASSUME SocketSafe PROVE Socket!SocketInv
<1>1. Socket!NothingMislaid
  BY SocketSequences, MislaidParts DEF SocketSafe, SocketLine
<1>2. Socket!TypeOK
  BY DEF SocketSafe, SocketSmall, SocketSeqs, Frames, Socket!TypeOK
<1> QED  BY <1>1, <1>2 DEF SocketSafe, Socket!SocketInv

\* The WebSocket stream keeps the order of the messages over all its connections, mislays
\* none, and backs off exactly: for any buffer, delays and number of faults.
THEOREM SocketCorrect == AllFair => []SocketInv
<1>1. AllInit => SocketSafe
  BY DistributedAssumption, SocketInitial DEF DistributedAssumption, AllInit
<1>2. [AllNext]_allVars => [Socket!Next]_socketVars
  BY DEF AllNext, allVars, vars, socketVars
<1>3. SocketSafe /\ [AllNext]_allVars => SocketSafe'
  BY <1>2, DistributedAssumption, SocketStep DEF DistributedAssumption
<1>4. SocketSafe => SocketInv
  BY SocketImplies DEF SocketInv
<1> QED  BY <1>1, <1>3, <1>4, PTL DEF AllFair

\* The stream alone.
THEOREM StreamCorrect == Socket!FairSpec => []Socket!SocketInv
<1>1. Socket!Init => SocketSafe
  BY SocketInitial, DistributedAssumption DEF DistributedAssumption
<1>2. SocketSafe /\ [Socket!Next]_(Socket!vars) => SocketSafe'
  <2> SUFFICES ASSUME SocketSafe, [Socket!Next]_(Socket!vars) PROVE SocketSafe'
    OBVIOUS
  <2>1. [Socket!Next]_socketVars
    BY DEF Socket!vars, socketVars
  <2> QED
    BY <2>1, SocketStep, DistributedAssumption DEF DistributedAssumption
<1>3. SocketSafe => Socket!SocketInv
  BY SocketImplies
<1> QED
  BY <1>1, <1>2, <1>3, PTL DEF Socket!FairSpec
=============================================================================
