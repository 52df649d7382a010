-------------------------- MODULE GradientBarrier --------------------------
(***************************************************************************)
(* kizzasi_model::distributed::ThreadedGradientSync                        *)
(* (crates/kizzasi-model/src/distributed.rs).                              *)
(*                                                                         *)
(* sync_gradients takes the mutex three to five times; each step below is  *)
(* one of these critical sections, or one wait of a condition variable,    *)
(* which gives the mutex up and takes it again.  A sleeper wakes when it   *)
(* is notified or for no reason, and looks at its condition then.  Each    *)
(* handle is used by one thread.  A gradient is who brought it, in which   *)
(* call, and its length; a mean is the set of gradients it is made of.     *)
(***************************************************************************)
EXTENDS Integers, FiniteSets

CONSTANTS
  Workers,    \* the handles of new_workers
  Lens,       \* lengths of a gradient
  MaxCalls    \* bound: calls of sync_gradients by each worker

\* new_workers refuses to make none.
BarrierAssumption ==
  /\ IsFiniteSet(Workers) /\ Workers # {}
  /\ Lens # {}
  /\ MaxCalls \in Nat

VARIABLES
  accumulator,    \* the gradients summed up, {} for None
  result,         \* the gradients in the published mean, {} for None
  arrived, departed, generation,
  aborted,        \* whether a mismatch was found in this round
  pc,             \* "out", "arrive", "copy", "depart" or "leave"
  asleep,         \* who sleeps on a condition variable
  gradients,      \* what each worker brings
  genBefore, abort,    \* its locals
  calls,          \* how often it has called
  outcome         \* what it was given last, {} for an error

vars == <<accumulator, result, arrived, departed, generation, aborted, pc, asleep,
          gradients, genBefore, abort, calls, outcome>>
barrierState == <<accumulator, result, arrived, departed, generation, aborted>>

Gradients == [by : Workers, call : 1..MaxCalls, len : Lens]
WorkerCount == Cardinality(Workers)

Init ==
  /\ accumulator = {} /\ result = {}
  /\ arrived = 0 /\ departed = 0 /\ generation = 0
  /\ aborted = FALSE
  /\ pc = [w \in Workers |-> "out"]
  /\ asleep = {}
  /\ gradients = [w \in Workers |-> [by |-> w, call |-> 0, len |-> 0]]
  /\ genBefore = [w \in Workers |-> 0]
  /\ abort = [w \in Workers |-> FALSE]
  /\ calls = [w \in Workers |-> 0]
  /\ outcome = [w \in Workers |-> {}]

\* Past the first barrier: an aborted round has nothing to copy.
Pass(w, failed) ==
  /\ pc' = [pc EXCEPT ![w] = IF failed THEN "depart" ELSE "copy"]
  /\ abort' = [abort EXCEPT ![w] = failed]
  /\ outcome' = IF failed THEN [outcome EXCEPT ![w] = {}] ELSE outcome

Mismatch(n) == \E g \in accumulator : g.len # n

\* The deposit of the one who completes the round: publish, and wake those who wait.
DepositLast(w, g, bad) ==
  /\ result' = IF bad THEN result ELSE accumulator \cup {g}
  /\ accumulator' = IF bad THEN accumulator ELSE {}
  /\ generation' = generation + 1
  /\ asleep' = {v \in asleep : pc[v] # "arrive"}
  /\ Pass(w, bad)
  /\ UNCHANGED genBefore

\* The deposit of any other: wait for the next generation.
DepositWait(w, g, bad) ==
  /\ accumulator' = IF bad THEN accumulator ELSE accumulator \cup {g}
  /\ genBefore' = [genBefore EXCEPT ![w] = generation]
  /\ pc' = [pc EXCEPT ![w] = "arrive"]
  /\ asleep' = asleep \cup {w}
  /\ UNCHANGED <<result, generation, abort, outcome>>

Deposit(w) ==
  /\ pc[w] = "out" /\ calls[w] < MaxCalls
  /\ calls' = [calls EXCEPT ![w] = @ + 1]
  /\ \E n \in Lens :
       LET g == [by |-> w, call |-> calls[w] + 1, len |-> n]
           bad == aborted \/ Mismatch(n)
       IN /\ gradients' = [gradients EXCEPT ![w] = g]
          /\ aborted' = bad
          /\ arrived' = arrived + 1
          /\ IF arrived + 1 = WorkerCount THEN DepositLast(w, g, bad)
                                         ELSE DepositWait(w, g, bad)
  /\ UNCHANGED departed

\* Mutant of Arrive: the condition is looked at before the sleep and not after it.
ArriveOnce(w) ==
  /\ pc[w] = "arrive" /\ w \notin asleep
  /\ Pass(w, aborted)
  /\ UNCHANGED <<asleep, barrierState, gradients, genBefore, calls>>

\* Awake in the first wait_while.
Arrive(w) ==
  /\ pc[w] = "arrive" /\ w \notin asleep
  /\ IF generation = genBefore[w]
     THEN asleep' = asleep \cup {w} /\ UNCHANGED <<pc, abort, outcome>>
     ELSE Pass(w, aborted) /\ UNCHANGED asleep
  /\ UNCHANGED <<barrierState, gradients, genBefore, calls>>

Copy(w) ==
  /\ pc[w] = "copy"
  /\ pc' = [pc EXCEPT ![w] = "depart"]
  /\ outcome' = [outcome EXCEPT ![w] = IF result = {} THEN {gradients[w]} ELSE result]
  /\ UNCHANGED <<barrierState, asleep, gradients, genBefore, abort, calls>>

\* Mutant of Depart: the last one does not wake the others.
DepartSilent(w) ==
  /\ pc[w] = "depart"
  /\ IF departed + 1 = WorkerCount
     THEN /\ accumulator' = {} /\ result' = {}
          /\ arrived' = 0 /\ departed' = 0
          /\ aborted' = FALSE
          /\ pc' = [pc EXCEPT ![w] = "out"]
     ELSE /\ departed' = departed + 1
          /\ pc' = [pc EXCEPT ![w] = "leave"]
          /\ UNCHANGED <<accumulator, result, arrived, aborted>>
  /\ UNCHANGED <<asleep, generation, gradients, genBefore, abort, calls, outcome>>

\* The last to depart resets the round and returns.
Depart(w) ==
  /\ pc[w] = "depart"
  /\ IF departed + 1 = WorkerCount
     THEN /\ accumulator' = {} /\ result' = {}
          /\ arrived' = 0 /\ departed' = 0
          /\ aborted' = FALSE
          /\ asleep' = {v \in asleep : pc[v] # "leave"}
          /\ pc' = [pc EXCEPT ![w] = "out"]
     ELSE /\ departed' = departed + 1
          /\ pc' = [pc EXCEPT ![w] = "leave"]
          /\ UNCHANGED <<accumulator, result, arrived, aborted, asleep>>
  /\ UNCHANGED <<generation, gradients, genBefore, abort, calls, outcome>>

\* Mutant of Leave: nobody waits for the round to drain.
LeaveEarly(w) ==
  /\ pc[w] = "leave" /\ w \notin asleep
  /\ pc' = [pc EXCEPT ![w] = "out"]
  /\ UNCHANGED <<asleep, barrierState, gradients, genBefore, abort, calls, outcome>>

\* The second wait_while, which the mutex was dropped before.
Leave(w) ==
  /\ pc[w] = "leave" /\ w \notin asleep
  /\ IF departed # 0
     THEN asleep' = asleep \cup {w} /\ UNCHANGED pc
     ELSE pc' = [pc EXCEPT ![w] = "out"] /\ UNCHANGED asleep
  /\ UNCHANGED <<barrierState, gradients, genBefore, abort, calls, outcome>>

SpuriousWakeup(w) ==
  /\ w \in asleep
  /\ asleep' = asleep \ {w}
  /\ UNCHANGED <<barrierState, pc, gradients, genBefore, abort, calls, outcome>>

Step(w) == Deposit(w) \/ Arrive(w) \/ Copy(w) \/ Depart(w) \/ Leave(w)

Next == \E w \in Workers : Step(w) \/ SpuriousWakeup(w)

Spec == Init /\ [][Next]_vars

\* Every worker keeps making its calls.
Fairness == \A w \in Workers : WF_vars(Step(w))

-----------------------------------------------------------------------------
(* Properties *)

\* Who waits for the round to fill, who was let through, and who waits for it to drain.
Waiting == {w \in Workers : pc[w] = "arrive" /\ genBefore[w] = generation}
Passed ==
  {w \in Workers : \/ pc[w] \in {"copy", "depart"}
                   \/ pc[w] = "arrive" /\ genBefore[w] # generation}
Leaving == {w \in Workers : pc[w] = "leave"}

TypeOK ==
  /\ accumulator \subseteq Gradients /\ result \subseteq Gradients
  /\ arrived \in 0..WorkerCount /\ departed \in 0..WorkerCount
  /\ generation \in Nat
  /\ aborted \in BOOLEAN
  /\ pc \in [Workers -> {"out", "arrive", "copy", "depart", "leave"}]
  /\ asleep \subseteq {w \in Workers : pc[w] \in {"arrive", "leave"}}
  /\ gradients \in [Workers -> Gradients \cup {[by |-> w, call |-> 0, len |-> 0] : w \in Workers}]
  /\ \A w \in Workers : pc[w] \in {"arrive", "copy", "depart"} => gradients[w] \in Gradients
  /\ genBefore \in [Workers -> Nat]
  /\ abort \in [Workers -> BOOLEAN]
  /\ calls \in [Workers -> 0..MaxCalls]
  /\ outcome \in [Workers -> SUBSET Gradients]

SameLen(S) == \A v, w \in S : gradients[v].len = gradients[w].len
Sum(S) == {gradients[w] : w \in S}

\* While a round fills nobody is on the way out of the previous one except those who have
\* seen its end, and the accumulator holds what those who wait brought.
Filling ==
  /\ departed = 0 /\ result = {}
  /\ Passed = {}
  /\ arrived = Cardinality(Waiting) /\ Waiting # Workers
  /\ aborted <=> ~SameLen(Waiting)
  /\ ~aborted => accumulator = Sum(Waiting)

\* While it drains everybody is in it, and the result is the mean of what they all brought.
Draining ==
  /\ arrived = WorkerCount
  /\ Waiting = {} /\ Passed # {}
  /\ Passed \cup Leaving = Workers
  /\ departed = Cardinality(Leaving)
  /\ aborted <=> ~SameLen(Workers)
  /\ result = IF aborted THEN {} ELSE Sum(Workers)
  /\ \A w \in Workers : pc[w] = "copy" => ~aborted
  /\ \A w \in Workers : pc[w] \in {"depart", "leave"} => outcome[w] = result
  /\ \A w \in Passed : pc[w] # "arrive" => abort[w] = aborted

\* The two barriers of sync_gradients keep a round together: it never drains before
\* everybody has deposited, and never fills before everybody has read.
BarrierInv == TypeOK /\ (Filling \/ Draining)

\* Whatever the interleaving, every worker gets the mean of one round of gradients, with
\* each worker's own gradient of this round in it; or all of them get the error.
Stage ==
  [w \in Workers |-> IF w \in Waiting THEN "in"
                     ELSE IF w \in Passed \cup Leaving THEN "ready" ELSE "out"]
Answer ==
  [w \in Workers |->
    IF w \in Passed /\ pc[w] \in {"arrive", "copy"} THEN result ELSE outcome[w]]
OneLen(given) == \A v, w \in Workers : given[v].len = given[w].len
Reduce == INSTANCE AllReduce WITH
  stage <- Stage, gave <- gradients, answer <- Answer, Fit <- OneLen
ReduceContract == Reduce!ReduceSpec

\* Nobody waits for ever in a barrier that everybody keeps coming to.
CallsReturn == \A w \in Workers : pc[w] # "out" ~> pc[w] = "out"
=============================================================================
