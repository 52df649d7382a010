--------------------------- MODULE GradientStore ---------------------------
(***************************************************************************)
(* kizzasi_model::distributed::DataParallelModel::step over a              *)
(* SharedGradientStore (crates/kizzasi-model/src/distributed.rs).          *)
(*                                                                         *)
(* push and all_reduce_mean hold the mutex of the store but for their      *)
(* waits on its one condition variable.  step adds, on rank 0 alone, the   *)
(* write of the weights that the ranks of new_ranks share.  A gradient     *)
(* list is who made it, in which step, how many buffers it has, and which  *)
(* of them does not have the length of its weight (0: none; there is one   *)
(* wrong length).  The weights are the means sgd_step was given, in order, *)
(* each with how many of its buffers it applied.                           *)
(***************************************************************************)
EXTENDS Integers, FiniteSets, Sequences

CONSTANTS
  WorldSize,   \* world_size
  Sizes,       \* numbers of buffers in a gradient list
  Odds,        \* positions of a buffer of the wrong length, and 0
  MaxSteps     \* bound: steps of each rank

Ranks == 0..WorldSize - 1

\* With one rank there is no store.
StoreAssumption ==
  /\ WorldSize \in Nat \ {0, 1}
  /\ Sizes \subseteq Nat /\ Sizes # {}
  /\ Odds \subseteq Nat /\ 0 \in Odds
  /\ MaxSteps \in Nat

VARIABLES
  buffers, result, failed, departed,   \* the fields of the round; {} is None
  weights,                             \* the shared weight map, by its updates
  pc,                                  \* "out", "push", "reduce" or "apply"
  asleep,                              \* who waits on the condition variable
  steps,                               \* how many steps each rank began
  local,                               \* what it pushed last
  outcome,                             \* what all_reduce_mean returned last, {} for an error
  got,                                 \* how many means it was given (history)
  errors                               \* the steps that returned an error (history)

vars == <<buffers, result, failed, departed, weights, pc, asleep, steps, local, outcome, got,
          errors>>
roundState == <<buffers, result, failed, departed>>

GradientLists == [by : Ranks, step : 1..MaxSteps, size : Sizes, odd : Odds]
Updates == [mean : SUBSET GradientLists, landed : Int]

Init ==
  /\ buffers = [r \in Ranks |-> {}]
  /\ result = {} /\ failed = FALSE /\ departed = 0
  /\ weights = <<>>
  /\ pc = [r \in Ranks |-> "out"]
  /\ asleep = {}
  /\ steps = [r \in Ranks |-> 0]
  /\ local = [r \in Ranks |-> [by |-> r, step |-> 0, size |-> 0, odd |-> 0]]
  /\ outcome = [r \in Ranks |-> {}]
  /\ got = [r \in Ranks |-> 0]
  /\ errors = [r \in Ranks |-> {}]

Begin(r) ==
  /\ pc[r] = "out" /\ steps[r] < MaxSteps
  /\ pc' = [pc EXCEPT ![r] = "push"]
  /\ steps' = [steps EXCEPT ![r] = @ + 1]
  /\ UNCHANGED <<roundState, weights, asleep, local, outcome, got, errors>>

Fill(r) ==
  \E n \in Sizes, o \in Odds :
    LET g == [by |-> r, step |-> steps[r], size |-> n, odd |-> o]
    IN  o <= n /\ local' = [local EXCEPT ![r] = g] /\ buffers' = [buffers EXCEPT ![r] = {g}]

\* Mutant of Push: a full slot is overwritten.
PushOver(r) ==
  /\ pc[r] = "push" /\ r \notin asleep
  /\ Fill(r)
  /\ asleep' = {}
  /\ pc' = [pc EXCEPT ![r] = "reduce"]
  /\ UNCHANGED <<result, failed, departed, weights, steps, outcome, got, errors>>

\* A rank whose slot is still full sleeps; otherwise it fills it and wakes the others.
Push(r) ==
  /\ pc[r] = "push" /\ r \notin asleep
  /\ \/ /\ buffers[r] # {}
        /\ asleep' = asleep \cup {r}
        /\ UNCHANGED <<buffers, pc, local>>
     \/ /\ buffers[r] = {}
        /\ Fill(r)
        /\ asleep' = {}
        /\ pc' = [pc EXCEPT ![r] = "reduce"]
  /\ UNCHANGED <<result, failed, departed, weights, steps, outcome, got, errors>>

\* average_gradients goes through the buffers of rank 0 and compares each with that of the
\* same position in the others' lists: a longer list passes, a shorter one does not, and a
\* wrong length passes when all have it.
Averages(lists) ==
  \A r \in Ranks :
    /\ lists[r].size >= lists[0].size
    /\ \A i \in 1..lists[0].size : lists[r].odd = i <=> lists[0].odd = i

\* Mutant of DepartWith: the published mean outlives the round.
DepartWithResult(r, mean, bad, wakes) ==
  /\ IF departed + 1 >= WorldSize
     THEN /\ buffers' = [s \in Ranks |-> {}]
          /\ failed' = FALSE /\ departed' = 0
          /\ asleep' = {}
     ELSE /\ departed' = departed + 1
          /\ failed' = bad
          /\ asleep' = IF wakes THEN {} ELSE asleep
          /\ UNCHANGED buffers
  /\ result' = mean
  /\ outcome' = [outcome EXCEPT ![r] = IF bad THEN {} ELSE mean]
  /\ got' = IF bad THEN got ELSE [got EXCEPT ![r] = @ + 1]
  /\ errors' = IF bad THEN [errors EXCEPT ![r] = @ \cup {steps[r]}] ELSE errors
  /\ pc' = [pc EXCEPT ![r] = IF r = 0 /\ ~bad THEN "apply" ELSE "out"]

\* depart: the last to read resets the round.
DepartWith(r, mean, bad, wakes) ==
  /\ IF departed + 1 >= WorldSize
     THEN /\ buffers' = [s \in Ranks |-> {}]
          /\ result' = {} /\ failed' = FALSE /\ departed' = 0
          /\ asleep' = {}
     ELSE /\ departed' = departed + 1
          /\ result' = mean /\ failed' = bad
          /\ asleep' = IF wakes THEN {} ELSE asleep
          /\ UNCHANGED buffers
  /\ outcome' = [outcome EXCEPT ![r] = IF bad THEN {} ELSE mean]
  /\ got' = IF bad THEN got ELSE [got EXCEPT ![r] = @ + 1]
  /\ errors' = IF bad THEN [errors EXCEPT ![r] = @ \cup {steps[r]}] ELSE errors
  /\ pc' = [pc EXCEPT ![r] = IF r = 0 /\ ~bad THEN "apply" ELSE "out"]

Published == failed \/ result # {}

\* all_reduce_mean finds the round decided,
ReadBack(r) ==
  /\ pc[r] = "reduce" /\ r \notin asleep
  /\ Published
  /\ DepartWith(r, result, failed, FALSE)
  /\ UNCHANGED <<weights, steps, local>>

\* or every slot full, and decides it,
Average(r) ==
  /\ pc[r] = "reduce" /\ r \notin asleep
  /\ ~Published
  /\ \A s \in Ranks : buffers[s] # {}
  /\ LET lists == [s \in Ranks |-> CHOOSE g \in buffers[s] : TRUE]
         bad == ~Averages(lists)
     IN DepartWith(r, IF bad THEN {} ELSE {lists[s] : s \in Ranks}, bad, TRUE)
  /\ UNCHANGED <<weights, steps, local>>

\* or a slot empty, and sleeps.
Wait(r) ==
  /\ pc[r] = "reduce" /\ r \notin asleep
  /\ ~Published
  /\ \E s \in Ranks : buffers[s] = {}
  /\ asleep' = asleep \cup {r}
  /\ UNCHANGED <<roundState, weights, pc, steps, local, outcome, got, errors>>

\* sgd_step goes through the buffers of the mean, which are those of rank 0's list, and
\* stops at the first that does not have the length of its weight: what it has written
\* before stays written.
Lead(mean) == CHOOSE g \in mean : g.by = 0
Landed(mean) == IF Lead(mean).odd = 0 THEN Lead(mean).size ELSE Lead(mean).odd - 1

\* Mutant of Apply: the result of sgd_step is thrown away.
ApplyUnchecked ==
  /\ pc[0] = "apply"
  /\ pc' = [pc EXCEPT ![0] = "out"]
  /\ weights' = Append(weights, [mean |-> outcome[0], landed |-> Landed(outcome[0])])
  /\ UNCHANGED <<roundState, asleep, steps, local, outcome, got, errors>>

\* Rank 0 alone takes the write lock of the weights, and it alone learns that the update
\* broke off.
Apply ==
  /\ pc[0] = "apply"
  /\ pc' = [pc EXCEPT ![0] = "out"]
  /\ weights' = Append(weights, [mean |-> outcome[0], landed |-> Landed(outcome[0])])
  /\ errors' = IF Landed(outcome[0]) = Lead(outcome[0]).size THEN errors
               ELSE [errors EXCEPT ![0] = @ \cup {steps[0]}]
  /\ UNCHANGED <<roundState, asleep, steps, local, outcome, got>>

SpuriousWakeup(r) ==
  /\ r \in asleep
  /\ asleep' = asleep \ {r}
  /\ UNCHANGED <<roundState, weights, pc, steps, local, outcome, got, errors>>

Step(r) == Begin(r) \/ Push(r) \/ ReadBack(r) \/ Average(r) \/ Wait(r) \/ (r = 0 /\ Apply)

Next == \E r \in Ranks : Step(r) \/ SpuriousWakeup(r)

Spec == Init /\ [][Next]_vars

\* Every rank keeps stepping.
Fairness == \A r \in Ranks : WF_vars(Step(r))

-----------------------------------------------------------------------------
(* Properties *)

TypeOK ==
  /\ \A r \in Ranks : buffers[r] = {} \/ \E g \in GradientLists : buffers[r] = {g}
  /\ result \subseteq GradientLists /\ failed \in BOOLEAN
  /\ departed \in 0..WorldSize - 1
  /\ weights \in Seq(Updates)
  /\ pc \in [Ranks -> {"out", "push", "reduce", "apply"}]
  /\ asleep \subseteq {r \in Ranks : pc[r] \in {"push", "reduce"}}
  /\ steps \in [Ranks -> 0..MaxSteps]
  /\ outcome \in [Ranks -> SUBSET GradientLists]
  /\ got \in [Ranks -> 0..MaxSteps]
  /\ errors \in [Ranks -> SUBSET (1..MaxSteps)]

\* The ranks run at most one round apart, and rank 0 is at most one round away from what
\* each rank has been given: no mean is taken to the weights twice, and none is left out.
LockStep ==
  \A r \in Ranks :
    /\ Len(weights) \in got[r] - 1..got[r] + 1
    /\ \A q \in Ranks : steps[q] - steps[r] \in -1..1

\* Each mean holds one list of each rank, and no list is in two of them.
AppliedOnce ==
  \A m, n \in DOMAIN weights :
    /\ {g.by : g \in weights[m].mean} = Ranks
    /\ Cardinality(weights[m].mean) = WorldSize
    /\ m # n => weights[m].mean \cap weights[n].mean = {}

\* What step returns tells what became of the round, although one rank writes for all: a
\* round that fails is an error on every rank and nothing of it is written; of any other,
\* all ranks return Ok, but for rank 0 when the update broke off.
Settled(r) == 1..IF pc[r] = "out" THEN steps[r] ELSE steps[r] - 1
Reported ==
  \A r \in Ranks : \A k \in Settled(r) \cap Settled(0) :
    k \notin errors[r] <=>
      \E m \in DOMAIN weights :
        /\ \A g \in weights[m].mean : g.step = k
        /\ r = 0 => weights[m].landed = Lead(weights[m].mean).size

\* The store is an all-reduce: no rank races into the next round and overwrites, or loses,
\* what a slow one has not averaged yet.
InRound(r) == pc[r] = "reduce"
Stage ==
  [r \in Ranks |-> IF ~InRound(r) THEN "out" ELSE IF Published THEN "ready" ELSE "in"]
Answer == [r \in Ranks |-> IF InRound(r) /\ Published THEN result ELSE outcome[r]]
Reduce == INSTANCE AllReduce WITH
  Workers <- Ranks, Gradients <- GradientLists,
  stage <- Stage, gave <- local, answer <- Answer, Fit <- Averages
StoreContract == Reduce!ReduceSpec

\* step returns on every rank.
StepsReturn == \A r \in Ranks : pc[r] # "out" ~> pc[r] = "out"
=============================================================================
