--------------------------- MODULE BatchScheduler ---------------------------
(***************************************************************************)
(* kizzasi_inference::batch::BatchScheduler                                *)
(* (crates/kizzasi-inference/src/batch.rs).                                *)
(*                                                                         *)
(* Requests queue by priority, join the active batch and are advanced one  *)
(* autoregressive step each per call of step, every one against its own    *)
(* hidden state, which is swapped into the one engine for its turn.  The   *)
(* scheduler is used by one task; a turn of the loop of step is a step     *)
(* here, so that an error between two turns leaves what it leaves.         *)
(*                                                                         *)
(* A hidden state is the model it belongs to, whose inputs it has seen and *)
(* how many.  Outputs are counted.                                         *)
(***************************************************************************)
EXTENDS Integers, Sequences, FiniteSets, SequencesExt

CONSTANTS
  MaxBatch,        \* max_batch_size
  MinBatch,        \* min_batch_size
  MaxSeqLen,       \* max_seq_len
  EnablePriority,  \* enable_priority
  Priorities,      \* the priorities requests are submitted with
  PlainSubmit,     \* whether submit is used besides submit_with_priority
  MaxRequests,     \* bound: requests submitted
  MaxModels,       \* bound: models installed
  MaxFailures      \* bound: engine steps that return an error

BatchAssumption ==
  /\ {MaxBatch, MinBatch, MaxSeqLen, MaxRequests, MaxModels, MaxFailures} \subseteq Nat
  /\ Priorities \subseteq 0..3 /\ 1 \in Priorities
  /\ {EnablePriority, PlainSubmit} \subseteq BOOLEAN

Normal == 1
Engine == -1     \* stands for direct users of the engine in a hidden state
NoState == [model |-> -1, of |-> {}, steps |-> 0]

VARIABLES
  pending, active,   \* sequences of requests
  completed,         \* records of requests that finished
  nextId,            \* next_id
  model,             \* the number of the model that is installed, 0 without one
  states,            \* the hidden state in the engine
  turn,              \* index of the loop of step, 0 outside it
  responses,         \* responses step has collected
  delivered,         \* ids of the responses step returned (history)
  began,             \* active at the start of the loop (history)
  resetAt,           \* nextId at the last reset (history)
  dropped,           \* ids whose response was dropped by an error (history)
  failures           \* how many engine steps failed (history)

vars == <<pending, active, completed, nextId, model, states, turn, responses,
          delivered, began, resetAt, dropped, failures>>
faults == <<dropped, failures>>
history == <<delivered, began, resetAt, faults>>
loop == <<turn, responses, delivered, began, faults>>

IdsOf(s) == {s[n].id : n \in DOMAIN s}

FreshStates == [model |-> model, of |-> {}, steps |-> 0]

\* A request.  History: rebased is current_step when its state was last dropped for
\* a new model, hurt whether an error ever dropped it, ranked whether it came
\* through submit_with_priority.
NewRequest(max, priority, ranked) ==
  [id |-> nextId, max |-> max, priority |-> priority, step |-> 0,
   states |-> NoState, rebased |-> 0, hurt |-> FALSE, ranked |-> ranked]

IsComplete(r) == r.step >= r.max

-----------------------------------------------------------------------------
Init ==
  /\ pending = <<>> /\ active = <<>> /\ completed = <<>>
  /\ nextId = 0
  /\ model \in {0, 1} \cap 0..MaxModels
  /\ states = [FreshStates EXCEPT !.model = model]
  /\ turn = 0 /\ responses = <<>>
  /\ delivered = {} /\ began = <<>> /\ resetAt = 0
  /\ dropped = {} /\ failures = 0

Idle == turn = 0

MaxStepsOk(max) == max > 0 /\ max <= MaxSeqLen

Submit(max) ==
  /\ Idle /\ PlainSubmit /\ nextId < MaxRequests /\ MaxStepsOk(max)
  /\ nextId' = nextId + 1
  /\ pending' = Append(pending, NewRequest(max, Normal, FALSE))
  /\ UNCHANGED <<active, completed, model, states, loop, resetAt>>

\* Index of the first request of lower priority, 0 when there is none.
InsertPos(priority) == SelectInSeq(pending, LAMBDA r : r.priority < priority)

SubmitWithPriority(max, priority) ==
  /\ Idle /\ nextId < MaxRequests /\ MaxStepsOk(max)
  /\ nextId' = nextId + 1
  /\ LET n == InsertPos(priority)
     IN  pending' = IF EnablePriority /\ n > 0
                      THEN InsertAt(pending, n, NewRequest(max, priority, TRUE))
                      ELSE Append(pending, NewRequest(max, priority, TRUE))
  /\ UNCHANGED <<active, completed, model, states, loop, resetAt>>

Rebased(s) == [n \in DOMAIN s |-> [s[n] EXCEPT !.states = NoState, !.rebased = s[n].step]]

\* The states belong to the model that goes, so active and pending drop theirs.
SetModel ==
  /\ Idle /\ model < MaxModels
  /\ model' = model + 1
  /\ states' = [NoState EXCEPT !.model = model + 1]
  /\ active' = Rebased(active)
  /\ pending' = Rebased(pending)
  /\ UNCHANGED <<completed, nextId, loop, resetAt>>

Reset ==
  /\ Idle /\ nextId > resetAt
  /\ pending' = <<>> /\ active' = <<>> /\ completed' = <<>>
  /\ states' = FreshStates
  /\ delivered' = {} /\ dropped' = {} /\ resetAt' = nextId
  /\ UNCHANGED <<nextId, model, turn, responses, began, failures>>

\* A direct user of the engine, through engine_mut.
EngineStep ==
  /\ Idle /\ model > 0
  /\ states' = [states EXCEPT !.of = @ \cup {Engine}]
  /\ UNCHANGED <<pending, active, completed, nextId, model, loop, resetAt>>

-----------------------------------------------------------------------------
(* step *)

Smaller(a, b) == IF a < b THEN a ELSE b

\* Mutant of BatchSize: only whole batches are formed.
BatchSizeFull == IF Len(pending) < MaxBatch - Len(active) THEN 0 ELSE MaxBatch - Len(active)

BatchSize ==
  Smaller(Smaller(MaxBatch, Len(pending)),
          IF Len(active) < MaxBatch THEN MaxBatch - Len(active) ELSE 0)

\* The policy asks for a batch whatever the clock says.
MustForm == pending # <<>> /\ (Len(pending) >= MinBatch \/ active = <<>>)

\* A batch that is not due may be formed because max_wait_ms has passed.
StartStep ==
  /\ Idle /\ (active # <<>> \/ pending # <<>>)
  /\ \E form \in BOOLEAN :
       /\ (MustForm => form) /\ (form => pending # <<>>)
       /\ LET n == IF form THEN BatchSize ELSE 0
          IN  /\ active' = active \o SubSeq(pending, 1, n)
              /\ pending' = SubSeq(pending, n + 1, Len(pending))
  /\ turn' = IF active' # <<>> /\ model > 0 THEN 1 ELSE 0
  /\ began' = IF turn' = 1 THEN active' ELSE <<>>
  /\ responses' = <<>>
  /\ UNCHANGED <<completed, nextId, model, states, delivered, resetAt, faults>>

\* Vec::swap_remove
SwapRemove(s, n) == SubSeq([s EXCEPT ![n] = s[Len(s)]], 1, Len(s) - 1)

\* The states a request goes into the engine with, and those it leaves with.
StatesIn(r) == IF r.states = NoState THEN FreshStates ELSE r.states
StatesOut(r) == [StatesIn(r) EXCEPT !.of = @ \cup {r.id}, !.steps = @ + 1]

\* Mutant of Advanced: the updated state is not put back into the request.
AdvancedStateless(r) == [r EXCEPT !.step = @ + 1]

Advanced(r) == [r EXCEPT !.states = StatesOut(r), !.step = @ + 1]

\* A turn that goes well.  swap_states before and after leave the engine's own
\* states as they were.
Advance ==
  /\ turn \in DOMAIN active
  /\ LET r == Advanced(active[turn])
     IN  IF IsComplete(r)
         THEN /\ active' = SwapRemove(active, turn)
              /\ completed' = Append(completed, [id |-> r.id, steps |-> r.step, max |-> r.max])
              /\ responses' = Append(responses, r.id)
              /\ UNCHANGED turn
         ELSE /\ active' = [active EXCEPT ![turn] = r]
              /\ turn' = turn + 1
              /\ UNCHANGED <<completed, responses>>
  /\ UNCHANGED <<pending, nextId, model, states, history>>

\* The error leaves the loop, and the responses collected so far are dropped.
AbandonLoop ==
  /\ turn \in DOMAIN active /\ failures < MaxFailures
  /\ failures' = failures + 1
  /\ dropped' = dropped \cup ToSet(responses)
  /\ turn' = 0 /\ responses' = <<>> /\ began' = <<>>
  /\ UNCHANGED <<pending, completed, nextId, model, states, delivered, resetAt>>

\* Mutant of Fail: the request is removed before its result is looked at.
FailRemoves ==
  /\ AbandonLoop
  /\ active' = SwapRemove(active, turn)

\* A turn whose engine step fails: the states were taken out of the request and are
\* dropped; the next turn starts from fresh ones, though the step count goes on.
Fail ==
  /\ AbandonLoop
  /\ active' = [active EXCEPT ![turn] = [@ EXCEPT !.states = NoState, !.hurt = TRUE]]

EndStep ==
  /\ turn > Len(active)
  /\ delivered' = delivered \cup ToSet(responses)
  /\ turn' = 0 /\ responses' = <<>> /\ began' = <<>>
  /\ UNCHANGED <<pending, active, completed, nextId, model, states, resetAt, faults>>

Step == StartStep \/ Advance \/ EndStep

Next ==
  \/ \E max \in 0..MaxSeqLen : Submit(max) \/ \E p \in Priorities : SubmitWithPriority(max, p)
  \/ SetModel \/ Reset \/ EngineStep
  \/ Step \/ Fail

Spec == Init /\ [][Next]_vars

\* process_all: step is called again as long as there is work.
FairSpec == Spec /\ WF_vars(Step)

-----------------------------------------------------------------------------
(* Properties *)

HiddenStates == [model : -1..MaxModels, of : SUBSET (-1..MaxRequests), steps : 0..MaxSeqLen]

IsRequest(r) ==
  /\ r.id \in 0..nextId - 1 /\ r.max \in 1..MaxSeqLen /\ r.priority \in Priorities
  /\ r.step \in 0..r.max /\ r.rebased \in 0..r.step
  /\ r.states \in HiddenStates /\ {r.hurt, r.ranked} \subseteq BOOLEAN

\* Every variable keeps its type.
TypeOK ==
  /\ \A r \in ToSet(pending) \cup ToSet(active) \cup ToSet(began) : IsRequest(r)
  /\ \A c \in ToSet(completed) : c.id \in 0..nextId - 1
  /\ nextId \in 0..MaxRequests /\ resetAt \in 0..nextId
  /\ model \in 0..MaxModels
  /\ states \in HiddenStates
  /\ turn \in 0..MaxBatch + 1
  /\ ToSet(responses) \cup delivered \cup dropped \subseteq IdsOf(completed)
  /\ failures \in 0..MaxFailures

\* Since the last reset every request is in exactly one place: queued, in the batch
\* or recorded as completed.
NothingLost ==
  /\ IdsOf(pending) \cup IdsOf(active) \cup IdsOf(completed) = resetAt..nextId - 1
  /\ Len(pending) + Len(active) + Len(completed) = nextId - resetAt

\* "requests never observe each other's history": a state has seen only the inputs
\* of the request that carries it and belongs to the model that is installed, and
\* the engine's own only those of its direct users.
Isolated ==
  /\ \A r \in ToSet(pending) \cup ToSet(active) :
       r.states # NoState => r.states.of \subseteq {r.id} /\ r.states.model = model
  /\ states.of \subseteq {Engine} /\ states.model = model

\* "Each active request is advanced by exactly one autoregressive step": when the
\* loop is over, each request that was there at its start is one step further, in
\* the batch or among the completed.
EachOnce ==
  turn > Len(active) =>
    \A r \in ToSet(began) :
      \/ \E a \in ToSet(active) : a.id = r.id /\ a.step = r.step + 1
      \/ \E c \in ToSet(completed) : c.id = r.id /\ c.steps = r.step + 1

\* Every completed request was returned once, or is about to be, or was in the
\* responses of a call of step that ended in an error.
ReturnedUnlessFailed ==
  /\ IdsOf(completed) = delivered \cup dropped \cup ToSet(responses)
  /\ dropped \cap (delivered \cup ToSet(responses)) = {}

\* "Requests that reach max_steps leave the batch immediately and are returned (and
\* recorded)": every completed request was returned, or is about to be.
CompletedReturned == IdsOf(completed) = delivered \cup ToSet(responses)

\* "against its own hidden state": the state of a request covers every step it took
\* since the model was installed, unless an engine step of it failed.
StateCoversSteps ==
  \A r \in ToSet(active) : r.hurt \/ r.states.steps = r.step - r.rebased

\* A request has a state of its own, and all of it.
StatesOwn == Isolated /\ StateCoversSteps

\* "Enable priority-based scheduling": the requests of submit_with_priority are
\* ordered by priority, and by age within one, whatever submit puts between them;
\* without priorities the whole queue is ordered by age.
QueueOrder ==
  \A m, n \in DOMAIN pending :
    m < n =>
      IF EnablePriority
      THEN pending[m].ranked /\ pending[n].ranked =>
             \/ pending[m].priority > pending[n].priority
             \/ /\ pending[m].priority = pending[n].priority
                /\ pending[m].id < pending[n].id
      ELSE pending[m].id < pending[n].id

\* Types, places, turns, returns and order together.
SchedulerInv == TypeOK /\ NothingLost /\ EachOnce /\ ReturnedUnlessFailed /\ QueueOrder

\* "Process all active and pending requests until completion": once a model is there
\* and engine steps no longer fail, every request completes.
AllComplete ==
  \A i \in 0..MaxRequests - 1 :
    (i < nextId /\ model > 0) ~> (i \in delivered \cup dropped \/ i < resetAt)
=============================================================================
