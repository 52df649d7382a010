------------------------ MODULE DistributedPredictor ------------------------
(***************************************************************************)
(* kizzasi::distributed::DistributedPredictor                              *)
(* (crates/kizzasi/src/distributed.rs).                                    *)
(*                                                                         *)
(* predict runs in many tasks at once (it takes &self).  Each call selects *)
(* a worker from what it read of the workers' flags and counters, sends    *)
(* the request into that worker's bounded channel and waits for the        *)
(* answer on a channel of its own; failures are retried.  A worker is a    *)
(* task that takes messages first in, first out; it may fail to start and  *)
(* it may die, which drops its channel.  set_guardrails takes &mut self,   *)
(* so it runs when no predict does.                                        *)
(*                                                                         *)
(* The locks around the counters and flags are taken one by one, so every  *)
(* read and every write of them is a step.  A prediction is abstracted to  *)
(* whether it succeeded, a set of guardrails to its version: 0 is the one  *)
(* the workers were built with, and each call of set_guardrails or         *)
(* clear_guardrails makes a new one.                                       *)
(***************************************************************************)
EXTENDS Integers, Sequences, FiniteSets

CONSTANTS
  Callers,       \* tasks that call predict
  NumWorkers,    \* DistributedConfig::num_workers
  Capacity,      \* max_pending_per_worker.max(1)
  MaxAttempts,   \* max_retries when auto_retry is set, else 1
  Strategies,    \* the strategies a deployment may be configured with
  CounterSpan,   \* values of the round-robin counter, 2^64 in the code
  AllowCancel,   \* may a predict or set_guardrails future be dropped?
  StepMayFail,   \* may predictor.step return an error?
  MaxCalls,      \* bound: how many times predict is called in all
  MaxUpdates     \* bound: how many times the guardrails are replaced

Workers == 1..NumWorkers

\* Whose request it is once the call was dropped.
NoOne == "nobody"

PredictorAssumption ==
  /\ IsFiniteSet(Callers) /\ NoOne \notin Callers
  /\ NumWorkers \in Nat
  /\ Capacity \in Nat \ {0}
  /\ MaxAttempts \in Nat
  /\ Strategies \subseteq {"RoundRobin", "LeastLoaded", "Random"}
  /\ CounterSpan \in Nat \ {0}
  /\ AllowCancel \in BOOLEAN
  /\ StepMayFail \in BOOLEAN
  /\ MaxCalls \in Nat
  /\ MaxUpdates \in Nat

VARIABLES
  pc,         \* where each caller is suspended
  loc,        \* the local variables of its call of predict
  answer,     \* what its response channel holds
  current,    \* current_worker
  healthy,    \* WorkerHandle::is_healthy
  pending,    \* WorkerHandle::pending_count
  queue,      \* the worker's channel
  wpc,        \* where each worker task is
  job,        \* the request a worker is running
  installed,  \* version of the guardrails of a worker's predictor
  rules,      \* version of DistributedPredictor::guardrails
  bcast,      \* the next worker the broadcast sends to, 0 when none runs
  calls,      \* calls of predict so far
  strategy,   \* DistributedConfig::strategy, fixed at construction
  dropped,    \* slots held by calls whose future was dropped (history)
  cut         \* was a broadcast dropped before its end? (history)

callVars == <<pc, loc, answer>>
workerVars == <<queue, wpc, job, installed>>
ruleVars == <<rules, bcast>>
sideVars == <<strategy, dropped, cut>>
vars == <<callVars, current, healthy, pending, workerVars, ruleVars, calls,
          sideVars>>

\* A request carries the caller that waits for its answer and the guardrails in force
\* when it was sent (history).
Request(c, v) == [kind |-> "Predict", from |-> c, version |-> v]
Control(v) == [kind |-> "SetGuardrails", from |-> NoOne, version |-> v]
NoJob == Request(NoOne, 0)

\* attempts; the indices read as healthy; the next worker, or position of view,
\* to read; the selected worker; min_load; workers found dead (history).
NoLocals == [attempts |-> 0, view |-> <<>>, at |-> 0, target |-> 0, least |-> 0,
             gone |-> {}]

Target(c) == loc[c].target

-----------------------------------------------------------------------------
Init ==
  /\ pc = [c \in Callers |-> "ready"]
  /\ loc = [c \in Callers |-> NoLocals]
  /\ answer = [c \in Callers |-> "none"]
  /\ current = 0
  /\ healthy = [w \in Workers |-> TRUE]
  /\ pending = [w \in Workers |-> 0]
  /\ queue = [w \in Workers |-> <<>>]
  /\ wpc = [w \in Workers |-> "starting"]
  /\ job = [w \in Workers |-> NoJob]
  /\ installed = [w \in Workers |-> 0]
  /\ rules = 0
  /\ bcast = 0
  /\ calls = 0
  /\ strategy \in Strategies
  /\ dropped = [w \in Workers |-> 0]
  /\ cut = FALSE

\* A caller at one of these holds a slot of its target's pending count.
CountedPcs == {"send", "full", "closed", "await", "settle"}

Goto(c, label) == pc' = [pc EXCEPT ![c] = label]

Leave(c) ==
  /\ Goto(c, "ready")
  /\ loc' = [loc EXCEPT ![c] = NoLocals]
  /\ answer' = [answer EXCEPT ![c] = "none"]

-----------------------------------------------------------------------------
(* predict: select_worker *)

Begin(c) ==
  /\ pc[c] = "ready" /\ bcast = 0
  /\ calls < MaxCalls
  /\ calls' = calls + 1
  /\ Goto(c, "scan")
  /\ loc' = [loc EXCEPT ![c] = [NoLocals EXCEPT !.attempts = 1, !.at = 1]]
  /\ UNCHANGED <<sideVars, answer, current, healthy, pending, workerVars, ruleVars>>

\* healthy_indices reads one flag.
Scan(c) ==
  /\ pc[c] = "scan" /\ loc[c].at \in Workers
  /\ loc' = [loc EXCEPT ![c].at = @ + 1,
                        ![c].view = IF healthy[loc[c].at] THEN Append(@, loc[c].at) ELSE @]
  /\ UNCHANGED <<sideVars, pc, answer, current, healthy, pending, workerVars, ruleVars, calls>>

Scanned(c) == pc[c] = "scan" /\ loc[c].at > NumWorkers

\* "No healthy workers available" leaves predict at once, whatever the attempt.
NoneHealthy(c) ==
  /\ Scanned(c) /\ loc[c].view = <<>>
  /\ Leave(c)
  /\ UNCHANGED <<sideVars, current, healthy, pending, workerVars, ruleVars, calls>>

Select(c, w) ==
  /\ loc' = [loc EXCEPT ![c].target = w, ![c].view = <<>>, ![c].at = 0]
  /\ Goto(c, "reserve")

PickRoundRobin(c) ==
  /\ strategy = "RoundRobin"
  /\ Scanned(c) /\ loc[c].view # <<>>
  /\ Select(c, loc[c].view[(current % Len(loc[c].view)) + 1])
  /\ current' = (current + 1) % CounterSpan
  /\ UNCHANGED <<sideVars, answer, healthy, pending, workerVars, ruleVars, calls>>

PickRandom(c) ==
  /\ strategy = "Random"
  /\ Scanned(c)
  /\ \E i \in DOMAIN loc[c].view : Select(c, loc[c].view[i])
  /\ UNCHANGED <<sideVars, answer, current, healthy, pending, workerVars, ruleVars, calls>>

\* LeastLoaded reads the counters of the healthy workers, one at a time, and
\* keeps the first of the smallest; 0 stands for usize::MAX, nothing read yet.
StartLoads(c) ==
  /\ strategy = "LeastLoaded"
  /\ Scanned(c) /\ loc[c].view # <<>>
  /\ loc' = [loc EXCEPT ![c].at = 1, ![c].target = 0]
  /\ Goto(c, "loads")
  /\ UNCHANGED <<sideVars, answer, current, healthy, pending, workerVars, ruleVars, calls>>

ReadLoad(c) ==
  /\ pc[c] = "loads" /\ loc[c].at \in DOMAIN loc[c].view
  /\ LET w == loc[c].view[loc[c].at]
         better == Target(c) = 0 \/ pending[w] < loc[c].least
     IN  loc' = [loc EXCEPT ![c].at = @ + 1,
                            ![c].target = IF better THEN w ELSE @,
                            ![c].least = IF better THEN pending[w] ELSE @]
  /\ UNCHANGED <<sideVars, pc, answer, current, healthy, pending, workerVars, ruleVars, calls>>

PickLeastLoaded(c) ==
  /\ pc[c] = "loads" /\ loc[c].at \notin DOMAIN loc[c].view
  /\ loc' = [loc EXCEPT ![c].view = <<>>, ![c].at = 0, ![c].least = 0]
  /\ Goto(c, "reserve")
  /\ UNCHANGED <<sideVars, answer, current, healthy, pending, workerVars, ruleVars, calls>>

-----------------------------------------------------------------------------
(* predict: send_request, the answer, and the retry loop *)

\* A failed attempt returns the error when the attempts are used up, and takes
\* up the loop again otherwise.
Retry(c, gone) ==
  \/ loc[c].attempts >= MaxAttempts /\ Leave(c)
  \/ /\ loc[c].attempts < MaxAttempts
     /\ loc' = [loc EXCEPT ![c] = [NoLocals EXCEPT !.attempts = loc[c].attempts + 1,
                                                   !.at = 1, !.gone = gone]]
     /\ answer' = [answer EXCEPT ![c] = "none"]
     /\ Goto(c, "scan")

\* send_request counts the request before it is in the channel.
Reserve(c) ==
  /\ pc[c] = "reserve"
  /\ pending' = [pending EXCEPT ![Target(c)] = @ + 1]
  /\ Goto(c, "send")
  /\ UNCHANGED <<sideVars, loc, answer, current, healthy, workerVars, ruleVars, calls>>

TrySendOk(c) ==
  /\ pc[c] = "send"
  /\ wpc[Target(c)] # "dead" /\ Len(queue[Target(c)]) < Capacity
  /\ queue' = [queue EXCEPT ![Target(c)] = Append(@, Request(c, rules))]
  /\ Goto(c, "await")
  /\ UNCHANGED <<sideVars, loc, answer, current, healthy, pending, wpc, job, installed,
                 ruleVars, calls>>

\* TrySendError::Full and TrySendError::Closed.
TrySendErr(c) ==
  /\ pc[c] = "send"
  /\ \/ wpc[Target(c)] = "dead" /\ Goto(c, "closed")
     \/ /\ wpc[Target(c)] # "dead" /\ Len(queue[Target(c)]) >= Capacity
        /\ Goto(c, "full")
  /\ UNCHANGED <<sideVars, loc, answer, current, healthy, pending, workerVars, ruleVars, calls>>

\* decrement_pending
Release(w) == pending' = [pending EXCEPT ![w] = IF @ > 0 THEN @ - 1 ELSE 0]

\* Mutant of Saturated: the reserved slot is kept.
SaturatedKeepsSlot(c) ==
  /\ pc[c] = "full"
  /\ Retry(c, loc[c].gone)
  /\ UNCHANGED <<sideVars, current, healthy, pending, workerVars, ruleVars, calls>>

Saturated(c) ==
  /\ pc[c] = "full"
  /\ Release(Target(c))
  /\ Retry(c, loc[c].gone)
  /\ UNCHANGED <<sideVars, current, healthy, workerVars, ruleVars, calls>>

Closed(c) ==
  /\ pc[c] = "closed"
  /\ Release(Target(c))
  /\ Goto(c, "mark")
  /\ UNCHANGED <<sideVars, loc, answer, current, healthy, workerVars, ruleVars, calls>>

\* Mutant of Mark: the retry loop is taken up without the mark.
MarkForgotten(c) ==
  /\ pc[c] = "mark"
  /\ Retry(c, loc[c].gone \cup {Target(c)})
  /\ UNCHANGED <<sideVars, current, healthy, pending, workerVars, ruleVars, calls>>

\* mark_unhealthy, after a closed channel or a lost answer.
Mark(c) ==
  /\ pc[c] = "mark"
  /\ healthy' = [healthy EXCEPT ![Target(c)] = FALSE]
  /\ Retry(c, loc[c].gone \cup {Target(c)})
  /\ UNCHANGED <<sideVars, current, pending, workerVars, ruleVars, calls>>

Receive(c) ==
  /\ pc[c] = "await" /\ answer[c] # "none"
  /\ Goto(c, "settle")
  /\ UNCHANGED <<sideVars, loc, answer, current, healthy, pending, workerVars, ruleVars, calls>>

SettleOk(c) ==
  /\ pc[c] = "settle" /\ answer[c] = "ok"
  /\ Release(Target(c))
  /\ Leave(c)
  /\ UNCHANGED <<sideVars, current, healthy, workerVars, ruleVars, calls>>

SettleErr(c) ==
  /\ pc[c] = "settle" /\ answer[c] = "err"
  /\ Release(Target(c))
  /\ Retry(c, loc[c].gone)
  /\ UNCHANGED <<sideVars, current, healthy, workerVars, ruleVars, calls>>

SettleLost(c) ==
  /\ pc[c] = "settle" /\ answer[c] = "lost"
  /\ Release(Target(c))
  /\ Goto(c, "mark")
  /\ UNCHANGED <<sideVars, loc, answer, current, healthy, workerVars, ruleVars, calls>>

\* The caller drops the future of predict at an await; what it sent stays in the
\* channel, with nobody to take the answer.  try_send is not awaited, and it follows
\* the counter at once: at "send" nothing can be dropped.
Cancel(c) ==
  /\ AllowCancel /\ pc[c] \notin {"ready", "send"}
  /\ Leave(c)
  /\ dropped' = IF pc[c] \in CountedPcs
                  THEN [dropped EXCEPT ![Target(c)] = @ + 1] ELSE dropped
  /\ LET Orphan(m) == IF m.from = c THEN [m EXCEPT !.from = NoOne] ELSE m
     IN  /\ queue' = [w \in Workers |-> [i \in DOMAIN queue[w] |-> Orphan(queue[w][i])]]
         /\ job' = [w \in Workers |-> Orphan(job[w])]
  /\ UNCHANGED <<strategy, cut, current, healthy, pending, wpc, installed, ruleVars, calls>>

-----------------------------------------------------------------------------
(* worker_task *)

WorkerStarts(w) ==
  /\ wpc[w] = "starting"
  /\ wpc' = [wpc EXCEPT ![w] = "idle"]
  /\ UNCHANGED <<sideVars, callVars, current, healthy, pending, queue, job, installed,
                 ruleVars, calls>>

\* The predictor cannot be created; the task returns after this.
WorkerCannotStart(w) ==
  /\ wpc[w] = "starting"
  /\ healthy' = [healthy EXCEPT ![w] = FALSE]
  /\ wpc' = [wpc EXCEPT ![w] = "stopping"]
  /\ UNCHANGED <<sideVars, callVars, current, pending, queue, job, installed, ruleVars,
                 calls>>

\* The task ends, or panics in the predictor: its channel is dropped with the
\* requests in it, and their response channels with them.
WorkerDies(w) ==
  /\ wpc[w] \in {"stopping", "busy"}
  /\ wpc' = [wpc EXCEPT ![w] = "dead"]
  /\ LET lost == {queue[w][i].from : i \in DOMAIN queue[w]} \cup {job[w].from}
     IN  answer' = [c \in Callers |-> IF c \in lost THEN "lost" ELSE answer[c]]
  /\ queue' = [queue EXCEPT ![w] = <<>>]
  /\ job' = [job EXCEPT ![w] = NoJob]
  /\ UNCHANGED <<sideVars, pc, loc, current, healthy, pending,
                 installed, ruleVars, calls>>

TakeRequest(w) ==
  /\ wpc[w] = "idle" /\ queue[w] # <<>>
  /\ Head(queue[w]).kind = "Predict"
  /\ job' = [job EXCEPT ![w] = Head(queue[w])]
  /\ queue' = [queue EXCEPT ![w] = Tail(@)]
  /\ wpc' = [wpc EXCEPT ![w] = "busy"]
  /\ UNCHANGED <<sideVars, callVars, current, healthy, pending, installed, ruleVars, calls>>

\* Mutant of TakeGuardrails: the message is taken and the predictor not changed.
TakeGuardrailsIgnored(w) ==
  /\ wpc[w] = "idle" /\ queue[w] # <<>>
  /\ Head(queue[w]).kind = "SetGuardrails"
  /\ queue' = [queue EXCEPT ![w] = Tail(@)]
  /\ UNCHANGED <<sideVars, callVars, current, healthy, pending, wpc, job, installed,
                 ruleVars, calls>>

TakeGuardrails(w) ==
  /\ wpc[w] = "idle" /\ queue[w] # <<>>
  /\ Head(queue[w]).kind = "SetGuardrails"
  /\ installed' = [installed EXCEPT ![w] = Head(queue[w]).version]
  /\ queue' = [queue EXCEPT ![w] = Tail(@)]
  /\ UNCHANGED <<sideVars, callVars, current, healthy, pending, wpc, job, ruleVars, calls>>

\* predictor.step returns and the result is sent to whoever still waits.
Answer(w) ==
  /\ wpc[w] = "busy"
  /\ \E result \in IF StepMayFail THEN {"ok", "err"} ELSE {"ok"} :
       answer' = [c \in Callers |-> IF c = job[w].from THEN result ELSE answer[c]]
  /\ job' = [job EXCEPT ![w] = NoJob]
  /\ wpc' = [wpc EXCEPT ![w] = "idle"]
  /\ UNCHANGED <<sideVars, pc, loc, current, healthy, pending,
                 queue, installed, ruleVars, calls>>

-----------------------------------------------------------------------------
(* broadcast_guardrails *)

\* The coordinator's own field changes first; without workers there is nothing more to do.
BeginBroadcast ==
  /\ bcast = 0 /\ rules < MaxUpdates
  /\ \A c \in Callers : pc[c] = "ready"
  /\ rules' = rules + 1
  /\ bcast' = IF NumWorkers = 0 THEN 0 ELSE 1
  /\ UNCHANGED <<sideVars, callVars, current, healthy, pending, workerVars, calls>>

NextWorker == bcast' = IF bcast = NumWorkers THEN 0 ELSE bcast + 1

\* send_control waits until the channel has room.
BroadcastSend ==
  /\ bcast \in Workers /\ wpc[bcast] # "dead"
  /\ Len(queue[bcast]) < Capacity
  /\ queue' = [queue EXCEPT ![bcast] = Append(@, Control(rules))]
  /\ NextWorker
  /\ UNCHANGED <<sideVars, callVars, current, healthy, pending, wpc, job, installed, rules,
                 calls>>

BroadcastFails ==
  /\ bcast \in Workers /\ wpc[bcast] = "dead"
  /\ healthy' = [healthy EXCEPT ![bcast] = FALSE]
  /\ NextWorker
  /\ UNCHANGED <<sideVars, callVars, current, pending, workerVars, rules, calls>>

CancelBroadcast ==
  /\ AllowCancel /\ bcast # 0
  /\ bcast' = 0
  /\ cut' = TRUE
  /\ UNCHANGED <<strategy, dropped, callVars, current, healthy, pending, workerVars, rules, calls>>

-----------------------------------------------------------------------------
Predict(c) ==
  \/ Scan(c) \/ NoneHealthy(c)
  \/ PickRoundRobin(c) \/ PickRandom(c)
  \/ StartLoads(c) \/ ReadLoad(c) \/ PickLeastLoaded(c)
  \/ Reserve(c) \/ TrySendOk(c) \/ TrySendErr(c)
  \/ Saturated(c) \/ Closed(c) \/ Mark(c)
  \/ Receive(c) \/ SettleOk(c) \/ SettleErr(c) \/ SettleLost(c)

Work(w) == WorkerStarts(w) \/ TakeRequest(w) \/ TakeGuardrails(w) \/ Answer(w)

Fail(w) == WorkerCannotStart(w) \/ WorkerDies(w)

Broadcast == BroadcastSend \/ BroadcastFails

\* All calls have been made and nothing is on its way.
Finished ==
  /\ calls = MaxCalls /\ bcast = 0 /\ rules = MaxUpdates
  /\ \A c \in Callers : pc[c] = "ready"
  /\ UNCHANGED vars

Next ==
  \/ Finished
  \/ \E c \in Callers : Begin(c) \/ Predict(c) \/ Cancel(c)
  \/ \E w \in Workers : Work(w) \/ Fail(w)
  \/ BeginBroadcast \/ Broadcast \/ CancelBroadcast

Spec == Init /\ [][Next]_vars

\* The runtime polls every task that can move; a task that panicked or could not
\* create its predictor is unwound.  Nothing forces a failure, a call or a
\* cancellation.
Fairness ==
  /\ \A c \in Callers : WF_vars(Predict(c))
  /\ \A w \in Workers : WF_vars(Work(w))
  /\ \A w \in Workers : WF_vars(wpc[w] = "stopping" /\ WorkerDies(w))
  /\ WF_vars(Broadcast)

FairSpec == Spec /\ Fairness

-----------------------------------------------------------------------------
(* Properties *)

CallerPcs == {"ready", "scan", "loads", "reserve", "send", "full", "closed",
              "mark", "await", "settle"}

Messages == [kind : {"Predict", "SetGuardrails"}, from : Callers \cup {NoOne},
             version : 0..MaxUpdates]

\* Every variable keeps its type.
TypeOK ==
  /\ pc \in [Callers -> CallerPcs]
  /\ loc \in [Callers -> [attempts : Nat, view : Seq(Workers), at : Nat,
                          target : 0..NumWorkers, least : Nat, gone : SUBSET Workers]]
  /\ answer \in [Callers -> {"none", "ok", "err", "lost"}]
  /\ current \in 0..(CounterSpan - 1)
  /\ healthy \in [Workers -> BOOLEAN]
  /\ pending \in [Workers -> Nat]
  /\ queue \in [Workers -> Seq(Messages)]
  /\ wpc \in [Workers -> {"starting", "idle", "busy", "stopping", "dead"}]
  /\ job \in [Workers -> Messages]
  /\ installed \in [Workers -> 0..MaxUpdates]
  /\ rules \in 0..MaxUpdates
  /\ bcast \in 0..NumWorkers
  /\ calls \in 0..MaxCalls
  /\ strategy \in Strategies
  /\ dropped \in [Workers -> Nat]
  /\ cut \in BOOLEAN

\* pending_count is exactly the number of calls that reserved a slot of this
\* worker and have not settled, and of those whose future was dropped before
\* they could: "Exactly one decrement per accepted request" otherwise.
PendingExact ==
  \A w \in Workers :
    pending[w] = dropped[w]
      + Cardinality({c \in Callers : pc[c] \in CountedPcs /\ Target(c) = w})

InFlight(w) ==
  Cardinality({i \in DOMAIN queue[w] : queue[w][i].kind = "Predict"})
    + (IF wpc[w] = "busy" THEN 1 ELSE 0)

\* "Reserve the slot before enqueuing so pending_count never undercounts a
\* request that is already in flight", dropped futures included.
NeverUndercounts == \A w \in Workers : InFlight(w) <= pending[w]

\* Types and counters together.
SlotsInv == TypeOK /\ PendingExact /\ NeverUndercounts

\* A worker taken out of rotation is gone: nothing puts it back, so one that is
\* merely full or that answers with errors must stay in.  And a call that found a
\* worker dead does not select it again: the retry reads the flags after the mark.
DeadNotRetried ==
  /\ \A w \in Workers : ~healthy[w] => wpc[w] \in {"stopping", "dead"}
  /\ \A c \in Callers : Target(c) \notin loc[c].gone \/ pc[c] = "mark"

\* A request runs under the guardrails the coordinator held when it was sent,
\* whatever was queued, full or dead at the time of the broadcast, unless the
\* future of a broadcast was dropped half way.
ServedUnderSet ==
  cut \/ \A w \in Workers : wpc[w] = "busy" => installed[w] = job[w].version

\* Every call of predict returns, whatever fails, and so does every broadcast.
CallsReturn ==
  /\ \A c \in Callers : pc[c] # "ready" ~> pc[c] = "ready"
  /\ bcast # 0 ~> bcast = 0

\* "the counter tracks the real in-flight depth that LeastLoaded relies on":
\* when no call is running, a worker with nothing to do is counted as free.
PendingDrains ==
  (\A c \in Callers : pc[c] = "ready") =>
    \A w \in Workers : wpc[w] = "idle" /\ InFlight(w) = 0 => pending[w] = 0
=============================================================================
