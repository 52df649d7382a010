--------------------------- MODULE StreamBatcher ---------------------------
(***************************************************************************)
(* kizzasi_inference::streaming::StreamingEngine                           *)
(* (crates/kizzasi-inference/src/streaming.rs): the task predict_stream    *)
(* spawns for a batched stream, its consumer, and the other users of the   *)
(* one engine behind its mutex.                                            *)
(*                                                                         *)
(* The task collects inputs until a batch is full or its latency is over,  *)
(* locks the engine, and steps and sends the batch one input after the     *)
(* other; it keeps the lock while it waits for room in the channel.  Time  *)
(* is abstract: while the task selects, its deadline may pass.  Inputs are *)
(* numbered; a prediction is its input and what the engine was when it was *)
(* made.  Engine steps that fail are predictions like any other.           *)
(***************************************************************************)
EXTENDS Integers, Sequences

CONSTANTS
  BatchSize,       \* batch_size, above 1
  BufferSize,      \* buffer_size
  Adaptive,        \* adaptive_batching
  Callers,         \* other tasks that use the engine
  ConsumerSteps,   \* whether the consumer calls step_async between two reads
  MayDrop,         \* whether the consumer may drop the stream
  MaxInputs,       \* bound: inputs of the source
  MaxCalls         \* bound: calls of the other users of the engine

StreamAssumption ==
  /\ {BatchSize, BufferSize} \subseteq Nat \ {0}
  /\ {MaxInputs, MaxCalls} \subseteq Nat
  /\ {Adaptive, ConsumerSteps, MayDrop} \subseteq BOOLEAN
  /\ Callers \cap {"task", "consumer", "none"} = {}

VARIABLES
  produced, ended,   \* inputs the source has produced; whether it has ended
  taken,             \* inputs the task has taken from the source
  batch, target,     \* batch and target_batch
  late,              \* max_latency has passed since last_process
  pc, then,          \* where the task is; what it does when the batch is processed
  result,            \* the prediction it is sending, <<>> when there is none
  channel, open,     \* the channel; whether its receiver exists
  received,          \* what the consumer has received (history)
  lock,              \* who holds the mutex of the engine
  version,           \* the engine: how often it was used, reset or replaced by others
  calls,             \* calls of other users so far
  upc,               \* where each other user is
  runs               \* batches processed (history)

vars == <<produced, ended, taken, batch, target, late, pc, then, result, channel,
          open, received, lock, version, calls, upc, runs>>
source == <<produced, ended>>
task == <<taken, batch, target, late, pc, then, result, runs>>
users == <<calls, upc>>

Users == Callers \cup {"consumer"}
Steppers == Callers \cup IF ConsumerSteps THEN {"consumer"} ELSE {}   \* who uses the engine

Init ==
  /\ produced = 0 /\ ended = FALSE
  /\ taken = 0 /\ batch = <<>>
  /\ target = IF Adaptive THEN 1 ELSE BatchSize
  /\ late = FALSE
  /\ pc = "select" /\ then = "keep" /\ result = <<>>
  /\ channel = <<>> /\ open = TRUE /\ received = <<>>
  /\ lock = "none" /\ version = 0
  /\ calls = 0 /\ upc = [u \in Users |-> "idle"]
  /\ runs = 0

-----------------------------------------------------------------------------
(* The source *)

Produce ==
  /\ ~ended /\ produced < MaxInputs
  /\ produced' = produced + 1
  /\ UNCHANGED <<ended, task, channel, open, received, lock, version, users>>

EndSource ==
  /\ ~ended
  /\ ended' = TRUE
  /\ UNCHANGED <<produced, task, channel, open, received, lock, version, users>>

-----------------------------------------------------------------------------
(* The task: select *)

\* max_latency has passed: the timer is ready, and elapsed sees it as well.
Tick ==
  /\ pc = "select" /\ ~late
  /\ late' = TRUE
  /\ UNCHANGED <<source, taken, batch, target, pc, then, result, runs, channel, open,
                 received, lock, version, users>>

Keep == "keep"
Double == "double"
Halve == "halve"
Finish == "finish"

TakeInput ==
  /\ pc = "select" /\ taken < produced
  /\ taken' = taken + 1
  /\ batch' = Append(batch, taken + 1)
  /\ LET filled == Len(batch') >= target
     IN  IF filled \/ late
         THEN pc' = "lock" /\ then' = IF Adaptive /\ filled THEN Double ELSE Keep
         ELSE UNCHANGED <<pc, then>>
  /\ UNCHANGED <<source, target, late, result, runs, channel, open, received, lock,
                 version, users>>

\* Mutant of Deadline: a batch that is not full waits on.
DeadlineWaits ==
  /\ pc = "select" /\ late
  /\ late' = FALSE
  /\ UNCHANGED <<source, taken, batch, target, pc, then, result, runs, channel, open,
                 received, lock, version, users>>

\* The timer fires; it is set anew even when there is nothing to process.
Deadline ==
  /\ pc = "select" /\ late
  /\ IF batch # <<>>
     THEN /\ pc' = "lock"
          /\ then' = IF Adaptive /\ Len(batch) < target THEN Halve ELSE Keep
          /\ UNCHANGED late
     ELSE late' = FALSE /\ UNCHANGED <<pc, then>>
  /\ UNCHANGED <<source, taken, batch, target, result, runs, channel, open, received,
                 lock, version, users>>

SourceEnds ==
  /\ pc = "select" /\ ended /\ taken = produced
  /\ pc' = IF batch = <<>> THEN "done" ELSE "lock"
  /\ then' = Finish
  /\ UNCHANGED <<source, taken, batch, target, late, result, runs, channel, open,
                 received, lock, version, users>>

-----------------------------------------------------------------------------
(* The task: process_batch, and what the loop does after it *)

LockEngine ==
  /\ pc = "lock" /\ lock = "none"
  /\ lock' = "task"
  /\ pc' = "step"
  /\ UNCHANGED <<source, taken, batch, target, late, then, result, runs, channel, open,
                 received, version, users>>

StepInput ==
  /\ pc = "step" /\ batch # <<>>
  /\ result' = <<[input |-> Head(batch), version |-> version, run |-> runs]>>
  /\ batch' = Tail(batch)
  /\ pc' = "send"
  /\ UNCHANGED <<source, taken, target, late, then, runs, channel, open, received, lock,
                 version, users>>

\* Mutant of Send: a full channel loses the prediction.
SendLossy ==
  /\ pc = "send" /\ open
  /\ channel' = IF Len(channel) < BufferSize THEN channel \o result ELSE channel
  /\ result' = <<>>
  /\ pc' = "step"
  /\ UNCHANGED <<source, taken, batch, target, late, then, runs, open, received, lock,
                 version, users>>

Send ==
  /\ pc = "send" /\ open /\ Len(channel) < BufferSize
  /\ channel' = channel \o result
  /\ result' = <<>>
  /\ pc' = "step"
  /\ UNCHANGED <<source, taken, batch, target, late, then, runs, open, received, lock,
                 version, users>>

\* The receiver is gone: the rest of the batch is drained away.
SendFails ==
  /\ pc = "send" /\ ~open
  /\ batch' = <<>> /\ result' = <<>>
  /\ pc' = "step"
  /\ UNCHANGED <<source, taken, target, late, then, runs, channel, open, received, lock,
                 version, users>>

Smaller(a, b) == IF a < b THEN a ELSE b

NewTarget ==
  IF then = Double THEN Smaller(2 * target, BatchSize)
  ELSE IF then # Halve THEN target
  ELSE IF target < 2 THEN 1 ELSE target \div 2

\* Mutant of Processed: the guard of the lock outlives the batch.
ProcessedHolds ==
  /\ pc = "step" /\ batch = <<>>
  /\ lock' = IF then = Finish THEN "none" ELSE lock
  /\ late' = FALSE
  /\ target' = NewTarget
  /\ pc' = IF then = Finish THEN "done" ELSE "select"
  /\ then' = Keep /\ runs' = runs + 1
  /\ UNCHANGED <<source, taken, batch, result, channel, open, received, version,
                 users>>

Processed ==
  /\ pc = "step" /\ batch = <<>>
  /\ lock' = "none"
  /\ late' = FALSE
  /\ target' = NewTarget
  /\ pc' = IF then = Finish THEN "done" ELSE "select"
  /\ then' = Keep /\ runs' = runs + 1
  /\ UNCHANGED <<source, taken, batch, result, channel, open, received, version,
                 users>>

-----------------------------------------------------------------------------
(* The consumer *)

Receive ==
  /\ open /\ channel # <<>> /\ upc["consumer"] = "idle"
  /\ received' = Append(received, Head(channel))
  /\ channel' = Tail(channel)
  /\ upc' = [upc EXCEPT !["consumer"] = IF ConsumerSteps THEN "want" ELSE "idle"]
  /\ UNCHANGED <<source, task, open, lock, version, calls>>

\* The task has dropped its sender and the channel is empty.
ReceiveEnd ==
  /\ open /\ channel = <<>> /\ pc = "done" /\ upc["consumer"] = "idle"
  /\ upc' = [upc EXCEPT !["consumer"] = "ended"]
  /\ UNCHANGED <<source, task, channel, open, received, lock, version, calls>>

DropStream ==
  /\ MayDrop /\ open /\ upc["consumer"] = "idle"
  /\ open' = FALSE
  /\ channel' = <<>>
  /\ UNCHANGED <<source, task, received, lock, version, users>>

-----------------------------------------------------------------------------
(* Other users: step_async, step_async_with, rollout_async, reset_async and     *)
(* set_model lock the engine for as long as they use it (set_model once before, *)
(* to read its configuration, which changes nothing).                           *)

Want(u) ==
  /\ u \in Callers /\ upc[u] = "idle" /\ calls < MaxCalls
  /\ calls' = calls + 1
  /\ upc' = [upc EXCEPT ![u] = "want"]
  /\ UNCHANGED <<source, task, channel, open, received, lock, version>>

UserLock(u) ==
  /\ upc[u] = "want" /\ lock = "none"
  /\ lock' = u
  /\ upc' = [upc EXCEPT ![u] = "use"]
  /\ UNCHANGED <<source, task, channel, open, received, version, calls>>

UserUse(u) ==
  /\ upc[u] = "use"
  /\ version' = version + 1
  /\ lock' = "none"
  /\ upc' = [upc EXCEPT ![u] = "idle"]
  /\ UNCHANGED <<source, task, channel, open, received, calls>>

-----------------------------------------------------------------------------
Input == TakeInput \/ SourceEnds
Work == StepInput \/ Send \/ SendFails \/ Processed

Next ==
  \/ Produce \/ EndSource
  \/ Tick \/ Input \/ Deadline
  \/ LockEngine \/ Work
  \/ Receive \/ ReceiveEnd \/ DropStream
  \/ \E u \in Steppers : Want(u) \/ UserLock(u) \/ UserUse(u)

Spec == Init /\ [][Next]_vars

\* Time passes, tasks run, select favours neither of its branches for ever, the
\* mutex is first come first served, and the consumer keeps reading.
Fairness ==
  /\ WF_vars(Tick) /\ WF_vars(Input) /\ WF_vars(Deadline)
  /\ SF_vars(LockEngine) /\ WF_vars(Work)
  /\ WF_vars(Receive) /\ WF_vars(ReceiveEnd)
  /\ \A u \in Steppers : SF_vars(UserLock(u)) /\ WF_vars(UserUse(u))

FairSpec == Spec /\ Fairness

-----------------------------------------------------------------------------
(* Properties *)

Predictions == [input : 1..MaxInputs, version : Nat, run : Nat]

\* Every variable keeps its type.
TypeOK ==
  /\ produced \in 0..MaxInputs /\ taken \in 0..produced /\ ended \in BOOLEAN
  /\ batch \in Seq(1..MaxInputs)
  /\ target \in 1..BatchSize /\ late \in BOOLEAN
  /\ pc \in {"select", "lock", "step", "send", "done"}
  /\ then \in {Keep, Double, Halve, Finish}
  /\ result \in Seq(Predictions) /\ Len(result) <= 1
  /\ channel \in Seq(Predictions) /\ Len(channel) <= BufferSize
  /\ received \in Seq(Predictions) /\ open \in BOOLEAN
  /\ lock \in Users \cup {"task", "none"}
  /\ version \in Nat /\ calls \in 0..MaxCalls /\ runs \in 0..MaxInputs
  /\ upc \in [Users -> {"idle", "want", "use", "ended"}]

Inputs(s) == [n \in DOMAIN s |-> s[n].input]

\* As long as the receiver is there, the inputs taken from the source are, in order,
\* those received, those in the channel, the one that is sent and those of the batch.
InOrder ==
  open => Inputs(received \o channel \o result) \o batch = [n \in 1..taken |-> n]

\* A full batch is never parked on the timer, and the batch never exceeds its target.
FullNeverParks ==
  /\ pc = "select" => Len(batch) < target
  /\ Len(batch) <= target

\* Types, order and batch sizes together.
StreamInv == TypeOK /\ InOrder /\ FullNeverParks

\* Whoever waits for the engine gets it.
UserReturns == \A u \in Steppers : upc[u] = "want" ~> upc[u] # "want"

\* Every input is predicted, in a batch that fills or one whose latency is over, and
\* the consumer receives it; after the last one the stream ends.
AllDelivered ==
  /\ \A n \in 1..MaxInputs : (taken >= n /\ open) ~> (Len(received) >= n \/ ~open)
  /\ (ended /\ open) ~> (upc["consumer"] = "ended" \/ ~open)
=============================================================================
