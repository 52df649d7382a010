---------------------------- MODULE SignalQueue ----------------------------
(***************************************************************************)
(* kizzasi_io::lockfree::SignalQueue over LockFreeQueue                    *)
(* (crates/kizzasi-io/src/lockfree.rs).                                    *)
(*                                                                         *)
(* A producer writes blocks of samples, a consumer reads batches of a      *)
(* fixed length.  Every access to the bounded queue and to a counter is    *)
(* an atomic step; the methods are sequences of them.  Samples are         *)
(* numbered.  The bounded queue itself is the array queue of crossbeam.    *)
(***************************************************************************)
EXTENDS Integers, Sequences, FiniteSets, Functions

CONSTANTS
  Capacity,    \* capacity of the queue
  BatchLen,    \* batch_size
  Producers, Consumers,
  Blocks,      \* lengths of the blocks producers write
  MaxSamples,  \* bound: samples written
  MaxPadded    \* bound: no batch is read after this many were padded

\* The parameters it is meant for.
SignalAssumption ==
  /\ {Capacity, BatchLen} \subseteq Nat \ {0} /\ {MaxSamples, MaxPadded} \subseteq Nat
  /\ Blocks \subseteq Nat \ {0} /\ IsFiniteSet(Producers)

VARIABLES
  queue,              \* the bounded queue
  dropped,            \* dropped_count
  overruns,           \* overrun_count
  underruns,          \* underrun_count
  next,               \* samples the producers have tried to write
  left, missed,       \* of each producer: samples left in its block, its local overruns
  cpc, batch,         \* of each consumer: where it is, the samples of its batch
  heard,              \* samples popped, in that order (history)
  lost,               \* samples dropped (history)
  padded,             \* batches that were padded (history)
  rpc,                \* where reset_stats is
  cleared             \* whether reset_stats was ever called (history)

vars == <<queue, dropped, overruns, underruns, next, left, missed, cpc, batch, heard,
          lost, padded, rpc, cleared>>
producing == <<next, left, missed, lost>>
consuming == <<cpc, batch, heard, padded>>
resetting == <<rpc, cleared>>

\* The sum of a count of each producer.
Total(count) == Cardinality(UNION {{p} \X (1..count[p]) : p \in Producers})

Init ==
  /\ queue = <<>>
  /\ dropped = 0 /\ overruns = 0 /\ underruns = 0
  /\ next = 0
  /\ left = [p \in Producers |-> 0] /\ missed = [p \in Producers |-> 0]
  /\ cpc = [c \in Consumers |-> "idle"] /\ batch = [c \in Consumers |-> <<>>]
  /\ heard = <<>> /\ lost = {} /\ padded = 0
  /\ rpc = "idle" /\ cleared = FALSE

-----------------------------------------------------------------------------
(* write_samples *)

StartWrite(p, n) ==
  /\ left[p] = 0 /\ missed[p] = 0
  /\ next + n + Total(left) <= MaxSamples
  /\ left' = [left EXCEPT ![p] = n]
  /\ UNCHANGED <<queue, dropped, overruns, underruns, next, missed, lost, consuming, resetting>>

\* try_push: a full queue drops the sample and counts it.
PushSample(p) ==
  /\ left[p] > 0 /\ Len(queue) < Capacity
  /\ next' = next + 1
  /\ queue' = Append(queue, next + 1)
  /\ left' = [left EXCEPT ![p] = @ - 1]
  /\ UNCHANGED <<dropped, overruns, underruns, missed, lost, consuming, resetting>>

\* Mutant of DropSample: the drop is not counted in the call.
DropUnnoticed(p) ==
  /\ left[p] > 0 /\ Len(queue) = Capacity
  /\ next' = next + 1
  /\ dropped' = dropped + 1
  /\ lost' = lost \cup {next + 1}
  /\ left' = [left EXCEPT ![p] = @ - 1]
  /\ UNCHANGED <<queue, overruns, underruns, missed, consuming, resetting>>

DropSample(p) ==
  /\ left[p] > 0 /\ Len(queue) = Capacity
  /\ next' = next + 1
  /\ dropped' = dropped + 1
  /\ lost' = lost \cup {next + 1}
  /\ left' = [left EXCEPT ![p] = @ - 1]
  /\ missed' = [missed EXCEPT ![p] = @ + 1]
  /\ UNCHANGED <<queue, overruns, underruns, consuming, resetting>>

\* The overruns of the block are added when it is written.
CountOverruns(p) ==
  /\ left[p] = 0 /\ missed[p] > 0
  /\ overruns' = overruns + missed[p]
  /\ missed' = [missed EXCEPT ![p] = 0]
  /\ UNCHANGED <<queue, dropped, underruns, next, left, lost, consuming, resetting>>

-----------------------------------------------------------------------------
(* read_batch *)

\* The level is read and an underrun counted before anything is popped.
CheckLevel(c) ==
  /\ cpc[c] = "idle" /\ padded < MaxPadded
  /\ underruns' = IF Len(queue) < BatchLen THEN underruns + 1 ELSE underruns
  /\ cpc' = [cpc EXCEPT ![c] = "pop"]
  /\ UNCHANGED <<queue, dropped, overruns, producing, batch, heard, padded, resetting>>

PopSample(c) ==
  /\ cpc[c] = "pop" /\ Len(batch[c]) < BatchLen /\ queue # <<>>
  /\ batch' = [batch EXCEPT ![c] = Append(@, Head(queue))]
  /\ heard' = Append(heard, Head(queue))
  /\ queue' = Tail(queue)
  /\ UNCHANGED <<dropped, overruns, underruns, producing, cpc, padded, resetting>>

\* The batch is full, or the queue is empty and it is padded with zeros.
ReturnBatch(c) ==
  /\ cpc[c] = "pop" /\ (Len(batch[c]) = BatchLen \/ queue = <<>>)
  /\ padded' = IF Len(batch[c]) < BatchLen THEN padded + 1 ELSE padded
  /\ batch' = [batch EXCEPT ![c] = <<>>]
  /\ cpc' = [cpc EXCEPT ![c] = "idle"]
  /\ UNCHANGED <<queue, dropped, overruns, underruns, producing, heard, resetting>>

\* read_all pops until it finds the queue empty.
ReadAll(c) ==
  /\ cpc[c] = "idle" /\ queue # <<>>
  /\ heard' = Append(heard, Head(queue))
  /\ queue' = Tail(queue)
  /\ UNCHANGED <<dropped, overruns, underruns, producing, cpc, batch, padded, resetting>>

-----------------------------------------------------------------------------
(* reset_stats: three stores.  It is called once, which is the bound. *)

ResetUnderruns ==
  /\ rpc = "idle" /\ ~cleared
  /\ underruns' = 0
  /\ rpc' = "overruns" /\ cleared' = TRUE
  /\ UNCHANGED <<queue, dropped, overruns, producing, consuming>>

ResetOverruns ==
  /\ rpc = "overruns"
  /\ overruns' = 0
  /\ rpc' = "dropped"
  /\ UNCHANGED <<queue, dropped, underruns, producing, consuming, cleared>>

ResetDropped ==
  /\ rpc = "dropped"
  /\ dropped' = 0
  /\ rpc' = "idle"
  /\ UNCHANGED <<queue, overruns, underruns, producing, consuming, cleared>>

-----------------------------------------------------------------------------
Next ==
  \/ \E p \in Producers :
       (\E n \in Blocks : StartWrite(p, n)) \/ PushSample(p) \/ DropSample(p) \/ CountOverruns(p)
  \/ \E c \in Consumers : CheckLevel(c) \/ PopSample(c) \/ ReturnBatch(c) \/ ReadAll(c)
  \/ ResetUnderruns \/ ResetOverruns \/ ResetDropped

Spec == Init /\ [][Next]_vars

-----------------------------------------------------------------------------
(* Properties *)

\* Every variable keeps its type.
TypeOK ==
  /\ queue \in Seq(1..MaxSamples) /\ Len(queue) <= Capacity
  /\ dropped \in Nat /\ overruns \in Nat /\ underruns \in Nat /\ padded \in Nat
  /\ next \in 0..MaxSamples
  /\ left \in [Producers -> Nat] /\ missed \in [Producers -> Nat]
  /\ cpc \in [Consumers -> {"idle", "pop"}]
  /\ batch \in [Consumers -> Seq(1..MaxSamples)] /\ \A c \in Consumers : Len(batch[c]) <= BatchLen
  /\ heard \in Seq(1..MaxSamples) /\ lost \subseteq 1..next
  /\ rpc \in {"idle", "overruns", "dropped"} /\ cleared \in BOOLEAN

\* A sample is queued, popped or dropped, never two of them, and those that are not
\* dropped keep their order.
Conserved ==
  LET kept == heard \o queue
  IN  /\ Range(kept) \cup lost = 1..next
      /\ Len(kept) + Cardinality(lost) = next
      /\ \A m, n \in DOMAIN kept : m < n => kept[m] < kept[n]

\* The two counts of what was lost agree, but for blocks that are still written.  A
\* reset that falls into a write may leave more overruns than drops, never fewer.
OverrunsExact ==
  LET counted == overruns + Total(missed)
  IN  IF cleared THEN rpc # "dropped" => dropped <= counted
      ELSE dropped = counted /\ dropped = Cardinality(lost)

\* Every sample is accounted for, and every loss.
LossesCounted == TypeOK /\ Conserved /\ OverrunsExact
=============================================================================
