---------------------------- MODULE Multiplexer ----------------------------
(***************************************************************************)
(* kizzasi_io::multiplex::StreamMultiplexer                                *)
(* (crates/kizzasi-io/src/multiplex.rs): streams that are buffered apart   *)
(* and read as one, under four strategies.  A sample is its timestamp.     *)
(***************************************************************************)
EXTENDS Naturals, Sequences, FiniteSets, SequencesExt, FiniteSetsExt

CONSTANTS
  Inputs,        \* stream ids
  Strategies,    \* of {"RoundRobin", "TimeOrdered", "Sequential", "Weighted"}
  Weightings,    \* values of config.weights, each a function on Inputs
  BufferSize,    \* config.buffer_size
  Stamps,        \* timestamps
  MaxPushes,     \* bound: samples pushed
  MaxReads       \* bound: calls of next_sample

MuxAssumption ==
  /\ Strategies \subseteq {"RoundRobin", "TimeOrdered", "Sequential", "Weighted"}
  /\ IsFiniteSet(Inputs) /\ Weightings \subseteq [Inputs -> Nat] /\ Stamps \subseteq Nat
  /\ BufferSize \in Nat \ {0} /\ {MaxPushes, MaxReads} \subseteq Nat

VARIABLES
  strategy, weights,     \* config
  buffers,               \* stream id -> queue of samples, oldest first
  streamIds,             \* stream_ids, in the order in which they were added
  robin,                 \* round_robin_index
  pushes, reads,         \* history: the bounds above
  passed                 \* history: reads that served others while this stream waited, under
                         \* weights since the last stream was added

config == <<strategy, weights>>
vars == <<config, buffers, streamIds, robin, pushes, reads, passed>>

Init ==
  /\ strategy \in Strategies /\ weights \in Weightings
  /\ buffers = [s \in Inputs |-> <<>>] /\ streamIds = <<>> /\ robin = 0
  /\ pushes = 0 /\ reads = 0 /\ passed = [s \in Inputs |-> 0]

Added == ToSet(streamIds)

AddStream(s) ==
  /\ s \notin Added
  /\ streamIds' = Append(streamIds, s)
  /\ passed' = IF strategy = "Weighted" THEN [t \in Inputs |-> 0] ELSE passed
  /\ UNCHANGED <<config, buffers, robin, pushes, reads>>

\* A full buffer gives up its first sample.
MadeRoom(queue) == IF Len(queue) >= BufferSize THEN Tail(queue) ELSE queue

\* Behind the last sample that is not younger: push, under TimeOrdered.
InsertedByTime(queue, stamp) ==
  LET pos == Cardinality({i \in DOMAIN queue :
                            \A j \in 1..i : queue[j] <= stamp})
  IN InsertAt(queue, pos + 1, stamp)

Push(s, stamp) ==
  /\ s \in Added /\ pushes < MaxPushes
  /\ pushes' = pushes + 1
  /\ LET queue == MadeRoom(buffers[s])
     IN buffers' = [buffers EXCEPT ![s] = IF strategy = "TimeOrdered"
                                          THEN InsertedByTime(queue, stamp)
                                          ELSE Append(queue, stamp)]
  /\ UNCHANGED <<config, streamIds, robin, reads, passed>>

-----------------------------------------------------------------------------
(* next_sample *)

Count == Len(streamIds)
Id(i) == streamIds[(i % Count) + 1]
HasSample(s) == buffers[s] # <<>>
Waiting == {s \in Inputs : HasSample(s)}

\* A read that returns a sample of s, or nothing.
Return(s) ==
  /\ buffers' = [buffers EXCEPT ![s] = Tail(@)]
  /\ passed' = [t \in Inputs |-> IF t # s /\ HasSample(t) THEN passed[t] + 1 ELSE 0]

ReturnNone == UNCHANGED <<buffers, passed>>

\* Mutant of NextRoundRobin: the index stays at the stream that was read.
NextRoundRobinStuck ==
  LET hits == {i \in robin..(robin + Count - 1) : HasSample(Id(i))}
  IN IF hits = {} THEN ReturnNone /\ UNCHANGED robin
     ELSE Return(Id(Min(hits))) /\ robin' = Min(hits) % Count

\* From round_robin_index on, every stream once.
NextRoundRobin ==
  LET hits == {i \in robin..(robin + Count - 1) : HasSample(Id(i))}
  IN IF hits = {} THEN ReturnNone /\ UNCHANGED robin
     ELSE Return(Id(Min(hits))) /\ robin' = (Min(hits) + 1) % Count

\* The earliest of the first samples; the buffers are in a HashMap, whose order decides
\* among equals.
NextTimeOrdered ==
  /\ IF Waiting = {} THEN ReturnNone
     ELSE \E s \in Waiting :
            /\ \A t \in Waiting : buffers[s][1] <= buffers[t][1]
            /\ Return(s)
  /\ UNCHANGED robin

NextSequential ==
  /\ IF Waiting = {} THEN ReturnNone
     ELSE Return(streamIds[Min({i \in DOMAIN streamIds : HasSample(streamIds[i])})])
  /\ UNCHANGED robin

TotalWeight == Cardinality(UNION {{s} \X (1..weights[s]) : s \in Added})

\* As many streams as the weights add up to, from an index that only grows.
NextWeighted ==
  LET hits == {i \in robin..(robin + TotalWeight - 1) : HasSample(Id(i)) /\ weights[Id(i)] > 0}
  IN IF Added = {} THEN ReturnNone /\ UNCHANGED robin
     ELSE IF TotalWeight = 0 THEN NextRoundRobin
     ELSE IF hits = {} THEN ReturnNone /\ robin' = robin + TotalWeight
     ELSE Return(Id(Min(hits))) /\ robin' = Min(hits) + 1

NextSample ==
  /\ reads < MaxReads /\ reads' = reads + 1
  /\ \/ strategy = "RoundRobin" /\ NextRoundRobin
     \/ strategy = "TimeOrdered" /\ NextTimeOrdered
     \/ strategy = "Sequential" /\ NextSequential
     \/ strategy = "Weighted" /\ NextWeighted
  /\ UNCHANGED <<config, streamIds, pushes>>

Clear ==
  /\ Waiting # {}
  /\ buffers' = [s \in Inputs |-> <<>>] /\ passed' = [s \in Inputs |-> 0]
  /\ UNCHANGED <<config, streamIds, robin, pushes, reads>>

Next ==
  \/ \E s \in Inputs : AddStream(s) \/ \E stamp \in Stamps : Push(s, stamp)
  \/ NextSample \/ Clear

Spec == Init /\ [][Next]_vars

-----------------------------------------------------------------------------
(* Properties *)

TypeOK ==
  /\ strategy \in Strategies /\ weights \in Weightings
  /\ buffers \in [Inputs -> Seq(Stamps)] /\ \A s \in Inputs : Len(buffers[s]) <= BufferSize
  /\ streamIds \in Seq(Inputs) /\ IsInjective(streamIds) /\ Waiting \subseteq Added
  /\ robin \in Nat /\ (strategy # "Weighted" => robin < Count \/ robin = 0)
  /\ pushes \in 0..MaxPushes /\ reads \in 0..MaxReads
  /\ passed \in [Inputs -> 0..MaxReads]

\* The streams that take turns: all of them, or those of a positive weight.
TakesTurns(s) ==
  strategy = "RoundRobin" \/ (strategy = "Weighted" /\ (weights[s] > 0 \/ TotalWeight = 0))

\* "Interleave samples round-robin": while a stream has samples, each other stream is read
\* once at most before it is.  A stream may be added meanwhile, but not under weights, where
\* that changes what the growing index stands for.
Interleaves == \A s \in Added : TakesTurns(s) => passed[s] < Count

\* "Merge by timestamp order" relies on buffers that stay sorted.
Sorted ==
  strategy = "TimeOrdered" =>
    \A s \in Inputs : \A i, j \in DOMAIN buffers[s] :
      i < j => buffers[s][i] <= buffers[s][j]

\* What a read took.
Taken(s) == Len(buffers'[s]) < Len(buffers[s])

\* A read returns one sample: by time, the earliest that is buffered anywhere; in sequence,
\* one of the first stream that has any.  It returns none only when there is none, except
\* under weights that are 0 for some stream.
ReadsInOrder ==
  reads' > reads =>
    \/ \E s \in Inputs :
         /\ Taken(s) /\ buffers' = [buffers EXCEPT ![s] = Tail(@)]
         /\ strategy = "TimeOrdered" =>
              \A t \in Inputs : \A i \in DOMAIN buffers[t] :
                buffers[s][1] <= buffers[t][i]
         /\ strategy = "Sequential" =>
              \A i, j \in DOMAIN streamIds :
                streamIds[i] = s /\ HasSample(streamIds[j]) => i <= j
    \/ /\ UNCHANGED buffers
       /\ \/ Waiting = {}
          \/ strategy = "Weighted" /\ \E s \in Added : weights[s] = 0

\* The streams take their turns, and every read returns what its strategy says.
MuxInv == TypeOK /\ Interleaves /\ Sorted
MuxContract == []MuxInv /\ [][ReadsInOrder]_vars
=============================================================================
