----------------------------- MODULE MCServices -----------------------------
(***************************************************************************)
(* Safety of the parts that wait for nothing a property speaks of, for     *)
(* TLC: the connection pool and the predictor with futures dropped at any  *)
(* await, the lock-free queues and allocators load by load, and the parts  *)
(* with a single owner, whose hazard is the order of their calls or a      *)
(* crash.  They share nothing, so a behaviour exercises one of them,       *)
(* chosen in its initial state.                                            *)
(***************************************************************************)
EXTENDS ConnectionPool

CONSTANTS
  Clients, NumWorkers, QueueRoom, Tries, Balancing, CounterSpan, StepMayFail, MaxPredicts,
  MaxUpdates,                                                    \* of DistributedPredictor
  Capacity, Readers, RingItems,                                  \* of RingBuffer
  QueueThreads, CounterWidth, QueueItems,                        \* of UnboundedQueue
  SignalCapacity, BatchLen, Producers, Consumers, Blocks, MaxSamples, MaxPadded,
                                                                 \* of SignalQueue
  Threads, PoolSize, BlockSize, Width, MaxAllocs,                \* of EmbeddedAlloc
  Tokens, NumDraft, Lengths, MaxGenerates, MaxStepErrors,        \* of SpeculativeDecoder
  Names, Best, NoFile, Torn, NoBest, Losses, BatchCounts, Epochs, Patience, MaxTrained,
  MaxFits, MaxSaves, MaxFaults,                               \* of TrainerCheckpoint
  Inputs, MuxStrategies, BufferSize, Stamps, MaxPushes, MaxReads,    \* of Multiplexer
  Atoms, MaxTraceLength, Depth, MaxResets,                       \* of LTLChecker
  Releases, NoRelease, Fallbacks, Named, MaxErrors, MaxSlow, MaxRecorded, MaxChecks
                                                                 \* of ModelVersions

\* A small layout and one that fills a buffer half.
Layouts == {[size |-> 3, align |-> 1], [size |-> 12, align |-> 8]}
BufferSizes == [bump |-> 20, stack |-> 20]

\* Equal weights, a stream that counts twice and one that counts for nothing.
Weightings ==
  LET favoured == CHOOSE s \in Inputs : TRUE
  IN {[s \in Inputs |-> IF s = favoured THEN w ELSE 1] : w \in 0..2}

VARIABLES
  unit,   \* the part at work
  clientPc, loc, answer, current, healthy, pending, workQueue, wpc, job, installed, rules,
  bcast, predicts, balancing, gone, cut,
  buffer, writePos, readPos, overwriteFlag, written, readerPc, readIdx, got,
  items, itemCount, queuePc, pushed, popped,
  queue, dropped, overruns, underruns, next, left, missed, consumerPc, popping, heard,
  lost, padded, resetPc, cleared,
  freeList, offset, threadPc, layout, seen, live, allocs, foreign,
  main, draft, greedy, decoderPc, sequence, from, maxTokens, candidates, snapshots,
  accepted, nextToken, base, skipped, poisoned, generates, stepErrors,
  weights, optimizer, metadata, trainerPc, epoch, batches, validate, target, part, files,
  trained, fits, saves, faults, whole, interrupted, stop,
  mode, shares, buffers, streamIds, robin, pushes, reads, passed,
  trace, resets,
  fallback, autoRecovery, stable, health, active, recorded, checks, blamed, twice

predictorVars == <<clientPc, loc, answer, current, healthy, pending, workQueue, wpc, job,
                   installed, rules, bcast, predicts, balancing, gone, cut>>
ringVars == <<buffer, writePos, readPos, overwriteFlag, written, readerPc, readIdx, got>>
unboundedVars == <<items, itemCount, queuePc, pushed, popped>>
signalVars == <<queue, dropped, overruns, underruns, next, left, missed, consumerPc,
                popping, heard, lost, padded, resetPc, cleared>>
allocVars == <<freeList, offset, threadPc, layout, seen, live, allocs, foreign>>
decoderVars == <<main, draft, greedy, decoderPc, sequence, from, maxTokens, candidates,
                 snapshots, accepted, nextToken, base, skipped, poisoned, generates,
                 stepErrors>>
trainerVars == <<weights, optimizer, metadata, trainerPc, epoch, batches, validate, target,
                 part, files, trained, fits, saves, faults, whole, interrupted,
                 stop>>
muxVars == <<mode, shares, buffers, streamIds, robin, pushes, reads, passed>>
ltlVars == <<trace, resets>>
versionVars == <<fallback, autoRecovery, stable, health, active, recorded, checks, blamed,
                 twice>>

Predictor == INSTANCE DistributedPredictor WITH
  Callers <- Clients, Capacity <- QueueRoom, MaxAttempts <- Tries, Strategies <- Balancing,
  MaxCalls <- MaxPredicts, pc <- clientPc, queue <- workQueue, calls <- predicts,
  strategy <- balancing, dropped <- gone
Ring == INSTANCE RingBuffer WITH pc <- readerPc, MaxItems <- RingItems
Unbounded == INSTANCE UnboundedQueue WITH
  queue <- items, pc <- queuePc, MaxItems <- QueueItems, Threads <- QueueThreads,
  Width <- CounterWidth
Signal == INSTANCE SignalQueue WITH
  Capacity <- SignalCapacity, cpc <- consumerPc, batch <- popping, rpc <- resetPc
Alloc == INSTANCE EmbeddedAlloc WITH SizeOf <- BufferSizes, pc <- threadPc
Decoder == INSTANCE SpeculativeDecoder WITH
  MaxCalls <- MaxGenerates, MaxErrors <- MaxStepErrors, pc <- decoderPc, current <- from,
  calls <- generates, errors <- stepErrors
Trainer == INSTANCE TrainerCheckpoint WITH
  pc <- trainerPc, cut <- interrupted
Mux == INSTANCE Multiplexer WITH
  Strategies <- MuxStrategies, strategy <- mode, weights <- shares
Ltl == INSTANCE LTLChecker
Managed == INSTANCE ModelVersions WITH
  Strategies <- Fallbacks, MaxRequests <- MaxRecorded, strategy <- fallback,
  stats <- health, requests <- recorded

ASSUME ServicesAssumption ==
  /\ Predictor!PredictorAssumption
  /\ Ring!RingAssumption /\ Unbounded!UnboundedAssumption /\ Signal!SignalAssumption
  /\ Alloc!AllocAssumption /\ Decoder!DecoderAssumption /\ Trainer!TrainerAssumption
  /\ Mux!MuxAssumption /\ Ltl!LTLAssumption /\ Managed!VersionsAssumption

AllInit ==
  /\ unit \in {"pool", "predictor", "ring", "unbounded", "signal", "alloc", "decoder",
               "trainer", "mux", "ltl", "versions"}
  /\ Init /\ Predictor!Init /\ Ring!Init /\ Unbounded!Init /\ Signal!Init /\ Alloc!Init
  /\ Decoder!Init /\ Trainer!Init /\ Mux!Init /\ Ltl!Init /\ Managed!Init
  \* What a part at rest is configured with does not matter: one choice each.
  /\ unit # "pool" => idle = <<>>
  /\ unit # "predictor" => balancing = CHOOSE s \in Balancing : TRUE
  /\ unit # "decoder" => ~greedy
  /\ unit # "mux" => mode = CHOOSE s \in MuxStrategies : TRUE
  /\ unit # "mux" \/ mode # "Weighted" => shares = CHOOSE w \in Weightings : TRUE
  /\ unit # "versions" => ~autoRecovery /\ fallback = CHOOSE s \in Fallbacks : TRUE

OnlyMoves(name) ==
  /\ unit = name
  /\ name = "pool" \/ UNCHANGED vars
  /\ name = "predictor" \/ UNCHANGED predictorVars
  /\ name = "ring" \/ UNCHANGED ringVars
  /\ name = "unbounded" \/ UNCHANGED unboundedVars
  /\ name = "signal" \/ UNCHANGED signalVars
  /\ name = "alloc" \/ UNCHANGED allocVars
  /\ name = "decoder" \/ UNCHANGED decoderVars
  /\ name = "trainer" \/ UNCHANGED trainerVars
  /\ name = "mux" \/ UNCHANGED muxVars
  /\ name = "ltl" \/ UNCHANGED ltlVars
  /\ name = "versions" \/ UNCHANGED versionVars

AllNext ==
  /\ UNCHANGED unit
  /\ \/ OnlyMoves("pool") /\ Next
     \/ OnlyMoves("predictor") /\ Predictor!Next
     \/ OnlyMoves("ring") /\ Ring!Next
     \/ OnlyMoves("unbounded") /\ Unbounded!Next
     \/ OnlyMoves("signal") /\ Signal!Next
     \/ OnlyMoves("alloc") /\ Alloc!Next
     \/ OnlyMoves("decoder") /\ Decoder!Next
     \/ OnlyMoves("trainer") /\ Trainer!Next
     \/ OnlyMoves("mux") /\ Mux!Next
     \/ OnlyMoves("ltl") /\ Ltl!Next
     \/ OnlyMoves("versions") /\ Managed!Next

allVars == <<unit, vars, predictorVars, ringVars, unboundedVars, signalVars, allocVars,
             decoderVars, trainerVars, muxVars, ltlVars, versionVars>>

AllSpec == AllInit /\ [][AllNext]_allVars

-----------------------------------------------------------------------------
(* The properties, under the names the modules give them. *)

\* The predictor counts its requests exactly, retries no dead worker, and serves requests
\* under the rules set before them.
SlotsInv == unit = "predictor" => Predictor!SlotsInv
DeadNotRetried == unit = "predictor" => Predictor!DeadNotRetried
ServedUnderSet == unit = "predictor" => Predictor!ServedUnderSet

\* LockFreeRingBuffer implements the queue of OverwriteQueue.
QueueContract ==
  /\ unit = "ring" => Ring!Queue!QueueInit
  /\ [][unit = "ring" => [Ring!Queue!QueueNext]_(Ring!Queue!queueVars)]_allVars

\* The counter of UnboundedQueue is exact up to the operations in progress.
CountSettles == unit = "unbounded" => Unbounded!CountSettles

\* No sample of SignalQueue is lost without a trace, or returned twice, and the two counts
\* of what was lost agree.
LossesCounted == unit = "signal" => Signal!LossesCounted

\* Blocks of the bump and stack allocators are disjoint, and the pool's counter is exact.
AllocInv == unit = "alloc" => Alloc!AllocInv

\* The draft model never keeps a token that was rejected.
DecoderInv == unit = "decoder" => Decoder!DecoderInv

\* A checkpoint that loads was completed once, and its parts belong together unless it was
\* overwritten by a save that was interrupted.
CheckpointInv == unit = "trainer" => Trainer!CheckpointInv

\* The multiplexer takes turns, and returns the samples of a stream in their order.
MuxContract ==
  /\ [](unit = "mux" => Mux!MuxInv)
  /\ [][unit = "mux" => [Mux!ReadsInOrder]_muxVars]_allVars

\* The checker agrees with the meaning of the formulas on the trace it has kept.
LTLInv == unit = "ltl" => Ltl!LTLInv

\* A fallback is another version than the one that failed, and a request is held against a
\* version once.
VersionsInv == unit = "versions" => Managed!VersionsInv
=============================================================================
