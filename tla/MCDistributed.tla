--------------------------- MODULE MCDistributed ---------------------------
(***************************************************************************)
(* What callers and workers wait for, for TLC: the connection pool of      *)
(* kizzasi, the predictor of kizzasi::distributed, the two gradient        *)
(* exchanges of kizzasi_model::distributed, and the WebSocket stream of    *)
(* kizzasi-io.  They share nothing, so a behaviour exercises one of them,  *)
(* chosen in its initial state.                                            *)
(***************************************************************************)
EXTENDS ConnectionPool, Functions

CONSTANTS
  Clients, NumWorkers, QueueRoom, Tries, Balancing, CounterSpan, StepMayFail, MaxPredicts,
  MaxUpdates,                     \* of DistributedPredictor
  Threads, Lens, MaxSyncs,        \* of GradientBarrier
  WorldSize, Sizes, Odds, MaxSteps,  \* of GradientStore
  BufferSize, Delay, MaxDelay, FillSizes, SignalCap, MaxSent, MaxFaults, MaxGrowth
                                  \* of WebSocketStream

VARIABLES
  unit,       \* the part at work
  clientPc, loc, answer, current, healthy, pending, workQueue, wpc, job, installed, rules,
  bcast, predicts, balancing, gone, cut,
  accumulator, result, arrived, departed, generation, aborted, bpc, asleep,
  gradients, genBefore, abort, syncs, outcome,
  buffers, mean, failed, left, weights, rpc, sleeping, steps, local, given, got,
  errors,
  reconnect, ws, delay, buffer, socketPc, task, goal, filled, signals, wire, sent, faults,
  read, lost, growth

predictorVars == <<clientPc, loc, answer, current, healthy, pending, workQueue, wpc, job,
                   installed, rules, bcast, predicts, balancing, gone, cut>>
barrierVars == <<accumulator, result, arrived, departed, generation, aborted, bpc, asleep,
                 gradients, genBefore, abort, syncs, outcome>>
storeVars == <<buffers, mean, failed, left, weights, rpc, sleeping, steps, local, given, got,
               errors>>
socketVars == <<reconnect, ws, delay, buffer, socketPc, task, goal, filled, signals, wire,
                sent, faults, read, lost, growth>>

Predictor == INSTANCE DistributedPredictor WITH
  Callers <- Clients, Capacity <- QueueRoom, MaxAttempts <- Tries, Strategies <- Balancing,
  MaxCalls <- MaxPredicts, pc <- clientPc, queue <- workQueue, calls <- predicts,
  strategy <- balancing, dropped <- gone
Barrier == INSTANCE GradientBarrier WITH
  Workers <- Threads, MaxCalls <- MaxSyncs, pc <- bpc, calls <- syncs
Store == INSTANCE GradientStore WITH
  result <- mean, departed <- left, pc <- rpc, asleep <- sleeping, outcome <- given
Socket == INSTANCE WebSocketStream WITH
  AllowCancel <- TRUE, pc <- socketPc, call <- task, got <- read

ASSUME DistributedAssumption ==
  /\ Clients \subseteq Threads /\ Clients # Threads /\ Cardinality(Threads) = WorldSize
  /\ Predictor!PredictorAssumption /\ Barrier!BarrierAssumption /\ Store!StoreAssumption
  /\ Socket!SocketAssumption /\ MaxSent = WorldSize

AllInit ==
  /\ unit \in {"pool", "predictor", "barrier", "store", "socket"}
  /\ Init /\ Predictor!Init /\ Barrier!Init /\ Store!Init /\ Socket!Init
  /\ unit # "socket" => reconnect

AllNext ==
  /\ UNCHANGED unit
  /\ \/ /\ unit = "pool" /\ Next
        /\ UNCHANGED <<predictorVars, barrierVars, storeVars, socketVars>>
     \/ /\ unit = "predictor" /\ Predictor!Next
        /\ UNCHANGED <<vars, barrierVars, storeVars, socketVars>>
     \/ /\ unit = "barrier" /\ Barrier!Next
        /\ UNCHANGED <<vars, predictorVars, storeVars, socketVars>>
     \/ /\ unit = "store" /\ Store!Next
        /\ UNCHANGED <<vars, predictorVars, barrierVars, socketVars>>
     \/ /\ unit = "socket" /\ Socket!Next
        /\ UNCHANGED <<vars, predictorVars, barrierVars, storeVars>>

allVars == <<unit, vars, predictorVars, barrierVars, storeVars, socketVars>>

\* The fairness each module states, for the part at work: what another part could do must
\* not make the behaviour unfair.
AllFair ==
  /\ AllInit /\ [][AllNext]_allVars
  /\ \A c \in Callers : /\ WF_vars(unit = "pool" /\ Acquire(c))
                        /\ WF_vars(unit = "pool" /\ Release(c))
  /\ \A c \in Clients : WF_predictorVars(unit = "predictor" /\ Predictor!Predict(c))
  /\ \A w \in Predictor!Workers :
       /\ WF_predictorVars(unit = "predictor" /\ Predictor!Work(w))
       /\ WF_predictorVars(unit = "predictor" /\ wpc[w] = "stopping"
                             /\ Predictor!WorkerDies(w))
  /\ WF_predictorVars(unit = "predictor" /\ Predictor!Broadcast)
  /\ \A w \in Threads : WF_barrierVars(unit = "barrier" /\ Barrier!Step(w))
  /\ \A r \in Store!Ranks : WF_storeVars(unit = "store" /\ Store!Step(r))
  /\ SF_socketVars(unit = "socket" /\ Socket!CallNext)
  /\ SF_socketVars(unit = "socket" /\ Socket!Receive)
  /\ WF_socketVars(unit = "socket" /\ (Socket!Loop \/ Socket!Settle))

-----------------------------------------------------------------------------
(* The properties, under the names the modules give them. *)

\* The phases of ThreadedGradientSync do not overlap; each mean of SharedGradientStore is taken
\* to the weights once, and what step returns tells what came of it.
ExchangeInv ==
  /\ Barrier!BarrierInv
  /\ Store!TypeOK /\ Store!LockStep /\ Store!AppliedOnce /\ Store!Reported

\* ThreadedGradientSync and SharedGradientStore are all-reduces.
ReduceContract == Barrier!ReduceContract
StoreContract == Store!StoreContract

\* The WebSocket stream keeps the order of what is sent, over all its connections, and loses
\* only what goes down with one.
SocketInv == Socket!SocketInv

\* Every predict and broadcast, every sync_gradients and every step of a rank returns, and
\* what arrives at the WebSocket is received: Predictor!CallsReturn, Barrier!CallsReturn,
\* Store!StepsReturn and Socket!Arrives.  The callers are the same three threads, and there
\* are as many messages; the one that calls no predict stands for the broadcast.
Rank == CHOOSE f \in [Threads -> Store!Ranks] : IsInjective(f)
Running(c) ==
  \/ unit = "predictor" /\ IF c \in Clients THEN clientPc[c] # "ready" ELSE bcast # 0
  \/ unit = "barrier" /\ bpc[c] # "out"
  \/ unit = "store" /\ rpc[Rank[c]] # "out"
  \/ unit = "socket" /\ Rank[c] + 1 \in Socket!InFlight
AllReturn == \A c \in Threads : Running(c) ~> ~Running(c)
=============================================================================
