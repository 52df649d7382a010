----------------------------- MODULE MCServing -----------------------------
(***************************************************************************)
(* What decides which model serves a request, and in which batch, for TLC: *)
(* the hot swap and the batch scheduler of kizzasi-inference and the       *)
(* version registry of kizzasi.  They share nothing, so a behaviour        *)
(* exercises one of them, chosen in its initial state.                     *)
(***************************************************************************)
EXTENDS ModelRegistry

CONSTANTS
  MaxBatch, MinBatch, MaxSeqLen, EnablePriority, Priorities, PlainSubmit, MaxRequests,
  MaxModels, MaxFailures,                                           \* of BatchScheduler
  Operators, Tasks, Ids, FirstId, NoModel, Percentages, MaxLoads, MaxSwaps    \* of HotSwap

VARIABLES
  unit,   \* the part at work
  pending, running, completed, nextId, model, states, turn, responses, delivered, began,
  resetAt, dropped, failures,
  activeModel, staged, previous, split, history, count, opc, op, rpc, got, loads, overlapped

batchVars == <<pending, running, completed, nextId, model, states, turn, responses,
               delivered, began, resetAt, dropped, failures>>
swapVars == <<activeModel, staged, previous, split, history, count, opc, op, rpc, got, loads,
              overlapped>>

Batch == INSTANCE BatchScheduler WITH active <- running
Swap == INSTANCE HotSwap WITH active <- activeModel, Requests <- Tasks

ASSUME ServingAssumption ==
  RegistryAssumption /\ Batch!BatchAssumption /\ Swap!HotSwapAssumption

AllInit ==
  /\ unit \in {"swap", "batch", "registry"}
  /\ Init /\ Batch!Init /\ Swap!Init

AllNext ==
  /\ UNCHANGED unit
  /\ \/ unit = "registry" /\ Next /\ UNCHANGED <<batchVars, swapVars>>
     \/ unit = "batch" /\ Batch!Next /\ UNCHANGED <<vars, swapVars>>
     \/ unit = "swap" /\ Swap!Next /\ UNCHANGED <<vars, batchVars>>

\* The fairness each module states, for the part at work.
AllFair ==
  /\ AllInit /\ [][AllNext]_<<unit, vars, batchVars, swapVars>>
  /\ \A o \in Operators : WF_swapVars(unit = "swap" /\ Swap!Proceed(o))
  /\ \A r \in Tasks : WF_swapVars(unit = "swap" /\ Swap!Serve(r))
  /\ WF_batchVars(unit = "batch" /\ Batch!Step)

-----------------------------------------------------------------------------
(* The properties, under the names the modules give them. *)

\* The counts of the models are exact, a candidate has one owner, and the history replays.
SwapInv == unit = "swap" => Swap!SwapInv

\* Operators lose no model, switch atomically, and return.
NoModelLost == Swap!NoModelLost
SwitchContract == Swap!SwitchContract
OperatorReturns == Swap!OperatorReturns

\* No request of the batch is lost, advanced twice in a call of step, overtaken or dropped.
SchedulerInv == unit = "batch" => Batch!SchedulerInv

\* A request of the batch keeps a hidden state of its own, and all of it.
StatesOwn == unit = "batch" => Batch!StatesOwn

\* Every request of the batch completes.
AllComplete == Batch!AllComplete
=============================================================================
