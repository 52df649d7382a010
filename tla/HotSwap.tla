------------------------------ MODULE HotSwap ------------------------------
(***************************************************************************)
(* kizzasi_inference::hotswap::HotSwapManager                              *)
(* (crates/kizzasi-inference/src/hotswap.rs).                              *)
(*                                                                         *)
(* Operators stage models, activate them and roll back; requests select a  *)
(* model, count themselves in and out and run.  Five fields have a lock    *)
(* each and every method takes them one after the other, so each critical  *)
(* section is a step.  select_model holds the read lock of the traffic     *)
(* split until it returns.                                                 *)
(*                                                                         *)
(* A model instance is an id and the number of its load.  Which entry of   *)
(* the split the weighted draw hits is a choice among those with a         *)
(* positive weight.  A model that fails its health check is never staged   *)
(* and changes nothing.                                                    *)
(***************************************************************************)
EXTENDS Integers, Sequences, FiniteSets

CONSTANTS
  Operators,     \* tasks that prepare, activate and roll back
  Requests,      \* tasks that select a model and run a request on it
  Ids,           \* model ids
  FirstId,       \* id of the model the manager is created with
  NoModel,
  Percentages,   \* the percentages Gradual is called with
  MaxLoads,      \* bound: how many models are prepared
  MaxSwaps       \* bound: how many activations and rollbacks are begun

Instances == [id : Ids, load : 0..MaxLoads]
Initial == [id |-> FirstId, load |-> 0]

HotSwapAssumption ==
  /\ IsFiniteSet(Operators) /\ IsFiniteSet(Requests)
  /\ FirstId \in Ids /\ NoModel \notin Instances
  /\ Percentages \subseteq 0..255
  /\ {MaxLoads, MaxSwaps} \subseteq Nat

\* Swap strategies, Gradual by its percentage.
Immediate == 256
Graceful == 257
Strategies == Percentages \cup {Immediate, Graceful}

VARIABLES
  active,     \* active_model
  staged,     \* staged_models: an instance or NoModel for each id
  previous,   \* previous_model
  split,      \* traffic_split: a function on the ids that have an entry
  history,    \* swap_history: from, to, and whether the switch was made
  count,      \* active_requests of each instance, by load number
  opc, op,    \* where each operator is, and its locals
  rpc, got,   \* where each request is, and the instance it read or was given
  loads,      \* models prepared so far
  overlapped  \* have two operators ever been at work at once? (history)

fieldVars == <<active, staged, previous, split, history>>
requestVars == <<count, rpc, got>>
vars == <<fieldVars, requestVars, opc, op, loads, overlapped>>

Carry(m, s) == [new |-> m, old |-> NoModel, saved |-> NoModel, strategy |-> s]
NoOp == Carry(NoModel, Immediate)

Range1(f) == {f[x] : x \in DOMAIN f}

-----------------------------------------------------------------------------
Init ==
  /\ active = Initial
  /\ staged = [i \in Ids |-> NoModel]
  /\ previous = NoModel
  /\ split = <<>>
  /\ history = <<>>
  /\ count = [n \in 0..MaxLoads |-> 0]
  /\ opc = [o \in Operators |-> "ready"]
  /\ op = [o \in Operators |-> NoOp]
  /\ rpc = [r \in Requests |-> "ready"]
  /\ got = [r \in Requests |-> NoModel]
  /\ loads = 0
  /\ overlapped = FALSE

-----------------------------------------------------------------------------
(* prepare_swap *)

\* Does another operator act while this one begins?
NoteOverlap(o) ==
  overlapped' = (overlapped \/ \E p \in Operators \ {o} : opc[p] # "ready")

Prepare(o, i) ==
  /\ opc[o] = "ready" /\ loads < MaxLoads
  /\ NoteOverlap(o)
  /\ loads' = loads + 1
  /\ staged' = [staged EXCEPT ![i] = [id |-> i, load |-> loads + 1]]
  /\ UNCHANGED <<active, previous, split, history, opc, op, requestVars>>

\* The bound on swaps: those on record and those under way.
MayBegin(o) ==
  /\ opc[o] = "ready"
  /\ Len(history) + Cardinality({p \in Operators : opc[p] # "ready"}) < MaxSwaps

(* activate *)

TakeStaged(o, i, s) ==
  /\ MayBegin(o) /\ staged[i] # NoModel
  /\ NoteOverlap(o)
  /\ staged' = [staged EXCEPT ![i] = NoModel]
  /\ op' = [op EXCEPT ![o] = Carry(staged[i], s)]
  /\ opc' = [opc EXCEPT ![o] = "read"]
  /\ UNCHANGED <<active, previous, split, history, requestVars, loads>>

\* Where activate goes with a strategy.
FirstStep(s) ==
  IF s = Graceful THEN "drain" ELSE IF s \in 0..99 THEN "restage" ELSE "previous"

\* The model that will be replaced is read here and used in later steps.  A
\* percentage above 100 is refused, and the candidate is dropped with it.
ReadActive(o) ==
  /\ opc[o] = "read"
  /\ LET s == op[o].strategy
         refused == s \in 101..255
     IN  /\ opc' = [opc EXCEPT ![o] = IF refused THEN "ready" ELSE FirstStep(s)]
         /\ op' = IF refused THEN [op EXCEPT ![o] = NoOp] ELSE [op EXCEPT ![o].old = active]
  /\ UNCHANGED <<overlapped, fieldVars, requestVars, loads>>

\* swap_graceful: the count it polls has reached zero,
Drained(o) ==
  /\ opc[o] = "drain" /\ count[op[o].old.load] = 0
  /\ opc' = [opc EXCEPT ![o] = "previous"]
  /\ UNCHANGED <<overlapped, fieldVars, op, requestVars, loads>>

\* Mutant of DrainTimeout: it keeps polling.
DrainNever(o) ==
  /\ opc[o] = "drain" /\ count[op[o].old.load] # 0
  /\ UNCHANGED vars

\* or its 60 seconds are over.
DrainTimeout(o) ==
  /\ opc[o] = "drain" /\ count[op[o].old.load] # 0
  /\ opc' = [opc EXCEPT ![o] = "previous"]
  /\ UNCHANGED <<overlapped, fieldVars, op, requestVars, loads>>

\* What previous was is kept in saved (history), for the refinement.
WritePrevious(o) ==
  /\ opc[o] = "previous"
  /\ previous' = op[o].old
  /\ op' = [op EXCEPT ![o].saved = previous]
  /\ opc' = [opc EXCEPT ![o] = "active"]
  /\ UNCHANGED <<overlapped, active, staged, split, history, requestVars, loads>>

WriteActive(o) ==
  /\ opc[o] = "active"
  /\ active' = op[o].new
  /\ opc' = [opc EXCEPT ![o] = IF op[o].strategy = 100 THEN "clear" ELSE "record"]
  /\ UNCHANGED <<overlapped, staged, previous, split, history, op, requestVars, loads>>

\* Requests that hold the read lock of the split.
Readers == {r \in Requests : rpc[r] \in {"whole", "active", "draw"}}

\* An operator asks for the write lock of the split.  The lock is a fair queue:
\* readers that come later wait behind it.
QueueSplit(o) ==
  /\ opc[o] \in {"clear", "split"}
  /\ opc' = [opc EXCEPT ![o] = IF @ = "clear" THEN "clearing" ELSE "splitting"]
  /\ UNCHANGED <<overlapped, fieldVars, op, requestVars, loads>>

WriterQueued == \E o \in Operators : opc[o] \in {"clearing", "splitting"}

ClearSplit(o) ==
  /\ opc[o] = "clearing" /\ Readers = {}
  /\ split' = <<>>
  /\ opc' = [opc EXCEPT ![o] = "record"]
  /\ UNCHANGED <<overlapped, active, staged, previous, history, op, requestVars, loads>>

\* Mutant of Restage: the candidate is not put back.
RestageForgotten(o) ==
  /\ opc[o] = "restage"
  /\ opc' = [opc EXCEPT ![o] = "split"]
  /\ UNCHANGED <<overlapped, fieldVars, op, requestVars, loads>>

\* A partial split keeps the candidate where select_model finds it.
Restage(o) ==
  /\ opc[o] = "restage"
  /\ staged' = [staged EXCEPT ![op[o].new.id] = op[o].new]
  /\ opc' = [opc EXCEPT ![o] = "split"]
  /\ UNCHANGED <<overlapped, active, previous, split, history, op, requestVars, loads>>

WriteSplit(o) ==
  /\ opc[o] = "splitting" /\ Readers = {}
  /\ LET new == op[o].new.id
         old == op[o].old.id
     IN  split' = [i \in DOMAIN split \cup {new, old} |->
                     IF i = old THEN 100 - op[o].strategy
                     ELSE IF i = new THEN op[o].strategy ELSE split[i]]
  /\ opc' = [opc EXCEPT ![o] = "record"]
  /\ UNCHANGED <<overlapped, active, staged, previous, history, op, requestVars, loads>>

\* The swap event, of activate and of rollback.
Record(o) ==
  /\ opc[o] = "record"
  /\ history' = Append(history, [from |-> op[o].old, to |-> op[o].new,
                                 switched |-> op[o].strategy \notin 0..99])
  /\ opc' = [opc EXCEPT ![o] = "ready"]
  /\ op' = [op EXCEPT ![o] = NoOp]
  /\ UNCHANGED <<overlapped, active, staged, previous, split, requestVars, loads>>

(* rollback *)

\* Mutant of TakePrevious: the remembered model is copied, not taken.
TakePreviousKept(o) ==
  /\ MayBegin(o) /\ previous # NoModel
  /\ NoteOverlap(o)
  /\ op' = [op EXCEPT ![o] = Carry(previous, Immediate)]
  /\ opc' = [opc EXCEPT ![o] = "rread"]
  /\ UNCHANGED <<active, previous, staged, split, history, requestVars, loads>>

TakePrevious(o) ==
  /\ MayBegin(o) /\ previous # NoModel
  /\ NoteOverlap(o)
  /\ previous' = NoModel
  /\ op' = [op EXCEPT ![o] = Carry(previous, Immediate)]
  /\ opc' = [opc EXCEPT ![o] = "rread"]
  /\ UNCHANGED <<active, staged, split, history, requestVars, loads>>

RollbackRead(o) ==
  /\ opc[o] = "rread"
  /\ op' = [op EXCEPT ![o].old = active]
  /\ opc' = [opc EXCEPT ![o] = "rwrite"]
  /\ UNCHANGED <<overlapped, fieldVars, requestVars, loads>>

RollbackWrite(o) ==
  /\ opc[o] = "rwrite"
  /\ active' = op[o].new
  /\ opc' = [opc EXCEPT ![o] = "record"]
  /\ UNCHANGED <<overlapped, staged, previous, split, history, op, requestVars, loads>>

-----------------------------------------------------------------------------
(* Requests: select_model (or active_model), acquire, the step, release *)

Give(r, m) ==
  /\ got' = [got EXCEPT ![r] = m]
  /\ rpc' = [rpc EXCEPT ![r] = "chosen"]

ActiveModel(r) ==
  /\ rpc[r] = "ready"
  /\ Give(r, active)
  /\ UNCHANGED <<overlapped, fieldVars, count, opc, op, loads>>

SelectModel(r) ==
  /\ rpc[r] = "ready" /\ ~WriterQueued
  /\ rpc' = [rpc EXCEPT ![r] = IF split = <<>> THEN "whole" ELSE "active"]
  /\ UNCHANGED <<overlapped, fieldVars, count, opc, op, got, loads>>

SelectWhole(r) ==
  /\ rpc[r] = "whole"
  /\ Give(r, active)
  /\ UNCHANGED <<overlapped, fieldVars, count, opc, op, loads>>

SelectReadActive(r) ==
  /\ rpc[r] = "active"
  /\ got' = [got EXCEPT ![r] = active]
  /\ rpc' = [rpc EXCEPT ![r] = "draw"]
  /\ UNCHANGED <<overlapped, fieldVars, count, opc, op, loads>>

\* The entry that is drawn resolves against the active model read before and the
\* staged models now; one that resolves to neither falls back to the active model.
SelectDraw(r) ==
  /\ rpc[r] = "draw"
  /\ \/ /\ \A i \in DOMAIN split : split[i] = 0
        /\ Give(r, got[r])
     \/ \E i \in DOMAIN split :
          /\ split[i] > 0
          /\ Give(r, IF i # got[r].id /\ staged[i] # NoModel THEN staged[i] ELSE got[r])
  /\ UNCHANGED <<overlapped, fieldVars, count, opc, op, loads>>

Acquire(r) ==
  /\ rpc[r] = "chosen"
  /\ count' = [count EXCEPT ![got[r].load] = @ + 1]
  /\ rpc' = [rpc EXCEPT ![r] = "using"]
  /\ UNCHANGED <<overlapped, fieldVars, opc, op, got, loads>>

\* Mutant of Release: the count is taken from the model that is active now.
ReleaseActive(r) ==
  /\ rpc[r] = "using"
  /\ count' = [count EXCEPT ![active.load] = IF @ > 0 THEN @ - 1 ELSE 0]
  /\ rpc' = [rpc EXCEPT ![r] = "ready"]
  /\ got' = [got EXCEPT ![r] = NoModel]
  /\ UNCHANGED <<overlapped, fieldVars, opc, op, loads>>

Release(r) ==
  /\ rpc[r] = "using"
  /\ count' = [count EXCEPT ![got[r].load] = IF @ > 0 THEN @ - 1 ELSE 0]
  /\ rpc' = [rpc EXCEPT ![r] = "ready"]
  /\ got' = [got EXCEPT ![r] = NoModel]
  /\ UNCHANGED <<overlapped, fieldVars, opc, op, loads>>

-----------------------------------------------------------------------------
Begin(o) ==
  \/ \E i \in Ids : Prepare(o, i)
  \/ \E i \in Ids, s \in Strategies : TakeStaged(o, i, s)
  \/ TakePrevious(o)

Proceed(o) ==
  \/ ReadActive(o) \/ Drained(o) \/ DrainTimeout(o)
  \/ WritePrevious(o) \/ WriteActive(o) \/ Restage(o)
  \/ QueueSplit(o) \/ ClearSplit(o) \/ WriteSplit(o)
  \/ RollbackRead(o) \/ RollbackWrite(o) \/ Record(o)

Serve(r) ==
  \/ SelectWhole(r) \/ SelectReadActive(r) \/ SelectDraw(r)
  \/ Acquire(r) \/ Release(r)

Next ==
  \/ \E o \in Operators : Begin(o) \/ Proceed(o)
  \/ \E r \in Requests : ActiveModel(r) \/ SelectModel(r) \/ Serve(r)

Spec == Init /\ [][Next]_vars

\* Every task that can move does.  Nothing forces an operation or a request.
Fairness ==
  /\ \A o \in Operators : WF_vars(Proceed(o))
  /\ \A r \in Requests : WF_vars(Serve(r))

FairSpec == Spec /\ Fairness

-----------------------------------------------------------------------------
(* Properties *)

OperatorPcs == {"ready", "read", "drain", "previous", "active", "clear", "clearing",
                "restage", "split", "splitting", "record", "rread", "rwrite"}

MaybeModel == Instances \cup {NoModel}

\* Every variable keeps its type.
FieldTypes ==
  /\ active \in Instances
  /\ staged \in [Ids -> MaybeModel]
  /\ \A i \in Ids : staged[i] # NoModel => staged[i].id = i
  /\ previous \in MaybeModel
  /\ DOMAIN split \subseteq Ids /\ \A i \in DOMAIN split : split[i] \in 0..100
  /\ history \in Seq([from : Instances, to : Instances, switched : BOOLEAN])
OperatorTypes ==
  /\ opc \in [Operators -> OperatorPcs]
  /\ op \in [Operators -> [new : MaybeModel, old : MaybeModel, saved : MaybeModel,
                           strategy : 0..257]]
  /\ loads \in 0..MaxLoads
  /\ overlapped \in BOOLEAN
RequestTypes ==
  /\ count \in [0..MaxLoads -> Nat]
  /\ rpc \in [Requests -> {"ready", "whole", "active", "draw", "chosen", "using"}]
  /\ got \in [Requests -> MaybeModel]
TypeOK == FieldTypes /\ OperatorTypes /\ RequestTypes

\* active_requests counts the requests that run on an instance, across all the
\* clones of it that swaps and selections made.
CountExact ==
  \A n \in 0..MaxLoads :
    count[n] = Cardinality({r \in Requests : rpc[r] = "using" /\ got[r].load = n})

Held == {active, previous} \cup Range1(staged)
          \cup {op[o].new : o \in Operators} \cup {op[o].saved : o \in Operators}

\* While operators act one after the other, none loses the model it carries: when
\* it is done with it, or lets go of it on the way, the model is active, staged or
\* remembered.  A refused percentage is the exception: the candidate was taken out
\* before it is looked at.
NoModelLost ==
  [][\A o \in Operators :
       overlapped \/ op[o].strategy \in 101..255 \/ op[o].new \in Held' \cup {NoModel}]_vars

\* A candidate has one owner until it is switched in or staged again, whichever
\* operators run: two activations of an id never carry the same model, and a model
\* that is active or remembered is not staged as well.
Candidates == {o \in Operators : opc[o] \in {"read", "drain", "previous", "active", "restage"}}
CandidateUnique ==
  /\ \A o, p \in Candidates : o # p => op[o].new # op[p].new
  /\ \A o \in Candidates : op[o].new \notin {active, previous} \cup Range1(staged)
  /\ {active, previous} \cap Range1(staged) \subseteq {NoModel}

\* While operators act one after the other, the log is the history of the active
\* model: each switch replaced what the log said was active then, and once nobody
\* is at work what it says is active is.
Replays(log, n, m) ==
  \/ m = Initial /\ \A k \in 1..n : ~log[k].switched
  \/ \E k \in 1..n : /\ log[k].switched /\ m = log[k].to
                     /\ \A j \in (k + 1)..n : ~log[j].switched
HistoryReplays ==
  ~overlapped =>
    /\ \A n \in 1..Len(history) :
         history[n].switched => Replays(history, n - 1, history[n].from)
    /\ (\A o \in Operators : opc[o] = "ready") => Replays(history, Len(history), active)

\* Types, counts, owners and history together.
SwapInv == TypeOK /\ CountExact /\ CandidateUnique /\ HistoryReplays

\* Every activate and every rollback returns.
OperatorReturns == \A o \in Operators : opc[o] # "ready" ~> opc[o] = "ready"

\* What is remembered, with the two steps of a switch seen as one.
Mid(pcs) == \E o \in Operators : opc[o] \in pcs
Of(pcs) == op[CHOOSE o \in Operators : opc[o] \in pcs]
Remembered ==
  IF Mid({"active"}) THEN Of({"active"}).saved
  ELSE IF Mid({"rread", "rwrite"}) THEN Of({"rread", "rwrite"}).new
  ELSE previous

Switch == INSTANCE ModelSwitch WITH previous <- Remembered

\* Operators that act one after the other get the atomic switch of ModelSwitch:
\* until two overlap, every step is a step of it.
SwitchContract ==
  /\ Switch!SwitchInit
  /\ [][overlapped' \/ Switch!SwitchNext]_<<active, Remembered>>
=============================================================================
