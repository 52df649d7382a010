--------------------------- MODULE ServingProofs ---------------------------
(***************************************************************************)
(* The hot swap, for any operators, requests, models and percentages:      *)
(* counts are exact, candidates have one owner, the log replays, no model  *)
(* is lost, and operators that do not overlap switch atomically.  The      *)
(* batch scheduler, for any sizes, priorities and failures: each request   *)
(* is in one place and in order, is advanced once in a call and returned,  *)
(* and its hidden state is its own and covers its steps.                   *)
(***************************************************************************)
EXTENDS MCServing, FiniteSetTheorems, SequenceTheorems, WellFoundedInduction, TLAPS

-----------------------------------------------------------------------------
(* HotSwap: types, and what the locals of operators and requests are *)

\* The locals of an operator belong to where it is: nothing when it is ready, the model it
\* brings from its first step on, the one it replaces once it has read it.
Belongs(l, x) ==
  /\ l = "ready" => x = Swap!NoOp
  /\ l # "ready" => x.new \in Swap!Instances
  /\ l \notin {"ready", "read", "rread"} => x.old \in Swap!Instances
  /\ l \in {"restage", "split", "splitting"} => x.strategy \in 0..99
  /\ l \in {"drain", "previous", "active", "clear", "clearing", "rread", "rwrite"} =>
       x.strategy \notin 0..99

OperatorInv ==
  Swap!OperatorTypes /\ \A o \in Operators : Belongs(opc[o], op[o])

\* A request that has read or been given a model has one.
RequestInv ==
  /\ Swap!RequestTypes
  /\ \A r \in Tasks : rpc[r] \in {"draw", "chosen", "using"} => got[r] \in Swap!Instances

LocalInv == Swap!FieldTypes /\ OperatorInv /\ RequestInv

Locals == [new : Swap!MaybeModel, old : Swap!MaybeModel, saved : Swap!MaybeModel,
           strategy : 0..257]

\* An instance has an id and a load number, and is not NoModel.
LEMMA InstanceShape ==
  ASSUME Swap!HotSwapAssumption
  PROVE  /\ NoModel \notin Swap!Instances
         /\ Swap!Initial \in Swap!Instances
         /\ \A m \in Swap!Instances : m.id \in Ids /\ m.load \in 0..MaxLoads
         /\ \A i \in Ids, n \in 0..MaxLoads : [id |-> i, load |-> n] \in Swap!Instances
BY DEF Swap!HotSwapAssumption, Swap!Instances, Swap!Initial

LEMMA LocalInitial == ASSUME Swap!HotSwapAssumption, Swap!Init PROVE LocalInv
<1>1. Swap!Initial \in Swap!Instances /\ MaxLoads \in Nat
  BY InstanceShape DEF Swap!HotSwapAssumption
<1>2. Swap!FieldTypes
  BY <1>1, EmptySeq DEF Swap!Init, Swap!FieldTypes, Swap!MaybeModel
<1>3. OperatorInv
  <2>1. Swap!NoOp \in Locals /\ Belongs("ready", Swap!NoOp)
    BY DEF Locals, Belongs, Swap!NoOp, Swap!Carry, Swap!MaybeModel, Swap!Immediate
  <2>2. op \in [Operators -> Locals] /\ opc \in [Operators -> Swap!OperatorPcs]
    BY <2>1 DEF Swap!Init, Swap!OperatorPcs
  <2>3. loads \in 0..MaxLoads /\ overlapped \in BOOLEAN
    <3>1. loads = 0 /\ overlapped = FALSE
      BY Zenon DEF Swap!Init
    <3>2. loads \in 0..MaxLoads
      BY <1>1, <3>1
    <3>3. overlapped \in BOOLEAN
      BY <3>1, Zenon
    <3> QED
      BY <3>2, <3>3
  <2>4. \A o \in Operators : Belongs(opc[o], op[o])
    BY <2>1 DEF Swap!Init
  <2> QED
    BY <2>2, <2>3, <2>4 DEF Swap!OperatorTypes, OperatorInv, Locals
<1>4. RequestInv
  BY <1>1 DEF Swap!Init, Swap!RequestTypes, RequestInv, Swap!MaybeModel
<1> QED
  BY <1>2, <1>3, <1>4 DEF LocalInv

\* An operator goes to another place, with the locals that belong there.
LEMMA OperatorMoves ==
  ASSUME OperatorInv, NEW o \in Operators, NEW l \in Swap!OperatorPcs, NEW x \in Locals,
         Belongs(l, x), opc' = [opc EXCEPT ![o] = l], op' = [op EXCEPT ![o] = x],
         loads' = loads, overlapped' \in BOOLEAN
  PROVE  OperatorInv'
BY DEF OperatorInv, Swap!OperatorTypes, Locals

LEMMA OperatorGoesOn ==
  ASSUME OperatorInv, NEW o \in Operators, NEW l \in Swap!OperatorPcs,
         Belongs(l, op[o]), opc' = [opc EXCEPT ![o] = l], op' = op,
         loads' = loads, overlapped' \in BOOLEAN
  PROVE  OperatorInv'
BY DEF OperatorInv, Swap!OperatorTypes

LEMMA OperatorAt ==
  ASSUME OperatorInv, NEW o \in Operators
  PROVE  /\ op[o] \in Locals
         /\ op[o] = [new |-> op[o].new, old |-> op[o].old, saved |-> op[o].saved,
                     strategy |-> op[o].strategy]
         /\ Belongs(opc[o], op[o])
         /\ opc[o] \in Swap!OperatorPcs
         /\ op \in [Operators -> Locals] /\ overlapped \in BOOLEAN
BY DEF OperatorInv, Swap!OperatorTypes, Locals

LEMMA OperatorStays ==
  ASSUME OperatorInv, UNCHANGED <<opc, op, loads, overlapped>> PROVE OperatorInv'
BY DEF OperatorInv, Swap!OperatorTypes

LEMMA RequestStays ==
  ASSUME RequestInv, UNCHANGED <<count, rpc, got>> PROVE RequestInv'
BY DEF RequestInv, Swap!RequestTypes

LEMMA FieldsStay ==
  ASSUME Swap!FieldTypes, UNCHANGED <<activeModel, staged, previous, split, history>>
  PROVE  Swap!FieldTypes'
BY DEF Swap!FieldTypes

LEMMA FieldsMove ==
  ASSUME Swap!FieldTypes, activeModel' \in Swap!Instances, previous' \in Swap!MaybeModel,
         UNCHANGED <<staged, split, history>>
  PROVE  Swap!FieldTypes'
BY DEF Swap!FieldTypes

LEMMA ModelTypes ==
  ASSUME Swap!FieldTypes
  PROVE  /\ activeModel \in Swap!Instances /\ activeModel \in Swap!MaybeModel
         /\ previous \in Swap!MaybeModel
BY DEF Swap!FieldTypes, Swap!MaybeModel

USE DEF Swap!fieldVars, Swap!requestVars

LEMMA PrepareLocal ==
  ASSUME Swap!HotSwapAssumption, LocalInv, NEW o \in Operators, NEW i \in Ids,
         Swap!Prepare(o, i)
  PROVE  LocalInv'
<1>1. loads + 1 \in 0..MaxLoads
  BY DEF Swap!Prepare, LocalInv, OperatorInv, Swap!OperatorTypes, Swap!HotSwapAssumption
<1>2. [id |-> i, load |-> loads + 1] \in Swap!Instances
  BY <1>1, InstanceShape
<1>3. Swap!FieldTypes'
  BY <1>2 DEF Swap!Prepare, LocalInv, Swap!FieldTypes, Swap!MaybeModel
<1>4. OperatorInv'
  BY <1>1 DEF Swap!Prepare, LocalInv, Swap!OperatorTypes, OperatorInv, Swap!NoteOverlap
<1> QED
  BY <1>3, <1>4, RequestStays DEF Swap!Prepare, LocalInv

LEMMA TakeStagedLocal ==
  ASSUME Swap!HotSwapAssumption, LocalInv, NEW o \in Operators, NEW i \in Ids,
         NEW s \in Swap!Strategies, Swap!TakeStaged(o, i, s)
  PROVE  LocalInv'
<1>1. s \in 0..257
  BY DEF Swap!Strategies, Swap!HotSwapAssumption, Swap!Immediate, Swap!Graceful
<1>2. staged[i] \in Swap!Instances /\ staged[i] \in Swap!MaybeModel
  BY DEF Swap!TakeStaged, LocalInv, Swap!FieldTypes, Swap!MaybeModel
<1>3. Swap!Carry(staged[i], s) \in Locals /\ Belongs("read", Swap!Carry(staged[i], s))
  BY <1>1, <1>2 DEF Swap!Carry, Locals, Belongs, Swap!MaybeModel
<1>4. OperatorInv'
  BY <1>3, OperatorMoves DEF Swap!TakeStaged, Swap!NoteOverlap, LocalInv, Swap!OperatorPcs,
     OperatorInv, Swap!OperatorTypes
<1>5. Swap!FieldTypes'
  BY DEF Swap!TakeStaged, LocalInv, Swap!FieldTypes, Swap!MaybeModel
<1> QED
  BY <1>4, <1>5, RequestStays DEF Swap!TakeStaged, LocalInv

LEMMA ReadActiveLocal ==
  ASSUME Swap!HotSwapAssumption, LocalInv, NEW o \in Operators, Swap!ReadActive(o)
  PROVE  LocalInv'
<1>1. CASE op[o].strategy \in 101..255
  <2>1. Swap!NoOp \in Locals /\ Belongs("ready", Swap!NoOp)
    BY DEF Swap!Carry, Swap!NoOp, Swap!Immediate, Locals, Belongs, Swap!MaybeModel
  <2>2. OperatorInv'
    BY <1>1, <2>1, OperatorMoves DEF Swap!ReadActive, LocalInv, Swap!OperatorPcs,
       OperatorInv, Swap!OperatorTypes
  <2> QED
    BY <2>2, RequestStays, FieldsStay DEF Swap!ReadActive, LocalInv
<1>2. CASE op[o].strategy \notin 101..255
  <2> DEFINE x == [new |-> op[o].new, old |-> activeModel, saved |-> op[o].saved,
                   strategy |-> op[o].strategy]
             l == Swap!FirstStep(op[o].strategy)
  <2>1. op[o] \in Locals /\ Belongs(opc[o], op[o]) /\ opc[o] = "read"
    BY OperatorAt DEF LocalInv, Swap!ReadActive
  <2>2. opc' = [opc EXCEPT ![o] = l] /\ op' = [op EXCEPT ![o] = x]
    <3>1. op' = [op EXCEPT ![o].old = activeModel] /\ opc' = [opc EXCEPT ![o] = l]
      BY <1>2 DEF Swap!ReadActive
    <3>2. op[o] \in Locals /\ activeModel \in Swap!MaybeModel
      BY OperatorAt, ModelTypes DEF LocalInv
    <3>3. [op[o] EXCEPT !.old = activeModel] = x
      BY <3>2 DEF Locals
    <3>4. [op EXCEPT ![o].old = activeModel] = [op EXCEPT ![o] = [op[o] EXCEPT !.old = activeModel]]
      BY Zenon
    <3> QED
      BY <3>1, <3>3, <3>4, Zenon
  <2>3. /\ l \in {"drain", "restage", "previous"}
        /\ l = "restage" <=> op[o].strategy \in 0..99
    BY DEF Swap!FirstStep, Swap!Graceful
  <2>4. x \in Locals /\ activeModel \in Swap!Instances
    BY <2>1 DEF Locals, LocalInv, Swap!FieldTypes, Swap!MaybeModel
  <2>5. Belongs(l, x) /\ l \in Swap!OperatorPcs
    BY <2>1, <2>3, <2>4 DEF Belongs, Swap!OperatorPcs
  <2> HIDE DEF x, l
  <2>6. OperatorInv'
    BY <2>2, <2>4, <2>5, OperatorMoves DEF Swap!ReadActive, LocalInv, OperatorInv,
       Swap!OperatorTypes
  <2> QED
    BY <2>6, RequestStays, FieldsStay DEF Swap!ReadActive, LocalInv
<1> QED
  BY <1>1, <1>2

\* The steps of an operator that only go on, or write a field.
LEMMA SwitchLocal ==
  ASSUME Swap!HotSwapAssumption, LocalInv, NEW o \in Operators,
         \/ Swap!Drained(o) \/ Swap!DrainTimeout(o) \/ Swap!WriteActive(o)
         \/ Swap!QueueSplit(o) \/ Swap!ClearSplit(o) \/ Swap!Restage(o)
         \/ Swap!RollbackWrite(o)
  PROVE  LocalInv'
<1>1. /\ op[o] \in Locals /\ Belongs(opc[o], op[o])
      /\ overlapped \in BOOLEAN
  BY OperatorAt DEF LocalInv, OperatorInv, Swap!OperatorTypes
<1>2. PICK l \in Swap!OperatorPcs : opc' = [opc EXCEPT ![o] = l] /\ Belongs(l, op[o])
  <2>1. CASE Swap!Drained(o) \/ Swap!DrainTimeout(o)
    BY <1>1, <2>1 DEF Swap!Drained, Swap!DrainTimeout, Belongs, Swap!OperatorPcs
  <2>2. CASE Swap!WriteActive(o)
    BY <1>1, <2>2 DEF Swap!WriteActive, Belongs, Swap!OperatorPcs
  <2>3. CASE Swap!QueueSplit(o)
    BY <1>1, <2>3 DEF Swap!QueueSplit, Belongs, Swap!OperatorPcs
  <2>4. CASE Swap!ClearSplit(o)
    BY <1>1, <2>4 DEF Swap!ClearSplit, Belongs, Swap!OperatorPcs
  <2>5. CASE Swap!Restage(o)
    BY <1>1, <2>5 DEF Swap!Restage, Belongs, Swap!OperatorPcs
  <2>6. CASE Swap!RollbackWrite(o)
    BY <1>1, <2>6 DEF Swap!RollbackWrite, Belongs, Swap!OperatorPcs
  <2> QED
    BY <2>1, <2>2, <2>3, <2>4, <2>5, <2>6
<1>3. UNCHANGED <<op, loads, overlapped, count, rpc, got>>
  BY DEF Swap!Drained, Swap!DrainTimeout, Swap!WriteActive, Swap!QueueSplit, Swap!ClearSplit,
     Swap!Restage, Swap!RollbackWrite
<1>4. OperatorInv'
  BY <1>1, <1>2, <1>3, OperatorGoesOn DEF LocalInv
<1>5. Swap!FieldTypes'
  <2> USE DEF LocalInv, Swap!FieldTypes
  <2>1. CASE Swap!Drained(o) \/ Swap!DrainTimeout(o) \/ Swap!QueueSplit(o)
    BY <2>1, FieldsStay DEF Swap!Drained, Swap!DrainTimeout, Swap!QueueSplit
  <2>2. CASE Swap!WriteActive(o) \/ Swap!RollbackWrite(o)
    <3>1. activeModel' = op[o].new /\ op[o].new \in Swap!Instances
      BY <1>1, <2>2 DEF Swap!WriteActive, Swap!RollbackWrite, Belongs
    <3> QED
      BY <2>2, <3>1, FieldsMove, ModelTypes DEF Swap!WriteActive, Swap!RollbackWrite
  <2>3. CASE Swap!ClearSplit(o)
    BY <2>3 DEF Swap!ClearSplit
  <2>4. CASE Swap!Restage(o)
    BY <1>1, <2>4, InstanceShape DEF Swap!Restage, Belongs, Swap!MaybeModel
  <2> QED
    BY <2>1, <2>2, <2>3, <2>4
<1> QED
  BY <1>3, <1>4, <1>5, RequestStays DEF LocalInv

LEMMA WritePreviousLocal ==
  ASSUME Swap!HotSwapAssumption, LocalInv, NEW o \in Operators, Swap!WritePrevious(o)
  PROVE  LocalInv'
<1> DEFINE x == [new |-> op[o].new, old |-> op[o].old, saved |-> previous,
                 strategy |-> op[o].strategy]
<1>1. op[o] \in Locals /\ Belongs("previous", op[o])
  BY OperatorAt DEF LocalInv, Swap!WritePrevious
<1>2. op' = [op EXCEPT ![o] = x]
  <2>1. op' = [op EXCEPT ![o].saved = previous]
    BY DEF Swap!WritePrevious
  <2>2. op[o] \in Locals /\ previous \in Swap!MaybeModel
    BY OperatorAt, ModelTypes DEF LocalInv
  <2>3. [op[o] EXCEPT !.saved = previous] = x
    BY <2>2 DEF Locals
  <2>4. [op EXCEPT ![o].saved = previous] = [op EXCEPT ![o] = [op[o] EXCEPT !.saved = previous]]
    BY Zenon
  <2> QED
    BY <2>1, <2>3, <2>4, Zenon
<1>3. x \in Locals /\ Belongs("active", x)
  BY <1>1 DEF Locals, LocalInv, Swap!FieldTypes, Belongs
<1> HIDE DEF x
<1>4. OperatorInv'
  BY <1>2, <1>3, OperatorMoves DEF Swap!WritePrevious, LocalInv, OperatorInv,
     Swap!OperatorTypes, Swap!OperatorPcs
<1>5. Swap!FieldTypes'
  BY <1>1 DEF Swap!WritePrevious, LocalInv, Swap!FieldTypes, Belongs, Swap!MaybeModel
<1> QED
  BY <1>4, <1>5, RequestStays DEF Swap!WritePrevious, LocalInv

LEMMA WriteSplitLocal ==
  ASSUME Swap!HotSwapAssumption, LocalInv, NEW o \in Operators, Swap!WriteSplit(o)
  PROVE  LocalInv'
<1>1. op[o] \in Locals /\ Belongs("splitting", op[o])
  BY OperatorAt DEF LocalInv, Swap!WriteSplit
<1>2. /\ op[o].new.id \in Ids /\ op[o].old.id \in Ids
      /\ op[o].strategy \in 0..100 /\ 100 - op[o].strategy \in 0..100
  BY <1>1, InstanceShape DEF Belongs
<1>3. DOMAIN split' \subseteq Ids /\ \A i \in DOMAIN split' : split'[i] \in 0..100
  BY <1>2 DEF Swap!WriteSplit, LocalInv, Swap!FieldTypes
<1>4. Swap!FieldTypes'
  BY <1>3 DEF Swap!WriteSplit, LocalInv, Swap!FieldTypes
<1>5. Belongs("record", op[o])
  BY <1>1 DEF Belongs
<1>6. OperatorInv'
  BY <1>5, OperatorGoesOn DEF Swap!WriteSplit, LocalInv, OperatorInv, Swap!OperatorTypes,
     Swap!OperatorPcs
<1> QED
  BY <1>4, <1>6, RequestStays DEF Swap!WriteSplit, LocalInv

LEMMA RecordLocal ==
  ASSUME Swap!HotSwapAssumption, LocalInv, NEW o \in Operators, Swap!Record(o)
  PROVE  LocalInv'
<1>1. op[o] \in Locals /\ Belongs("record", op[o])
  BY OperatorAt DEF LocalInv, Swap!Record
<1>2. [from |-> op[o].old, to |-> op[o].new, switched |-> op[o].strategy \notin 0..99]
        \in [from : Swap!Instances, to : Swap!Instances, switched : BOOLEAN]
  BY <1>1 DEF Belongs
<1>3. history' \in Seq([from : Swap!Instances, to : Swap!Instances, switched : BOOLEAN])
  BY <1>2, AppendProperties DEF Swap!Record, LocalInv, Swap!FieldTypes
<1>4. Swap!FieldTypes'
  BY <1>3 DEF Swap!Record, LocalInv, Swap!FieldTypes
<1>5. Swap!NoOp \in Locals /\ Belongs("ready", Swap!NoOp)
  BY DEF Swap!Carry, Swap!NoOp, Swap!Immediate, Locals, Belongs, Swap!MaybeModel
<1>6. OperatorInv'
  BY <1>5, OperatorMoves DEF Swap!Record, LocalInv, Swap!OperatorPcs, OperatorInv,
     Swap!OperatorTypes
<1> QED
  BY <1>4, <1>6, RequestStays DEF Swap!Record, LocalInv

LEMMA RollbackLocal ==
  ASSUME Swap!HotSwapAssumption, LocalInv, NEW o \in Operators,
         Swap!TakePrevious(o) \/ Swap!RollbackRead(o)
  PROVE  LocalInv'
<1>1. CASE Swap!TakePrevious(o)
  <2> DEFINE x == Swap!Carry(previous, Swap!Immediate)
  <2>1. x \in Locals /\ Belongs("rread", x)
    BY <1>1 DEF Swap!TakePrevious, LocalInv, Swap!FieldTypes, Swap!MaybeModel, Swap!Carry,
       Locals, Belongs, Swap!Immediate
  <2> HIDE DEF x
  <2>2. op' = [op EXCEPT ![o] = x] /\ opc' = [opc EXCEPT ![o] = "rread"]
    BY <1>1 DEF Swap!TakePrevious, x
  <2>3. OperatorInv'
    BY <1>1, <2>1, <2>2, OperatorMoves DEF Swap!TakePrevious, Swap!NoteOverlap, LocalInv,
       Swap!OperatorPcs, OperatorInv, Swap!OperatorTypes
  <2>4. Swap!FieldTypes'
    BY <1>1 DEF Swap!TakePrevious, LocalInv, Swap!FieldTypes, Swap!MaybeModel
  <2> QED
    BY <1>1, <2>3, <2>4, RequestStays DEF Swap!TakePrevious, LocalInv
<1>2. CASE Swap!RollbackRead(o)
  <2> DEFINE x == [new |-> op[o].new, old |-> activeModel, saved |-> op[o].saved,
                   strategy |-> op[o].strategy]
  <2>1. op[o] \in Locals /\ Belongs("rread", op[o])
    BY <1>2, OperatorAt DEF LocalInv, Swap!RollbackRead
  <2>2. op' = [op EXCEPT ![o] = x]
    <3>1. op' = [op EXCEPT ![o].old = activeModel]
      BY <1>2 DEF Swap!RollbackRead
    <3>2. op[o] \in Locals /\ activeModel \in Swap!MaybeModel
      BY OperatorAt, ModelTypes DEF LocalInv
    <3>3. [op[o] EXCEPT !.old = activeModel] = x
      BY <3>2 DEF Locals
    <3>4. [op EXCEPT ![o].old = activeModel] = [op EXCEPT ![o] = [op[o] EXCEPT !.old = activeModel]]
      BY Zenon
    <3> QED
      BY <3>1, <3>3, <3>4, Zenon
  <2>3. x \in Locals /\ Belongs("rwrite", x)
    BY <2>1 DEF Locals, LocalInv, Swap!FieldTypes, Belongs, Swap!MaybeModel
  <2> HIDE DEF x
  <2>4. OperatorInv'
    BY <1>2, <2>2, <2>3, OperatorMoves DEF Swap!RollbackRead, LocalInv, Swap!OperatorPcs,
       OperatorInv, Swap!OperatorTypes
  <2> QED
    BY <1>2, <2>4, FieldsStay, RequestStays DEF Swap!RollbackRead, LocalInv
<1> QED
  BY <1>1, <1>2

LEMMA RequestLocal ==
  ASSUME Swap!HotSwapAssumption, LocalInv, NEW r \in Tasks,
         Swap!ActiveModel(r) \/ Swap!SelectModel(r) \/ Swap!Serve(r)
  PROVE  LocalInv'
<1>1. UNCHANGED <<activeModel, staged, previous, split, history, opc, op, loads, overlapped>>
  BY DEF Swap!ActiveModel, Swap!SelectModel, Swap!Serve, Swap!SelectWhole,
     Swap!SelectReadActive, Swap!SelectDraw, Swap!Acquire, Swap!Release
<1>2. RequestInv'
  <2> USE DEF LocalInv, Swap!FieldTypes, Swap!RequestTypes, RequestInv, Swap!MaybeModel,
      Swap!Give
  <2>1. CASE Swap!ActiveModel(r) \/ Swap!SelectWhole(r)
    BY <2>1 DEF Swap!ActiveModel, Swap!SelectWhole
  <2>2. CASE Swap!SelectModel(r)
    BY <2>2 DEF Swap!SelectModel
  <2>3. CASE Swap!SelectReadActive(r)
    BY <2>3 DEF Swap!SelectReadActive
  <2>4. CASE Swap!SelectDraw(r)
    <3>1. PICK m \in Swap!Instances : Swap!Give(r, m)
      BY <2>4 DEF Swap!SelectDraw
    <3> QED
      BY <2>4, <3>1 DEF Swap!SelectDraw
  <2>5. CASE Swap!Acquire(r)
    BY <2>5, InstanceShape DEF Swap!Acquire
  <2>6. CASE Swap!Release(r)
    BY <2>6, InstanceShape DEF Swap!Release
  <2> QED
    BY <2>1, <2>2, <2>3, <2>4, <2>5, <2>6 DEF Swap!Serve
<1> QED
  BY <1>1, <1>2, OperatorStays, FieldsStay DEF LocalInv

LEMMA LocalStep ==
  ASSUME Swap!HotSwapAssumption, LocalInv, [Swap!Next]_swapVars PROVE LocalInv'
<1>1. CASE UNCHANGED swapVars
  BY <1>1, OperatorStays, FieldsStay, RequestStays DEF swapVars, LocalInv
<1>2. ASSUME NEW o \in Operators, Swap!Begin(o) \/ Swap!Proceed(o) PROVE LocalInv'
  BY <1>2, PrepareLocal, TakeStagedLocal, ReadActiveLocal, SwitchLocal, WritePreviousLocal,
     WriteSplitLocal, RecordLocal, RollbackLocal DEF Swap!Begin, Swap!Proceed
<1>3. ASSUME NEW r \in Tasks, Swap!ActiveModel(r) \/ Swap!SelectModel(r) \/ Swap!Serve(r)
      PROVE  LocalInv'
  BY <1>3, RequestLocal
<1> QED
  BY <1>1, <1>2, <1>3 DEF Swap!Next
-----------------------------------------------------------------------------
(* HotSwap: the counts of requests *)

\* The operators of FiniteSets as HotSwap sees them.
LEMMA SwapSets ==
  ASSUME NEW S
  PROVE  /\ Swap!IsFiniteSet(S) <=> IsFiniteSet(S)
         /\ Swap!Cardinality(S) = Cardinality(S)
BY DEF IsFiniteSet, Swap!IsFiniteSet, Cardinality, Swap!Cardinality

Users(n) == {r \in Tasks : rpc[r] = "using" /\ got[r].load = n}

LEMMA CountMeaning ==
  Swap!CountExact <=> \A n \in 0..MaxLoads : count[n] = Cardinality(Users(n))
BY SwapSets DEF Swap!CountExact, Users

LEMMA CountMeaningNext ==
  Swap!CountExact' <=> \A n \in 0..MaxLoads : count'[n] = Cardinality(Users(n)')
BY SwapSets DEF Swap!CountExact, Users

LEMMA UsersFinite ==
  ASSUME Swap!HotSwapAssumption, NEW n
  PROVE  IsFiniteSet(Users(n)) /\ Cardinality(Users(n)) \in Nat
<1>1. IsFiniteSet(Tasks) /\ Users(n) \subseteq Tasks
  BY SwapSets DEF Swap!HotSwapAssumption, Users
<1> QED
  BY <1>1, FS_Subset, FS_CardinalityType

LEMMA CountStays ==
  ASSUME Swap!CountExact, count' = count, \A n \in 0..MaxLoads : Users(n)' = Users(n)
  PROVE  Swap!CountExact'
BY CountMeaning, CountMeaningNext

LEMMA CountInitial == ASSUME Swap!HotSwapAssumption, Swap!Init PROVE Swap!CountExact
<1>1. ASSUME NEW n \in 0..MaxLoads PROVE count[n] = Cardinality(Users(n))
  <2>1. count[n] = 0 /\ Users(n) = {}
    BY DEF Swap!Init, Users
  <2> QED
    BY <2>1, FS_EmptySet
<1> QED
  BY <1>1, CountMeaning

LEMMA AcquireCounts ==
  ASSUME Swap!HotSwapAssumption, LocalInv, Swap!CountExact, NEW r \in Tasks, Swap!Acquire(r)
  PROVE  Swap!CountExact'
<1> DEFINE k == got[r].load
<1>1. k \in 0..MaxLoads /\ rpc[r] = "chosen"
  BY InstanceShape DEF Swap!Acquire, LocalInv, RequestInv
<1>2. ASSUME NEW n \in 0..MaxLoads
      PROVE  Users(n)' = IF n = k THEN Users(n) \cup {r} ELSE Users(n)
  BY DEF Swap!Acquire, Users, LocalInv, RequestInv, Swap!RequestTypes
<1>3. r \notin Users(k)
  BY <1>1 DEF Users
<1>4. ASSUME NEW n \in 0..MaxLoads
      PROVE  count'[n] = IF n = k THEN count[n] + 1 ELSE count[n]
  BY <1>1 DEF Swap!Acquire, LocalInv, RequestInv, Swap!RequestTypes
<1>5. ASSUME NEW n \in 0..MaxLoads PROVE count'[n] = Cardinality(Users(n)')
  <2>1. count[n] = Cardinality(Users(n))
    BY CountMeaning
  <2>2. CASE n = k
    <3>1. Cardinality(Users(n) \cup {r}) = Cardinality(Users(n)) + 1
      BY <1>3, <2>2, UsersFinite, FS_AddElement
    <3> QED
      BY <1>2, <1>4, <2>1, <2>2, <3>1
  <2>3. CASE n # k
    BY <1>2, <1>4, <2>1, <2>3
  <2> QED
    BY <2>2, <2>3
<1> QED
  BY <1>5, CountMeaningNext

LEMMA ReleaseCounts ==
  ASSUME Swap!HotSwapAssumption, LocalInv, Swap!CountExact, NEW r \in Tasks, Swap!Release(r)
  PROVE  Swap!CountExact'
<1> DEFINE k == got[r].load
<1>1. k \in 0..MaxLoads /\ rpc[r] = "using"
  BY InstanceShape DEF Swap!Release, LocalInv, RequestInv
<1>2. ASSUME NEW n \in 0..MaxLoads
      PROVE  Users(n)' = IF n = k THEN Users(n) \ {r} ELSE Users(n)
  BY <1>1 DEF Swap!Release, Users, LocalInv, RequestInv, Swap!RequestTypes
<1>3. r \in Users(k)
  BY <1>1 DEF Users
<1>4. ASSUME NEW n \in 0..MaxLoads
      PROVE  count'[n] = IF n # k THEN count[n] ELSE IF count[n] > 0 THEN count[n] - 1 ELSE 0
  BY <1>1 DEF Swap!Release, LocalInv, RequestInv, Swap!RequestTypes
<1>5. ASSUME NEW n \in 0..MaxLoads PROVE count'[n] = Cardinality(Users(n)')
  <2>1. count[n] = Cardinality(Users(n))
    BY CountMeaning
  <2>2. CASE n = k
    <3>1. /\ Cardinality(Users(n) \ {r}) = Cardinality(Users(n)) - 1
          /\ Cardinality(Users(n) \ {r}) \in Nat
      BY <1>3, <2>2, UsersFinite, FS_RemoveElement, FS_CardinalityType
    <3>2. Cardinality(Users(n)) \in Nat
      BY UsersFinite
    <3>3. count[n] > 0
      BY <2>1, <3>1, <3>2
    <3>4. count'[n] = count[n] - 1 /\ Users(n)' = Users(n) \ {r}
      BY <1>2, <1>4, <2>2, <3>3
    <3> QED
      BY <2>1, <3>1, <3>4
  <2>3. CASE n # k
    BY <1>2, <1>4, <2>1, <2>3
  <2> QED
    BY <2>2, <2>3
<1> QED
  BY <1>5, CountMeaningNext

LEMMA CountStep ==
  ASSUME Swap!HotSwapAssumption, LocalInv, Swap!CountExact, [Swap!Next]_swapVars
  PROVE  Swap!CountExact'
<1>1. CASE UNCHANGED <<count, rpc, got>>
  BY <1>1, CountStays DEF Users
<1>2. ASSUME NEW r \in Tasks,
             \/ Swap!ActiveModel(r) \/ Swap!SelectModel(r) \/ Swap!SelectWhole(r)
             \/ Swap!SelectReadActive(r) \/ Swap!SelectDraw(r)
      PROVE  Swap!CountExact'
  <2>1. /\ count' = count /\ rpc[r] # "using" /\ rpc'[r] # "using"
        /\ \A q \in Tasks \ {r} : rpc'[q] = rpc[q] /\ got'[q] = got[q]
    <3> USE DEF LocalInv, RequestInv, Swap!RequestTypes, Swap!Give
    <3>1. CASE Swap!ActiveModel(r) \/ Swap!SelectWhole(r)
      BY <3>1 DEF Swap!ActiveModel, Swap!SelectWhole
    <3>2. CASE Swap!SelectModel(r)
      BY <3>2 DEF Swap!SelectModel
    <3>3. CASE Swap!SelectReadActive(r)
      BY <3>3 DEF Swap!SelectReadActive
    <3>4. CASE Swap!SelectDraw(r)
      BY <3>4 DEF Swap!SelectDraw
    <3> QED
      BY <1>2, <3>1, <3>2, <3>3, <3>4
  <2>2. \A n \in 0..MaxLoads : Users(n)' = Users(n)
    BY <2>1 DEF Users
  <2> QED
    BY <2>1, <2>2, CountStays
<1>3. ASSUME NEW o \in Operators, Swap!Begin(o) \/ Swap!Proceed(o)
      PROVE  UNCHANGED <<count, rpc, got>>
  BY <1>3 DEF Swap!Begin, Swap!Proceed, Swap!Prepare, Swap!TakeStaged, Swap!TakePrevious,
     Swap!ReadActive, Swap!Drained, Swap!DrainTimeout, Swap!WritePrevious, Swap!WriteActive,
     Swap!Restage, Swap!QueueSplit, Swap!ClearSplit, Swap!WriteSplit, Swap!RollbackRead,
     Swap!RollbackWrite, Swap!Record
<1> QED
  BY <1>1, <1>2, <1>3, AcquireCounts, ReleaseCounts DEF Swap!Next, Swap!Serve, swapVars
-----------------------------------------------------------------------------
(* HotSwap: each candidate has one owner *)

\* An operator that carries a model which is or was active.
Switched(o) ==
  \/ opc[o] \in {"clear", "clearing", "rread", "rwrite"}
  \/ opc[o] = "record" /\ op[o].strategy \notin 0..99

\* Models that are or were in service are never candidates again.
InService(m) ==
  \/ m = activeModel \/ m = previous
  \/ \E o \in Operators : m = op[o].old \/ (Switched(o) /\ m = op[o].new)

OwnerInv ==
  /\ \A o \in Swap!Candidates : ~InService(op[o].new)
  /\ \A i \in Ids : staged[i] # NoModel => ~InService(staged[i])
  /\ \A o, p \in Swap!Candidates : o # p => op[o].new # op[p].new
  /\ \A o \in Swap!Candidates, i \in Ids : staged[i] # op[o].new

\* The next model to be loaded is a new one.
Loaded(m, n) == m # NoModel => m.load \in 0..n
FreshInv ==
  /\ Loaded(activeModel, loads) /\ Loaded(previous, loads)
  /\ \A i \in Ids : Loaded(staged[i], loads)
  /\ \A o \in Operators : Loaded(op[o].new, loads) /\ Loaded(op[o].old, loads)

LEMMA OwnerInitial ==
  ASSUME Swap!HotSwapAssumption, Swap!Init PROVE OwnerInv /\ FreshInv
BY InstanceShape DEF Swap!Init, OwnerInv, FreshInv, Loaded, Swap!Candidates, Swap!NoOp, Swap!Carry,
   Swap!Initial

LEMMA OwnerImplies == ASSUME Swap!HotSwapAssumption, LocalInv, OwnerInv PROVE Swap!CandidateUnique
<1>1. \A o \in Swap!Candidates : op[o].new \in Swap!Instances
  BY DEF Swap!Candidates, LocalInv, OperatorInv, Belongs
<1>2. Swap!Range1(staged) = {staged[i] : i \in Ids}
  BY DEF Swap!Range1, LocalInv, Swap!FieldTypes
<1> QED
  BY <1>1, <1>2 DEF OwnerInv, Swap!CandidateUnique, InService

\* The others stay where they are.
LEMMA OthersStay ==
  ASSUME OperatorInv, NEW o \in Operators, Swap!Begin(o) \/ Swap!Proceed(o)
  PROVE  \A p \in Operators : p # o => opc'[p] = opc[p] /\ op'[p] = op[p]
BY DEF OperatorInv, Swap!OperatorTypes, Swap!Begin, Swap!Proceed, Swap!Prepare, Swap!TakeStaged,
       Swap!TakePrevious, Swap!ReadActive, Swap!Drained, Swap!DrainTimeout, Swap!WritePrevious,
       Swap!WriteActive, Swap!Restage, Swap!QueueSplit, Swap!ClearSplit, Swap!WriteSplit,
       Swap!RollbackRead, Swap!RollbackWrite, Swap!Record

\* A step that puts no model into service and makes no candidate changes no owner.
LEMMA OwnerKeeps ==
  ASSUME LocalInv, LocalInv', Swap!HotSwapAssumption, OwnerInv, staged' = staged,
         \A m : InService(m)' => InService(m) \/ m = NoModel,
         \A p \in Swap!Candidates' : p \in Swap!Candidates /\ op'[p].new = op[p].new
  PROVE  OwnerInv'
<1>1. \A p \in Swap!Candidates' : p \in Operators /\ op'[p].new # NoModel
  BY InstanceShape DEF Swap!Candidates, LocalInv, OperatorInv, Belongs
<1> QED
  BY <1>1 DEF OwnerInv

LEMMA PrepareOwner ==
  ASSUME Swap!HotSwapAssumption, LocalInv, OwnerInv, FreshInv, NEW o \in Operators,
         NEW i \in Ids, Swap!Prepare(o, i)
  PROVE  OwnerInv' /\ FreshInv'
<1> DEFINE m == [id |-> i, load |-> loads + 1]
<1>1. /\ loads \in Nat /\ loads' = loads + 1
      /\ UNCHANGED <<activeModel, previous, opc, op>>
      /\ \A j \in Ids : staged'[j] = IF j = i THEN m ELSE staged[j]
      /\ m.load = loads + 1
  BY DEF Swap!Prepare, LocalInv, OperatorInv, Swap!OperatorTypes, Swap!HotSwapAssumption,
     Swap!FieldTypes
<1> HIDE DEF m
<1>2. \A n : Loaded(n, loads) => Loaded(n, loads + 1)
  BY <1>1 DEF Loaded
<1>3. FreshInv'
  <2>1. Loaded(m, loads + 1)
    BY <1>1 DEF Loaded
  <2> QED
    BY <1>1, <1>2, <2>1 DEF FreshInv
<1>4. m # NoModel => /\ m # activeModel /\ m # previous
                    /\ \A p \in Operators : m # op[p].new /\ m # op[p].old
  <2>1. ~Loaded(m, loads) \/ m = NoModel
    BY <1>1 DEF Loaded
  <2> QED
    BY <2>1 DEF FreshInv
<1>5. \A p \in Swap!Candidates : p \in Operators /\ op[p].new # NoModel
  BY InstanceShape DEF Swap!Candidates, LocalInv, OperatorInv, Belongs
<1>6. Swap!Candidates' = Swap!Candidates /\ \A n : InService(n)' = InService(n)
  BY <1>1 DEF Swap!Candidates, InService, Switched
<1>7. m # NoModel => ~InService(m)
  BY <1>4 DEF InService
<1>8. OwnerInv'
  BY <1>1, <1>4, <1>5, <1>6, <1>7 DEF OwnerInv
<1> QED
  BY <1>3, <1>8

LEMMA TakeStagedOwner ==
  ASSUME Swap!HotSwapAssumption, LocalInv, OwnerInv, NEW o \in Operators, NEW i \in Ids,
         NEW s \in Swap!Strategies, Swap!TakeStaged(o, i, s)
  PROVE  OwnerInv'
<1>1. /\ UNCHANGED <<activeModel, previous>>
      /\ \A j \in Ids : staged'[j] = IF j = i THEN NoModel ELSE staged[j]
      /\ staged[i] # NoModel
      /\ \A j \in Ids : staged[j] # NoModel => staged[j].id = j
      /\ opc[o] = "ready" /\ opc'[o] = "read"
      /\ op'[o].new = staged[i] /\ op'[o].old = NoModel
      /\ \A p \in Operators : p # o => opc'[p] = opc[p] /\ op'[p] = op[p]
  BY DEF Swap!TakeStaged, Swap!MayBegin, LocalInv, OperatorInv, Swap!OperatorTypes, Swap!Carry,
     Swap!FieldTypes
<1>2. \A n : InService(n)' => InService(n) \/ n = NoModel
  BY <1>1 DEF InService, Switched
<1>3. /\ o \notin Swap!Candidates /\ Swap!Candidates' = Swap!Candidates \cup {o}
      /\ Swap!Candidates \subseteq Operators
  BY <1>1 DEF Swap!Candidates
<1>4. \A p \in Swap!Candidates : op[p].new # NoModel
  BY InstanceShape DEF Swap!Candidates, LocalInv, OperatorInv, Belongs
<1>5. \A p \in Swap!Candidates : p # o /\ op'[p].new = op[p].new
  BY <1>1, <1>3
<1> QED
  BY <1>1, <1>2, <1>3, <1>4, <1>5 DEF OwnerInv

LEMMA WriteActiveOwner ==
  ASSUME Swap!HotSwapAssumption, LocalInv, OwnerInv, NEW o \in Operators, Swap!WriteActive(o)
  PROVE  OwnerInv'
<1>1. /\ UNCHANGED <<previous, staged, op>> /\ activeModel' = op[o].new
      /\ opc[o] = "active" /\ opc'[o] \in {"clear", "record"}
      /\ \A p \in Operators : p # o => opc'[p] = opc[p]
  BY DEF Swap!WriteActive, LocalInv, OperatorInv, Swap!OperatorTypes
<1>2. /\ o \in Swap!Candidates /\ Swap!Candidates' = Swap!Candidates \ {o}
      /\ Swap!Candidates \subseteq Operators
  BY <1>1 DEF Swap!Candidates
<1>3. \A n : InService(n)' => InService(n) \/ n = op[o].new
  BY <1>1 DEF InService, Switched
<1> QED
  BY <1>1, <1>2, <1>3 DEF OwnerInv

LEMMA RestageOwner ==
  ASSUME Swap!HotSwapAssumption, LocalInv, OwnerInv, NEW o \in Operators, Swap!Restage(o)
  PROVE  OwnerInv'
<1>1. op[o].new.id \in Ids
  BY InstanceShape DEF Swap!Restage, LocalInv, OperatorInv, Belongs
<1>2. /\ UNCHANGED <<previous, activeModel, op>>
      /\ \A j \in Ids : staged'[j] = IF j = op[o].new.id THEN op[o].new ELSE staged[j]
      /\ opc[o] = "restage" /\ opc'[o] = "split"
      /\ \A p \in Operators : p # o => opc'[p] = opc[p]
  BY <1>1 DEF Swap!Restage, LocalInv, OperatorInv, Swap!OperatorTypes, Swap!FieldTypes
<1>3. /\ o \in Swap!Candidates /\ Swap!Candidates' = Swap!Candidates \ {o}
      /\ Swap!Candidates \subseteq Operators
  BY <1>2 DEF Swap!Candidates
<1>4. \A n : InService(n)' => InService(n)
  BY <1>2 DEF InService, Switched
<1> QED
  BY <1>2, <1>3, <1>4 DEF OwnerInv

LEMMA ProceedOwner ==
  ASSUME Swap!HotSwapAssumption, LocalInv, LocalInv', OwnerInv, NEW o \in Operators,
         \/ Swap!ReadActive(o) \/ Swap!Drained(o) \/ Swap!DrainTimeout(o)
         \/ Swap!WritePrevious(o) \/ Swap!QueueSplit(o) \/ Swap!ClearSplit(o)
         \/ Swap!WriteSplit(o) \/ Swap!Record(o) \/ Swap!TakePrevious(o)
         \/ Swap!RollbackRead(o) \/ Swap!RollbackWrite(o)
  PROVE  OwnerInv'
<1>1. \A p \in Operators : p # o => opc'[p] = opc[p] /\ op'[p] = op[p]
  BY OthersStay DEF Swap!Begin, Swap!Proceed, LocalInv
<1>2. /\ o \in Operators /\ op[o] \in Locals /\ opc \in [Operators -> Swap!OperatorPcs]
      /\ op \in [Operators -> Locals]
  BY OperatorAt DEF LocalInv, OperatorInv, Swap!OperatorTypes
<1>3. /\ staged' = staged
      /\ o \in Swap!Candidates' => o \in Swap!Candidates /\ op'[o].new = op[o].new
      /\ activeModel' \in {activeModel, op[o].new}
      /\ activeModel' = op[o].new => activeModel' = activeModel \/ Switched(o)
      /\ previous' \in {previous, op[o].old, NoModel}
      /\ op'[o].old \in {op[o].old, activeModel, NoModel}
      /\ Switched(o)' => (Switched(o) /\ op'[o].new = op[o].new) \/ op'[o].new = previous
  <2> USE <1>2 DEF Swap!Candidates, Switched
  <2>1. CASE Swap!ReadActive(o)
    BY <2>1 DEF Swap!ReadActive, Swap!FirstStep, Swap!NoOp, Swap!Carry, Locals
  <2>2. CASE Swap!Drained(o) \/ Swap!DrainTimeout(o)
    BY <2>2 DEF Swap!Drained, Swap!DrainTimeout
  <2>3. CASE Swap!WritePrevious(o)
    BY <2>3 DEF Swap!WritePrevious, Locals
  <2>4. CASE Swap!QueueSplit(o)
    BY <2>4 DEF Swap!QueueSplit
  <2>5. CASE Swap!ClearSplit(o)
    BY <2>5 DEF Swap!ClearSplit
  <2>6. CASE Swap!WriteSplit(o)
    BY <2>6 DEF Swap!WriteSplit, LocalInv, OperatorInv, Belongs
  <2>7. CASE Swap!Record(o)
    BY <2>7 DEF Swap!Record, Swap!NoOp, Swap!Carry
  <2>8. CASE Swap!TakePrevious(o)
    BY <2>8 DEF Swap!TakePrevious, Swap!Carry
  <2>9. CASE Swap!RollbackRead(o)
    BY <2>9 DEF Swap!RollbackRead, Locals
  <2>10. CASE Swap!RollbackWrite(o)
    BY <2>10 DEF Swap!RollbackWrite
  <2> QED
    BY <2>1, <2>2, <2>3, <2>4, <2>5, <2>6, <2>7, <2>8, <2>9, <2>10
<1>4. \A p \in Operators : p # o => Switched(p)' = Switched(p)
  BY <1>1 DEF Switched
<1>5. \A m : InService(m)' => InService(m) \/ m = NoModel
  BY <1>1, <1>3, <1>4 DEF InService
<1>6. \A p \in Swap!Candidates' : p \in Swap!Candidates /\ op'[p].new = op[p].new
  BY <1>1, <1>3 DEF Swap!Candidates
<1> QED
  BY <1>3, <1>5, <1>6, OwnerKeeps

\* Only prepare_swap makes a model.
LEMMA FreshKeeps ==
  ASSUME LocalInv, FreshInv, NEW o \in Operators,
         \/ \E i \in Ids, s \in Swap!Strategies : Swap!TakeStaged(o, i, s)
         \/ Swap!TakePrevious(o) \/ Swap!Proceed(o)
  PROVE  FreshInv'
<1>1. /\ \A p \in Operators : p # o => op'[p] = op[p]
      /\ loads' = loads
  BY OthersStay DEF Swap!Begin, LocalInv, Swap!TakeStaged, Swap!TakePrevious, Swap!Proceed,
     Swap!ReadActive, Swap!Drained, Swap!DrainTimeout, Swap!WritePrevious, Swap!WriteActive,
     Swap!Restage, Swap!QueueSplit, Swap!ClearSplit, Swap!WriteSplit, Swap!RollbackRead,
     Swap!RollbackWrite, Swap!Record
<1> DEFINE Old(m) == \/ m = NoModel \/ m = activeModel \/ m = previous
                    \/ m = op[o].new \/ m = op[o].old \/ \E i \in Ids : m = staged[i]
<1>2. \A m : Old(m) => Loaded(m, loads)
  BY DEF FreshInv, Loaded
<1>3. /\ op[o] \in Locals /\ op \in [Operators -> Locals]
      /\ staged \in [Ids -> Swap!MaybeModel]
  BY OperatorAt DEF LocalInv, Swap!FieldTypes
<1>4. Old(activeModel') /\ Old(previous') /\ Old(op'[o].new) /\ Old(op'[o].old)
      /\ \A i \in Ids : Old(staged'[i])
  <2> USE <1>3
  <2>1. CASE \E i \in Ids, s \in Swap!Strategies : Swap!TakeStaged(o, i, s)
    BY <2>1 DEF Swap!TakeStaged, Swap!Carry
  <2>2. CASE Swap!ReadActive(o)
    BY <2>2 DEF Swap!ReadActive, Swap!NoOp, Swap!Carry, Locals
  <2>3. CASE Swap!Drained(o) \/ Swap!DrainTimeout(o) \/ Swap!QueueSplit(o)
             \/ Swap!ClearSplit(o) \/ Swap!WriteSplit(o)
    BY <2>3 DEF Swap!Drained, Swap!DrainTimeout, Swap!QueueSplit, Swap!ClearSplit,
       Swap!WriteSplit
  <2>4. CASE Swap!WritePrevious(o)
    BY <2>4 DEF Swap!WritePrevious, Locals
  <2>5. CASE Swap!WriteActive(o) \/ Swap!RollbackWrite(o)
    BY <2>5 DEF Swap!WriteActive, Swap!RollbackWrite
  <2>6. CASE Swap!Restage(o)
    BY <2>6 DEF Swap!Restage
  <2>7. CASE Swap!Record(o)
    BY <2>7 DEF Swap!Record, Swap!NoOp, Swap!Carry
  <2>8. CASE Swap!TakePrevious(o)
    BY <2>8 DEF Swap!TakePrevious, Swap!Carry
  <2>9. CASE Swap!RollbackRead(o)
    BY <2>9 DEF Swap!RollbackRead, Locals
  <2> QED
    BY <2>1, <2>2, <2>3, <2>4, <2>5, <2>6, <2>7, <2>8, <2>9 DEF Swap!Proceed
<1> HIDE DEF Old
<1> QED
  BY <1>1, <1>2, <1>4 DEF FreshInv

LEMMA OwnerStep ==
  ASSUME Swap!HotSwapAssumption, LocalInv, OwnerInv, FreshInv, [Swap!Next]_swapVars
  PROVE  OwnerInv' /\ FreshInv'
<1>1. LocalInv'
  BY LocalStep
<1>2. CASE UNCHANGED <<activeModel, previous, staged, opc, op, loads>>
  BY <1>2 DEF OwnerInv, FreshInv, InService, Switched, Swap!Candidates
<1>3. ASSUME NEW r \in Tasks, Swap!ActiveModel(r) \/ Swap!SelectModel(r) \/ Swap!Serve(r)
      PROVE  UNCHANGED <<activeModel, previous, staged, opc, op, loads>>
  BY <1>3 DEF Swap!ActiveModel, Swap!SelectModel, Swap!Serve, Swap!SelectWhole,
     Swap!SelectReadActive, Swap!SelectDraw, Swap!Acquire, Swap!Release
<1>4. ASSUME NEW o \in Operators, Swap!Begin(o) \/ Swap!Proceed(o)
      PROVE  OwnerInv' /\ FreshInv'
  <2>1. CASE \E i \in Ids : Swap!Prepare(o, i)
    BY <2>1, PrepareOwner
  <2>2. CASE \/ \E i \in Ids, s \in Swap!Strategies : Swap!TakeStaged(o, i, s)
             \/ Swap!TakePrevious(o) \/ Swap!Proceed(o)
    BY <1>1, <2>2, FreshKeeps, TakeStagedOwner, WriteActiveOwner, RestageOwner, ProceedOwner
       DEF Swap!Proceed
  <2> QED
    BY <1>4, <2>1, <2>2 DEF Swap!Begin
<1> QED
  BY <1>2, <1>3, <1>4 DEF Swap!Next, swapVars
-----------------------------------------------------------------------------
(* HotSwap: operators that act one after the other *)

\* Switched and not yet on record, or split and not yet on record.
Done(o) ==
  \/ opc[o] \in {"clear", "clearing"}
  \/ opc[o] = "record" /\ op[o].strategy \notin 0..99
Partial(o) ==
  \/ opc[o] \in {"split", "splitting"}
  \/ opc[o] = "record" /\ op[o].strategy \in 0..99

\* What the operator at work knows and has done.
Solo(o) ==
  /\ Swap!Replays(history, Len(history), IF Done(o) THEN op[o].old ELSE activeModel)
  /\ Done(o) => activeModel = op[o].new
  /\ opc[o] \in {"drain", "previous", "active", "rwrite"} => op[o].old = activeModel
  /\ opc[o] = "active" => previous = op[o].old
  /\ opc[o] \in {"rread", "rwrite"} => previous = NoModel
  /\ Partial(o) => staged[op[o].new.id] = op[o].new

SoloInv ==
  ~overlapped =>
    /\ Swap!HistoryReplays
    /\ \A o \in Operators : opc[o] # "ready" =>
         /\ \A p \in Operators : p # o => opc[p] = "ready"
         /\ Solo(o)

Events == [from : Swap!Instances, to : Swap!Instances, switched : BOOLEAN]

LEMMA SoloInitial == ASSUME Swap!HotSwapAssumption, Swap!Init PROVE SoloInv
BY DEF Swap!Init, SoloInv, Swap!HistoryReplays, Swap!Replays

\* What an entry adds to the log.
LEMMA ReplaysAppend ==
  ASSUME NEW log \in Seq(Events), NEW e \in Events, NEW m
  PROVE  /\ \A n \in 0..Len(log) : Swap!Replays(log, n, m) => Swap!Replays(Append(log, e), n, m)
         /\ e.switched => Swap!Replays(Append(log, e), Len(log) + 1, e.to)
         /\ ~e.switched /\ Swap!Replays(log, Len(log), m) =>
              Swap!Replays(Append(log, e), Len(log) + 1, m)
<1>1. /\ Len(Append(log, e)) = Len(log) + 1 /\ Len(log) \in Nat
      /\ \A n \in 1..Len(log) : Append(log, e)[n] = log[n]
      /\ Append(log, e)[Len(log) + 1] = e
  BY AppendProperties
<1> DEFINE longer == Append(log, e)
<1> HIDE DEF longer
<1>2. \A n \in 0..Len(log) : Swap!Replays(log, n, m) => Swap!Replays(longer, n, m)
  BY <1>1 DEF Swap!Replays, longer
<1>3. e.switched => Swap!Replays(longer, Len(log) + 1, e.to)
  BY <1>1 DEF Swap!Replays, longer
<1>4. ~e.switched /\ Swap!Replays(log, Len(log), m) =>
              Swap!Replays(longer, Len(log) + 1, m)
  BY <1>1 DEF Swap!Replays, longer
<1> QED
  BY <1>2, <1>3, <1>4 DEF longer

LogOk == \A n \in 1..Len(history) :
           history[n].switched => Swap!Replays(history, n - 1, history[n].from)

\* A step of an operator that has been alone: the others are ready.
LEMMA SoloBefore ==
  ASSUME LocalInv, SoloInv, NEW o \in Operators, Swap!Begin(o) \/ Swap!Proceed(o), ~overlapped'
  PROVE  /\ ~overlapped /\ LogOk
         /\ \A p \in Operators : p # o => opc[p] = "ready" /\ opc'[p] = "ready"
         /\ opc[o] # "ready" => Solo(o)
         /\ opc[o] = "ready" => Swap!Replays(history, Len(history), activeModel)
<1>1. \A p \in Operators : p # o => opc'[p] = opc[p]
  BY OthersStay DEF LocalInv
<1>2. CASE Swap!Begin(o)
  <2>1. /\ opc[o] = "ready" /\ ~overlapped
        /\ \A p \in Operators \ {o} : opc[p] = "ready"
    BY <1>2 DEF Swap!Begin, Swap!Prepare, Swap!TakeStaged, Swap!TakePrevious, Swap!MayBegin,
       Swap!NoteOverlap
  <2> QED
    BY <1>1, <2>1 DEF SoloInv, Swap!HistoryReplays, LogOk
<1>3. CASE Swap!Proceed(o)
  <2>1. opc[o] # "ready"
    BY <1>3 DEF Swap!Proceed, Swap!ReadActive, Swap!Drained, Swap!DrainTimeout,
       Swap!WritePrevious, Swap!WriteActive, Swap!Restage, Swap!QueueSplit, Swap!ClearSplit,
       Swap!WriteSplit, Swap!RollbackRead, Swap!RollbackWrite, Swap!Record
  <2>2. overlapped' = overlapped
    BY <1>3, Zenon DEF Swap!Proceed, Swap!ReadActive, Swap!Drained, Swap!DrainTimeout,
       Swap!WritePrevious, Swap!WriteActive, Swap!Restage, Swap!QueueSplit, Swap!ClearSplit,
       Swap!WriteSplit, Swap!RollbackRead, Swap!RollbackWrite, Swap!Record
  <2> QED
    BY <1>1, <2>1, <2>2 DEF SoloInv, Swap!HistoryReplays, LogOk
<1> QED
  BY <1>2, <1>3

LEMMA SoloAfter ==
  ASSUME NEW o \in Operators, LogOk', \A p \in Operators : p # o => opc'[p] = "ready",
         opc'[o] # "ready" => Solo(o)',
         opc'[o] = "ready" => Swap!Replays(history', Len(history'), activeModel')
  PROVE  SoloInv'
BY DEF SoloInv, Swap!HistoryReplays, LogOk

LEMMA BeginSolo ==
  ASSUME Swap!HotSwapAssumption, LocalInv, SoloInv, NEW o \in Operators, Swap!Begin(o)
  PROVE  SoloInv'
<1> SUFFICES ASSUME ~overlapped' PROVE SoloInv'
  BY DEF SoloInv
<1>1. /\ LogOk /\ \A p \in Operators : p # o => opc'[p] = "ready"
      /\ opc[o] = "ready" => Swap!Replays(history, Len(history), activeModel)
  BY SoloBefore
<1>2. /\ opc[o] = "ready" /\ UNCHANGED <<history, activeModel>>
      /\ opc \in [Operators -> Swap!OperatorPcs] /\ op \in [Operators -> Locals]
  BY OperatorAt DEF Swap!Begin, Swap!Prepare, Swap!TakeStaged, Swap!TakePrevious,
     Swap!MayBegin, LocalInv, OperatorInv, Swap!OperatorTypes
<1>3. LogOk'
  BY <1>1, <1>2 DEF LogOk
<1>4. CASE \E i \in Ids : Swap!Prepare(o, i)
  BY <1>1, <1>2, <1>3, <1>4, SoloAfter DEF Swap!Prepare
<1>5. CASE \E i \in Ids, s \in Swap!Strategies : Swap!TakeStaged(o, i, s)
  <2>1. opc'[o] = "read"
    BY <1>2, <1>5 DEF Swap!TakeStaged
  <2>2. Solo(o)'
    BY <1>1, <1>2, <2>1 DEF Solo, Done, Partial
  <2> QED
    BY <1>1, <1>3, <2>1, <2>2, SoloAfter
<1>6. CASE Swap!TakePrevious(o)
  <2>1. opc'[o] = "rread" /\ previous' = NoModel
    BY <1>2, <1>6 DEF Swap!TakePrevious
  <2>2. Solo(o)'
    BY <1>1, <1>2, <2>1 DEF Solo, Done, Partial
  <2> QED
    BY <1>1, <1>3, <2>1, <2>2, SoloAfter
<1> QED
  BY <1>4, <1>5, <1>6 DEF Swap!Begin

LEMMA RecordSolo ==
  ASSUME Swap!HotSwapAssumption, LocalInv, SoloInv, NEW o \in Operators, Swap!Record(o)
  PROVE  SoloInv'
<1> SUFFICES ASSUME ~overlapped' PROVE SoloInv'
  BY DEF SoloInv
<1>1. /\ LogOk /\ \A p \in Operators : p # o => opc'[p] = "ready"
      /\ opc[o] # "ready" => Solo(o)
  BY SoloBefore DEF Swap!Proceed
<1> DEFINE e == [from |-> op[o].old, to |-> op[o].new,
                 switched |-> op[o].strategy \notin 0..99]
<1>2. /\ opc[o] = "record" /\ opc'[o] = "ready" /\ activeModel' = activeModel
      /\ history' = Append(history, e)
  BY OperatorAt DEF Swap!Record, LocalInv, OperatorInv, Swap!OperatorTypes
<1>3. /\ e \in Events /\ history \in Seq(Events)
      /\ e.from = op[o].old /\ e.to = op[o].new /\ (e.switched <=> op[o].strategy \notin 0..99)
  BY <1>2, OperatorAt DEF LocalInv, Belongs, Events, Swap!FieldTypes
<1>4. /\ Swap!Replays(history, Len(history), IF e.switched THEN e.from ELSE activeModel)
      /\ e.switched => activeModel = e.to
  BY <1>1, <1>2, <1>3 DEF Solo, Done
<1> HIDE DEF e
<1>5. /\ Len(history') = Len(history) + 1 /\ Len(history) \in Nat
      /\ \A n \in 1..Len(history) : history'[n] = history[n]
      /\ history'[Len(history) + 1] = e
  BY <1>2, <1>3, AppendProperties
<1>6. LogOk'
  <2> SUFFICES ASSUME NEW n \in 1..Len(history'), history'[n].switched
               PROVE  Swap!Replays(history', n - 1, history'[n].from)
    BY DEF LogOk, Swap!Replays
  <2>1. n - 1 \in 0..Len(history)
    BY <1>5
  <2>2. Swap!Replays(history, n - 1, history'[n].from)
    <3>1. CASE n \in 1..Len(history)
      BY <1>1, <1>5, <3>1 DEF LogOk
    <3>2. CASE n = Len(history) + 1
      <4>1. history'[n] = e /\ n - 1 = Len(history)
        BY <1>5, <3>2
      <4> QED
        BY <1>4, <4>1
    <3> QED
      BY <1>5, <3>1, <3>2
  <2> QED
    BY <1>2, <1>3, <2>1, <2>2, ReplaysAppend
<1>7. Swap!Replays(history', Len(history'), activeModel')
  BY <1>2, <1>3, <1>4, <1>5, ReplaysAppend
<1> QED
  BY <1>1, <1>2, <1>6, <1>7, SoloAfter

LEMMA ProceedSolo ==
  ASSUME Swap!HotSwapAssumption, LocalInv, SoloInv, NEW o \in Operators,
         \/ Swap!ReadActive(o) \/ Swap!Drained(o) \/ Swap!DrainTimeout(o)
         \/ Swap!WritePrevious(o) \/ Swap!WriteActive(o) \/ Swap!Restage(o)
         \/ Swap!QueueSplit(o) \/ Swap!ClearSplit(o) \/ Swap!WriteSplit(o)
         \/ Swap!RollbackRead(o) \/ Swap!RollbackWrite(o)
  PROVE  SoloInv'
<1> SUFFICES ASSUME ~overlapped' PROVE SoloInv'
  BY DEF SoloInv
<1>1. /\ LogOk /\ \A p \in Operators : p # o => opc'[p] = "ready"
      /\ opc[o] # "ready" => Solo(o)
  BY SoloBefore DEF Swap!Proceed
<1>2. /\ opc \in [Operators -> Swap!OperatorPcs] /\ op \in [Operators -> Locals]
      /\ Belongs(opc[o], op[o])
  BY OperatorAt DEF LocalInv, OperatorInv, Swap!OperatorTypes
<1>3. history' = history /\ LogOk'
  <2>1. history' = history
    BY DEF Swap!ReadActive, Swap!Drained, Swap!DrainTimeout, Swap!WritePrevious,
       Swap!WriteActive, Swap!Restage, Swap!QueueSplit, Swap!ClearSplit, Swap!WriteSplit,
       Swap!RollbackRead, Swap!RollbackWrite
  <2> QED
    BY <1>1, <2>1 DEF LogOk
<1>4. opc[o] # "ready" /\ Solo(o)
  BY <1>1 DEF Swap!ReadActive, Swap!Drained, Swap!DrainTimeout, Swap!WritePrevious,
     Swap!WriteActive, Swap!Restage, Swap!QueueSplit, Swap!ClearSplit, Swap!WriteSplit,
     Swap!RollbackRead, Swap!RollbackWrite
<1>5. /\ opc'[o] # "ready" => Solo(o)'
      /\ opc'[o] = "ready" => Swap!Replays(history', Len(history'), activeModel')
  <2> USE <1>2, <1>3, <1>4 DEF Solo, Done, Partial
  <2>1. CASE Swap!ReadActive(o)
    <3>1. /\ opc[o] = "read" /\ activeModel' = activeModel /\ staged' = staged
          /\ opc' = [opc EXCEPT ![o] = IF op[o].strategy \in 101..255 THEN "ready"
                                     ELSE Swap!FirstStep(op[o].strategy)]
          /\ op[o].strategy \notin 101..255 => op' = [op EXCEPT ![o].old = activeModel]
      BY <2>1 DEF Swap!ReadActive
    <3>2. Swap!Replays(history', Len(history'), activeModel')
      BY <3>1
    <3>3. CASE op[o].strategy \in 101..255
      BY <3>1, <3>2, <3>3
    <3>4. CASE op[o].strategy \notin 101..255
      <4>1. opc'[o] \in {"drain", "restage", "previous"}
        BY <3>1, <3>4 DEF Swap!FirstStep
      <4>2. op'[o].old = activeModel'
        BY <3>1, <3>4 DEF Locals
      <4> QED
        BY <3>2, <4>1, <4>2
    <3> QED
      BY <3>3, <3>4
  <2>2. CASE Swap!Drained(o) \/ Swap!DrainTimeout(o)
    BY <2>2 DEF Swap!Drained, Swap!DrainTimeout
  <2>3. CASE Swap!WritePrevious(o)
    BY <2>3 DEF Swap!WritePrevious, Locals
  <2>4. CASE Swap!WriteActive(o)
    BY <2>4 DEF Swap!WriteActive, Belongs
  <2>5. CASE Swap!Restage(o)
    BY <2>5, InstanceShape DEF Swap!Restage, LocalInv, Swap!FieldTypes, Belongs
  <2>6. CASE Swap!QueueSplit(o)
    BY <2>6 DEF Swap!QueueSplit
  <2>7. CASE Swap!ClearSplit(o)
    BY <2>7 DEF Swap!ClearSplit, Belongs
  <2>8. CASE Swap!WriteSplit(o)
    BY <2>8 DEF Swap!WriteSplit, Belongs
  <2>9. CASE Swap!RollbackRead(o)
    BY <2>9 DEF Swap!RollbackRead, Locals
  <2>10. CASE Swap!RollbackWrite(o)
    BY <2>10 DEF Swap!RollbackWrite, Belongs
  <2> QED
    BY <2>1, <2>2, <2>3, <2>4, <2>5, <2>6, <2>7, <2>8, <2>9, <2>10
<1> QED
  BY <1>1, <1>3, <1>5, SoloAfter

LEMMA SoloStep ==
  ASSUME Swap!HotSwapAssumption, LocalInv, SoloInv, [Swap!Next]_swapVars
  PROVE  SoloInv'
<1>1. CASE UNCHANGED <<activeModel, previous, staged, history, opc, op, overlapped>>
  BY <1>1 DEF SoloInv, Swap!HistoryReplays, Swap!Replays, Solo, Done, Partial
<1>2. ASSUME NEW r \in Tasks, Swap!ActiveModel(r) \/ Swap!SelectModel(r) \/ Swap!Serve(r)
      PROVE  UNCHANGED <<activeModel, previous, staged, history, opc, op, overlapped>>
  BY <1>2 DEF Swap!ActiveModel, Swap!SelectModel, Swap!Serve, Swap!SelectWhole,
     Swap!SelectReadActive, Swap!SelectDraw, Swap!Acquire, Swap!Release
<1>3. ASSUME NEW o \in Operators, Swap!Begin(o) \/ Swap!Proceed(o) PROVE SoloInv'
  BY <1>3, BeginSolo, RecordSolo, ProceedSolo DEF Swap!Proceed
<1> QED
  BY <1>1, <1>2, <1>3 DEF Swap!Next, swapVars

-----------------------------------------------------------------------------
(* HotSwap: the theorems *)

HotSwapInv == LocalInv /\ Swap!CountExact /\ OwnerInv /\ FreshInv /\ SoloInv

LEMMA HotSwapInitial == ASSUME Swap!HotSwapAssumption, Swap!Init PROVE HotSwapInv
BY LocalInitial, CountInitial, OwnerInitial, SoloInitial DEF HotSwapInv

LEMMA HotSwapStep ==
  ASSUME Swap!HotSwapAssumption, HotSwapInv, [Swap!Next]_swapVars PROVE HotSwapInv'
BY LocalStep, CountStep, OwnerStep, SoloStep DEF HotSwapInv

LEMMA HotSwapImplies == ASSUME Swap!HotSwapAssumption, HotSwapInv PROVE Swap!SwapInv
<1>1. Swap!TypeOK
  BY DEF HotSwapInv, LocalInv, OperatorInv, RequestInv, Swap!TypeOK
<1>2. Swap!HistoryReplays
  BY Zenon DEF HotSwapInv, SoloInv, Swap!HistoryReplays
<1> QED
  BY <1>1, <1>2, OwnerImplies DEF HotSwapInv, Swap!SwapInv

\* A step of the run is a step of the manager, or leaves it alone.
LEMMA SwapStep ==
  ASSUME [AllNext]_<<unit, vars, batchVars, swapVars>> PROVE [Swap!Next]_swapVars
BY DEF AllNext

LEMMA HotSwapAlways == AllFair => []HotSwapInv
<1>1. AllInit => HotSwapInv
  BY HotSwapInitial, ServingAssumption DEF AllInit
<1>2. HotSwapInv /\ [AllNext]_<<unit, vars, batchVars, swapVars>> => HotSwapInv'
  BY SwapStep, HotSwapStep, ServingAssumption
<1> QED
  BY <1>1, <1>2, PTL DEF AllFair

\* The manager alone: for every number of operators and requests and every interleaving of
\* their locks, the counts are exact, each candidate has one owner, and the log of operators
\* that do not overlap replays to the active model.
THEOREM HotSwapCorrect == Swap!Spec => []Swap!SwapInv
<1>1. Swap!Init => HotSwapInv
  BY HotSwapInitial, ServingAssumption
<1>2. HotSwapInv /\ [Swap!Next]_(Swap!vars) => HotSwapInv'
  <2> SUFFICES ASSUME HotSwapInv, [Swap!Next]_(Swap!vars) PROVE HotSwapInv'
    OBVIOUS
  <2>1. [Swap!Next]_swapVars
    BY DEF Swap!vars, swapVars
  <2> QED
    BY <2>1, HotSwapStep, ServingAssumption
<1>3. HotSwapInv => Swap!SwapInv
  BY HotSwapImplies, ServingAssumption
<1> QED
  BY <1>1, <1>2, <1>3, PTL DEF Swap!Spec

\* The same where the run checks it, beside the parts that share nothing with the manager.
THEOREM SwapCorrect == AllFair => []SwapInv
<1>1. HotSwapInv => SwapInv
  BY HotSwapImplies, ServingAssumption DEF SwapInv
<1> QED
  BY <1>1, HotSwapAlways, PTL

LEMMA StepLosesNoModel ==
  ASSUME Swap!HotSwapAssumption, HotSwapInv, [Swap!Next]_swapVars, NEW o \in Operators,
         ~overlapped, op[o].strategy \notin 101..255
  PROVE  op[o].new \in Swap!Held' \cup {NoModel}
<1>1. CASE op'[o].new = op[o].new
  BY <1>1 DEF Swap!Held
<1>2. CASE opc[o] = "ready"
  BY <1>2 DEF HotSwapInv, LocalInv, OperatorInv, Belongs, Swap!NoOp, Swap!Carry
<1>3. ASSUME op'[o].new # op[o].new, opc[o] # "ready" PROVE Swap!Record(o)
  <2>1. Swap!Next
    BY <1>3 DEF swapVars
  <2>2. PICK p \in Operators : Swap!Begin(p) \/ Swap!Proceed(p)
    BY <1>3, <2>1 DEF Swap!Next, Swap!ActiveModel, Swap!SelectModel, Swap!Serve, Swap!SelectWhole,
       Swap!SelectReadActive, Swap!SelectDraw, Swap!Acquire, Swap!Release
  <2>3. p = o
    BY <1>3, <2>2, OthersStay DEF HotSwapInv, LocalInv
  <2>4. Swap!Proceed(o)
    BY <1>3, <2>2, <2>3 DEF Swap!Begin, Swap!Prepare, Swap!TakeStaged, Swap!TakePrevious,
       Swap!MayBegin
  <2>5. op[o] \in Locals /\ op \in [Operators -> Locals]
    BY OperatorAt DEF HotSwapInv, LocalInv
  <2>6. ~(Swap!Drained(o) \/ Swap!DrainTimeout(o) \/ Swap!WriteActive(o) \/ Swap!Restage(o)
          \/ Swap!QueueSplit(o) \/ Swap!ClearSplit(o) \/ Swap!WriteSplit(o)
          \/ Swap!RollbackWrite(o))
    BY <1>3 DEF Swap!Drained, Swap!DrainTimeout, Swap!WriteActive, Swap!Restage, Swap!QueueSplit,
       Swap!ClearSplit, Swap!WriteSplit, Swap!RollbackWrite
  <2>7. ~(Swap!ReadActive(o) \/ Swap!WritePrevious(o) \/ Swap!RollbackRead(o))
    BY <1>3, <2>5 DEF Swap!ReadActive, Swap!WritePrevious, Swap!RollbackRead, Locals
  <2> QED
    BY <2>4, <2>6, <2>7 DEF Swap!Proceed
<1>4. CASE Swap!Record(o)
  <2>1. opc[o] = "record" /\ activeModel' = activeModel /\ staged' = staged
    BY <1>4 DEF Swap!Record
  <2>2. Solo(o)
    BY <2>1 DEF HotSwapInv, SoloInv
  <2>3. activeModel = op[o].new \/ staged[op[o].new.id] = op[o].new
    BY <2>1, <2>2 DEF Solo, Done, Partial
  <2>4. op[o].new.id \in Ids /\ DOMAIN staged = Ids
    <3>1. op[o].new \in Swap!Instances
      BY <2>1 DEF HotSwapInv, LocalInv, OperatorInv, Belongs
    <3> QED
      BY <3>1, InstanceShape, ZenonT(60) DEF HotSwapInv, LocalInv, Swap!FieldTypes
  <2> QED
    BY <2>1, <2>3, <2>4 DEF Swap!Held, Swap!Range1
<1> QED
  BY <1>1, <1>2, <1>3, <1>4

\* Operators that do not overlap lose no model on any step, the refused percentage excepted.
THEOREM SwapLosesNoModel == AllFair => NoModelLost
<1> DEFINE Kept == \A o \in Operators :
         overlapped \/ op[o].strategy \in 101..255 \/ op[o].new \in Swap!Held' \cup {NoModel}
<1>1. HotSwapInv /\ [AllNext]_<<unit, vars, batchVars, swapVars>> => [Kept]_(Swap!vars)
  BY SwapStep, StepLosesNoModel, ServingAssumption
<1> QED
  BY <1>1, HotSwapAlways, PTL DEF AllFair, NoModelLost, Swap!NoModelLost

-----------------------------------------------------------------------------
(* HotSwap: operators that do not overlap switch atomically *)

\* While one operator is at work, what is remembered is read off that operator.
LEMMA RememberedAt ==
  ASSUME NEW o \in Operators, \A p \in Operators : p # o => opc[p] = "ready"
  PROVE  Swap!Remembered = IF opc[o] = "active" THEN op[o].saved
                           ELSE IF opc[o] \in {"rread", "rwrite"} THEN op[o].new
                           ELSE previous
<1>1. \A p \in Operators : opc[p] \in {"active"} => p = o
  OBVIOUS
<1>2. \A p \in Operators : opc[p] \in {"rread", "rwrite"} => p = o
  OBVIOUS
<1>3. opc[o] = "active" => Swap!Of({"active"}) = op[o]
  BY <1>1 DEF Swap!Of
<1>4. opc[o] \in {"rread", "rwrite"} => Swap!Of({"rread", "rwrite"}) = op[o]
  BY <1>2 DEF Swap!Of
<1>5. Swap!Mid({"active"}) <=> opc[o] = "active"
  BY <1>1 DEF Swap!Mid
<1>6. Swap!Mid({"rread", "rwrite"}) <=> opc[o] \in {"rread", "rwrite"}
  BY <1>2 DEF Swap!Mid
<1> QED
  BY <1>3, <1>4, <1>5, <1>6 DEF Swap!Remembered

LEMMA RememberedNext ==
  ASSUME NEW o \in Operators, \A p \in Operators : p # o => opc'[p] = "ready"
  PROVE  Swap!Remembered' = IF opc'[o] = "active" THEN op'[o].saved
                            ELSE IF opc'[o] \in {"rread", "rwrite"} THEN op'[o].new
                            ELSE previous'
<1>1. \A p \in Operators : opc'[p] \in {"active"} => p = o
  OBVIOUS
<1>2. \A p \in Operators : opc'[p] \in {"rread", "rwrite"} => p = o
  OBVIOUS
<1>3. opc'[o] = "active" => Swap!Of({"active"})' = op'[o]
  BY <1>1 DEF Swap!Of
<1>4. opc'[o] \in {"rread", "rwrite"} => Swap!Of({"rread", "rwrite"})' = op'[o]
  BY <1>2 DEF Swap!Of
<1>5. Swap!Mid({"active"})' <=> opc'[o] = "active"
  BY <1>1 DEF Swap!Mid
<1>6. Swap!Mid({"rread", "rwrite"})' <=> opc'[o] \in {"rread", "rwrite"}
  BY <1>2 DEF Swap!Mid
<1> QED
  BY <1>3, <1>4, <1>5, <1>6 DEF Swap!Remembered

\* Nothing is remembered as NoModel that a rollback brings back.
SwitchMapped == activeModel' = activeModel /\ Swap!Remembered' = Swap!Remembered
SwitchMoved ==
  \/ Swap!Remembered # NoModel /\ activeModel' = Swap!Remembered /\ Swap!Remembered' = NoModel
  \/ \E m \in Swap!Instances : activeModel' = m /\ Swap!Remembered' = activeModel

LEMMA SwitchStep ==
  ASSUME Swap!HotSwapAssumption, HotSwapInv, [Swap!Next]_swapVars, ~overlapped'
  PROVE  SwitchMapped \/ SwitchMoved
<1>1. CASE UNCHANGED <<activeModel, previous, opc, op>>
  <2>1. Swap!Remembered' = Swap!Remembered
    BY <1>1 DEF Swap!Remembered, Swap!Mid, Swap!Of
  <2> QED
    BY <1>1, <2>1 DEF SwitchMapped
<1>2. ASSUME NEW r \in Tasks, Swap!ActiveModel(r) \/ Swap!SelectModel(r) \/ Swap!Serve(r)
      PROVE  UNCHANGED <<activeModel, previous, opc, op>>
  BY <1>2 DEF Swap!ActiveModel, Swap!SelectModel, Swap!Serve, Swap!SelectWhole,
     Swap!SelectReadActive, Swap!SelectDraw, Swap!Acquire, Swap!Release
<1>3. ASSUME NEW o \in Operators, Swap!Begin(o) \/ Swap!Proceed(o)
      PROVE  SwitchMapped \/ SwitchMoved
  <2> DEFINE before == IF opc[o] = "active" THEN op[o].saved
                       ELSE IF opc[o] \in {"rread", "rwrite"} THEN op[o].new ELSE previous
             after == IF opc'[o] = "active" THEN op'[o].saved
                       ELSE IF opc'[o] \in {"rread", "rwrite"} THEN op'[o].new ELSE previous'
  <2>1. LocalInv /\ SoloInv
    BY DEF HotSwapInv
  <2>2. /\ \A p \in Operators : p # o => opc[p] = "ready" /\ opc'[p] = "ready"
        /\ opc[o] # "ready" => Solo(o)
    BY <1>3, <2>1, SoloBefore
  <2>3. Swap!Remembered = before /\ Swap!Remembered' = after
    BY <2>2, RememberedAt, RememberedNext
  <2>4. /\ op[o] \in Locals /\ op \in [Operators -> Locals] /\ opc \in [Operators -> Swap!OperatorPcs]
        /\ Belongs(opc[o], op[o])
    BY <2>1, OperatorAt DEF LocalInv, OperatorInv, Swap!OperatorTypes
  <2>5. \/ activeModel' = activeModel /\ after = before
        \/ before # NoModel /\ activeModel' = before /\ after = NoModel
        \/ \E m \in Swap!Instances : activeModel' = m /\ after = activeModel
    <3>1. CASE Swap!Begin(o)
      <4>1. CASE Swap!TakePrevious(o)
        BY <2>4, <4>1 DEF Swap!TakePrevious, Swap!MayBegin, Swap!Carry
      <4>2. CASE \E i \in Ids : Swap!Prepare(o, i)
        BY <4>2 DEF Swap!Prepare
      <4>3. CASE \E i \in Ids, s \in Swap!Strategies : Swap!TakeStaged(o, i, s)
        <5>1. /\ opc[o] = "ready" /\ opc'[o] = "read"
              /\ activeModel' = activeModel /\ previous' = previous
          BY <2>4, <4>3 DEF Swap!TakeStaged, Swap!MayBegin
        <5> QED
          BY <5>1
      <4> QED
        BY <3>1, <4>1, <4>2, <4>3 DEF Swap!Begin
    <3>2. CASE Swap!ReadActive(o)
      BY <2>4, <3>2 DEF Swap!ReadActive, Swap!FirstStep
    <3>3. CASE Swap!Drained(o) \/ Swap!DrainTimeout(o)
      BY <2>4, <3>3 DEF Swap!Drained, Swap!DrainTimeout
    <3>4. CASE Swap!WritePrevious(o)
      BY <2>4, <3>4 DEF Swap!WritePrevious, Locals
    <3>5. CASE Swap!WriteActive(o)
      BY <2>2, <2>4, <3>5 DEF Swap!WriteActive, Solo, Belongs
    <3>6. CASE Swap!Restage(o) \/ Swap!QueueSplit(o) \/ Swap!ClearSplit(o) \/ Swap!WriteSplit(o)
      BY <2>4, <3>6 DEF Swap!Restage, Swap!QueueSplit, Swap!ClearSplit, Swap!WriteSplit
    <3>7. CASE Swap!RollbackRead(o)
      BY <2>4, <3>7 DEF Swap!RollbackRead, Locals
    <3>8. CASE Swap!RollbackWrite(o)
      BY <2>2, <2>4, <3>8, InstanceShape DEF Swap!RollbackWrite, Solo, Belongs
    <3>9. CASE Swap!Record(o)
      BY <2>4, <3>9 DEF Swap!Record
    <3> QED
      BY <1>3, <3>1, <3>2, <3>3, <3>4, <3>5, <3>6, <3>7, <3>8, <3>9 DEF Swap!Proceed
  <2> QED
    BY <2>3, <2>5 DEF SwitchMapped, SwitchMoved
<1> QED
  BY <1>1, <1>2, <1>3 DEF Swap!Next, swapVars

\* The manager implements the atomic switch of ModelSwitch until two operators overlap, though
\* it takes each lock on its own: the switch happens when active is written, and what a
\* rollback has taken is remembered until then.
THEOREM SwapSwitchesAtomically == AllFair => SwitchContract
<1> DEFINE Atomic == overlapped' \/ Swap!Switch!SwitchNext
<1>1. AllInit => Swap!Switch!SwitchInit
  <2> SUFFICES ASSUME Swap!Init PROVE Swap!Switch!SwitchInit
    BY DEF AllInit
  <2>1. activeModel = Swap!Initial /\ previous = NoModel /\ opc = [o \in Operators |-> "ready"]
    BY DEF Swap!Init
  <2>2. Swap!Remembered = NoModel
    BY <2>1 DEF Swap!Remembered, Swap!Mid
  <2> QED
    BY <2>1, <2>2 DEF Swap!Switch!SwitchInit
<1>2. HotSwapInv /\ [AllNext]_<<unit, vars, batchVars, swapVars>>
        => [Atomic]_<<activeModel, Swap!Remembered>>
  <2> SUFFICES ASSUME HotSwapInv, [AllNext]_<<unit, vars, batchVars, swapVars>>, ~overlapped'
               PROVE  [Swap!Switch!SwitchNext]_<<activeModel, Swap!Remembered>>
    OBVIOUS
  <2>1. SwitchMapped \/ SwitchMoved
    BY SwapStep, SwitchStep, ServingAssumption
  <2> QED
    BY <2>1 DEF SwitchMapped, SwitchMoved, Swap!Switch!SwitchNext, Swap!Switch!Swap,
       Swap!Switch!Rollback
<1> QED
  BY <1>1, <1>2, HotSwapAlways, PTL DEF AllFair, SwitchContract, Swap!SwitchContract

-----------------------------------------------------------------------------
(* BatchScheduler: the inductive invariant *)

QueuedRequests == [id : Nat, max : Nat, priority : Nat, step : Nat, states : Batch!HiddenStates,
                   rebased : Nat, hurt : BOOLEAN, ranked : BOOLEAN]
Finished == [id : Nat, steps : Nat, max : Nat]

BatchTypes ==
  /\ {pending, running, began} \subseteq Seq(QueuedRequests)
  /\ completed \in Seq(Finished)
  /\ responses \in Seq(Nat)
  /\ nextId \in 0..MaxRequests /\ resetAt \in 0..nextId
  /\ model \in 0..MaxModels
  /\ states \in Batch!HiddenStates /\ states.of \subseteq {Batch!Engine} /\ states.model = model
  /\ turn \in Nat
  /\ failures \in 0..MaxFailures

\* What holds of every request that is queued or in the batch: it has steps left, its
\* state is its own, of the installed model m, and as long as the steps it has taken.
Sound(r, next, m) ==
  /\ r.id < next /\ r.max \in 1..MaxSeqLen /\ r.priority \in Priorities
  /\ r.step < r.max /\ r.rebased <= r.step
  /\ r.states.steps <= r.step - r.rebased
  /\ r.hurt \/ r.states.steps = r.step - r.rebased
  /\ r.states = Batch!NoState \/ (r.states.of \subseteq {r.id} /\ r.states.model = m)
RequestsSound ==
  /\ \A n \in 1..Len(pending) : Sound(pending[n], nextId, model)
  /\ \A n \in 1..Len(running) : Sound(running[n], nextId, model)
  /\ \A n \in 1..Len(began) : Batch!IsRequest(began[n])

\* Every request is in one place, once.
Distinct(s) == \A m, n \in 1..Len(s) : m # n => s[m].id # s[n].id
PlacesOf(p, a, c, from, next) ==
  /\ Distinct(p) /\ Distinct(a)
  /\ Batch!IdsOf(p) \cap Batch!IdsOf(a) = {}
  /\ (Batch!IdsOf(p) \cup Batch!IdsOf(a)) \cap Batch!IdsOf(c) = {}
  /\ Batch!IdsOf(p) \cup Batch!IdsOf(a) \cup Batch!IdsOf(c) = from..next - 1
  /\ Len(p) + Len(a) + Len(c) = next - from
Places == PlacesOf(pending, running, completed, resetAt, nextId)

\* The loop has advanced the requests before its index and none from there on.
LoopInv ==
  /\ turn = 0 => responses = <<>>
  /\ Len(running) <= MaxBatch /\ turn <= Len(running) + 1
  /\ turn > 0 =>
       \A b \in 1..Len(began) :
         \/ \E k \in turn..Len(running) : running[k] = began[b]
         \/ \E k \in 1..(turn - 1) : /\ k <= Len(running) /\ running[k].id = began[b].id
                                     /\ running[k].step = began[b].step + 1
         \/ \E k \in 1..Len(completed) : /\ completed[k].id = began[b].id
                                         /\ completed[k].steps = began[b].step + 1

Returns ==
  /\ Batch!ReturnedUnlessFailed
  /\ delivered \cap Batch!ToSet(responses) = {}

\* No request of lower priority is ahead of one that was ranked.
Ahead(a, b) ==
  IF EnablePriority
  THEN b.ranked => \/ a.priority > b.priority
                   \/ a.priority = b.priority /\ (a.ranked => a.id < b.id)
  ELSE a.id < b.id
Order == \A m, n \in 1..Len(pending) : m < n => Ahead(pending[m], pending[n])

BatchInv == BatchTypes /\ RequestsSound /\ Places /\ LoopInv /\ Returns /\ Order

-----------------------------------------------------------------------------
(* Sequences and the operators of the model *)

LEMMA MinExists ==
  ASSUME NEW S \in SUBSET Nat, S # {}
  PROVE  \E x \in S : \A y \in S : x <= y
<1>1. PICK x \in S : \A y \in S : ~(<<y, x>> \in OpToRel(<, Nat))
  BY NatLessThanWellFounded, WFMin
<1>2. \A y \in S : ~(y < x)
  BY <1>1 DEF OpToRel
<1> QED
  BY <1>2

\* The ids of a sequence.
LEMMA IdsMember ==
  ASSUME NEW S, NEW s \in Seq(S)
  PROVE  Batch!IdsOf(s) = {s[n].id : n \in 1..Len(s)}
BY DEF Batch!IdsOf

LEMMA SetOfSeq ==
  ASSUME NEW S, NEW s \in Seq(S)
  PROVE  Batch!ToSet(s) = {s[n] : n \in 1..Len(s)}
BY DEF Batch!ToSet

LEMMA ToSetAppend ==
  ASSUME NEW S, NEW s \in Seq(S), NEW e \in S
  PROVE  Batch!ToSet(Append(s, e)) = Batch!ToSet(s) \cup {e}
<1>1. Append(s, e) \in Seq(S) /\ Len(s) \in Nat /\ Len(Append(s, e)) = Len(s) + 1
  BY AppendProperties
<1>2. Batch!ToSet(Append(s, e)) = {Append(s, e)[n] : n \in 1..Len(Append(s, e))}
  BY <1>1, SetOfSeq
<1>3. \A n \in 1..Len(s) + 1 : Append(s, e)[n] = IF n <= Len(s) THEN s[n] ELSE e
  BY <1>1, AppendProperties
<1>4. Batch!ToSet(s) = {s[n] : n \in 1..Len(s)}
  BY SetOfSeq
<1>5. \A n \in 1..Len(s) : n \in 1..Len(s) + 1 /\ n <= Len(s)
  BY <1>1
<1>6. Len(s) + 1 \in 1..Len(s) + 1 /\ ~(Len(s) + 1 <= Len(s))
  BY <1>1
<1>7. \A n \in 1..Len(s) + 1 : n <= Len(s) => n \in 1..Len(s)
  BY <1>1
<1> QED
  BY <1>2, <1>3, <1>4, <1>5, <1>6, <1>7

LEMMA IdsAppend ==
  ASSUME NEW S, NEW s \in Seq(S), NEW e \in S
  PROVE  Batch!IdsOf(Append(s, e)) = Batch!IdsOf(s) \cup {e.id}
<1>1. Append(s, e) \in Seq(S) /\ Len(s) \in Nat /\ Len(Append(s, e)) = Len(s) + 1
  BY AppendProperties
<1>2. Batch!IdsOf(Append(s, e)) = {Append(s, e)[n].id : n \in 1..Len(Append(s, e))}
  BY <1>1, IdsMember
<1>3. \A n \in 1..Len(s) + 1 : Append(s, e)[n] = IF n <= Len(s) THEN s[n] ELSE e
  BY <1>1, AppendProperties
<1> QED
  BY <1>1, <1>2, <1>3, IdsMember

LEMMA SeqOfFunction ==
  ASSUME NEW S, NEW n \in Nat, NEW f \in [1..n -> S]
  PROVE  f \in Seq(S) /\ Len(f) = n
OBVIOUS

LEMMA RebasedProperties ==
  ASSUME NEW s \in Seq(QueuedRequests)
  PROVE  /\ Batch!Rebased(s) \in Seq(QueuedRequests)
         /\ Len(Batch!Rebased(s)) = Len(s)
         /\ \A n \in 1..Len(s) : Batch!Rebased(s)[n] =
              [s[n] EXCEPT !.states = Batch!NoState, !.rebased = s[n].step]
<1>1. DOMAIN s = 1..Len(s) /\ Len(s) \in Nat
  BY LenProperties
<1>2. Batch!NoState \in Batch!HiddenStates
  BY ServingAssumption DEF Batch!NoState, Batch!HiddenStates, Batch!BatchAssumption
<1>3. \A n \in 1..Len(s) :
        [s[n] EXCEPT !.states = Batch!NoState, !.rebased = s[n].step] \in QueuedRequests
  <2> SUFFICES ASSUME NEW n \in 1..Len(s)
               PROVE  [s[n] EXCEPT !.states = Batch!NoState, !.rebased = s[n].step] \in QueuedRequests
    OBVIOUS
  <2>1. s[n] \in QueuedRequests
    BY ElementOfSeq
  <2> HIDE DEF QueuedRequests
  <2> DEFINE r == s[n]
  <2>2. r \in QueuedRequests
    BY <2>1
  <2> HIDE DEF r
  <2>3. [r EXCEPT !.states = Batch!NoState, !.rebased = r.step] \in QueuedRequests
    BY <1>2, <2>2 DEF QueuedRequests
  <2> QED
    BY <2>3 DEF r
<1>4. Batch!Rebased(s) = [n \in 1..Len(s) |->
        [s[n] EXCEPT !.states = Batch!NoState, !.rebased = s[n].step]]
  BY <1>1 DEF Batch!Rebased
<1>5. Batch!Rebased(s) \in [1..Len(s) -> QueuedRequests]
  BY <1>3, <1>4
<1>6. Batch!Rebased(s) \in Seq(QueuedRequests) /\ Len(Batch!Rebased(s)) = Len(s)
  BY <1>1, <1>5, SeqOfFunction
<1> QED
  BY <1>4, <1>6

\* swap_remove: the last element takes the place of the removed one.
LEMMA SwapRemoveProperties ==
  ASSUME NEW S, NEW s \in Seq(S), NEW n \in 1..Len(s)
  PROVE  /\ Batch!SwapRemove(s, n) \in Seq(S)
         /\ Len(Batch!SwapRemove(s, n)) = Len(s) - 1
         /\ \A k \in 1..(Len(s) - 1) :
              Batch!SwapRemove(s, n)[k] = IF k = n THEN s[Len(s)] ELSE s[k]
<1> DEFINE moved == [s EXCEPT ![n] = s[Len(s)]]
<1>1. Len(s) \in Nat \ {0} /\ Len(s) \in 1..Len(s) /\ Len(s) - 1 \in Int
  BY LenProperties
<1>2. s[Len(s)] \in S
  BY <1>1, ElementOfSeq
<1>3. /\ moved \in Seq(S) /\ Len(moved) = Len(s)
      /\ \A j \in 1..Len(s) : moved[j] = IF j = n THEN s[Len(s)] ELSE s[j]
  BY <1>2, ExceptSeq
<1>4. \A i \in 1..(Len(s) - 1) : moved[i] \in S
  BY <1>1, <1>3, ElementOfSeq
<1>5. Batch!SwapRemove(s, n) = SubSeq(moved, 1, Len(s) - 1)
  BY DEF Batch!SwapRemove
<1> HIDE DEF moved
<1>6. /\ SubSeq(moved, 1, Len(s) - 1) \in Seq(S)
      /\ Len(SubSeq(moved, 1, Len(s) - 1)) = Len(s) - 1
      /\ \A i \in 1..(Len(s) - 1) : SubSeq(moved, 1, Len(s) - 1)[i] = moved[i]
  <2>1. /\ SubSeq(moved, 1, Len(s) - 1) \in Seq(S)
        /\ Len(SubSeq(moved, 1, Len(s) - 1)) =
             IF 1 <= Len(s) - 1 THEN Len(s) - 1 - 1 + 1 ELSE 0
        /\ \A i \in 1..(Len(s) - 1 - 1 + 1) :
             SubSeq(moved, 1, Len(s) - 1)[i] = moved[1 + i - 1]
    BY <1>1, <1>4, SubSeqProperties
  <2>2. /\ (IF 1 <= Len(s) - 1 THEN Len(s) - 1 - 1 + 1 ELSE 0) = Len(s) - 1
        /\ Len(s) - 1 - 1 + 1 = Len(s) - 1
        /\ \A i \in 1..(Len(s) - 1) : 1 + i - 1 = i
    <3>1. \A l \in Nat \ {0} : /\ (IF 1 <= l - 1 THEN l - 1 - 1 + 1 ELSE 0) = l - 1
                               /\ l - 1 - 1 + 1 = l - 1
      OBVIOUS
    <3>2. \A l \in Nat : \A i \in 1..(l - 1) : 1 + i - 1 = i
      OBVIOUS
    <3> QED
      <4>1. Len(s) \in Nat /\ Len(s) \in Nat \ {0}
        BY <1>1
      <4>2. \A i \in 1..(Len(s) - 1) : 1 + i - 1 = i
        BY <4>1, <3>2
      <4> QED
        BY <4>1, <4>2, <3>1
  <2>3. \A i \in 1..(Len(s) - 1) : SubSeq(moved, 1, Len(s) - 1)[i] = moved[i]
    BY <2>1, <2>2
  <2> QED
    BY <2>1, <2>2, <2>3
<1> QED
  BY <1>1, <1>3, <1>5, <1>6

\* The element is put in at place n, and what was there and after it moves one further.
LEMMA InsertProperties ==
  ASSUME NEW S, NEW s \in Seq(S), NEW e \in S, NEW n \in 1..Len(s) + 1
  PROVE  /\ Batch!InsertAt(s, n, e) \in Seq(S)
         /\ Len(Batch!InsertAt(s, n, e)) = Len(s) + 1
         /\ \A k \in 1..(Len(s) + 1) : Batch!InsertAt(s, n, e)[k] =
              IF k < n THEN s[k] ELSE IF k = n THEN e ELSE s[k - 1]
<1> DEFINE a == SubSeq(s, 1, n - 1)
           b == SubSeq(s, n, Len(s))
<1>1. Len(s) \in Nat /\ \A i \in 1..Len(s) : s[i] \in S
  BY LenProperties, ElementOfSeq
<1>2. /\ a \in Seq(S) /\ Len(a) = n - 1
      /\ \A i \in 1..(n - 1) : a[i] = s[i]
  BY <1>1, SubSeqProperties
<1>3. /\ b \in Seq(S) /\ Len(b) = Len(s) - n + 1
      /\ \A i \in 1..(Len(s) - n + 1) : b[i] = s[n + i - 1]
  BY <1>1, SubSeqProperties
<1>4. Batch!InsertAt(s, n, e) = a \o <<e>> \o b
  BY DEF Batch!InsertAt
<1> HIDE DEF a, b
<1>5. <<e>> \in Seq(S) /\ Len(<<e>>) = 1 /\ <<e>>[1] = e
  OBVIOUS
<1>6. /\ a \o <<e>> \in Seq(S) /\ Len(a \o <<e>>) = n
      /\ \A i \in 1..n : (a \o <<e>>)[i] = IF i < n THEN s[i] ELSE e
  BY <1>1, <1>2, <1>5, ConcatProperties
<1> DEFINE ae == a \o <<e>>
<1>7. /\ ae \o b \in Seq(S) /\ Len(ae \o b) = Len(s) + 1
      /\ \A i \in 1..(Len(s) + 1) : (ae \o b)[i] = IF i <= n THEN ae[i] ELSE b[i - n]
  <2> HIDE DEF ae
  <2>1. ae \in Seq(S) /\ Len(ae) = n
    BY <1>6 DEF ae
  <2> QED
    BY <1>1, <1>3, <2>1, ConcatProperties
<1> QED
  BY <1>1, <1>3, <1>4, <1>6, <1>7, SMTT(60)

\* The first requests of one sequence go to the end of another.
LEMMA MoveProperties ==
  ASSUME NEW S, NEW s \in Seq(S), NEW t \in Seq(S), NEW n \in 0..Len(s)
  PROVE  /\ t \o SubSeq(s, 1, n) \in Seq(S)
         /\ Len(t \o SubSeq(s, 1, n)) = Len(t) + n
         /\ \A k \in 1..(Len(t) + n) :
              (t \o SubSeq(s, 1, n))[k] = IF k <= Len(t) THEN t[k] ELSE s[k - Len(t)]
         /\ SubSeq(s, n + 1, Len(s)) \in Seq(S)
         /\ Len(SubSeq(s, n + 1, Len(s))) = Len(s) - n
         /\ \A k \in 1..(Len(s) - n) : SubSeq(s, n + 1, Len(s))[k] = s[k + n]
<1> DEFINE a == SubSeq(s, 1, n)
           b == SubSeq(s, n + 1, Len(s))
<1>1. Len(s) \in Nat /\ Len(t) \in Nat /\ \A i \in 1..Len(s) : s[i] \in S
  BY LenProperties, ElementOfSeq
<1>2. a \in Seq(S) /\ Len(a) = n /\ \A i \in 1..n : a[i] = s[i]
  BY <1>1, SubSeqProperties
<1>3. /\ b \in Seq(S) /\ Len(b) = Len(s) - n
      /\ \A i \in 1..(Len(s) - n) : b[i] = s[n + 1 + i - 1]
  <2>1. \A i \in (n + 1)..Len(s) : s[i] \in S
    BY <1>1
  <2>2. /\ b \in Seq(S) /\ Len(b) = IF n + 1 <= Len(s) THEN Len(s) - (n + 1) + 1 ELSE 0
        /\ \A i \in 1..(Len(s) - (n + 1) + 1) : b[i] = s[n + 1 + i - 1]
    BY <1>1, <2>1, SubSeqProperties
  <2> QED
    BY <1>1, <2>2
<1> HIDE DEF a, b
<1>4. /\ t \o a \in Seq(S) /\ Len(t \o a) = Len(t) + n
      /\ \A k \in 1..(Len(t) + n) : (t \o a)[k] = IF k <= Len(t) THEN t[k] ELSE a[k - Len(t)]
  BY <1>2, ConcatProperties
<1>5. \A k \in 1..(Len(t) + n) : k > Len(t) => k - Len(t) \in 1..n
  BY <1>1
<1>6. \A k \in 1..(Len(s) - n) : n + 1 + k - 1 = k + n
  BY <1>1
<1> QED
  BY <1>1, <1>2, <1>3, <1>4, <1>5, <1>6 DEF a, b

LEMMA InsertPosFirst ==
  ASSUME NEW S, pending \in Seq(S), NEW p \in Nat, \A n \in 1..Len(pending) : pending[n].priority \in Nat
  PROVE  /\ Batch!InsertPos(p) \in 0..Len(pending)
         /\ Batch!InsertPos(p) = 0 =>
              \A k \in 1..Len(pending) : pending[k].priority >= p
         /\ Batch!InsertPos(p) > 0 =>
              /\ pending[Batch!InsertPos(p)].priority < p
              /\ \A k \in 1..(Batch!InsertPos(p) - 1) : pending[k].priority >= p
<1> DEFINE L == {n \in 1..Len(pending) : pending[n].priority < p}
<1>1. Batch!InsertPos(p) = IF L # {} THEN Batch!Min(L) ELSE 0
  BY DEF Batch!InsertPos, Batch!SelectInSeq
<1>2. Len(pending) \in Nat /\ L \in SUBSET Nat
  BY LenProperties
<1>3. CASE L = {}
  BY <1>1, <1>2, <1>3
<1>4. CASE L # {}
  <2> DEFINE n == Batch!Min(L)
  <2> HIDE DEF L
  <2>1. n \in L /\ \A y \in L : n <= y
    BY <1>2, <1>4, MinExists DEF Batch!Min
  <2> HIDE DEF n
  <2>2. n \in 1..Len(pending) /\ pending[n].priority < p
    BY <2>1 DEF L
  <2>3. \A k \in 1..(n - 1) : k \in 1..Len(pending) /\ k \notin L
    BY <1>2, <2>1, <2>2
  <2>4. \A k \in 1..(n - 1) : pending[k].priority >= p
    BY <2>3 DEF L
  <2>5. Batch!InsertPos(p) = n
    BY <1>1, <1>4 DEF n
  <2> QED
    BY <1>2, <2>2, <2>4, <2>5
<1> QED
  BY <1>3, <1>4

-----------------------------------------------------------------------------
(* BatchScheduler: a request joins the queue *)

USE DEF Batch!loop, Batch!faults, Batch!history

\* The request r is put into the queue at place n.
Joins(n, r) ==
  /\ n \in 1..Len(pending) + 1 /\ r \in QueuedRequests
  /\ pending' \in Seq(QueuedRequests) /\ Len(pending') = Len(pending) + 1
  /\ \A k \in 1..(Len(pending) + 1) :
       pending'[k] = IF k < n THEN pending[k] ELSE IF k = n THEN r ELSE pending[k - 1]

LEMMA BatchLengths ==
  ASSUME BatchTypes
  PROVE  /\ pending \in Seq(QueuedRequests) /\ running \in Seq(QueuedRequests)
         /\ began \in Seq(QueuedRequests) /\ completed \in Seq(Finished)
         /\ Len(pending) \in Nat /\ Len(running) \in Nat /\ Len(completed) \in Nat
         /\ Len(began) \in Nat
         /\ nextId \in Nat /\ resetAt \in Nat /\ MaxRequests \in Nat /\ MaxModels \in Nat
         /\ MaxFailures \in Nat /\ MaxBatch \in Nat /\ MaxSeqLen \in Nat /\ model \in Nat
         /\ \A n \in 1..Len(pending) : pending[n] \in QueuedRequests
         /\ \A n \in 1..Len(running) : running[n] \in QueuedRequests
         /\ \A n \in 1..Len(began) : began[n] \in QueuedRequests
         /\ \A n \in 1..Len(completed) : completed[n] \in Finished
<1>1. /\ pending \in Seq(QueuedRequests) /\ running \in Seq(QueuedRequests)
      /\ began \in Seq(QueuedRequests) /\ completed \in Seq(Finished)
  BY DEF BatchTypes
<1>2. /\ nextId \in Nat /\ resetAt \in Nat /\ MaxRequests \in Nat /\ MaxModels \in Nat
      /\ MaxFailures \in Nat /\ MaxBatch \in Nat /\ MaxSeqLen \in Nat /\ model \in Nat
  BY ServingAssumption DEF BatchTypes, Batch!BatchAssumption
<1>3. /\ Len(pending) \in Nat /\ Len(running) \in Nat /\ Len(completed) \in Nat
      /\ Len(began) \in Nat
  BY <1>1, LenProperties
<1>4. /\ \A n \in 1..Len(pending) : pending[n] \in QueuedRequests
      /\ \A n \in 1..Len(running) : running[n] \in QueuedRequests
      /\ \A n \in 1..Len(began) : began[n] \in QueuedRequests
      /\ \A n \in 1..Len(completed) : completed[n] \in Finished
  BY <1>1, ElementOfSeq
<1> QED
  BY <1>1, <1>2, <1>3, <1>4

\* A step that only adds a request to the queue.
LEMMA NewRequestSound ==
  ASSUME BatchTypes, NEW max \in 1..MaxSeqLen, NEW p \in Priorities, NEW ranked \in BOOLEAN
  PROVE  /\ Batch!NewRequest(max, p, ranked) \in QueuedRequests
         /\ Sound(Batch!NewRequest(max, p, ranked), nextId + 1, model)
         /\ Batch!NewRequest(max, p, ranked).id = nextId
         /\ Batch!NewRequest(max, p, ranked).priority = p
<1>1. nextId \in Nat /\ MaxSeqLen \in Nat /\ MaxRequests \in Nat /\ MaxModels \in Nat
  BY BatchLengths
<1>2. p \in Nat
  BY ServingAssumption DEF Batch!BatchAssumption
<1>3. Batch!NoState \in Batch!HiddenStates
  BY <1>1 DEF Batch!NoState, Batch!HiddenStates
<1>4. Batch!NewRequest(max, p, ranked) \in QueuedRequests
  BY <1>1, <1>2, <1>3 DEF Batch!NewRequest, QueuedRequests
<1>5. Sound(Batch!NewRequest(max, p, ranked), nextId + 1, model)
  BY <1>1 DEF Batch!NewRequest, Sound, Batch!NoState
<1> QED
  BY <1>4, <1>5 DEF Batch!NewRequest

LEMMA SubmitJoins ==
  ASSUME BatchInv, NEW max \in 0..MaxSeqLen, Batch!Submit(max)
  PROVE  \E n, r : /\ Joins(n, r) /\ r.id = nextId /\ Sound(r, nextId + 1, model)
                  /\ \A k \in 1..Len(pending) :
                       IF k < n THEN Ahead(pending[k], r) ELSE Ahead(r, pending[k])
<1>1. BatchTypes /\ RequestsSound
  BY DEF BatchInv
<1> DEFINE r == Batch!NewRequest(max, Batch!Normal, FALSE)
<1>2. max \in 1..MaxSeqLen /\ Batch!Normal \in Priorities
  BY <1>1, BatchLengths, ServingAssumption DEF Batch!Submit, Batch!MaxStepsOk, Batch!Normal, Batch!BatchAssumption
<1>3. r \in QueuedRequests /\ Sound(r, nextId + 1, model) /\ r.id = nextId /\ r.priority = Batch!Normal
  BY <1>1, <1>2, NewRequestSound
<1>4. r.ranked = FALSE
  BY DEF Batch!NewRequest
<1>5. pending' = Append(pending, r)
  BY DEF Batch!Submit
<1> HIDE DEF r
<1>6. Joins(Len(pending) + 1, r)
  <2>1. pending \in Seq(QueuedRequests) /\ Len(pending) \in Nat
    BY <1>1, BatchLengths
  <2>2. /\ Append(pending, r) \in Seq(QueuedRequests)
        /\ Len(Append(pending, r)) = Len(pending) + 1
        /\ \A i \in 1..Len(pending) : Append(pending, r)[i] = pending[i]
        /\ Append(pending, r)[Len(pending) + 1] = r
    BY <1>3, <2>1, AppendProperties
  <2> QED
    BY <1>3, <1>5, <2>1, <2>2 DEF Joins
<1>7. \A k \in 1..Len(pending) : k < Len(pending) + 1 /\ Ahead(pending[k], r)
  BY <1>1, <1>3, <1>4, BatchLengths, SMTT(60) DEF Ahead, RequestsSound, Sound
<1> QED
  BY <1>3, <1>6, <1>7

Inserted(t, s, n, r) ==
  /\ t \in Seq(QueuedRequests) /\ Len(t) = Len(s) + 1
  /\ \A k \in 1..(Len(s) + 1) : t[k] = IF k < n THEN s[k] ELSE IF k = n THEN r ELSE s[k - 1]

LEMMA InsertRequest ==
  ASSUME NEW s \in Seq(QueuedRequests), NEW r \in QueuedRequests, NEW n \in 1..Len(s) + 1
  PROVE  Inserted(Batch!InsertAt(s, n, r), s, n, r)
BY InsertProperties DEF Inserted

LEMMA SubmitWithPriorityJoins ==
  ASSUME BatchInv, NEW max \in 0..MaxSeqLen, NEW p \in Priorities, Batch!SubmitWithPriority(max, p)
  PROVE  \E n, r : /\ Joins(n, r) /\ r.id = nextId /\ Sound(r, nextId + 1, model)
                  /\ \A k \in 1..Len(pending) :
                       IF k < n THEN Ahead(pending[k], r) ELSE Ahead(r, pending[k])
<1>1. BatchTypes /\ RequestsSound /\ Order
  BY DEF BatchInv
<1> DEFINE r == Batch!NewRequest(max, p, TRUE)
           n == Batch!InsertPos(p)
<1>2. max \in 1..MaxSeqLen /\ p \in Nat
  BY <1>1, BatchLengths, ServingAssumption DEF Batch!SubmitWithPriority, Batch!MaxStepsOk, Batch!BatchAssumption
<1>3. r \in QueuedRequests /\ Sound(r, nextId + 1, model) /\ r.id = nextId /\ r.priority = p
  BY <1>1, <1>2, NewRequestSound
<1>4. \A k \in 1..Len(pending) : /\ pending[k].priority \in Nat /\ pending[k].id \in Nat
                                 /\ pending[k].id < nextId
  BY <1>1, BatchLengths DEF RequestsSound, Sound, QueuedRequests
<1>5. pending \in Seq(QueuedRequests) /\ Len(pending) \in Nat
  BY <1>1, BatchLengths
<1>6. /\ n \in 0..Len(pending)
      /\ n = 0 => \A k \in 1..Len(pending) : pending[k].priority >= p
      /\ n > 0 => /\ pending[n].priority < p
                  /\ \A k \in 1..(n - 1) : pending[k].priority >= p
  BY <1>2, <1>4, <1>5, InsertPosFirst
<1>7. pending' = IF EnablePriority /\ n > 0 THEN Batch!InsertAt(pending, n, r)
                 ELSE Append(pending, r)
  BY DEF Batch!SubmitWithPriority
<1> HIDE DEF r, n
<1>8. CASE EnablePriority /\ n > 0
  <2> DEFINE t == Batch!InsertAt(pending, n, r)
  <2>0. n \in 1..Len(pending) + 1
    BY <1>5, <1>6, <1>8
  <2>1. Joins(n, r)
    <3>1. /\ t \in Seq(QueuedRequests) /\ Len(t) = Len(pending) + 1
          /\ \A k \in 1..(Len(pending) + 1) :
               t[k] = IF k < n THEN pending[k] ELSE IF k = n THEN r ELSE pending[k - 1]
      <4>1. r \in QueuedRequests
        BY <1>3
      <4>2. Inserted(t, pending, n, r)
        BY <1>5, <2>0, <4>1, InsertRequest
      <4> HIDE DEF t
      <4> QED
        BY <4>2 DEF Inserted
    <3> HIDE DEF t
    <3>2. pending' = t
      BY <1>7, <1>8 DEF t
    <3> QED
      BY <1>3, <2>0, <3>1, <3>2 DEF Joins
  <2>2. \A k \in 1..Len(pending) : k < n => Ahead(pending[k], r)
    <3> SUFFICES ASSUME NEW k \in 1..Len(pending), k < n PROVE Ahead(pending[k], r)
      OBVIOUS
    <3>1. pending[k].priority >= p
      BY <1>5, <1>6, <1>8
    <3> QED
      BY <1>2, <1>3, <1>4, <1>8, <3>1 DEF Ahead
  <2>3. \A k \in 1..Len(pending) : k > n => Ahead(pending[n], pending[k])
    BY <1>1, <1>6, <1>8 DEF Order
  <2>4. \A k \in 1..Len(pending) : k >= n => Ahead(r, pending[k])
    <3> SUFFICES ASSUME NEW k \in 1..Len(pending), k >= n PROVE Ahead(r, pending[k])
      OBVIOUS
    <3>1. pending[k].ranked => pending[n].priority >= pending[k].priority
      BY <1>4, <1>5, <1>6, <1>8, <2>3 DEF Ahead
    <3>2. pending[k].ranked => p > pending[k].priority
      BY <1>2, <1>4, <1>5, <1>6, <1>8, <3>1, SMTT(60)
    <3> QED
      BY <1>3, <1>8, <3>2 DEF Ahead
  <2>5. \A k \in 1..Len(pending) : IF k < n THEN Ahead(pending[k], r) ELSE Ahead(r, pending[k])
    BY <1>5, <1>6, <2>2, <2>4
  <2> QED
    BY <1>3, <2>1, <2>5
<1>9. CASE ~(EnablePriority /\ n > 0)
  <2>1. pending' = Append(pending, r)
    BY <1>7, <1>9
  <2>2. Joins(Len(pending) + 1, r)
    BY <1>3, <1>5, <2>1, AppendProperties DEF Joins
  <2>3. \A k \in 1..Len(pending) : EnablePriority => pending[k].priority >= p
    BY <1>6, <1>9
  <2>4. \A k \in 1..Len(pending) : k < Len(pending) + 1 /\ Ahead(pending[k], r)
    BY <1>2, <1>3, <1>4, <1>5, <2>3 DEF Ahead
  <2> QED
    BY <1>3, <2>2, <2>4
<1> QED
  BY <1>8, <1>9

\* A sound request stays sound when later ones are submitted.
LEMMA SoundLater ==
  ASSUME NEW r \in QueuedRequests, NEW next \in Nat, NEW m, Sound(r, next, m)
  PROVE  Sound(r, next + 1, m)
<1>1. r.id < next /\ r.id \in Nat
  BY DEF Sound, QueuedRequests
<1>2. r.id < next + 1
  BY <1>1
<1> QED
  BY <1>2 DEF Sound

LEMMA JoinPlaces ==
  ASSUME BatchInv, NEW n, NEW r, Joins(n, r), r.id = nextId, nextId' = nextId + 1,
         UNCHANGED <<running, completed, resetAt>>
  PROVE  Places'
<1>1. BatchTypes /\ RequestsSound /\ Places
  BY DEF BatchInv
<1>2. /\ Len(pending) \in Nat /\ Len(running) \in Nat /\ Len(completed) \in Nat
      /\ nextId \in Nat /\ resetAt \in 0..nextId
  BY <1>1, BatchLengths DEF BatchTypes
<1>3. /\ n \in 1..Len(pending) + 1
      /\ Len(pending') = Len(pending) + 1
      /\ pending' \in Seq(QueuedRequests)
      /\ \A k \in 1..(Len(pending) + 1) :
           pending'[k] = IF k < n THEN pending[k] ELSE IF k = n THEN r ELSE pending[k - 1]
  BY DEF Joins
<1>4. Batch!IdsOf(pending) = {pending[k].id : k \in 1..Len(pending)}
  BY <1>1, BatchLengths, IdsMember
<1>5. Batch!IdsOf(pending') = {pending'[k].id : k \in 1..Len(pending')}
  BY <1>3, IdsMember
<1>6. Batch!IdsOf(pending') = Batch!IdsOf(pending) \cup {nextId}
  <2>1. ASSUME NEW k \in 1..Len(pending') PROVE pending'[k].id \in Batch!IdsOf(pending) \cup {nextId}
    <3>1. CASE k < n
      <4>1. k \in 1..Len(pending) /\ pending'[k] = pending[k]
        BY <1>2, <1>3, <3>1
      <4> QED
        BY <1>4, <4>1
    <3>2. CASE k > n
      <4>1. k - 1 \in 1..Len(pending) /\ pending'[k] = pending[k - 1]
        BY <1>2, <1>3, <3>2
      <4> QED
        BY <1>4, <4>1
    <3>3. CASE k = n
      BY <1>3, <3>3
    <3> QED
      BY <1>2, <1>3, <3>1, <3>2, <3>3
  <2>2. ASSUME NEW k \in 1..Len(pending) PROVE \E j \in 1..Len(pending') : pending'[j].id = pending[k].id
    <3>1. CASE k < n
      BY <1>2, <1>3, <3>1
    <3>2. CASE k >= n
      <4>1. k + 1 \in 1..Len(pending') /\ pending'[k + 1] = pending[k]
        BY <1>2, <1>3, <3>2
      <4> QED
        BY <4>1
    <3> QED
      BY <1>2, <1>3, <3>1, <3>2
  <2>3. n \in 1..Len(pending') /\ pending'[n].id = nextId
    BY <1>2, <1>3
  <2> QED
    BY <1>4, <1>5, <2>1, <2>2, <2>3
<1>7. \A k \in 1..Len(pending) : pending[k].id < nextId /\ pending[k].id \in Nat
  BY <1>1, BatchLengths DEF RequestsSound, Sound, QueuedRequests
<1>8. nextId \notin Batch!IdsOf(pending) \cup Batch!IdsOf(running) \cup Batch!IdsOf(completed)
  BY <1>1, <1>2 DEF Places, PlacesOf
<1>9. Distinct(pending')
  <2> SUFFICES ASSUME NEW a \in 1..Len(pending'), NEW b \in 1..Len(pending'), a # b
               PROVE  pending'[a].id # pending'[b].id
    BY DEF Distinct
  <2>1. \A k \in 1..Len(pending') : k < n => k \in 1..Len(pending) /\ pending'[k] = pending[k]
    BY <1>2, <1>3
  <2>2. \A k \in 1..Len(pending') : k > n => k - 1 \in 1..Len(pending) /\ pending'[k] = pending[k - 1]
    BY <1>2, <1>3
  <2>3. pending'[n] = r
    BY <1>2, <1>3
  <2>4. \A k, j \in 1..Len(pending) : k # j => pending[k].id # pending[j].id
    BY <1>1 DEF Places, PlacesOf, Distinct
  <2>8. \A k \in 1..Len(pending') : k # n => pending'[k].id # nextId
    <3> SUFFICES ASSUME NEW k \in 1..Len(pending'), k # n PROVE pending'[k].id # nextId
      OBVIOUS
    <3>1. PICK j \in 1..Len(pending) : pending'[k] = pending[j]
      BY <1>2, <1>3, <2>1, <2>2
    <3> QED
      BY <1>2, <1>7, <3>1
  <2>5. CASE a = n
    BY <2>3, <2>5, <2>8
  <2>6. CASE b = n
    BY <2>3, <2>6, <2>8
  <2>7. CASE a # n /\ b # n
    <3>1. CASE a < n /\ b < n
      BY <2>1, <2>4, <3>1
    <3>2. CASE a > n /\ b > n
      <4>1. /\ a - 1 \in 1..Len(pending) /\ b - 1 \in 1..Len(pending)
            /\ pending'[a] = pending[a - 1] /\ pending'[b] = pending[b - 1]
        BY <2>2, <3>2
      <4>2. a - 1 # b - 1
        BY <1>2, <1>3
      <4> QED
        BY <2>4, <4>1, <4>2
    <3>3. CASE a < n /\ b > n
      BY <1>2, <1>3, <2>1, <2>2, <2>4, <3>3, SMTT(60)
    <3>4. CASE a > n /\ b < n
      BY <1>2, <1>3, <2>1, <2>2, <2>4, <3>4
    <3> QED
      BY <1>2, <1>3, <2>7, <3>1, <3>2, <3>3, <3>4
  <2> QED
    BY <2>5, <2>6, <2>7
<1>10. resetAt..((nextId + 1) - 1) = (resetAt..(nextId - 1)) \cup {nextId}
  BY <1>2
<1>11. Len(pending') + Len(running) + Len(completed) = (nextId + 1) - resetAt
  <2>1. Len(pending) + Len(running) + Len(completed) = nextId - resetAt
    BY <1>1 DEF Places, PlacesOf
  <2> QED
    BY <1>2, <1>3, <2>1
<1>12. PlacesOf(pending', running, completed, resetAt, nextId + 1)
  <2>1. Distinct(pending') /\ Distinct(running)
    BY <1>1, <1>9 DEF Places, PlacesOf
  <2>2. /\ Batch!IdsOf(pending') \cap Batch!IdsOf(running) = {}
        /\ (Batch!IdsOf(pending') \cup Batch!IdsOf(running)) \cap Batch!IdsOf(completed) = {}
    BY <1>1, <1>6, <1>8 DEF Places, PlacesOf
  <2>3. Batch!IdsOf(pending') \cup Batch!IdsOf(running) \cup Batch!IdsOf(completed) =
          resetAt..((nextId + 1) - 1)
    BY <1>1, <1>6, <1>10 DEF Places, PlacesOf
  <2> QED
    BY <1>11, <2>1, <2>2, <2>3 DEF PlacesOf
<1> QED
  BY <1>12 DEF Places

LEMMA JoinOrder ==
  ASSUME BatchInv, NEW n, NEW r, Joins(n, r),
         \A k \in 1..Len(pending) : IF k < n THEN Ahead(pending[k], r) ELSE Ahead(r, pending[k])
  PROVE  Order'
<1>1. BatchTypes /\ Order
  BY DEF BatchInv
<1>2. /\ n \in 1..Len(pending) + 1 /\ Len(pending) \in Nat
      /\ Len(pending') = Len(pending) + 1
      /\ \A k \in 1..(Len(pending) + 1) :
           pending'[k] = IF k < n THEN pending[k] ELSE IF k = n THEN r ELSE pending[k - 1]
  BY <1>1, BatchLengths DEF Joins
<1> SUFFICES ASSUME NEW a \in 1..Len(pending'), NEW b \in 1..Len(pending'), a < b
             PROVE  Ahead(pending'[a], pending'[b])
  BY DEF Order
<1>3. \A k, j \in 1..Len(pending) : k < j => Ahead(pending[k], pending[j])
  BY <1>1 DEF Order
<1>4. CASE b < n
  BY <1>2, <1>3, <1>4
<1>5. CASE b = n
  BY <1>2, <1>5
<1>6. CASE a < n /\ n < b
  <2>1. a \in 1..Len(pending) /\ b - 1 \in 1..Len(pending) /\ a < b - 1
    BY <1>2, <1>6
  <2>2. pending'[a] = pending[a] /\ pending'[b] = pending[b - 1]
    BY <1>2, <1>6
  <2> QED
    BY <1>3, <2>1, <2>2
<1>7. CASE a = n
  <2>1. b - 1 \in 1..Len(pending) /\ ~(b - 1 < n) /\ pending'[b] = pending[b - 1] /\ pending'[a] = r
    BY <1>2, <1>7
  <2> QED
    BY <2>1
<1>8. CASE n < a
  <2>1. /\ a - 1 \in 1..Len(pending) /\ b - 1 \in 1..Len(pending) /\ a - 1 < b - 1
        /\ pending'[a] = pending[a - 1] /\ pending'[b] = pending[b - 1]
    BY <1>2, <1>8
  <2> QED
    BY <1>3, <2>1
<1> QED
  BY <1>2, <1>4, <1>5, <1>6, <1>7, <1>8

LEMMA JoinInv ==
  ASSUME BatchInv, NEW n, NEW r, Joins(n, r), r.id = nextId, Sound(r, nextId + 1, model),
         \A k \in 1..Len(pending) : IF k < n THEN Ahead(pending[k], r) ELSE Ahead(r, pending[k]),
         nextId' = nextId + 1, nextId < MaxRequests,
         UNCHANGED <<running, completed, model, states, turn, responses, delivered, began,
                     resetAt, dropped, failures>>
  PROVE  BatchInv'
<1>1. BatchTypes /\ RequestsSound /\ Places /\ LoopInv /\ Returns
  BY DEF BatchInv
<1>2. BatchTypes'
  <2>1. nextId' \in 0..MaxRequests /\ resetAt' \in 0..nextId'
    BY <1>1, BatchLengths DEF BatchTypes
  <2>2. pending' \in Seq(QueuedRequests)
    BY DEF Joins
  <2> QED
    BY <1>1, <2>1, <2>2 DEF BatchTypes
<1>3. RequestsSound'
  <2>1. \A k \in 1..Len(running) : Sound(running[k], nextId + 1, model)
    BY <1>1, BatchLengths, SoundLater DEF RequestsSound
  <2>2. \A k \in 1..Len(pending) : Sound(pending[k], nextId + 1, model)
    BY <1>1, BatchLengths, SoundLater DEF RequestsSound
  <2>3. \A k \in 1..Len(began) : Batch!IsRequest(began[k])'
    <3> SUFFICES ASSUME NEW k \in 1..Len(began) PROVE Batch!IsRequest(began[k])'
      OBVIOUS
    <3>1. Batch!IsRequest(began[k]) /\ nextId \in Nat
      BY <1>1, BatchLengths DEF RequestsSound
    <3> QED
      BY <3>1 DEF Batch!IsRequest
  <2>4. \A k \in 1..Len(pending') : Sound(pending'[k], nextId + 1, model)
    <3> SUFFICES ASSUME NEW k \in 1..Len(pending') PROVE Sound(pending'[k], nextId + 1, model)
      OBVIOUS
    <3>1. pending'[k] = r \/ \E j \in 1..Len(pending) : pending'[k] = pending[j]
      <4>1. Len(pending) \in Nat
        BY <1>1, BatchLengths
      <4>2. /\ n \in 1..Len(pending) + 1 /\ k \in 1..(Len(pending) + 1)
            /\ pending'[k] = IF k < n THEN pending[k] ELSE IF k = n THEN r ELSE pending[k - 1]
        BY DEF Joins
      <4>3. (k < n => k \in 1..Len(pending)) /\ (k > n => k - 1 \in 1..Len(pending))
        BY <4>1, <4>2
      <4> QED
        BY <4>1, <4>2, <4>3
    <3> QED
      BY <2>2, <3>1
  <2> QED
    BY <2>1, <2>3, <2>4 DEF RequestsSound
<1>4. LoopInv'
  BY <1>1 DEF LoopInv
<1>5. Returns'
  BY <1>1 DEF Returns, Batch!ReturnedUnlessFailed
<1> QED
  BY <1>2, <1>3, <1>4, <1>5, JoinPlaces, JoinOrder DEF BatchInv

LEMMA SubmitInv ==
  ASSUME BatchInv, NEW max \in 0..MaxSeqLen,
         Batch!Submit(max) \/ \E p \in Priorities : Batch!SubmitWithPriority(max, p)
  PROVE  BatchInv'
<1>1. CASE Batch!Submit(max)
  <2>1. /\ nextId' = nextId + 1 /\ nextId < MaxRequests
        /\ UNCHANGED <<running, completed, model, states, turn, responses, delivered, began,
                       resetAt, dropped, failures>>
    BY <1>1 DEF Batch!Submit
  <2> QED
    BY <1>1, <2>1, SubmitJoins, JoinInv
<1>2. CASE \E p \in Priorities : Batch!SubmitWithPriority(max, p)
  <2>1. /\ nextId' = nextId + 1 /\ nextId < MaxRequests
        /\ UNCHANGED <<running, completed, model, states, turn, responses, delivered, began,
                       resetAt, dropped, failures>>
    BY <1>2 DEF Batch!SubmitWithPriority
  <2> QED
    BY <1>2, <2>1, SubmitWithPriorityJoins, JoinInv
<1> QED
  BY <1>1, <1>2

-----------------------------------------------------------------------------
(* BatchScheduler: the other operations that are no turn of the loop *)

\* Sequences with the same ids in the same places are in the same places.
LEMMA SameIds ==
  ASSUME NEW s \in Seq(QueuedRequests), NEW t \in Seq(QueuedRequests), Len(t) = Len(s),
         \A n \in 1..Len(s) : t[n].id = s[n].id
  PROVE  /\ Batch!IdsOf(t) = Batch!IdsOf(s)
         /\ Distinct(s) => Distinct(t)
<1>1. Batch!IdsOf(s) = {s[n].id : n \in 1..Len(s)} /\ Batch!IdsOf(t) = {t[n].id : n \in 1..Len(s)}
  BY IdsMember
<1>2. Batch!IdsOf(t) = Batch!IdsOf(s)
  BY <1>1
<1> QED
  BY <1>2 DEF Distinct

LEMMA EmptyIds == Batch!IdsOf(<<>>) = {} /\ Batch!ToSet(<<>>) = {}
BY DEF Batch!IdsOf, Batch!ToSet

LEMMA SetModelInv == ASSUME BatchInv, Batch!SetModel PROVE BatchInv'
<1>1. BatchTypes /\ RequestsSound /\ Places /\ LoopInv /\ Returns /\ Order
  BY DEF BatchInv
<1> DEFINE q == Batch!Rebased(pending)
           a == Batch!Rebased(running)
<1>2. /\ turn = 0 /\ turn' = 0 /\ model < MaxModels /\ model' = model + 1
      /\ states' = [Batch!NoState EXCEPT !.model = model + 1]
      /\ running' = a /\ pending' = q
      /\ UNCHANGED <<completed, nextId, turn, responses, delivered, began, dropped, failures,
                     resetAt>>
  BY DEF Batch!SetModel, Batch!Idle
<1>3. pending \in Seq(QueuedRequests) /\ running \in Seq(QueuedRequests)
  BY <1>1, BatchLengths
<1>4. /\ q \in Seq(QueuedRequests) /\ Len(q) = Len(pending)
      /\ \A n \in 1..Len(pending) :
           q[n] = [pending[n] EXCEPT !.states = Batch!NoState, !.rebased = pending[n].step]
  BY <1>3, RebasedProperties
<1>5. /\ a \in Seq(QueuedRequests) /\ Len(a) = Len(running)
      /\ \A n \in 1..Len(running) :
           a[n] = [running[n] EXCEPT !.states = Batch!NoState, !.rebased = running[n].step]
  BY <1>3, RebasedProperties
<1> HIDE DEF q, a
<1>6. ASSUME NEW r \in QueuedRequests, NEW next, NEW m, NEW m2, Sound(r, next, m),
             NEW x, x = [r EXCEPT !.states = Batch!NoState, !.rebased = r.step]
      PROVE  /\ Sound(x, next, m2)
             /\ x.id = r.id /\ x.priority = r.priority /\ x.ranked = r.ranked
  BY <1>6 DEF Sound, QueuedRequests, Batch!NoState
<1>7. BatchTypes'
  <2>1. model + 1 \in 0..MaxModels /\ model + 1 \in -1..MaxModels /\ 0 \in 0..MaxSeqLen
    BY <1>1, <1>2, BatchLengths
  <2>2. states' = [model |-> model + 1, of |-> {}, steps |-> 0]
    BY <1>2 DEF Batch!NoState
  <2>3. states' \in Batch!HiddenStates /\ states'.of \subseteq {Batch!Engine} /\ states'.model = model + 1
    BY <2>1, <2>2 DEF Batch!HiddenStates
  <2> QED
    BY <1>1, <1>2, <1>4, <1>5, <2>1, <2>3 DEF BatchTypes
<1>8. /\ \A n \in 1..Len(q) : /\ Sound(q[n], nextId, model + 1)
                              /\ q[n].id = pending[n].id /\ q[n].priority = pending[n].priority
                              /\ q[n].ranked = pending[n].ranked
      /\ \A n \in 1..Len(a) : Sound(a[n], nextId, model + 1) /\ a[n].id = running[n].id
  <2>1. ASSUME NEW n \in 1..Len(q)
        PROVE  /\ Sound(q[n], nextId, model + 1)
               /\ q[n].id = pending[n].id /\ q[n].priority = pending[n].priority
               /\ q[n].ranked = pending[n].ranked
    <3>1. pending[n] \in QueuedRequests /\ Sound(pending[n], nextId, model)
      BY <1>1, <1>4, BatchLengths DEF RequestsSound
    <3>2. q[n] = [pending[n] EXCEPT !.states = Batch!NoState, !.rebased = pending[n].step]
      BY <1>4
    <3> QED
      BY <1>6, <3>1, <3>2
  <2>2. ASSUME NEW n \in 1..Len(a)
        PROVE  Sound(a[n], nextId, model + 1) /\ a[n].id = running[n].id
    <3>1. running[n] \in QueuedRequests /\ Sound(running[n], nextId, model)
      BY <1>1, <1>5, BatchLengths DEF RequestsSound
    <3>2. a[n] = [running[n] EXCEPT !.states = Batch!NoState, !.rebased = running[n].step]
      BY <1>5
    <3> QED
      BY <1>6, <3>1, <3>2, ZenonT(60)
  <2> QED
    BY <2>1, <2>2
<1>9. RequestsSound'
  <2>1. \A n \in 1..Len(began) : Batch!IsRequest(began[n])'
    BY <1>1, <1>2 DEF RequestsSound, Batch!IsRequest
  <2> QED
    BY <1>2, <1>8, <2>1 DEF RequestsSound
<1>10. Places'
  <2>1. PlacesOf(q, a, completed, resetAt, nextId)
    BY <1>1, <1>3, <1>4, <1>5, <1>8, SameIds DEF Places, PlacesOf
  <2> QED
    BY <1>2, <2>1 DEF Places
<1>11. LoopInv'
  <2>1. Len(running') = Len(running) /\ Len(running) \in Nat
    BY <1>1, <1>2, <1>5, BatchLengths
  <2>2. responses' = <<>> /\ Len(running) <= MaxBatch
    BY <1>1, <1>2 DEF LoopInv
  <2>3. Len(running') <= MaxBatch /\ turn' <= Len(running') + 1 /\ ~(turn' > 0)
    BY <1>2, <2>1, <2>2
  <2> QED
    BY <2>2, <2>3 DEF LoopInv
<1>12. Returns'
  BY <1>1, <1>2 DEF Returns, Batch!ReturnedUnlessFailed
<1>13. Order'
  <2>1. ASSUME NEW m \in 1..Len(q), NEW n \in 1..Len(q), m < n PROVE Ahead(q[m], q[n])
    <3>1. Ahead(pending[m], pending[n])
      BY <1>1, <1>4, <2>1 DEF Order
    <3> QED
      BY <1>8, <3>1 DEF Ahead
  <2> QED
    BY <1>2, <2>1 DEF Order
<1> QED
  BY <1>7, <1>9, <1>10, <1>11, <1>12, <1>13 DEF BatchInv

LEMMA ResetInv == ASSUME BatchInv, Batch!Reset PROVE BatchInv'
<1>1. BatchTypes /\ RequestsSound /\ Places /\ LoopInv /\ Returns /\ Order
  BY DEF BatchInv
<1>2. /\ turn = 0 /\ pending' = <<>> /\ running' = <<>> /\ completed' = <<>>
      /\ states' = Batch!FreshStates /\ delivered' = {} /\ dropped' = {} /\ resetAt' = nextId
      /\ UNCHANGED <<nextId, model, turn, responses, began, failures>>
  BY DEF Batch!Reset, Batch!Idle
<1>3. responses = <<>>
  BY <1>1, <1>2 DEF LoopInv
<1>4. Len(<<>>) = 0 /\ <<>> \in Seq(QueuedRequests) /\ <<>> \in Seq(Finished)
  BY EmptySeq
<1>5. Batch!FreshStates \in Batch!HiddenStates /\ Batch!FreshStates.of = {} /\ Batch!FreshStates.model = model
  BY <1>1, BatchLengths DEF Batch!FreshStates, Batch!HiddenStates, BatchTypes
<1>6. BatchTypes'
  <2>1. nextId \in 0..nextId
    BY <1>1, BatchLengths
  <2>2. {pending', running', began'} \subseteq Seq(QueuedRequests)
    BY <1>1, <1>2, <1>4 DEF BatchTypes
  <2> QED
    BY <1>1, <1>2, <1>4, <1>5, <2>1, <2>2 DEF BatchTypes
<1>7. RequestsSound'
  BY <1>1, <1>2, <1>4 DEF RequestsSound, Batch!IsRequest
<1>8. Places'
  <2>1. nextId..(nextId - 1) = {} /\ nextId - nextId = 0
    BY <1>1, BatchLengths
  <2>2. PlacesOf(<<>>, <<>>, <<>>, nextId, nextId)
    BY <1>4, <2>1, EmptyIds DEF PlacesOf, Distinct
  <2> QED
    BY <1>2, <2>2 DEF Places
<1>9. LoopInv'
  BY <1>1, <1>2, <1>3, <1>4, BatchLengths DEF LoopInv
<1>10. Returns'
  BY <1>2, <1>3, EmptyIds DEF Returns, Batch!ReturnedUnlessFailed
<1>11. Order'
  BY <1>2, <1>4 DEF Order
<1> QED
  BY <1>6, <1>7, <1>8, <1>9, <1>10, <1>11 DEF BatchInv

LEMMA EngineStepInv == ASSUME BatchInv, Batch!EngineStep PROVE BatchInv'
<1>1. BatchTypes /\ RequestsSound /\ Places /\ LoopInv /\ Returns /\ Order
  BY DEF BatchInv
<1>2. /\ states' = [states EXCEPT !.of = @ \cup {Batch!Engine}]
      /\ UNCHANGED <<pending, running, completed, nextId, model, turn, responses, delivered,
                     began, resetAt, dropped, failures>>
  BY DEF Batch!EngineStep
<1>3. BatchTypes'
  <2>1. states' \in Batch!HiddenStates
    <3>1. Batch!Engine \in -1..MaxRequests
      BY <1>1, BatchLengths DEF Batch!Engine
    <3>2. states \in Batch!HiddenStates
      BY <1>1 DEF BatchTypes
    <3> QED
      BY <1>2, <3>1, <3>2 DEF Batch!HiddenStates
  <2>2. states'.of \subseteq {Batch!Engine} /\ states'.model = model
    BY <1>1, <1>2 DEF BatchTypes, Batch!HiddenStates
  <2> QED
    BY <1>1, <1>2, <2>1, <2>2 DEF BatchTypes
<1>4. RequestsSound' /\ Places' /\ LoopInv' /\ Returns' /\ Order'
  BY <1>1, <1>2 DEF RequestsSound, Batch!IsRequest, Places, LoopInv, Returns,
     Batch!ReturnedUnlessFailed, Order
<1> QED
  BY <1>3, <1>4 DEF BatchInv

-----------------------------------------------------------------------------
(* BatchScheduler: the loop of step *)

LEMMA SoundIsRequest ==
  ASSUME NEW r \in QueuedRequests, NEW m, Sound(r, nextId, m), nextId \in Nat, MaxSeqLen \in Nat
  PROVE  Batch!IsRequest(r)
<1>1. r.id \in 0..nextId - 1 /\ r.step \in 0..r.max /\ r.rebased \in 0..r.step
  BY DEF Sound, QueuedRequests
<1> QED
  BY <1>1 DEF Sound, QueuedRequests, Batch!IsRequest

\* Requests that move from the queue to the batch stay in one place.
LEMMA MovePlaces ==
  ASSUME BatchTypes, Places, NEW n \in 0..Len(pending), NEW a \in Seq(QueuedRequests),
         NEW q \in Seq(QueuedRequests),
         Len(a) = Len(running) + n, Len(q) = Len(pending) - n,
         \A k \in 1..(Len(running) + n) :
           a[k] = IF k <= Len(running) THEN running[k] ELSE pending[k - Len(running)],
         \A k \in 1..(Len(pending) - n) : q[k] = pending[k + n]
  PROVE  PlacesOf(q, a, completed, resetAt, nextId)
<1>1. /\ Len(pending) \in Nat /\ Len(running) \in Nat /\ Len(completed) \in Nat
      /\ pending \in Seq(QueuedRequests) /\ running \in Seq(QueuedRequests)
      /\ nextId \in Nat /\ resetAt \in Nat
  BY BatchLengths
<1>2. /\ Batch!IdsOf(pending) = {pending[k].id : k \in 1..Len(pending)}
      /\ Batch!IdsOf(running) = {running[k].id : k \in 1..Len(running)}
      /\ Batch!IdsOf(q) = {q[k].id : k \in 1..Len(q)}
      /\ Batch!IdsOf(a) = {a[k].id : k \in 1..Len(a)}
  <2>1. \A s \in Seq(QueuedRequests) : Batch!IdsOf(s) = {s[k].id : k \in 1..Len(s)}
    BY IdsMember
  <2> QED
    BY <1>1, <2>1
<1>3. ASSUME NEW k \in 1..Len(q) PROVE k + n \in 1..Len(pending) /\ q[k] = pending[k + n]
  BY <1>1
<1>4. ASSUME NEW k \in 1..Len(a)
      PROVE  \/ k \in 1..Len(running) /\ a[k] = running[k]
             \/ /\ k > Len(running) /\ k - Len(running) \in 1..n /\ k - Len(running) \in 1..Len(pending)
                /\ a[k] = pending[k - Len(running)]
  BY <1>1
<1>5. ASSUME NEW k \in 1..Len(pending)
      PROVE  \/ \E j \in 1..Len(q) : q[j].id = pending[k].id
             \/ \E j \in 1..Len(a) : a[j].id = pending[k].id
  <2>1. CASE k <= n
    <3>1. Len(running) + k \in 1..Len(a) /\ a[Len(running) + k] = pending[k]
      <4>1. /\ Len(running) + k \in 1..(Len(running) + n)
            /\ ~(Len(running) + k <= Len(running)) /\ (Len(running) + k) - Len(running) = k
        BY <1>1, <2>1
      <4> QED
        BY <4>1
    <3> QED
      BY <3>1
  <2>2. CASE k > n
    <3>1. k - n \in 1..Len(q) /\ q[k - n] = pending[k]
      BY <1>1, <2>2
    <3> QED
      BY <3>1
  <2> QED
    BY <1>1, <2>1, <2>2
<1>6. ASSUME NEW k \in 1..Len(running) PROVE \E j \in 1..Len(a) : a[j].id = running[k].id
  <2>1. k \in 1..Len(a) /\ a[k] = running[k]
    BY <1>1
  <2> QED
    BY <2>1
<1>7. Batch!IdsOf(q) \cup Batch!IdsOf(a) = Batch!IdsOf(pending) \cup Batch!IdsOf(running)
  <2>1. Batch!IdsOf(q) \cup Batch!IdsOf(a) \subseteq Batch!IdsOf(pending) \cup Batch!IdsOf(running)
    BY <1>2, <1>3, <1>4, ZenonT(60)
  <2>2. Batch!IdsOf(pending) \cup Batch!IdsOf(running) \subseteq Batch!IdsOf(q) \cup Batch!IdsOf(a)
    BY <1>2, <1>5, <1>6
  <2> QED
    BY <2>1, <2>2
<1>8. /\ \A k, j \in 1..Len(pending) : k # j => pending[k].id # pending[j].id
      /\ \A k, j \in 1..Len(running) : k # j => running[k].id # running[j].id
      /\ \A k \in 1..Len(pending), j \in 1..Len(running) : pending[k].id # running[j].id
  <2>1. /\ Distinct(pending) /\ Distinct(running)
        /\ Batch!IdsOf(pending) \cap Batch!IdsOf(running) = {}
    BY DEF Places, PlacesOf
  <2>2. \A k \in 1..Len(pending), j \in 1..Len(running) : pending[k].id # running[j].id
    BY <1>2, <2>1
  <2> QED
    BY <2>1, <2>2 DEF Distinct
<1>9. Distinct(q)
  <2> SUFFICES ASSUME NEW k \in 1..Len(q), NEW j \in 1..Len(q), k # j PROVE q[k].id # q[j].id
    BY DEF Distinct
  <2>1. k + n # j + n
    BY <1>1
  <2> QED
    BY <1>3, <1>8, <2>1, SMTT(60)
<1>10. Distinct(a)
  <2> SUFFICES ASSUME NEW k \in 1..Len(a), NEW j \in 1..Len(a), k # j PROVE a[k].id # a[j].id
    BY DEF Distinct
  <2> DEFINE Old(i) == i \in 1..Len(running) /\ a[i] = running[i]
             New(i) == /\ i - Len(running) \in 1..Len(pending)
                       /\ a[i] = pending[i - Len(running)]
  <2>1. (Old(k) \/ New(k)) /\ (Old(j) \/ New(j))
    BY <1>4
  <2>2. k - Len(running) # j - Len(running)
    BY <1>1
  <2>3. CASE Old(k) /\ Old(j)
    BY <1>8, <2>3
  <2>4. CASE New(k) /\ New(j)
    BY <1>8, <2>2, <2>4
  <2>5. CASE Old(k) /\ New(j)
    BY <1>8, <2>5
  <2>6. CASE New(k) /\ Old(j)
    BY <1>8, <2>6
  <2> QED
    BY <2>1, <2>3, <2>4, <2>5, <2>6
<1>11. \A k \in 1..Len(q), j \in 1..Len(a) : q[k].id # a[j].id
  <2> SUFFICES ASSUME NEW k \in 1..Len(q), NEW j \in 1..Len(a) PROVE q[k].id # a[j].id
    OBVIOUS
  <2>1. CASE j \in 1..Len(running) /\ a[j] = running[j]
    BY <1>3, <1>8, <2>1
  <2>2. CASE /\ j - Len(running) \in 1..n /\ j - Len(running) \in 1..Len(pending)
             /\ a[j] = pending[j - Len(running)]
    <3>1. j - Len(running) # k + n
      BY <1>1, <2>2
    <3> QED
      BY <1>3, <1>8, <2>2, <3>1
  <2> QED
    BY <1>4, <2>1, <2>2
<1>12. Batch!IdsOf(q) \cap Batch!IdsOf(a) = {}
  BY <1>2, <1>11
<1>13. Len(q) + Len(a) + Len(completed) = Len(pending) + Len(running) + Len(completed)
  BY <1>1
<1> QED
  BY <1>7, <1>9, <1>10, <1>12, <1>13 DEF Places, PlacesOf

LEMMA StartStepInv == ASSUME BatchInv, Batch!StartStep PROVE BatchInv'
<1>1. BatchTypes /\ RequestsSound /\ Places /\ LoopInv /\ Returns /\ Order
  BY DEF BatchInv
<1>2. /\ Len(pending) \in Nat /\ Len(running) \in Nat /\ MaxBatch \in Nat /\ MaxSeqLen \in Nat
      /\ nextId \in Nat
      /\ pending \in Seq(QueuedRequests) /\ running \in Seq(QueuedRequests)
  BY <1>1, BatchLengths
<1>3. PICK form \in BOOLEAN :
        LET n == IF form THEN Batch!BatchSize ELSE 0
        IN  /\ running' = running \o SubSeq(pending, 1, n)
            /\ pending' = SubSeq(pending, n + 1, Len(pending))
  BY DEF Batch!StartStep
<1> DEFINE n == IF form THEN Batch!BatchSize ELSE 0
           a == running'
           q == pending'
<1>4. n \in 0..Len(pending) /\ Len(running) + n <= MaxBatch
  BY <1>1, <1>2 DEF Batch!BatchSize, Batch!Smaller, LoopInv
<1>5. running' = running \o SubSeq(pending, 1, n) /\ pending' = SubSeq(pending, n + 1, Len(pending))
  BY <1>3
<1> HIDE DEF n
<1>6. /\ a \in Seq(QueuedRequests) /\ Len(a) = Len(running) + n
      /\ \A k \in 1..(Len(running) + n) :
           a[k] = IF k <= Len(running) THEN running[k] ELSE pending[k - Len(running)]
      /\ q \in Seq(QueuedRequests) /\ Len(q) = Len(pending) - n
      /\ \A k \in 1..(Len(pending) - n) : q[k] = pending[k + n]
  BY <1>2, <1>4, <1>5, MoveProperties
<1>7. /\ turn = 0 /\ turn' \in {0, 1} /\ began' = IF turn' = 1 THEN running' ELSE <<>>
      /\ responses' = <<>>
      /\ UNCHANGED <<completed, nextId, model, states, delivered, resetAt, dropped, failures>>
  BY DEF Batch!StartStep, Batch!Idle
<1>8. responses = <<>>
  BY <1>1, <1>7 DEF LoopInv
<1>9. BatchTypes'
  <2>1. began' \in Seq(QueuedRequests)
    BY <1>6, <1>7, EmptySeq
  <2>2. turn' \in Nat /\ responses' \in Seq(Nat)
    BY <1>7, EmptySeq
  <2> QED
    BY <1>1, <1>6, <1>7, <2>1, <2>2 DEF BatchTypes
<1>10. /\ \A k \in 1..Len(a) : Sound(a[k], nextId, model) /\ a[k] \in QueuedRequests
       /\ \A k \in 1..Len(q) : Sound(q[k], nextId, model)
  <2>1. /\ \A k \in 1..Len(pending) : Sound(pending[k], nextId, model) /\ pending[k] \in QueuedRequests
        /\ \A k \in 1..Len(running) : Sound(running[k], nextId, model) /\ running[k] \in QueuedRequests
    BY <1>1, BatchLengths DEF RequestsSound
  <2>2. ASSUME NEW k \in 1..Len(a) PROVE Sound(a[k], nextId, model) /\ a[k] \in QueuedRequests
    <3>1. CASE k <= Len(running)
      <4>1. k \in 1..Len(running) /\ a[k] = running[k]
        BY <1>2, <1>4, <1>6, <3>1
      <4> QED
        BY <2>1, <4>1
    <3>2. CASE k > Len(running)
      <4>1. k - Len(running) \in 1..Len(pending) /\ a[k] = pending[k - Len(running)]
        BY <1>2, <1>4, <1>6, <3>2
      <4> QED
        BY <2>1, <4>1
    <3> QED
      BY <1>2, <3>1, <3>2
  <2>3. ASSUME NEW k \in 1..Len(q) PROVE Sound(q[k], nextId, model)
    <3>1. k + n \in 1..Len(pending) /\ q[k] = pending[k + n]
      BY <1>2, <1>4, <1>6
    <3> QED
      BY <2>1, <3>1
  <2> QED
    BY <2>2, <2>3
<1>11. RequestsSound'
  <2>1. \A k \in 1..Len(a) : Batch!IsRequest(a[k])
    BY <1>2, <1>10, SoundIsRequest
  <2>2. \A k \in 1..Len(began') : Batch!IsRequest(began'[k])
    BY <1>7, <2>1, EmptySeq
  <2>3. \A k \in 1..Len(began') : Batch!IsRequest(began[k])'
    BY <1>7, <2>2 DEF Batch!IsRequest
  <2> QED
    BY <1>7, <1>10, <2>3 DEF RequestsSound
<1>12. Places'
  <2>1. PlacesOf(q, a, completed, resetAt, nextId)
    <3> HIDE DEF q, a
    <3> QED
      BY <1>1, <1>4, <1>6, MovePlaces
  <2> QED
    BY <1>7, <2>1 DEF Places
<1>13. LoopInv'
  <2>1. Len(running') <= MaxBatch /\ turn' <= Len(running') + 1
    BY <1>2, <1>4, <1>6, <1>7
  <2>2. CASE turn' = 1
    <3>1. \A b \in 1..Len(began') : \E k \in turn'..Len(running') : running'[k] = began'[b]
      BY <1>7, <2>2
    <3> QED
      BY <1>7, <2>1, <3>1 DEF LoopInv
  <2>3. CASE turn' = 0
    BY <1>7, <2>1, <2>3 DEF LoopInv
  <2> QED
    BY <1>7, <2>2, <2>3
<1>14. Returns'
  BY <1>1, <1>7, <1>8 DEF Returns, Batch!ReturnedUnlessFailed
<1>15. Order'
  <2>1. ASSUME NEW k \in 1..Len(q), NEW j \in 1..Len(q), k < j PROVE Ahead(q[k], q[j])
    <3>1. /\ k + n \in 1..Len(pending) /\ j + n \in 1..Len(pending) /\ k + n < j + n
          /\ q[k] = pending[k + n] /\ q[j] = pending[j + n]
      BY <1>2, <1>4, <1>6, <2>1
    <3> QED
      BY <1>1, <3>1 DEF Order
  <2> QED
    BY <2>1 DEF Order
<1> QED
  BY <1>9, <1>11, <1>12, <1>13, <1>14, <1>15 DEF BatchInv

\* The request of a turn that goes well: its state is its own and one step longer.
LEMMA AdvancedSound ==
  ASSUME BatchTypes, NEW q \in QueuedRequests, Sound(q, nextId, model)
  PROVE  /\ Batch!Advanced(q) \in QueuedRequests
         /\ Batch!Advanced(q).id = q.id /\ Batch!Advanced(q).max = q.max
         /\ Batch!Advanced(q).step = q.step + 1
         /\ ~Batch!IsComplete(Batch!Advanced(q)) => Sound(Batch!Advanced(q), nextId, model)
<1>1. /\ nextId \in Nat /\ nextId <= MaxRequests /\ MaxRequests \in Nat /\ MaxSeqLen \in Nat
      /\ model \in 0..MaxModels /\ MaxModels \in Nat
  BY BatchLengths DEF BatchTypes
<1>2. /\ q.id \in Nat /\ q.max \in Nat /\ q.step \in Nat /\ q.rebased \in Nat
      /\ q.states \in Batch!HiddenStates /\ q.priority \in Nat
      /\ {q.hurt, q.ranked} \subseteq BOOLEAN
  BY DEF QueuedRequests
<1>3. /\ q.id < nextId /\ q.max \in 1..MaxSeqLen /\ q.step < q.max /\ q.rebased <= q.step
      /\ q.states.steps <= q.step - q.rebased
      /\ q.hurt \/ q.states.steps = q.step - q.rebased
      /\ q.states = Batch!NoState \/ (q.states.of \subseteq {q.id} /\ q.states.model = model)
  BY DEF Sound
<1> DEFINE in == Batch!StatesIn(q)
           out == Batch!StatesOut(q)
<1>4. /\ in \in Batch!HiddenStates /\ in.model = model /\ in.of \subseteq {q.id}
      /\ in.steps = q.states.steps
  <2>1. CASE q.states = Batch!NoState
    BY <1>1, <2>1 DEF Batch!StatesIn, Batch!FreshStates, Batch!NoState, Batch!HiddenStates
  <2>2. CASE q.states # Batch!NoState
    BY <1>2, <1>3, <2>2 DEF Batch!StatesIn
  <2> QED
    BY <2>1, <2>2
<1>5. out = [in EXCEPT !.of = @ \cup {q.id}, !.steps = @ + 1]
  BY DEF Batch!StatesOut
<1> HIDE DEF in
<1>6. in.steps \in Nat /\ in.steps + 1 \in 0..MaxSeqLen /\ q.id \in -1..MaxRequests
  BY <1>1, <1>2, <1>3, <1>4 DEF Batch!HiddenStates
<1>7. /\ out \in Batch!HiddenStates /\ out.model = model /\ out.of \subseteq {q.id}
      /\ out.steps = q.states.steps + 1
  BY <1>4, <1>5, <1>6, ZenonT(60) DEF Batch!HiddenStates
<1>8. Batch!Advanced(q) = [q EXCEPT !.states = out, !.step = @ + 1]
  BY DEF Batch!Advanced
<1> HIDE DEF out
<1> DEFINE r == Batch!Advanced(q)
<1>9. /\ r \in QueuedRequests /\ r.id = q.id /\ r.max = q.max /\ r.step = q.step + 1
      /\ r.states = out /\ r.rebased = q.rebased /\ r.priority = q.priority /\ r.hurt = q.hurt
  <2>1. r = [id |-> q.id, max |-> q.max, priority |-> q.priority, step |-> q.step + 1,
             states |-> out, rebased |-> q.rebased, hurt |-> q.hurt, ranked |-> q.ranked]
    BY <1>8 DEF QueuedRequests
  <2>2. q.step + 1 \in Nat
    BY <1>2
  <2>3. r \in QueuedRequests
    BY <1>2, <1>7, <2>1, <2>2 DEF QueuedRequests
  <2> QED
    BY <2>1, <2>3
<1> HIDE DEF r
<1>10. ASSUME ~Batch!IsComplete(r) PROVE Sound(r, nextId, model)
  <2>1. r.step < r.max
    BY <1>2, <1>9, <1>10 DEF Batch!IsComplete
  <2>2. q.states.steps \in Nat
    BY <1>2 DEF Batch!HiddenStates
  <2>3. q.rebased <= q.step + 1 /\ q.states.steps + 1 <= (q.step + 1) - q.rebased
    BY <1>2, <1>3, <2>2
  <2>4. q.hurt \/ q.states.steps + 1 = (q.step + 1) - q.rebased
    BY <1>2, <1>3, <2>2
  <2>5. q.priority \in Priorities
    BY DEF Sound
  <2> QED
    BY <1>3, <1>7, <1>9, <2>1, <2>3, <2>4, <2>5 DEF Sound
<1> QED
  BY <1>9, <1>10 DEF r

\* A request of the batch is replaced by one with its id.
With(s, t, r) == [s EXCEPT ![t] = r]
LEMMA ReplaceSame ==
  ASSUME BatchTypes, NEW t \in 1..Len(running), NEW r \in QueuedRequests, r.id = running[t].id,
         NEW a, a = With(running, t, r)
  PROVE  /\ a \in Seq(QueuedRequests) /\ Len(a) = Len(running)
         /\ \A k \in 1..Len(running) : a[k] = IF k = t THEN r ELSE running[k]
         /\ Places => PlacesOf(pending, a, completed, resetAt, nextId)
<1>1. running \in Seq(QueuedRequests)
  BY BatchLengths
<1>2. /\ a \in Seq(QueuedRequests) /\ Len(a) = Len(running)
      /\ \A k \in 1..Len(running) : a[k] = IF k = t THEN r ELSE running[k]
  BY <1>1, ExceptSeq DEF With
<1>3. \A k \in 1..Len(running) : a[k].id = running[k].id
  BY <1>2
<1>4. /\ Batch!IdsOf(a) = Batch!IdsOf(running)
      /\ Distinct(running) => Distinct(a)
  BY <1>1, <1>2, <1>3, SameIds
<1> QED
  BY <1>2, <1>4 DEF Places, PlacesOf

\* A turn whose request goes on.
LEMMA ContinueInv ==
  ASSUME BatchInv, Batch!Advance, ~Batch!IsComplete(Batch!Advanced(running[turn]))
  PROVE  BatchInv'
<1>1. BatchTypes /\ RequestsSound /\ Places /\ LoopInv /\ Returns /\ Order
  BY DEF BatchInv
<1> DEFINE r == Batch!Advanced(running[turn])
<1>2. /\ running' = With(running, turn, r) /\ turn' = turn + 1
      /\ UNCHANGED <<pending, completed, nextId, model, states, responses, delivered, began,
                     resetAt, dropped, failures>>
  BY DEF Batch!Advance, With
<1>3. turn \in 1..Len(running) /\ turn \in Nat /\ Len(running) \in Nat
  BY <1>1, BatchLengths, LenProperties DEF Batch!Advance
<1>4. running[turn] \in QueuedRequests /\ Sound(running[turn], nextId, model)
  BY <1>1, <1>3, BatchLengths DEF RequestsSound
<1>5. /\ r \in QueuedRequests /\ r.id = running[turn].id /\ r.step = running[turn].step + 1
      /\ Sound(r, nextId, model)
  BY <1>1, <1>4, AdvancedSound
<1> HIDE DEF r
<1>6. /\ running' \in Seq(QueuedRequests) /\ Len(running') = Len(running)
      /\ \A k \in 1..Len(running) : running'[k] = IF k = turn THEN r ELSE running[k]
      /\ PlacesOf(pending, running', completed, resetAt, nextId)
  BY <1>1, <1>2, <1>3, <1>5, ReplaceSame
<1>7. BatchTypes'
  BY <1>1, <1>2, <1>3, <1>6 DEF BatchTypes
<1>8. RequestsSound'
  <2>1. \A k \in 1..Len(running') : Sound(running'[k], nextId, model)
    BY <1>1, <1>5, <1>6 DEF RequestsSound
  <2> QED
    BY <1>1, <1>2, <2>1 DEF RequestsSound, Batch!IsRequest
<1>9. Places'
  BY <1>2, <1>6 DEF Places
<1>10. LoopInv'
  <2>1. /\ Len(running') <= MaxBatch /\ turn' <= Len(running') + 1 /\ turn' # 0
    BY <1>1, <1>2, <1>3, <1>6 DEF LoopInv
  <2>2. ASSUME NEW b \in 1..Len(began)
        PROVE  \/ \E k \in (turn + 1)..Len(running) : running'[k] = began[b]
               \/ \E k \in 1..turn : /\ k <= Len(running) /\ running'[k].id = began[b].id
                                     /\ running'[k].step = began[b].step + 1
               \/ \E k \in 1..Len(completed) : /\ completed[k].id = began[b].id
                                               /\ completed[k].steps = began[b].step + 1
    <3>1. CASE \E k \in turn..Len(running) : running[k] = began[b]
      <4>1. PICK k \in turn..Len(running) : running[k] = began[b]
        BY <3>1
      <4>2. CASE k = turn
        BY <1>3, <1>5, <1>6, <4>1, <4>2
      <4>3. CASE k # turn
        <5>1. k \in (turn + 1)..Len(running) /\ k \in 1..Len(running) /\ running'[k] = began[b]
          BY <1>3, <1>6, <4>1, <4>3
        <5> QED
          BY <5>1
      <4> QED
        BY <4>2, <4>3
    <3>2. CASE \E k \in 1..(turn - 1) : /\ k <= Len(running) /\ running[k].id = began[b].id
                                        /\ running[k].step = began[b].step + 1
      <4>1. PICK k \in 1..(turn - 1) : /\ k <= Len(running) /\ running[k].id = began[b].id
                                       /\ running[k].step = began[b].step + 1
        BY <3>2
      <4>2. k \in 1..turn /\ k \in 1..Len(running) /\ k # turn /\ k <= Len(running)
        BY <1>3, <4>1
      <4> QED
        BY <1>6, <4>1, <4>2
    <3>3. turn > 0
      BY <1>3
    <3>4. CASE \E k \in 1..Len(completed) : /\ completed[k].id = began[b].id
                                           /\ completed[k].steps = began[b].step + 1
      BY <3>4
    <3> QED
      BY <1>1, <3>1, <3>2, <3>3, <3>4 DEF LoopInv
  <2>3. turn' - 1 = turn /\ turn' = turn + 1
    BY <1>2, <1>3
  <2>4. ASSUME NEW b \in 1..Len(began')
        PROVE  \/ \E k \in turn'..Len(running') : running'[k] = began'[b]
               \/ \E k \in 1..(turn' - 1) : /\ k <= Len(running') /\ running'[k].id = began'[b].id
                                            /\ running'[k].step = began'[b].step + 1
               \/ \E k \in 1..Len(completed') : /\ completed'[k].id = began'[b].id
                                               /\ completed'[k].steps = began'[b].step + 1
    BY <1>2, <1>6, <2>2, <2>3
  <2> QED
    BY <2>1, <2>4 DEF LoopInv
<1>11. Returns' /\ Order'
  BY <1>1, <1>2 DEF Returns, Batch!ReturnedUnlessFailed, Order
<1> QED
  BY <1>7, <1>8, <1>9, <1>10, <1>11 DEF BatchInv

LEMMA FailInv == ASSUME BatchInv, Batch!Fail PROVE BatchInv'
<1>1. BatchTypes /\ RequestsSound /\ Places /\ LoopInv /\ Returns /\ Order
  BY DEF BatchInv
<1> DEFINE r == [running[turn] EXCEPT !.states = Batch!NoState, !.hurt = TRUE]
<1>2. /\ running' = With(running, turn, r) /\ turn' = 0
      /\ failures < MaxFailures /\ failures' = failures + 1
      /\ dropped' = dropped \cup Batch!ToSet(responses) /\ responses' = <<>> /\ began' = <<>>
      /\ UNCHANGED <<pending, completed, nextId, model, states, delivered, resetAt>>
  BY DEF Batch!Fail, Batch!AbandonLoop, With
<1>3. turn \in 1..Len(running) /\ turn \in Nat /\ Len(running) \in Nat
  BY <1>1, BatchLengths, LenProperties DEF Batch!Fail, Batch!AbandonLoop
<1>4. running[turn] \in QueuedRequests /\ Sound(running[turn], nextId, model)
  BY <1>1, <1>3, BatchLengths DEF RequestsSound
<1>5. r \in QueuedRequests /\ r.id = running[turn].id /\ Sound(r, nextId, model)
  <2>1. Batch!NoState \in Batch!HiddenStates
    BY <1>1, BatchLengths DEF Batch!NoState, Batch!HiddenStates
  <2> DEFINE q == running[turn]
  <2> HIDE DEF q
  <2>2. q \in QueuedRequests /\ Sound(q, nextId, model)
    BY <1>4 DEF q
  <2>3. [q EXCEPT !.states = Batch!NoState, !.hurt = TRUE] \in QueuedRequests
    BY <2>1, <2>2 DEF QueuedRequests
  <2>4. Batch!NoState.steps <= q.step - q.rebased
    BY <2>2 DEF QueuedRequests, Sound, Batch!NoState
  <2>5. /\ [q EXCEPT !.states = Batch!NoState, !.hurt = TRUE].id = q.id
        /\ Sound([q EXCEPT !.states = Batch!NoState, !.hurt = TRUE], nextId, model)
    BY <2>2, <2>4 DEF QueuedRequests, Sound
  <2> QED
    BY <2>3, <2>5 DEF q
<1> HIDE DEF r
<1>6. /\ running' \in Seq(QueuedRequests) /\ Len(running') = Len(running)
      /\ \A k \in 1..Len(running) : running'[k] = IF k = turn THEN r ELSE running[k]
      /\ PlacesOf(pending, running', completed, resetAt, nextId)
  BY <1>1, <1>2, <1>3, <1>5, ReplaceSame
<1>7. BatchTypes'
  <2>1. failures + 1 \in 0..MaxFailures
    BY <1>1, <1>2, BatchLengths DEF BatchTypes
  <2>2. <<>> \in Seq(Nat) /\ <<>> \in Seq(QueuedRequests)
    BY EmptySeq
  <2> QED
    BY <1>1, <1>2, <1>6, <2>1, <2>2 DEF BatchTypes
<1>8. RequestsSound'
  <2>1. \A k \in 1..Len(running') : Sound(running'[k], nextId, model)
    BY <1>1, <1>5, <1>6 DEF RequestsSound
  <2>2. Len(began') = 0
    BY <1>2, EmptySeq
  <2> QED
    BY <1>1, <1>2, <2>1, <2>2 DEF RequestsSound, Batch!IsRequest
<1>9. Places'
  BY <1>2, <1>6 DEF Places
<1>10. LoopInv'
  BY <1>1, <1>2, <1>3, <1>6 DEF LoopInv
<1>11. Returns'
  BY <1>1, <1>2, EmptyIds DEF Returns, Batch!ReturnedUnlessFailed
<1>12. Order'
  BY <1>1, <1>2 DEF Order
<1> QED
  BY <1>7, <1>8, <1>9, <1>10, <1>11, <1>12 DEF BatchInv

LEMMA EndStepInv == ASSUME BatchInv, Batch!EndStep PROVE BatchInv'
<1>1. BatchTypes /\ RequestsSound /\ Places /\ LoopInv /\ Returns /\ Order
  BY DEF BatchInv
<1>2. /\ delivered' = delivered \cup Batch!ToSet(responses)
      /\ turn' = 0 /\ responses' = <<>> /\ began' = <<>>
      /\ UNCHANGED <<pending, running, completed, nextId, model, states, resetAt, dropped, failures>>
  BY DEF Batch!EndStep
<1>3. <<>> \in Seq(Nat) /\ <<>> \in Seq(QueuedRequests) /\ Len(<<>>) = 0 /\ Len(running) \in Nat
  BY <1>1, EmptySeq, BatchLengths
<1>4. BatchTypes'
  BY <1>1, <1>2, <1>3 DEF BatchTypes
<1>5. RequestsSound'
  BY <1>1, <1>2, <1>3 DEF RequestsSound, Batch!IsRequest
<1>6. Places' /\ Order'
  BY <1>1, <1>2 DEF Places, Order
<1>7. LoopInv'
  BY <1>1, <1>2, <1>3 DEF LoopInv
<1>8. Returns'
  BY <1>1, <1>2, EmptyIds DEF Returns, Batch!ReturnedUnlessFailed
<1> QED
  BY <1>4, <1>5, <1>6, <1>7, <1>8 DEF BatchInv

\* What swap_remove leaves: the other requests, each in one place.
LEMMA RemovePlaces ==
  ASSUME NEW s \in Seq(QueuedRequests), Distinct(s), NEW t \in 1..Len(s)
  PROVE  /\ Batch!IdsOf(Batch!SwapRemove(s, t)) = Batch!IdsOf(s) \ {s[t].id}
         /\ Distinct(Batch!SwapRemove(s, t))
<1> DEFINE a == Batch!SwapRemove(s, t)
<1>1. /\ a \in Seq(QueuedRequests) /\ Len(a) = Len(s) - 1
      /\ \A k \in 1..(Len(s) - 1) : a[k] = IF k = t THEN s[Len(s)] ELSE s[k]
  BY SwapRemoveProperties
<1> HIDE DEF a
<1>2. Len(s) \in Nat /\ Len(s) \in 1..Len(s)
  BY LenProperties
<1>3. Batch!IdsOf(a) = {a[k].id : k \in 1..Len(a)} /\ Batch!IdsOf(s) = {s[k].id : k \in 1..Len(s)}
  BY <1>1, IdsMember
<1>4. \A k, j \in 1..Len(s) : k # j => s[k].id # s[j].id
  BY DEF Distinct
<1>5. ASSUME NEW k \in 1..Len(a)
      PROVE  /\ k \in 1..Len(s)
             /\ k = t => a[k] = s[Len(s)] /\ t # Len(s)
             /\ k # t => a[k] = s[k] /\ k # Len(s)
  BY <1>1, <1>2
<1>6. ASSUME NEW k \in 1..Len(a) PROVE a[k].id \in Batch!IdsOf(s) /\ a[k].id # s[t].id
  <2>1. CASE k = t
    BY <1>2, <1>3, <1>4, <1>5, <2>1
  <2>2. CASE k # t
    BY <1>3, <1>4, <1>5, <2>2
  <2> QED
    BY <2>1, <2>2
<1>7. ASSUME NEW k \in 1..Len(s), k # t PROVE s[k].id \in Batch!IdsOf(a)
  <2>1. CASE k = Len(s)
    <3>1. t \in 1..Len(a) /\ a[t] = s[k]
      BY <1>1, <1>2, <1>7, <2>1
    <3> QED
      BY <1>3, <3>1
  <2>2. CASE k # Len(s)
    <3>1. k \in 1..Len(a) /\ a[k] = s[k]
      BY <1>1, <1>2, <1>7, <2>2
    <3> QED
      BY <1>3, <3>1
  <2> QED
    BY <2>1, <2>2
<1>8. Batch!IdsOf(a) = Batch!IdsOf(s) \ {s[t].id}
  <2>1. Batch!IdsOf(a) \subseteq Batch!IdsOf(s) \ {s[t].id}
    BY <1>3, <1>6
  <2>2. Batch!IdsOf(s) \ {s[t].id} \subseteq Batch!IdsOf(a)
    BY <1>3, <1>7
  <2> QED
    BY <2>1, <2>2
<1>9. Distinct(a)
  <2> SUFFICES ASSUME NEW k \in 1..Len(a), NEW j \in 1..Len(a), k # j PROVE a[k].id # a[j].id
    BY DEF Distinct
  <2>1. CASE k = t
    BY <1>2, <1>4, <1>5, <2>1
  <2>2. CASE j = t
    BY <1>2, <1>4, <1>5, <2>2
  <2>3. CASE k # t /\ j # t
    BY <1>4, <1>5, <2>3
  <2> QED
    BY <2>1, <2>2, <2>3
<1> QED
  BY <1>8, <1>9 DEF a

\* A turn whose request is complete.
LEMMA CompleteInv ==
  ASSUME BatchInv, Batch!Advance, Batch!IsComplete(Batch!Advanced(running[turn]))
  PROVE  BatchInv'
<1>1. BatchTypes /\ RequestsSound /\ Places /\ LoopInv /\ Returns /\ Order
  BY DEF BatchInv
<1> DEFINE r == Batch!Advanced(running[turn])
           c == [id |-> r.id, steps |-> r.step, max |-> r.max]
<1>2. /\ running' = Batch!SwapRemove(running, turn)
      /\ completed' = Append(completed, c) /\ responses' = Append(responses, r.id)
      /\ UNCHANGED <<turn, pending, nextId, model, states, delivered, began, resetAt, dropped,
                     failures>>
  BY DEF Batch!Advance
<1>3. /\ turn \in 1..Len(running) /\ turn \in Nat /\ Len(running) \in Nat
      /\ running \in Seq(QueuedRequests) /\ completed \in Seq(Finished) /\ responses \in Seq(Nat)
      /\ Len(completed) \in Nat
  BY <1>1, BatchLengths, LenProperties DEF Batch!Advance, BatchTypes
<1>4. running[turn] \in QueuedRequests /\ Sound(running[turn], nextId, model)
  BY <1>1, <1>3, BatchLengths DEF RequestsSound
<1>5. /\ r \in QueuedRequests /\ r.id = running[turn].id /\ r.step = running[turn].step + 1
  BY <1>1, <1>4, AdvancedSound
<1>6. c \in Finished /\ c.id = r.id /\ c.steps = r.step /\ r.id \in Nat
  BY <1>5 DEF QueuedRequests, Finished
<1> HIDE DEF r, c
<1>7. /\ running' \in Seq(QueuedRequests) /\ Len(running') = Len(running) - 1
      /\ \A k \in 1..(Len(running) - 1) :
           running'[k] = IF k = turn THEN running[Len(running)] ELSE running[k]
  BY <1>2, <1>3, SwapRemoveProperties
<1>8. /\ completed' \in Seq(Finished) /\ Len(completed') = Len(completed) + 1
      /\ \A k \in 1..Len(completed) : completed'[k] = completed[k]
      /\ completed'[Len(completed) + 1] = c
  BY <1>2, <1>3, <1>6, AppendProperties
<1>9. responses' \in Seq(Nat)
  BY <1>2, <1>3, <1>6, AppendProperties
<1>10. BatchTypes'
  BY <1>1, <1>2, <1>7, <1>8, <1>9 DEF BatchTypes
<1>11. RequestsSound'
  <2>1. ASSUME NEW k \in 1..Len(running') PROVE Sound(running'[k], nextId, model)
    <3>1. k \in 1..Len(running) /\ Len(running) \in 1..Len(running)
      BY <1>3, <1>7
    <3>2. running'[k] = running[k] \/ running'[k] = running[Len(running)]
      BY <1>7
    <3> QED
      BY <1>1, <3>1, <3>2 DEF RequestsSound
  <2> QED
    BY <1>1, <1>2, <2>1 DEF RequestsSound, Batch!IsRequest
<1>12. /\ Batch!IdsOf(running') = Batch!IdsOf(running) \ {r.id} /\ Distinct(running')
       /\ Batch!IdsOf(completed') = Batch!IdsOf(completed) \cup {r.id}
       /\ Batch!ToSet(responses') = Batch!ToSet(responses) \cup {r.id}
       /\ r.id \in Batch!IdsOf(running)
  <2>1. Distinct(running)
    BY <1>1 DEF Places, PlacesOf
  <2>2. Batch!IdsOf(running') = Batch!IdsOf(running) \ {r.id} /\ Distinct(running')
    BY <1>2, <1>3, <1>5, <2>1, RemovePlaces
  <2>3. Batch!IdsOf(completed') = Batch!IdsOf(completed) \cup {r.id}
    BY <1>2, <1>3, <1>6, IdsAppend
  <2>4. Batch!ToSet(responses') = Batch!ToSet(responses) \cup {r.id}
    BY <1>2, <1>3, <1>6, ToSetAppend, SMTT(60)
  <2>5. r.id \in Batch!IdsOf(running)
    BY <1>3, <1>5, IdsMember
  <2> QED
    BY <2>2, <2>3, <2>4, <2>5
<1>13. Places'
  <2>1. Len(pending) + Len(running') + Len(completed') = Len(pending) + Len(running) + Len(completed)
    <3>1. Len(pending) \in Nat
      BY <1>1, BatchLengths
    <3> QED
      BY <1>3, <1>7, <1>8, <3>1
  <2>2. PlacesOf(pending, running', completed', resetAt, nextId)
    BY <1>1, <1>12, <2>1 DEF Places, PlacesOf
  <2> QED
    BY <1>2, <2>2 DEF Places
<1>14. LoopInv'
  <2>1. Len(running') <= MaxBatch /\ turn' <= Len(running') + 1 /\ turn' # 0
    <3>1. MaxBatch \in Nat
      BY <1>1, BatchLengths
    <3> QED
      BY <1>1, <1>2, <1>3, <1>7, <3>1 DEF LoopInv
  <2>2. ASSUME NEW b \in 1..Len(began)
        PROVE  \/ \E k \in turn..Len(running') : running'[k] = began[b]
               \/ \E k \in 1..(turn - 1) : /\ k <= Len(running') /\ running'[k].id = began[b].id
                                           /\ running'[k].step = began[b].step + 1
               \/ \E k \in 1..Len(completed') : /\ completed'[k].id = began[b].id
                                                /\ completed'[k].steps = began[b].step + 1
    <3>1. CASE \E k \in turn..Len(running) : running[k] = began[b]
      <4>1. PICK k \in turn..Len(running) : running[k] = began[b]
        BY <3>1
      <4>2. CASE k = turn
        <5>1. Len(completed) + 1 \in 1..Len(completed')
          BY <1>3, <1>8
        <5>2. /\ completed'[Len(completed) + 1].id = began[b].id
              /\ completed'[Len(completed) + 1].steps = began[b].step + 1
          BY <1>5, <1>6, <1>8, <4>1, <4>2
        <5> QED
          BY <5>1, <5>2
      <4>3. CASE k # turn /\ k = Len(running)
        <5>1. turn \in turn..Len(running') /\ turn \in 1..(Len(running) - 1)
          BY <1>3, <1>7, <4>1, <4>3
        <5>2. running'[turn] = began[b]
          BY <1>7, <4>1, <4>3, <5>1
        <5> QED
          BY <5>1, <5>2
      <4>4. CASE k # turn /\ k # Len(running)
        <5>1. k \in turn..Len(running') /\ k \in 1..(Len(running) - 1)
          BY <1>3, <1>7, <4>1, <4>4
        <5>2. running'[k] = began[b]
          BY <1>7, <4>1, <4>4, <5>1
        <5> QED
          BY <5>1, <5>2
      <4> QED
        BY <4>2, <4>3, <4>4
    <3>2. CASE \E k \in 1..(turn - 1) : /\ k <= Len(running) /\ running[k].id = began[b].id
                                        /\ running[k].step = began[b].step + 1
      <4>1. PICK k \in 1..(turn - 1) : /\ k <= Len(running) /\ running[k].id = began[b].id
                                       /\ running[k].step = began[b].step + 1
        BY <3>2
      <4>2. k \in 1..(Len(running) - 1) /\ k # turn /\ k <= Len(running')
        BY <1>3, <1>7, <4>1
      <4>3. running'[k] = running[k]
        BY <1>7, <4>2
      <4> QED
        BY <4>1, <4>2, <4>3
    <3>3. CASE \E k \in 1..Len(completed) : /\ completed[k].id = began[b].id
                                           /\ completed[k].steps = began[b].step + 1
      <4>1. PICK k \in 1..Len(completed) : /\ completed[k].id = began[b].id
                                           /\ completed[k].steps = began[b].step + 1
        BY <3>3
      <4>2. k \in 1..Len(completed') /\ completed'[k] = completed[k]
        BY <1>3, <1>8
      <4> QED
        BY <4>1, <4>2
    <3>4. turn > 0
      BY <1>3
    <3> QED
      BY <1>1, <3>1, <3>2, <3>3, <3>4 DEF LoopInv
  <2> QED
    BY <1>2, <2>1, <2>2 DEF LoopInv
<1>15. Returns'
  <2>1. r.id \notin Batch!IdsOf(completed)
    BY <1>1, <1>12 DEF Places, PlacesOf
  <2>2. r.id \notin dropped /\ r.id \notin delivered
    BY <1>1, <2>1 DEF Returns, Batch!ReturnedUnlessFailed
  <2> QED
    BY <1>1, <1>2, <1>12, <2>2 DEF Returns, Batch!ReturnedUnlessFailed
<1>16. Order'
  BY <1>1, <1>2 DEF Order
<1> QED
  BY <1>10, <1>11, <1>13, <1>14, <1>15, <1>16 DEF BatchInv

-----------------------------------------------------------------------------
(* BatchScheduler: the theorems *)

LEMMA BatchInitial == ASSUME Batch!Init PROVE BatchInv
<1>1. /\ MaxRequests \in Nat /\ MaxModels \in Nat /\ MaxSeqLen \in Nat /\ MaxBatch \in Nat
      /\ MaxFailures \in Nat
  BY ServingAssumption DEF Batch!BatchAssumption
<1>2. /\ pending = <<>> /\ running = <<>> /\ completed = <<>> /\ nextId = 0
      /\ model \in 0..MaxModels /\ turn = 0 /\ responses = <<>>
      /\ delivered = {} /\ began = <<>> /\ resetAt = 0 /\ dropped = {} /\ failures = 0
  BY <1>1 DEF Batch!Init
<1>3. states \in Batch!HiddenStates /\ states.of = {} /\ states.model = model
  BY <1>1, <1>2 DEF Batch!Init, Batch!FreshStates, Batch!HiddenStates
<1>4. /\ Len(<<>>) = 0 /\ <<>> \in Seq(QueuedRequests) /\ <<>> \in Seq(Finished) /\ <<>> \in Seq(Nat)
  BY EmptySeq
<1>5. BatchTypes
  BY <1>1, <1>2, <1>3, <1>4 DEF BatchTypes
<1>6. RequestsSound /\ Order
  BY <1>2, <1>4 DEF RequestsSound, Order
<1>7. Places
  BY <1>2, <1>4, EmptyIds DEF Places, PlacesOf, Distinct
<1>8. LoopInv
  BY <1>1, <1>2, <1>4 DEF LoopInv
<1>9. Returns
  BY <1>2, EmptyIds DEF Returns, Batch!ReturnedUnlessFailed
<1> QED
  BY <1>5, <1>6, <1>7, <1>8, <1>9 DEF BatchInv

LEMMA BatchStep == ASSUME BatchInv, [Batch!Next]_batchVars PROVE BatchInv'
<1>1. CASE UNCHANGED batchVars
  BY <1>1 DEF batchVars, BatchInv, BatchTypes, RequestsSound, Batch!IsRequest, Places, LoopInv,
     Returns, Batch!ReturnedUnlessFailed, Order
<1>2. CASE Batch!Advance
  BY <1>2, ContinueInv, CompleteInv
<1>3. CASE Batch!Next
  BY <1>2, <1>3, SubmitInv, SetModelInv, ResetInv, EngineStepInv, StartStepInv, EndStepInv, FailInv
     DEF Batch!Next, Batch!Step
<1> QED
  BY <1>1, <1>3

LEMMA BatchImplies == ASSUME BatchInv PROVE Batch!SchedulerInv /\ Batch!StatesOwn
<1>1. BatchTypes /\ RequestsSound /\ Places /\ LoopInv /\ Returns /\ Order
  BY DEF BatchInv
<1>2. /\ Batch!ToSet(pending) = {pending[n] : n \in 1..Len(pending)}
      /\ Batch!ToSet(running) = {running[n] : n \in 1..Len(running)}
      /\ Batch!ToSet(began) = {began[n] : n \in 1..Len(began)}
      /\ Batch!ToSet(completed) = {completed[n] : n \in 1..Len(completed)}
      /\ Batch!IdsOf(completed) = {completed[n].id : n \in 1..Len(completed)}
  BY <1>1, BatchLengths, SetOfSeq, IdsMember
<1>3. Batch!NothingLost
  BY <1>1 DEF Places, PlacesOf, Batch!NothingLost
<1>4. Batch!TypeOK
  <2>1. \A n \in 1..Len(pending) : Batch!IsRequest(pending[n])
    BY <1>1, BatchLengths, SoundIsRequest DEF RequestsSound
  <2>2. \A n \in 1..Len(running) : Batch!IsRequest(running[n])
    BY <1>1, BatchLengths, SoundIsRequest DEF RequestsSound
  <2>3. \A r \in Batch!ToSet(pending) \cup Batch!ToSet(running) \cup Batch!ToSet(began) :
           Batch!IsRequest(r)
    BY <1>1, <1>2, <2>1, <2>2 DEF RequestsSound
  <2>4. \A c \in Batch!ToSet(completed) : c.id \in 0..nextId - 1
    <3>1. \A n \in 1..Len(completed) : completed[n].id \in resetAt..nextId - 1
      BY <1>1, <1>2 DEF Places, PlacesOf
    <3> QED
      BY <1>1, <1>2, <3>1, BatchLengths
  <2>5. turn \in 0..MaxBatch + 1
    <3>1. Len(running) \in Nat /\ MaxBatch \in Nat
      BY <1>1, BatchLengths
    <3> QED
      BY <1>1, <3>1 DEF LoopInv, BatchTypes
  <2>6. Batch!ToSet(responses) \cup delivered \cup dropped \subseteq Batch!IdsOf(completed)
    BY <1>1 DEF Returns, Batch!ReturnedUnlessFailed
  <2> QED
    BY <1>1, <2>3, <2>4, <2>5, <2>6 DEF Batch!TypeOK, BatchTypes
<1>5. Batch!EachOnce
  <2> SUFFICES ASSUME turn > Len(running), NEW b \in 1..Len(began)
               PROVE  \/ \E a \in Batch!ToSet(running) : a.id = began[b].id /\ a.step = began[b].step + 1
                      \/ \E c \in Batch!ToSet(completed) : c.id = began[b].id /\ c.steps = began[b].step + 1
    BY <1>2 DEF Batch!EachOnce
  <2>1. turn > 0 /\ turn..Len(running) = {} /\ \A k \in 1..(turn - 1) : k <= Len(running) => k \in 1..Len(running)
    BY <1>1, BatchLengths DEF BatchTypes
  <2>2. \/ \E k \in 1..(turn - 1) : /\ k <= Len(running) /\ running[k].id = began[b].id
                                    /\ running[k].step = began[b].step + 1
        \/ \E k \in 1..Len(completed) : /\ completed[k].id = began[b].id
                                        /\ completed[k].steps = began[b].step + 1
    BY <1>1, <2>1 DEF LoopInv
  <2> QED
    BY <1>2, <2>1, <2>2
<1>6. Batch!QueueOrder
  <2>1. DOMAIN pending = 1..Len(pending)
    BY <1>1, BatchLengths, LenProperties
  <2>2. ASSUME NEW m \in 1..Len(pending), NEW n \in 1..Len(pending), m < n
        PROVE  IF EnablePriority
               THEN pending[m].ranked /\ pending[n].ranked =>
                      \/ pending[m].priority > pending[n].priority
                      \/ /\ pending[m].priority = pending[n].priority
                         /\ pending[m].id < pending[n].id
               ELSE pending[m].id < pending[n].id
    <3>1. Ahead(pending[m], pending[n])
      BY <1>1, <2>2 DEF Order
    <3> QED
      BY <3>1 DEF Ahead
  <2> QED
    BY <2>1, <2>2 DEF Batch!QueueOrder
<1>7. Batch!StatesOwn
  <2>1. /\ \A n \in 1..Len(pending) : Sound(pending[n], nextId, model)
        /\ \A n \in 1..Len(running) : Sound(running[n], nextId, model)
    BY <1>1 DEF RequestsSound
  <2>2. Batch!Isolated
    BY <1>1, <1>2, <2>1 DEF Sound, Batch!Isolated, BatchTypes
  <2>3. Batch!StateCoversSteps
    BY <1>2, <2>1 DEF Sound, Batch!StateCoversSteps
  <2> QED
    BY <2>2, <2>3 DEF Batch!StatesOwn
<1> QED
  BY <1>1, <1>3, <1>4, <1>5, <1>6, <1>7 DEF Returns, Batch!SchedulerInv

\* The scheduler alone: for every batch size, sequence length and set of priorities, whatever
\* is submitted, reset or replaced between two calls of step and whichever engine steps fail,
\* each request is in one place, is advanced once in a call, is returned or was dropped by an
\* error, and waits in its order; and its hidden state is its own and covers its steps.
THEOREM BatchCorrect == Batch!Spec => [](Batch!SchedulerInv /\ Batch!StatesOwn)
<1>1. BatchInv /\ [Batch!Next]_(Batch!vars) => BatchInv'
  <2> SUFFICES ASSUME BatchInv, [Batch!Next]_(Batch!vars) PROVE BatchInv'
    OBVIOUS
  <2>1. [Batch!Next]_batchVars
    BY DEF Batch!vars, batchVars
  <2> QED
    BY <2>1, BatchStep
<1> QED
  BY <1>1, BatchInitial, BatchImplies, PTL DEF Batch!Spec

LEMMA BatchAlways == AllFair => []BatchInv
<1>1. AllInit => BatchInv
  BY BatchInitial DEF AllInit
<1>2. BatchInv /\ [AllNext]_<<unit, vars, batchVars, swapVars>> => BatchInv'
  <2> SUFFICES ASSUME BatchInv, [AllNext]_<<unit, vars, batchVars, swapVars>> PROVE BatchInv'
    OBVIOUS
  <2>1. [Batch!Next]_batchVars
    BY DEF AllNext
  <2> QED
    BY <2>1, BatchStep
<1> QED
  BY <1>1, <1>2, PTL DEF AllFair

\* The same where the run checks it.
THEOREM SchedulerCorrect == AllFair => []SchedulerInv
<1>1. BatchInv => SchedulerInv
  BY BatchImplies DEF SchedulerInv
<1> QED
  BY <1>1, BatchAlways, PTL

\* "requests never observe each other's history", where the run checks it.
THEOREM StatesIsolated == AllFair => []StatesOwn
<1>1. BatchInv => StatesOwn
  BY BatchImplies DEF StatesOwn
<1> QED
  BY <1>1, BatchAlways, PTL
=============================================================================
