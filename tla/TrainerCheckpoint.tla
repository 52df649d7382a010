-------------------------- MODULE TrainerCheckpoint --------------------------
(***************************************************************************)
(* kizzasi_core: the Trainer of training_loop.rs, its checkpoints          *)
(* (training_checkpoint.rs) and the metrics that decide which of them is   *)
(* the best and when training stops (metrics.rs).  A checkpoint is three   *)
(* files written in place, one after the other; the process may end at any *)
(* moment.  Weights and optimizer moments are tags of the training they    *)
(* stem from, losses a few numbers.                                        *)
(***************************************************************************)
EXTENDS Naturals, Sequences, FiniteSets, FiniteSetsExt

CONSTANTS
  Names, Best,    \* checkpoint names, and the one save_best_checkpoint uses
  NoFile, Torn,   \* a file that is not there, and one cut off while written
  NoBest,
  Losses,         \* validation losses
  BatchCounts,    \* batches of a training set
  Epochs,         \* config.epochs
  Patience,       \* config.early_stopping_patience
  MaxTrained,     \* bound: epochs trained
  MaxFits,        \* bound: calls of fit
  MaxSaves,       \* bound: checkpoints begun
  MaxFaults       \* bound: training or file operations that fail, ends of the process

\* What a metadata file may hold.
Metadata ==
  [step : Nat, trained : SUBSET Nat, validated : SUBSET Nat,
   best : [epoch : Nat, loss : Losses] \cup {NoBest}, tag : 0..MaxTrained,
   improved : BOOLEAN, aligned : BOOLEAN, batches : Nat, mixed : BOOLEAN]

TrainerAssumption ==
  /\ Best \in Names /\ NoFile # Torn
  /\ {NoFile, Torn} \cap (Nat \cup Metadata) = {}
  /\ NoBest \notin [epoch : Nat, loss : Losses]
  /\ Losses \subseteq Nat /\ BatchCounts \subseteq Nat \ {0}
  /\ {Epochs, Patience, MaxTrained, MaxFits, MaxSaves, MaxFaults} \subseteq Nat

VARIABLES
  weights, optimizer,   \* of the trainer in memory: what they stem from
  metadata,             \* what save_checkpoint writes of its step and metrics
  pc,                   \* "idle", "fit", "save" or "down"
  epoch, batches, validate,   \* of fit: the epoch it is in, its data
  target, part,         \* of save_checkpoint: the name, the file to be written next
  files,                \* name -> the three files
  trained, fits, saves, faults,   \* history: counts, the bounds above
  whole,                \* history: names of which a checkpoint was completed at some time
  cut,                  \* history: names whose last save was interrupted
  stop                  \* history: how the last fit ended

trainer == <<weights, optimizer, metadata>>
fitting == <<epoch, batches, validate>>
disk == <<target, part, files, whole, cut>>
vars == <<trainer, pc, fitting, disk, trained, fits, saves, faults, stop>>

\* The step and the metrics, then history: the training they stem from, the last epoch was
\* validated with a lower loss than any before, training and validation number the epochs
\* alike, the size of an epoch, and the trainer stems from a save that was interrupted.
Fresh == [step |-> 0, trained |-> {}, validated |-> {}, best |-> NoBest,
          tag |-> 0, improved |-> FALSE, aligned |-> TRUE, batches |-> 0, mixed |-> FALSE]

\* The files of a checkpoint in the order in which they are written.
Parts == <<"weights", "optimizer", "metadata">>
Absent == [weights |-> NoFile, optimizer |-> NoFile, metadata |-> NoFile]

Init ==
  /\ weights = 0 /\ optimizer = 0 /\ metadata = Fresh
  /\ pc = "idle" /\ epoch = 0 /\ batches = 1 /\ validate = FALSE
  /\ target = Best /\ part = 1 /\ files = [n \in Names |-> Absent]
  /\ trained = 0 /\ fits = 0 /\ saves = 0 /\ faults = 0
  /\ whole = {} /\ cut = {} /\ stop = "none"

-----------------------------------------------------------------------------
(* Training *)

\* train_epoch over n batches, of which the first b are taken: the losses are recorded under
\* the number of the epoch that the step belongs to.
Trained(m, n, b) ==
  [m EXCEPT !.tag = trained + 1,
            !.step = @ + b,
            !.trained = @ \cup {m.step \div n},
            !.improved = FALSE,
            !.aligned = @ /\ m.batches \in {0, n},
            !.batches = n]

\* record_val_loss.
Validated(m, e, loss) ==
  LET better == m.best = NoBest \/ loss < m.best.loss
  IN [m EXCEPT !.validated = @ \cup {e},
               !.best = IF better THEN [epoch |-> e, loss |-> loss] ELSE @,
               !.improved = better]

\* is_improving.
IsImproving(m) == m.best = NoBest \/ Max(m.validated) - m.best.epoch <= Patience

TakesTag == trained < MaxTrained /\ trained' = trained + 1 /\ weights' = trained + 1
            /\ optimizer' = trained + 1

\* A training loop of the caller's own: an epoch, its validation under the number that the
\* count of trained epochs gives it, or none.
Epoch(n) ==
  /\ pc = "idle" /\ TakesTag
  /\ LET m == Trained(metadata, n, n)
     IN \/ metadata' = m
        \/ \E loss \in Losses : metadata' = Validated(m, Cardinality(m.trained) - 1, loss)
  /\ UNCHANGED <<pc, fitting, disk, fits, saves, faults, stop>>

BeginFit(n, withVal) ==
  /\ pc = "idle" /\ fits < MaxFits /\ Epochs > 0
  /\ pc' = "fit" /\ fits' = fits + 1
  /\ epoch' = 0 /\ batches' = n /\ validate' = withVal
  /\ metadata' = [metadata EXCEPT !.aligned = @ /\ metadata.trained = {}]
  /\ stop' = "none"
  /\ UNCHANGED <<weights, optimizer, disk, trained, saves, faults>>

\* One turn of the loop of fit, with the early stop at its end.
FitEpoch ==
  /\ pc = "fit" /\ TakesTag
  /\ LET m == Trained(metadata, batches, batches)
     IN IF validate THEN \E loss \in Losses : metadata' = Validated(m, epoch, loss)
                    ELSE metadata' = m
  /\ epoch' = epoch + 1
  /\ LET early == ~IsImproving(metadata')
     IN /\ pc' = IF early \/ epoch' = Epochs THEN "idle" ELSE "fit"
        /\ stop' = IF ~early THEN "none" ELSE IF metadata'.improved THEN "improved" ELSE "stale"
  /\ UNCHANGED <<batches, validate, disk, fits, saves, faults>>

\* A batch of n, or the validation, fails after b of them: nothing is taken back.
EpochFails(n) ==
  /\ pc \in {"idle", "fit"} /\ (pc = "fit" => n = batches) /\ faults < MaxFaults
  /\ faults' = faults + 1 /\ pc' = "idle"
  /\ \/ UNCHANGED <<trainer, trained>>
     \/ TakesTag /\ \E b \in 1..n : metadata' = Trained(metadata, n, b)
  /\ UNCHANGED <<fitting, disk, fits, saves, stop>>

-----------------------------------------------------------------------------
(* Checkpoints *)

BeginSave(n) ==
  /\ saves < MaxSaves /\ saves' = saves + 1
  /\ pc' = "save" /\ target' = n /\ part' = 1
  /\ UNCHANGED <<trainer, fitting, files, whole, cut, trained, fits, faults, stop>>

\* save_checkpoint under a name of the caller's, save_checkpoint_auto under one that the
\* number of the epoch gives.
Save(n) == pc = "idle" /\ n # Best /\ BeginSave(n)

\* save_best_checkpoint: this epoch, counted from 0, is the best one.
IsBestEpoch(m) ==
  m.best # NoBest /\ (IF m.trained = {} THEN 0 ELSE Cardinality(m.trained) - 1) = m.best.epoch

SaveBest == pc = "idle" /\ IsBestEpoch(metadata) /\ BeginSave(Best)

Contents == [weights |-> weights, optimizer |-> optimizer, metadata |-> metadata]

\* The next of the three files.
WriteFile ==
  /\ pc = "save"
  /\ LET f == Parts[part]
     IN files' = [files EXCEPT ![target] = [@ EXCEPT ![f] = Contents[f]]]
  /\ IF part < Len(Parts)
     THEN part' = part + 1 /\ cut' = cut \cup {target} /\ UNCHANGED <<pc, whole>>
     ELSE /\ part' = 1 /\ pc' = "idle"
          /\ whole' = whole \cup {target} /\ cut' = cut \ {target}
  /\ UNCHANGED <<trainer, fitting, target, trained, fits, saves, faults, stop>>

\* A write that fails, or is cut off with the process, leaves the old file or a torn one.
FileLeft ==
  \/ UNCHANGED files
  \/ files' = [files EXCEPT ![target] = [@ EXCEPT ![Parts[part]] = Torn]]

\* Mutant of WriteFails: the error is swallowed, and the save goes on with the next file.
WriteFailsIgnored ==
  /\ pc = "save" /\ faults < MaxFaults /\ part < Len(Parts)
  /\ faults' = faults + 1 /\ part' = part + 1
  /\ FileLeft /\ cut' = cut \cup {target}
  /\ UNCHANGED <<trainer, pc, fitting, target, whole, trained, fits, saves, stop>>

\* The error is returned to the caller, who goes on training.
WriteFails ==
  /\ pc = "save" /\ faults < MaxFaults
  /\ faults' = faults + 1 /\ pc' = "idle"
  /\ FileLeft /\ cut' = IF files' = files THEN cut ELSE cut \cup {target}
  /\ UNCHANGED <<trainer, fitting, target, part, whole, trained, fits, saves, stop>>

Crash ==
  /\ pc # "down" /\ faults < MaxFaults
  /\ faults' = faults + 1 /\ pc' = "down"
  /\ IF pc = "save" THEN FileLeft ELSE UNCHANGED files
  /\ cut' = IF files' = files THEN cut ELSE cut \cup {target}
  /\ UNCHANGED <<trainer, fitting, target, part, whole, trained, fits, saves, stop>>

Loadable(n) == \A f \in DOMAIN Absent : files[n][f] \notin {NoFile, Torn}

\* load_checkpoint: a new trainer, in a new process or beside the old one, which is dropped.
Load(n) ==
  /\ pc \in {"idle", "down"} /\ Loadable(n)
  /\ weights' = files[n].weights /\ optimizer' = files[n].optimizer
  /\ metadata' = [files[n].metadata EXCEPT !.mixed = @ \/ n \in cut]
  /\ pc' = "idle" /\ stop' = "none"
  /\ UNCHANGED <<fitting, disk, trained, fits, saves, faults>>

\* Trainer::new after a crash.
Restart ==
  /\ pc = "down"
  /\ weights' = 0 /\ optimizer' = 0 /\ metadata' = Fresh
  /\ pc' = "idle" /\ stop' = "none"
  /\ UNCHANGED <<fitting, disk, trained, fits, saves, faults>>

Next ==
  \/ \E n \in BatchCounts : \/ Epoch(n) \/ EpochFails(n)
                            \/ \E v \in BOOLEAN : BeginFit(n, v)
  \/ FitEpoch
  \/ \E n \in Names : Save(n) \/ Load(n)
  \/ SaveBest \/ WriteFile \/ WriteFails \/ Crash \/ Restart

Spec == Init /\ [][Next]_vars

-----------------------------------------------------------------------------
(* Properties *)

TypeOK ==
  /\ weights \in 0..MaxTrained /\ optimizer \in 0..MaxTrained /\ metadata \in Metadata
  /\ pc \in {"idle", "fit", "save", "down"}
  /\ epoch \in 0..Epochs /\ batches \in BatchCounts \cup {1} /\ validate \in BOOLEAN
  /\ target \in Names /\ part \in DOMAIN Parts
  /\ \A n \in Names : /\ files[n].weights \in 0..MaxTrained \cup {NoFile, Torn}
                       /\ files[n].optimizer \in 0..MaxTrained \cup {NoFile, Torn}
                       /\ files[n].metadata \in Metadata \cup {NoFile, Torn}
  /\ {whole, cut} \subseteq SUBSET Names
  /\ stop \in {"none", "stale", "improved"}

\* An interrupted save never makes a checkpoint of what was none: a name loads only if a
\* save under it was completed some time.
OnlyWhole == \A n \in Names : Loadable(n) => n \in whole

\* A name whose last save was not interrupted loads, with the weights, the optimizer state
\* and the step of one moment.
LastWhole ==
  \A n \in whole \ cut :
    /\ Loadable(n)
    /\ \/ files[n].metadata.mixed
       \/ {files[n].weights, files[n].optimizer} = {files[n].metadata.tag}

\* A trainer goes on from one moment, unless it was loaded after an interrupted save.
Resumes == metadata.mixed \/ {weights, optimizer} = {metadata.tag}

\* "Save checkpoint if this is the best epoch": in a trainer that numbers the epochs of
\* training and validation alike, the epoch judged the best is one that lowered the loss.
BestJudged ==
  pc = "idle" /\ metadata.aligned => (IsBestEpoch(metadata) <=> metadata.improved)

\* ... and fit never stops early after such an epoch.
StopsStale == metadata.aligned => stop # "improved"

\* Types, what is on disk and what is judged the best together.
CheckpointInv == TypeOK /\ OnlyWhole /\ LastWhole /\ Resumes /\ BestJudged /\ StopsStale

\* The same of any trainer, one that was loaded and fitted again included.
BestSaved == pc = "idle" => (IsBestEpoch(metadata) <=> metadata.improved)
=============================================================================
