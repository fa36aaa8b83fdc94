-------------------------- MODULE TrainerCheckpoint --------------------------
(***************************************************************************)
(* The training loop of RayPPOTrainer (fit) with its checkpoints           *)
(* (_save_checkpoint, _load_checkpoint), the background writer of rollout  *)
(* files, and the launcher that starts it over after a crash.              *)
(*                                                                         *)
(* A run directory belongs to a STAMP.  It is launched again under the     *)
(* same STAMP (resume_mode auto, the tracker decides), or a new STAMP      *)
(* names a checkpoint of the former directory (RESUME_FROM_PATH).          *)
(*                                                                         *)
(* Weights are the sequence of the batches they were trained on; a batch   *)
(* is its position in an epoch's order, 0 in weights put together from the *)
(* shards of two saves.                                                    *)
(***************************************************************************)
EXTENDS Naturals, Sequences

CONSTANTS
  StepsPerEpoch,  \* len(self.train_dataloader)
  TotalEpochs,    \* trainer.total_epochs
  TotalSteps,     \* trainer.total_training_steps
  SaveFreq,       \* trainer.save_freq
  MaxLaunches     \* bound on the launches; the last one does not crash

ASSUME TrainerAssumption ==
  {StepsPerEpoch, TotalEpochs, TotalSteps, SaveFreq, MaxLaunches} \subseteq Nat \ {0}

VARIABLES
  pc,        \* where fit stands
  launches,  \* launches so far
  first,     \* the first step of this launch
  step,      \* self.global_steps
  epoch,     \* the loop variable of fit
  cursor,    \* batches the dataloader has yielded in its iteration
  weights,   \* the actor
  replicas,  \* the weights of the rollout replicas
  disk,      \* the checkpoint folder of each step, in this run's directory
  former,    \* the checkpoint of the former directory this run came from
  tracker,   \* latest_checkpointed_iteration.txt, 0 if there is none
  torn,      \* it is truncated but not yet written
  queue,     \* rollout files the dump executor has yet to write
  dumped     \* rollout files in this run's directory

diskVars == <<disk, former, tracker, torn>>
loopVars == <<first, step, epoch, cursor, weights, replicas>>
dumpVars == <<queue, dumped>>
vars == <<pc, launches, loopVars, diskVars, dumpVars>>

LastStep == StepsPerEpoch * TotalEpochs
Steps    == 1..LastStep

\* The folder of a checkpoint: whether its actor shards are complete, the
\* weights in them, and the dataloader's state in data.pt, 0 without it (it is
\* never saved before the first batch).
Folder ==
  [shards  : {"none", "partial", "mixed", "whole"},
   weights : UNION {[1..n -> 0..StepsPerEpoch] : n \in 0..LastStep},
   data    : 0..StepsPerEpoch]
Empty == [shards |-> "none", weights |-> <<>>, data |-> 0]

TypeOK ==
  /\ pc \in {"down", "loaded", "loop", "rollout", "save", "shards", "data", "saved",
             "tracker", "publish", "log", "shutdown", "done"}
  /\ launches \in 0..MaxLaunches
  /\ {first, step} \subseteq 0..(LastStep + 1)
  /\ epoch \in 0..TotalEpochs
  /\ cursor \in 0..StepsPerEpoch
  /\ {weights, replicas} \subseteq Seq(0..StepsPerEpoch)
  /\ disk \in [Steps -> Folder]
  /\ former \in Folder
  /\ tracker \in 0..LastStep
  /\ torn \in BOOLEAN
  /\ queue \in Seq(Steps)
  /\ dumped \subseteq Steps

Init ==
  /\ pc = "down"
  /\ launches = 0
  /\ first = 0
  /\ step = 0
  /\ epoch = 0
  /\ cursor = 0
  /\ weights = <<>>
  /\ replicas = <<>>
  /\ disk = [s \in Steps |-> Empty]
  /\ former = Empty
  /\ tracker = 0
  /\ torn = FALSE
  /\ queue = <<>>
  /\ dumped = {}

-----------------------------------------------------------------------------
(* Launch and resume *)

\* Mutant: the saved state is restored at an epoch boundary, too.
RestoreAtBoundary(folder, n) ==
  cursor' = folder.data

\* Mutant: the dataloader always starts from scratch.
RestoreNothing(folder, n) == cursor' = 0

\* The dataloader's state is restored, except at an epoch boundary, where it
\* marks the dataloader as exhausted, and without a data.pt.
Restore(folder, n) ==
  cursor' = IF n % StepsPerEpoch = 0 THEN 0 ELSE folder.data

\* _load_checkpoint.  A fresh actor has been trained on nothing.
Load(folder, n) ==
  /\ step' = n
  /\ weights' = IF folder.shards = "mixed" THEN [i \in 1..n |-> 0]
                                           ELSE folder.weights
  /\ Restore(folder, n)
  /\ replicas' = <<>>
  /\ epoch' = n \div StepsPerEpoch
  /\ UNCHANGED first

Start ==
  /\ pc \in {"down", "done"}
  /\ launches < MaxLaunches
  /\ launches' = launches + 1
  /\ pc' = "loaded"

\* The same STAMP again: resume_mode auto follows the tracker, or trains from
\* scratch.  A truncated tracker cannot be read.
LaunchAuto ==
  /\ Start
  /\ ~torn
  /\ Load(IF tracker = 0 THEN Empty ELSE disk[tracker], tracker)
  /\ UNCHANGED <<diskVars, dumpVars>>

\* The launcher's check of RESUME_FROM_PATH: data.pt is there, and as many
\* shards as there are ranks.
Accepted(folder) ==
  folder.shards \in {"whole", "mixed"} /\ folder.data # 0

\* Mutant: only the checkpoint named by the tracker can be resumed.
LaunchFromTracked ==
  /\ Start
  /\ ~torn
  /\ tracker \in Steps
  /\ Load(disk[tracker], tracker)
  /\ former' = disk[tracker]
  /\ disk' = [s \in Steps |-> Empty]
  /\ tracker' = 0
  /\ torn' = FALSE
  /\ queue' = <<>>
  /\ dumped' = {}

\* A new STAMP resumes a checkpoint of this run, or the one this run came from.
LaunchFrom ==
  /\ Start
  /\ \E folder \in {disk[s] : s \in Steps} \cup {former} :
       /\ Accepted(folder)
       /\ Load(folder, Len(folder.weights))
       /\ former' = folder
  /\ disk' = [s \in Steps |-> Empty]
  /\ tracker' = 0
  /\ torn' = FALSE
  /\ queue' = <<>>
  /\ dumped' = {}

\* Mutant: the replicas keep the weights they were started with.
BeginFitStale ==
  /\ pc = "loaded"
  /\ replicas' = <<>>
  /\ step' = step + 1
  /\ first' = step + 1
  /\ pc' = "loop"
  /\ UNCHANGED <<launches, epoch, cursor, weights, diskVars, dumpVars>>

\* fit sends the loaded weights to the replicas and enters its loop.
BeginFit ==
  /\ pc = "loaded"
  /\ replicas' = weights
  /\ step' = step + 1
  /\ first' = step + 1
  /\ pc' = "loop"
  /\ UNCHANGED <<launches, epoch, cursor, weights, diskVars, dumpVars>>

-----------------------------------------------------------------------------
(* The loop of fit *)

\* Mutant: the incomplete last batch of an epoch is not dropped.
NextBatchKeepsLast ==
  /\ pc = "loop"
  /\ epoch < TotalEpochs
  /\ cursor <= StepsPerEpoch
  /\ cursor' = cursor + 1
  /\ pc' = "rollout"
  /\ UNCHANGED <<launches, first, step, epoch, weights, replicas, diskVars,
                 dumpVars>>

\* The dataloader yields its next batch.
NextBatch ==
  /\ pc = "loop"
  /\ epoch < TotalEpochs
  /\ cursor < StepsPerEpoch
  /\ cursor' = cursor + 1
  /\ pc' = "rollout"
  /\ UNCHANGED <<launches, first, step, epoch, weights, replicas, diskVars,
                 dumpVars>>

\* The dataloader is exhausted, or the epochs are.
EndEpoch ==
  /\ pc = "loop"
  /\ IF epoch < TotalEpochs
     THEN /\ cursor = StepsPerEpoch
          /\ epoch' = epoch + 1
          /\ cursor' = 0
          /\ UNCHANGED pc
     ELSE pc' = "shutdown" /\ UNCHANGED <<epoch, cursor>>
  /\ UNCHANGED <<launches, first, step, weights, replicas, diskVars, dumpVars>>

\* Mutant: the last step is overlooked.
IsLastStepLate == step > TotalSteps

IsLastStep == step >= TotalSteps
SaveDue    == IsLastStep \/ step % SaveFreq = 0

\* Rollouts are generated and the actor is updated with them.
UpdateActor ==
  /\ pc = "rollout"
  /\ weights' = Append(weights, cursor)
  /\ pc' = IF SaveDue THEN "save" ELSE "publish"
  /\ UNCHANGED <<launches, first, step, epoch, cursor, replicas, diskVars,
                 dumpVars>>

\* The replicas receive the new weights.
UpdateWeights ==
  /\ pc = "publish"
  /\ replicas' = weights
  /\ pc' = "log"
  /\ UNCHANGED <<launches, first, step, epoch, cursor, weights, diskVars,
                 dumpVars>>

\* The rollouts are queued for the dump executor; the step ends.
EndStep ==
  /\ pc = "log"
  /\ queue' = Append(queue, step)
  /\ step' = step + 1
  /\ pc' = IF IsLastStep THEN "shutdown" ELSE "loop"
  /\ UNCHANGED <<launches, first, epoch, cursor, weights, replicas, diskVars,
                 dumped>>

\* The executor's thread writes one rollout file.
WriteGenerations ==
  /\ queue # <<>>
  /\ queue' = Tail(queue)
  /\ dumped' = dumped \cup {Head(queue)}
  /\ UNCHANGED <<pc, launches, loopVars, diskVars>>

\* Mutant: pending futures are not waited for.
ShutdownNoDrain ==
  /\ pc = "shutdown"
  /\ queue' = <<>>
  /\ pc' = "done"
  /\ UNCHANGED <<launches, loopVars, diskVars, dumped>>

\* The executor is drained, fit returns.
Shutdown ==
  /\ pc = "shutdown"
  /\ queue = <<>>
  /\ pc' = "done"
  /\ UNCHANGED <<launches, loopVars, diskVars, dumpVars>>

-----------------------------------------------------------------------------
(* _save_checkpoint *)

\* Mutant: the tracker is written before the checkpoint.
SaveActorTracked ==
  /\ pc = "save"
  /\ disk' = [disk EXCEPT ![step].shards = "partial"]
  /\ tracker' = step
  /\ pc' = "shards"
  /\ UNCHANGED <<launches, loopVars, former, torn, dumpVars>>

\* The ranks begin to write their shards, possibly over those of a save that
\* the tracker does not name.
SaveActor ==
  /\ pc = "save"
  /\ \E left \in IF disk[step].shards = "none" THEN {"partial"}
                 ELSE IF disk[step].shards = "partial" THEN {"partial", "mixed"}
                 ELSE {"mixed"} :
       disk' = [disk EXCEPT ![step].shards = left]
  /\ pc' = "shards"
  /\ UNCHANGED <<launches, loopVars, former, tracker, torn, dumpVars>>

\* All shards are written.
ActorSaved ==
  /\ pc = "shards"
  /\ disk' = [disk EXCEPT ![step].shards = "whole", ![step].weights = weights]
  /\ pc' = "data"
  /\ UNCHANGED <<launches, loopVars, former, tracker, torn, dumpVars>>

\* data.pt is written.
SaveData ==
  /\ pc = "data"
  /\ disk' = [disk EXCEPT ![step].data = cursor]
  /\ pc' = "saved"
  /\ UNCHANGED <<launches, loopVars, former, tracker, torn, dumpVars>>

\* The tracker is opened for writing, which truncates it, and then written.
OpenTracker ==
  /\ pc = "saved"
  /\ torn' = TRUE
  /\ pc' = "tracker"
  /\ UNCHANGED <<launches, loopVars, disk, former, tracker, dumpVars>>

WriteTracker ==
  /\ pc = "tracker"
  /\ tracker' = step
  /\ torn' = FALSE
  /\ pc' = "publish"
  /\ UNCHANGED <<launches, loopVars, disk, former, dumpVars>>

-----------------------------------------------------------------------------
\* The driver dies, with everything that is not on disk.
Crash ==
  /\ pc \notin {"down", "done"}
  /\ launches < MaxLaunches
  /\ pc' = "down"
  /\ queue' = <<>>
  /\ UNCHANGED <<launches, loopVars, diskVars, dumped>>

Fit ==
  \/ BeginFit \/ NextBatch \/ EndEpoch \/ UpdateActor \/ UpdateWeights \/ EndStep
  \/ Shutdown \/ SaveActor \/ ActorSaved \/ SaveData
  \/ OpenTracker \/ WriteTracker

Next == LaunchAuto \/ LaunchFrom \/ Fit \/ WriteGenerations \/ Crash

Spec == Init /\ [][Next]_vars

\* The driver and its writer thread run on, and a run that is down is resumed.
FairSpec ==
  Spec /\ WF_vars(Fit) /\ WF_vars(WriteGenerations) /\ WF_vars(LaunchAuto \/ LaunchFrom)

-----------------------------------------------------------------------------
(* Properties *)

\* The position of the i-th batch of an uninterrupted run.
Position(i) == ((i - 1) % StepsPerEpoch) + 1

\* Whatever crashes and resumes lie behind them, weights that stem from whole
\* saves were trained on the batches of an uninterrupted run, none twice in an
\* epoch and none left out.
DataInOrder ==
  \A i \in 1..Len(weights) :
    weights[i] \in {0, Position(i)}

\* Rollouts are generated with the weights that are updated with them.
OnPolicy == pc = "rollout" => replicas = weights /\ Len(weights) = step - 1

\* The tracker never names a checkpoint that is not whole and of its step; when
\* a crash leaves it unreadable, the checkpoint it was to name is whole.
Whole(n) ==
  /\ disk[n].shards = "whole"
  /\ Len(disk[n].weights) = n
  /\ disk[n].data = Position(n)
TrackerIsWhole ==
  /\ ~torn /\ tracker # 0 => Whole(tracker)
  /\ torn => \E n \in Steps : n >= tracker /\ Whole(n)

\* When fit returns, every step of this launch has its rollout file: the group
\* audit that follows reads them all.
RolloutsKept == pc = "done" => first..(step - 1) \subseteq dumped

\* fit returns only when the training is complete.
FinishedIsTrained ==
  pc = "done" => Len(weights) >= TotalSteps \/ Len(weights) = LastStep

\* A launch trains past total_training_steps only if it resumed a finished run,
\* and then by no more than its first step.
Overrun ==
  pc \notin {"down", "loaded"} /\ Len(weights) > TotalSteps =>
    first > TotalSteps /\ Len(weights) <= first

\* A run that is down can be resumed wherever it crashed, and finishes.
RunFinishes == pc = "down" ~> pc = "done"
=============================================================================
