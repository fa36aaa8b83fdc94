----------------------- MODULE TrainerCheckpointProofs -----------------------
(***************************************************************************)
(* Proofs about TrainerCheckpoint, for every length of an epoch, number of *)
(* epochs and steps, save frequency and number of launches: the types and  *)
(* the six safety properties of its run.                                   *)
(*                                                                         *)
(* The induction ties the loop's variables (step, epoch, cursor) to the    *)
(* length of the weights, and what is on disk to the step at which it was  *)
(* saved.                                                                  *)
(***************************************************************************)
EXTENDS TrainerCheckpoint, Integers, SequenceTheorems, TLAPS

InOrder(w) == \A i \in 1..Len(w) : w[i] \in {0, Position(i)}

WeightsInOrder == InOrder(weights) /\ Len(weights) <= LastStep

\* What is in the folder of step s was saved at step s, if anything is.
FolderOf(f, s) ==
  \/ f.weights = <<>> /\ f.data = 0 /\ f.shards # "whole"
  \/ Len(f.weights) = s /\ InOrder(f.weights) /\ f.data \in {0, Position(s)}

FoldersInOrder ==
  /\ \A s \in Steps : FolderOf(disk[s], s)
  /\ former = Empty \/ \E s \in Steps : FolderOf(former, s)

\* The batches the dataloader has yielded since the first epoch.
Yielded == (StepsPerEpoch * epoch) + cursor

\* Before a batch is fetched they are the ones that were trained on.
Begins ==
  /\ Len(weights) = Yielded
  /\ epoch = TotalEpochs => cursor = 0

Trains == epoch < TotalEpochs /\ cursor >= 1

\* The step is the first of its launch or the training is not complete.
Fresh == step = first \/ step <= TotalSteps

AtLoaded == pc = "loaded" => Begins /\ step = Len(weights)

AtLoop ==
  pc = "loop" => Begins /\ step = Len(weights) + 1 /\ replicas = weights /\ Fresh

AtRollout ==
  pc = "rollout" =>
    /\ Trains /\ Len(weights) + 1 = Yielded
    /\ step = Len(weights) + 1 /\ replicas = weights /\ Fresh

Saving == {"save", "shards", "data", "saved", "tracker"}

AtSave ==
  pc \in Saving \cup {"publish", "log"} =>
    /\ Trains /\ Len(weights) = Yielded
    /\ step = Len(weights) /\ Fresh
    /\ pc = "log" => replicas = weights

AtEnd == pc \in {"shutdown", "done"} =>
           Len(weights) >= TotalSteps \/ Len(weights) = LastStep

InLoop == AtLoaded /\ AtLoop /\ AtRollout /\ AtSave /\ AtEnd /\ Overrun

\* A save has on disk what it has passed, and the tracker names an earlier one.
OnDisk ==
  /\ pc = "data" => disk[step].shards = "whole" /\ disk[step].weights = weights
  /\ pc \in {"saved", "tracker"} => Whole(step)
  /\ torn => pc \in {"tracker", "down"}
  /\ pc \in {"loop", "rollout"} \cup Saving => tracker < step
  /\ pc \in {"loaded", "publish", "log"} => tracker <= step

Written(q) == {q[i] : i \in 1..Len(q)}

\* A step that is over has its rollout file, or the file is queued.
Queued ==
  /\ pc \notin {"down", "loaded"} => first..(step - 1) \subseteq dumped \cup Written(queue)
  /\ pc = "done" => queue = <<>>

IInv ==
  /\ TypeOK
  /\ WeightsInOrder
  /\ FoldersInOrder
  /\ InLoop
  /\ OnDisk
  /\ TrackerIsWhole
  /\ Queued

-----------------------------------------------------------------------------
(* Arithmetic *)

LEMMA Constants ==
  /\ StepsPerEpoch \in Nat \ {0}
  /\ TotalEpochs \in Nat \ {0}
  /\ TotalSteps \in Nat \ {0}
  /\ SaveFreq \in Nat \ {0}
  /\ MaxLaunches \in Nat \ {0}
  /\ LastStep \in Nat \ {0}
<1>1. StepsPerEpoch * TotalEpochs \in Nat \ {0}
  BY TrainerAssumption
<1> QED
  BY <1>1, TrainerAssumption DEF LastStep

LEMMA NextMultiple ==
  ASSUME NEW b \in Nat \ {0}, NEW q \in Nat, NEW p \in Nat, q < p
  PROVE  (b * q) + b <= b * p
<1>1. p - q \in Nat /\ p - q >= 1
  OBVIOUS
<1>2. b * (p - q) >= b
  BY <1>1
<1>3. b * p = (b * q) + b * (p - q)
  BY <1>1
<1> QED
  BY <1>2, <1>3

LEMMA Division ==
  ASSUME NEW b \in Nat \ {0}, NEW n \in Nat
  PROVE  n \div b \in Nat /\ n % b \in 0..(b - 1) /\ n = (b * (n \div b)) + (n % b)
<1>1. n \div b \in Nat
  OBVIOUS
<1>2. n % b \in 0..(b - 1)
  OBVIOUS
<1>3. n = (b * (n \div b)) + (n % b)
  OBVIOUS
<1> QED
  BY <1>1, <1>2, <1>3

\* Quotient and remainder are unique.
LEMMA Remainder ==
  ASSUME NEW b \in Nat \ {0}, NEW q \in Nat, NEW r \in 0..(b - 1)
  PROVE  ((b * q) + r) % b = r
<1> DEFINE n == (b * q) + r
           p == n \div b
           m == n % b
<1>1. n \in Nat
  OBVIOUS
<1>2. p \in Nat /\ m \in 0..(b - 1) /\ n = (b * p) + m
  BY <1>1, Division
<1>3. (b * p) + m = (b * q) + r
  BY <1>2
<1> HIDE DEF p, m
<1>4. b * p \in Int /\ b * q \in Int /\ p \in Nat /\ m \in Int
  BY <1>2
<1>5. ~(p < q)
  <2> SUFFICES ASSUME p < q PROVE FALSE
    OBVIOUS
  <2>1. (b * p) + b <= b * q
    BY <1>2, NextMultiple
  <2> QED
    BY <2>1, <1>2, <1>3, <1>4
<1>6. ~(q < p)
  <2> SUFFICES ASSUME q < p PROVE FALSE
    OBVIOUS
  <2>1. (b * q) + b <= b * p
    BY <1>2, NextMultiple
  <2> QED
    BY <2>1, <1>2, <1>3, <1>4
<1>7. p = q
  BY <1>4, <1>5, <1>6
<1> QED
  BY <1>2, <1>3, <1>4, <1>7 DEF m

\* The c-th batch of an epoch has position c.
LEMMA PositionInEpoch ==
  ASSUME NEW e \in Nat, NEW c \in 1..StepsPerEpoch
  PROVE  Position((StepsPerEpoch * e) + c) = c
<1>1. c - 1 \in 0..(StepsPerEpoch - 1)
  BY Constants
<1>2. StepsPerEpoch * e \in Nat
  BY Constants
<1>3. ((StepsPerEpoch * e) + c) - 1 = (StepsPerEpoch * e) + (c - 1)
  BY <1>2
<1>4. ((StepsPerEpoch * e) + (c - 1)) % StepsPerEpoch = c - 1
  BY <1>1, Constants, Remainder
<1> QED
  BY <1>1, <1>3, <1>4 DEF Position

\* Where a checkpoint of step n stands in the epochs.
LEMMA EpochOf ==
  ASSUME NEW n \in 0..LastStep
  PROVE  LET e == n \div StepsPerEpoch
             c == n % StepsPerEpoch
         IN  /\ e \in 0..TotalEpochs /\ c \in 0..(StepsPerEpoch - 1)
             /\ n = (StepsPerEpoch * e) + c
             /\ e = TotalEpochs => c = 0
             /\ c # 0 => Position(n) = c
<1> DEFINE e == n \div StepsPerEpoch
           c == n % StepsPerEpoch
<1>0. n \in Nat /\ n <= StepsPerEpoch * TotalEpochs
  BY Constants DEF LastStep
<1>1. e \in Nat /\ c \in 0..(StepsPerEpoch - 1) /\ n = (StepsPerEpoch * e) + c
  BY <1>0, Constants, Division
<1> HIDE DEF e, c
<1>2. StepsPerEpoch * e \in Nat /\ StepsPerEpoch * TotalEpochs \in Nat
  BY <1>1, Constants
<1>3. ~(TotalEpochs < e)
  <2> SUFFICES ASSUME TotalEpochs < e PROVE FALSE
    OBVIOUS
  <2>1. (StepsPerEpoch * TotalEpochs) + StepsPerEpoch <= StepsPerEpoch * e
    BY <1>1, Constants, NextMultiple
  <2> QED
    BY <1>0, <1>1, <1>2, <2>1, Constants
<1>4. e = TotalEpochs => c = 0
  BY <1>0, <1>1, <1>2, Constants
<1>5. ASSUME c # 0 PROVE Position(n) = c
  <2>1. c \in 1..StepsPerEpoch
    BY <1>1, <1>5, Constants
  <2> QED
    BY <1>1, <2>1, PositionInEpoch
<1> QED
  BY <1>1, <1>3, <1>4, <1>5, Constants DEF e, c

-----------------------------------------------------------------------------
(* What the invariant says of the numbers *)

LEMMA Numbers ==
  ASSUME IInv
  PROVE  /\ weights \in Seq(0..StepsPerEpoch) /\ Len(weights) \in 0..LastStep
         /\ step \in 0..(LastStep + 1) /\ first \in 0..(LastStep + 1)
         /\ epoch \in 0..TotalEpochs /\ cursor \in 0..StepsPerEpoch
         /\ Yielded \in Nat /\ Yielded >= cursor
         /\ tracker \in 0..LastStep
<1>1. /\ epoch \in 0..TotalEpochs /\ cursor \in 0..StepsPerEpoch
      /\ step \in 0..(LastStep + 1) /\ first \in 0..(LastStep + 1)
      /\ tracker \in 0..LastStep
      /\ weights \in Seq(0..StepsPerEpoch) /\ Len(weights) \in 0..LastStep
  BY Constants DEF IInv, TypeOK, WeightsInOrder
<1>2. StepsPerEpoch * epoch \in Nat
  BY <1>1, Constants
<1> QED
  BY <1>1, <1>2, Constants DEF Yielded

LEMMA SavedStep ==
  ASSUME IInv, pc \in Saving \cup {"publish", "log"}
  PROVE  step \in Steps /\ step = Len(weights)
<1> QED
  BY Numbers, Constants DEF IInv, InLoop, AtSave, Trains, Steps

\* The last batch that a save contains is the cursor's.
LEMMA SavedPosition ==
  ASSUME IInv, pc \in Saving
  PROVE  Position(step) = cursor
<1>1. epoch \in Nat /\ cursor \in 1..StepsPerEpoch /\ step = Yielded
  BY Numbers, Constants DEF IInv, InLoop, AtSave, Trains
<1> QED
  BY <1>1, PositionInEpoch DEF Yielded

LEMMA WeightsInFolder ==
  ASSUME IInv
  PROVE  weights \in UNION {[1..n -> 0..StepsPerEpoch] : n \in 0..LastStep}
<1>1. weights \in [1..Len(weights) -> 0..StepsPerEpoch]
  BY Numbers, LenProperties
<1> QED
  BY <1>1, Numbers

LEMMA FolderShards ==
  ASSUME NEW f \in Folder, NEW h \in {"none", "partial", "mixed", "whole"}
  PROVE  [f EXCEPT !.shards = h] \in Folder
<1> QED
  BY DEF Folder

LEMMA FolderWhole ==
  ASSUME NEW f \in Folder,
         NEW w \in UNION {[1..n -> 0..StepsPerEpoch] : n \in 0..LastStep}
  PROVE  [f EXCEPT !.shards = "whole", !.weights = w] \in Folder
<1> QED
  BY DEF Folder

LEMMA FolderData ==
  ASSUME NEW f \in Folder, NEW d \in 0..StepsPerEpoch
  PROVE  [f EXCEPT !.data = d] \in Folder
<1> QED
  BY DEF Folder

LEMMA EmptyFolder == Empty \in Folder
<1>1. <<>> \in UNION {[1..n -> 0..StepsPerEpoch] : n \in 0..LastStep}
  <2>1. <<>> \in [1..0 -> 0..StepsPerEpoch]
    OBVIOUS
  <2> QED
    BY <2>1, Constants
<1> QED
  BY <1>1, Constants DEF Empty, Folder

-----------------------------------------------------------------------------
(* The induction *)

LEMMA InitHolds == Init => IInv
<1> SUFFICES ASSUME Init PROVE IInv
  OBVIOUS
<1>1. TypeOK
  <2>1. disk \in [Steps -> Folder] /\ former \in Folder
    BY EmptyFolder DEF Init
  <2>2. /\ weights \in Seq(0..StepsPerEpoch) /\ replicas \in Seq(0..StepsPerEpoch)
        /\ queue \in Seq(Steps) /\ dumped \subseteq Steps
    BY DEF Init
  <2>3. /\ {first, step} \subseteq 0..(LastStep + 1) /\ launches \in 0..MaxLaunches
        /\ epoch \in 0..TotalEpochs /\ cursor \in 0..StepsPerEpoch
        /\ tracker \in 0..LastStep
    BY Constants DEF Init
  <2> QED
    BY <2>1, <2>2, <2>3 DEF Init, TypeOK
<1>2. WeightsInOrder /\ FoldersInOrder
  BY Constants DEF Init, WeightsInOrder, InOrder, FoldersInOrder, FolderOf, Empty
<1> QED
  BY <1>1, <1>2, Constants
  DEF IInv, Init, InLoop, AtLoaded, AtLoop, AtRollout, AtSave, AtEnd, Overrun,
      OnDisk, TrackerIsWhole, Queued, Saving

LEMMA BeginFitKeeps == IInv /\ BeginFit => IInv'
<1> SUFFICES ASSUME IInv, BeginFit PROVE IInv'
  OBVIOUS
<1> USE Constants DEF IInv, BeginFit, loopVars, diskVars, dumpVars
<1>1. TypeOK'
  BY Numbers DEF TypeOK, InLoop, AtLoaded
<1>2. WeightsInOrder' /\ FoldersInOrder'
  BY DEF WeightsInOrder, InOrder, FoldersInOrder, FolderOf
<1>3. InLoop'
  <2>1. Yielded' = Yielded
    BY DEF Yielded
  <2> QED
    BY <2>1, Numbers
    DEF InLoop, AtLoaded, AtLoop, AtRollout, AtSave, AtEnd, Overrun, Begins,
        Trains, Fresh, Saving
<1>4. OnDisk' /\ TrackerIsWhole'
  BY Numbers DEF OnDisk, TrackerIsWhole, Whole, Saving
<1>5. Queued'
  BY Numbers, SavedStep DEF Queued, Written, Saving
<1> QED
  BY <1>1, <1>2, <1>3, <1>4, <1>5

LEMMA NextBatchKeeps == IInv /\ NextBatch => IInv'
<1> SUFFICES ASSUME IInv, NextBatch PROVE IInv'
  OBVIOUS
<1> USE Constants DEF IInv, NextBatch, loopVars, diskVars, dumpVars
<1>1. TypeOK'
  BY Numbers, SavedStep DEF TypeOK, Saving
<1>2. WeightsInOrder' /\ FoldersInOrder'
  BY DEF WeightsInOrder, InOrder, FoldersInOrder, FolderOf
<1>3. InLoop'
  <2>1. Yielded' = Yielded + 1 /\ Trains'
    <3>1. StepsPerEpoch * epoch \in Nat
      BY Numbers
    <3> QED
      BY SMTT(30), <3>1, Numbers DEF Yielded, Trains
  <2> QED
    BY <2>1, Numbers
    DEF InLoop, AtLoaded, AtLoop, AtRollout, AtSave, AtEnd, Overrun, Begins,
        Fresh, Saving
<1>4. OnDisk' /\ TrackerIsWhole'
  BY Numbers, SavedStep DEF OnDisk, TrackerIsWhole, Whole, Saving
<1>5. Queued'
  BY Numbers, SavedStep DEF Queued, Written, Saving
<1> QED
  BY <1>1, <1>2, <1>3, <1>4, <1>5

LEMMA EndEpochKeeps == IInv /\ EndEpoch => IInv'
<1> SUFFICES ASSUME IInv, EndEpoch PROVE IInv'
  OBVIOUS
<1> USE Constants DEF IInv, EndEpoch, loopVars, diskVars, dumpVars
<1>1. TypeOK'
  BY Numbers, SavedStep DEF TypeOK, Saving
<1>2. WeightsInOrder' /\ FoldersInOrder'
  BY DEF WeightsInOrder, InOrder, FoldersInOrder, FolderOf
<1>3. InLoop'
  <2>1. CASE epoch < TotalEpochs
    <3>1. StepsPerEpoch * (epoch + 1) = (StepsPerEpoch * epoch) + StepsPerEpoch
      BY Numbers
    <3>2. Yielded' = Yielded /\ cursor' = 0
      BY <2>1, <3>1, Numbers DEF Yielded
    <3> QED
      BY <2>1, <3>2, Numbers
      DEF InLoop, AtLoaded, AtLoop, AtRollout, AtSave, AtEnd, Overrun, Begins,
          Fresh, Saving
  <2>2. CASE ~(epoch < TotalEpochs)
    <3>1. epoch = TotalEpochs /\ cursor = 0
      BY <2>2, Numbers DEF InLoop, AtLoop, Begins
    <3>2. Len(weights) = LastStep
      BY <3>1, Numbers DEF InLoop, AtLoop, Begins, Yielded, LastStep
    <3> QED
      BY <2>2, <3>2, Numbers
      DEF InLoop, AtLoaded, AtLoop, AtRollout, AtSave, AtEnd, Overrun, Saving
  <2> QED
    BY <2>1, <2>2
<1>4. OnDisk' /\ TrackerIsWhole'
  BY Numbers, SavedStep DEF OnDisk, TrackerIsWhole, Whole, Saving
<1>5. Queued'
  BY Numbers, SavedStep DEF Queued, Written, Saving
<1> QED
  BY <1>1, <1>2, <1>3, <1>4, <1>5

LEMMA UpdateActorKeeps == IInv /\ UpdateActor => IInv'
<1> SUFFICES ASSUME IInv, UpdateActor PROVE IInv'
  OBVIOUS
<1> USE Constants DEF IInv, UpdateActor, loopVars, diskVars, dumpVars
<1>1. TypeOK'
  BY Numbers, SavedStep DEF TypeOK, Saving
<1>2. WeightsInOrder' /\ FoldersInOrder'
  <2>1. Yielded = Len(weights) + 1 /\ epoch < TotalEpochs /\ cursor \in 1..StepsPerEpoch
    BY Numbers DEF InLoop, AtRollout, Trains
  <2>2. Position(Len(weights) + 1) = cursor
    <3>1. epoch \in Nat
      BY Numbers
    <3>2. Position((StepsPerEpoch * epoch) + cursor) = cursor
      BY <2>1, <3>1, PositionInEpoch
    <3> QED
      BY <2>1, <3>2 DEF Yielded
  <2>3. Yielded <= LastStep
    <3>0. epoch \in Nat
      BY Numbers
    <3>1. (StepsPerEpoch * epoch) + StepsPerEpoch <= StepsPerEpoch * TotalEpochs
      BY <2>1, <3>0, NextMultiple
    <3>2. StepsPerEpoch * epoch \in Nat
      BY Numbers
    <3> QED
      BY <2>1, <3>1, <3>2 DEF Yielded, LastStep
  <2>4. /\ Len(weights') = Len(weights) + 1
        /\ \A i \in 1..Len(weights) : weights'[i] = weights[i]
        /\ weights'[Len(weights) + 1] = cursor
    BY Numbers
  <2>5. WeightsInOrder'
    BY <2>1, <2>2, <2>3, <2>4, Numbers DEF WeightsInOrder, InOrder
  <2> QED
    BY <2>5 DEF FoldersInOrder, FolderOf, InOrder
<1>3. InLoop'
  <2>1. Yielded' = Yielded /\ Len(weights') = Len(weights) + 1
    BY Numbers DEF Yielded
  <2> QED
    BY <2>1, Numbers
    DEF InLoop, AtLoaded, AtLoop, AtRollout, AtSave, AtEnd, Overrun, Begins,
        Trains, Fresh, Saving
<1>4. OnDisk' /\ TrackerIsWhole'
  BY Numbers, SavedStep DEF OnDisk, TrackerIsWhole, Whole, Saving
<1>5. Queued'
  BY Numbers, SavedStep DEF Queued, Written, Saving
<1> QED
  BY <1>1, <1>2, <1>3, <1>4, <1>5

LEMMA UpdateWeightsKeeps == IInv /\ UpdateWeights => IInv'
<1> SUFFICES ASSUME IInv, UpdateWeights PROVE IInv'
  OBVIOUS
<1> USE Constants DEF IInv, UpdateWeights, loopVars, diskVars, dumpVars
<1>1. TypeOK'
  BY Numbers, SavedStep DEF TypeOK, Saving
<1>2. WeightsInOrder' /\ FoldersInOrder'
  BY DEF WeightsInOrder, InOrder, FoldersInOrder, FolderOf
<1>3. InLoop'
  <2>1. Yielded' = Yielded
    BY DEF Yielded
  <2> QED
    BY <2>1, Numbers
    DEF InLoop, AtLoaded, AtLoop, AtRollout, AtSave, AtEnd, Overrun, Begins,
        Trains, Fresh, Saving
<1>4. OnDisk' /\ TrackerIsWhole'
  BY Numbers, SavedStep DEF OnDisk, TrackerIsWhole, Whole, Saving
<1>5. Queued'
  BY Numbers, SavedStep DEF Queued, Written, Saving
<1> QED
  BY <1>1, <1>2, <1>3, <1>4, <1>5

LEMMA EndStepKeeps == IInv /\ EndStep => IInv'
<1> SUFFICES ASSUME IInv, EndStep PROVE IInv'
  OBVIOUS
<1> USE Constants DEF IInv, EndStep, loopVars, diskVars, dumpVars
<1>1. TypeOK'
  <2>1. step \in Steps /\ queue \in Seq(Steps)
    BY SavedStep DEF TypeOK
  <2>2. queue' \in Seq(Steps)
    BY <2>1
  <2> QED
    BY <2>1, <2>2, Numbers DEF TypeOK, Steps
<1>2. WeightsInOrder' /\ FoldersInOrder'
  BY DEF WeightsInOrder, InOrder, FoldersInOrder, FolderOf
<1>3. InLoop'
  <2>1. Yielded' = Yielded /\ epoch < TotalEpochs
    BY DEF Yielded, InLoop, AtSave, Trains
  <2>2. step = Len(weights) /\ step' = Len(weights) + 1
    BY Numbers, SavedStep DEF Saving
  <2>3. CASE IsLastStep
    BY <2>1, <2>2, <2>3, Numbers
    DEF InLoop, AtLoaded, AtLoop, AtRollout, AtSave, AtEnd, Overrun, IsLastStep, Saving
  <2>4. CASE ~IsLastStep
    BY <2>1, <2>2, <2>4, Numbers
    DEF InLoop, AtLoaded, AtLoop, AtRollout, AtSave, AtEnd, Overrun, Begins,
        Fresh, IsLastStep, Saving
  <2> QED
    BY <2>3, <2>4
<1>4. OnDisk' /\ TrackerIsWhole'
  BY Numbers, SavedStep DEF OnDisk, TrackerIsWhole, Whole, Saving
<1>5. Queued'
  <2>1. step \in Steps /\ queue \in Seq(Steps)
    BY SavedStep DEF TypeOK
  <2>2. Written(queue') = Written(queue) \cup {step}
    BY <2>1 DEF Written
  <2>3. first..(step' - 1) \subseteq first..(step - 1) \cup {step}
    BY <2>1, Numbers
  <2> QED
    BY <2>2, <2>3 DEF Queued
<1> QED
  BY <1>1, <1>2, <1>3, <1>4, <1>5

LEMMA ShutdownKeeps == IInv /\ Shutdown => IInv'
<1> SUFFICES ASSUME IInv, Shutdown PROVE IInv'
  OBVIOUS
<1> USE Constants DEF IInv, Shutdown, loopVars, diskVars, dumpVars
<1>1. TypeOK'
  BY Numbers, SavedStep DEF TypeOK, Saving
<1>2. WeightsInOrder' /\ FoldersInOrder'
  BY DEF WeightsInOrder, InOrder, FoldersInOrder, FolderOf
<1>3. InLoop'
  <2>1. Yielded' = Yielded
    BY DEF Yielded
  <2> QED
    BY <2>1, Numbers
    DEF InLoop, AtLoaded, AtLoop, AtRollout, AtSave, AtEnd, Overrun, Begins,
        Trains, Fresh, Saving
<1>4. OnDisk' /\ TrackerIsWhole'
  BY Numbers, SavedStep DEF OnDisk, TrackerIsWhole, Whole, Saving
<1>5. Queued'
  BY Numbers, SavedStep DEF Queued, Written, Saving
<1> QED
  BY <1>1, <1>2, <1>3, <1>4, <1>5

LEMMA SaveActorKeeps == IInv /\ SaveActor => IInv'
<1> SUFFICES ASSUME IInv, SaveActor PROVE IInv'
  OBVIOUS
<1> USE Constants DEF IInv, SaveActor, loopVars, diskVars, dumpVars
<1>1. TypeOK'
  <2>1. PICK left \in {"partial", "mixed"} : disk' = [disk EXCEPT ![step].shards = left]
    BY Zenon
  <2>2. step \in Steps /\ disk \in [Steps -> Folder]
    BY SavedStep DEF TypeOK, Saving
  <2>3. [disk[step] EXCEPT !.shards = left] \in Folder
    BY <2>2, FolderShards
  <2>4. disk' \in [Steps -> Folder]
    BY <2>1, <2>2, <2>3
  <2> QED
    BY <2>4, Numbers DEF TypeOK
<1>2. WeightsInOrder' /\ FoldersInOrder'
  <2>1. PICK left \in {"partial", "mixed"} : disk' = [disk EXCEPT ![step].shards = left]
    BY Zenon
  <2>2. /\ step \in Steps /\ disk \in [Steps -> Folder]
        /\ disk[step] \in Folder
    BY SavedStep DEF TypeOK, Saving
  <2>3. disk'[step] = [disk[step] EXCEPT !.shards = left]
    BY <2>1, <2>2
  <2>4. /\ disk'[step].weights = disk[step].weights
        /\ disk'[step].data = disk[step].data
        /\ disk'[step].shards # "whole"
    BY <2>2, <2>3 DEF Folder
  <2>5. \A s \in Steps \ {step} : disk'[s] = disk[s]
    BY <2>1, <2>2
  <2>6. \A s \in Steps : FolderOf(disk[s], s)
    BY DEF FoldersInOrder
  <2>7. \A s \in Steps : FolderOf(disk'[s], s)
    BY <2>2, <2>4, <2>5, <2>6 DEF FolderOf
  <2> QED
    BY <2>7 DEF WeightsInOrder, InOrder, FoldersInOrder
<1>3. InLoop'
  <2>1. Yielded' = Yielded
    BY DEF Yielded
  <2> QED
    BY <2>1, Numbers
    DEF InLoop, AtLoaded, AtLoop, AtRollout, AtSave, AtEnd, Overrun, Begins,
        Trains, Fresh, Saving
<1>4. OnDisk' /\ TrackerIsWhole'
  <2>1. \A s \in Steps \ {step} : disk'[s] = disk[s]
    BY SavedStep DEF TypeOK, Saving
  <2> QED
    BY <2>1, Numbers DEF OnDisk, TrackerIsWhole, Whole, Saving, Steps
<1>5. Queued'
  BY Numbers, SavedStep DEF Queued, Written, Saving
<1> QED
  BY <1>1, <1>2, <1>3, <1>4, <1>5

LEMMA ActorSavedKeeps == IInv /\ ActorSaved => IInv'
<1> SUFFICES ASSUME IInv, ActorSaved PROVE IInv'
  OBVIOUS
<1> USE Constants DEF IInv, ActorSaved, loopVars, diskVars, dumpVars
<1>1. TypeOK'
  <2>1. step \in Steps /\ disk \in [Steps -> Folder]
    BY SavedStep DEF TypeOK, Saving
  <2>2. [disk[step] EXCEPT !.shards = "whole", !.weights = weights] \in Folder
    BY <2>1, WeightsInFolder, FolderWhole
  <2>3. disk' = [disk EXCEPT ![step] = [disk[step] EXCEPT !.shards = "whole", !.weights = weights]]
    BY <2>1 DEF Folder
  <2>4. disk' \in [Steps -> Folder]
    BY <2>1, <2>2, <2>3
  <2> QED
    BY <2>4, Numbers DEF TypeOK
<1>2. WeightsInOrder' /\ FoldersInOrder'
  <2>1. /\ step \in Steps /\ disk \in [Steps -> Folder]
        /\ disk[step] \in Folder /\ step = Len(weights)
    BY SavedStep DEF TypeOK, Saving
  <2>2. /\ disk'[step].weights = weights
        /\ disk'[step].data = disk[step].data
    BY <2>1 DEF Folder
  <2>3. \A s \in Steps \ {step} : disk'[s] = disk[s]
    BY <2>1
  <2>4. \A s \in Steps : FolderOf(disk[s], s)
    BY DEF FoldersInOrder
  <2>5. InOrder(weights) /\ disk[step].data \in {0, Position(step)}
    BY <2>1, <2>4 DEF WeightsInOrder, FolderOf
  <2>6. FolderOf(disk'[step], step)
    BY <2>1, <2>2, <2>5 DEF FolderOf
  <2>7. \A s \in Steps : FolderOf(disk'[s], s)
    BY <2>3, <2>4, <2>6 DEF FolderOf
  <2> QED
    BY <2>7 DEF WeightsInOrder, InOrder, FoldersInOrder
<1>3. InLoop'
  <2>1. Yielded' = Yielded
    BY DEF Yielded
  <2> QED
    BY <2>1, Numbers
    DEF InLoop, AtLoaded, AtLoop, AtRollout, AtSave, AtEnd, Overrun, Begins,
        Trains, Fresh, Saving
<1>4. OnDisk' /\ TrackerIsWhole'
  <2>1. /\ step \in Steps /\ disk \in [Steps -> Folder] /\ disk[step] \in Folder
    BY SavedStep DEF TypeOK, Saving
  <2>2. \A s \in Steps \ {step} : disk'[s] = disk[s]
    BY <2>1
  <2>3. disk'[step].shards = "whole" /\ disk'[step].weights = weights
    BY <2>1 DEF Folder
  <2> QED
    BY <2>1, <2>2, <2>3, Numbers DEF OnDisk, TrackerIsWhole, Whole, Saving, Steps
<1>5. Queued'
  BY Numbers, SavedStep DEF Queued, Written, Saving
<1> QED
  BY <1>1, <1>2, <1>3, <1>4, <1>5

LEMMA SaveDataKeeps == IInv /\ SaveData => IInv'
<1> SUFFICES ASSUME IInv, SaveData PROVE IInv'
  OBVIOUS
<1> USE Constants DEF IInv, SaveData, loopVars, diskVars, dumpVars
<1>1. TypeOK'
  <2>1. step \in Steps /\ disk \in [Steps -> Folder]
    BY SavedStep DEF TypeOK, Saving
  <2>2. [disk[step] EXCEPT !.data = cursor] \in Folder
    BY <2>1, Numbers, FolderData
  <2>3. disk' \in [Steps -> Folder]
    BY <2>1, <2>2
  <2> QED
    BY <2>3, Numbers DEF TypeOK
<1>2. WeightsInOrder' /\ FoldersInOrder'
  <2>1. /\ step \in Steps /\ disk \in [Steps -> Folder]
        /\ disk[step] \in Folder /\ step = Len(weights)
    BY SavedStep DEF TypeOK, Saving
  <2>2. /\ disk'[step].weights = disk[step].weights
        /\ disk'[step].data = cursor
    BY <2>1 DEF Folder
  <2>3. disk[step].weights = weights /\ InOrder(weights)
    BY DEF OnDisk, WeightsInOrder
  <2>4. \A s \in Steps \ {step} : disk'[s] = disk[s]
    BY <2>1
  <2>5. \A s \in Steps : FolderOf(disk[s], s)
    BY DEF FoldersInOrder
  <2>6. Position(step) = cursor
    BY SavedPosition DEF Saving
  <2>7. FolderOf(disk'[step], step)
    BY <2>1, <2>2, <2>3, <2>6 DEF FolderOf
  <2>8. \A s \in Steps : FolderOf(disk'[s], s)
    BY <2>4, <2>5, <2>7 DEF FolderOf
  <2> QED
    BY <2>8 DEF WeightsInOrder, InOrder, FoldersInOrder
<1>3. InLoop'
  <2>1. Yielded' = Yielded
    BY DEF Yielded
  <2> QED
    BY <2>1, Numbers
    DEF InLoop, AtLoaded, AtLoop, AtRollout, AtSave, AtEnd, Overrun, Begins,
        Trains, Fresh, Saving
<1>4. OnDisk' /\ TrackerIsWhole'
  <2>1. /\ step \in Steps /\ disk \in [Steps -> Folder]
        /\ disk[step] \in Folder /\ step = Len(weights)
    BY SavedStep DEF TypeOK, Saving
  <2>2. \A s \in Steps \ {step} : disk'[s] = disk[s]
    BY <2>1
  <2>3. Position(step) = cursor
    BY SavedPosition DEF Saving
  <2>4. /\ disk'[step].shards = "whole" /\ disk'[step].weights = weights
        /\ disk'[step].data = cursor
    BY <2>1 DEF Folder, OnDisk
  <2>5. Whole(step)'
    BY <2>1, <2>3, <2>4 DEF Whole, Position
  <2> QED
    BY <2>1, <2>2, <2>5, Numbers DEF OnDisk, TrackerIsWhole, Whole, Saving, Steps
<1>5. Queued'
  BY Numbers, SavedStep DEF Queued, Written, Saving
<1> QED
  BY <1>1, <1>2, <1>3, <1>4, <1>5

LEMMA OpenTrackerKeeps == IInv /\ OpenTracker => IInv'
<1> SUFFICES ASSUME IInv, OpenTracker PROVE IInv'
  OBVIOUS
<1> USE Constants DEF IInv, OpenTracker, loopVars, diskVars, dumpVars
<1>1. TypeOK'
  BY Numbers, SavedStep DEF TypeOK, Saving
<1>2. WeightsInOrder' /\ FoldersInOrder'
  BY DEF WeightsInOrder, InOrder, FoldersInOrder, FolderOf
<1>3. InLoop'
  <2>1. Yielded' = Yielded
    BY DEF Yielded
  <2> QED
    BY <2>1, Numbers
    DEF InLoop, AtLoaded, AtLoop, AtRollout, AtSave, AtEnd, Overrun, Begins,
        Trains, Fresh, Saving
<1>4. OnDisk' /\ TrackerIsWhole'
  <2>1. step \in Steps
    BY SavedStep DEF Saving
  <2> QED
    BY <2>1, Numbers DEF OnDisk, TrackerIsWhole, Whole, Saving, Steps
<1>5. Queued'
  BY Numbers, SavedStep DEF Queued, Written, Saving
<1> QED
  BY <1>1, <1>2, <1>3, <1>4, <1>5

LEMMA WriteTrackerKeeps == IInv /\ WriteTracker => IInv'
<1> SUFFICES ASSUME IInv, WriteTracker PROVE IInv'
  OBVIOUS
<1> USE Constants DEF IInv, WriteTracker, loopVars, diskVars, dumpVars
<1>1. TypeOK'
  <2>1. step \in 0..LastStep
    BY SavedStep DEF Saving, Steps
  <2> QED
    BY <2>1, Numbers DEF TypeOK
<1>2. WeightsInOrder' /\ FoldersInOrder'
  BY DEF WeightsInOrder, InOrder, FoldersInOrder, FolderOf
<1>3. InLoop'
  <2>1. Yielded' = Yielded
    BY DEF Yielded
  <2> QED
    BY <2>1, Numbers
    DEF InLoop, AtLoaded, AtLoop, AtRollout, AtSave, AtEnd, Overrun, Begins,
        Trains, Fresh, Saving
<1>4. OnDisk' /\ TrackerIsWhole'
  BY Numbers, SavedStep DEF OnDisk, TrackerIsWhole, Whole, Saving
<1>5. Queued'
  BY Numbers, SavedStep DEF Queued, Written, Saving
<1> QED
  BY <1>1, <1>2, <1>3, <1>4, <1>5

LEMMA WriteGenerationsKeeps == IInv /\ WriteGenerations => IInv'
<1> SUFFICES ASSUME IInv, WriteGenerations PROVE IInv'
  OBVIOUS
<1> USE Constants DEF IInv, WriteGenerations, loopVars, diskVars, dumpVars
<1>1. TypeOK'
  <2>1. Head(queue) \in Steps /\ Tail(queue) \in Seq(Steps)
    BY HeadTailProperties DEF TypeOK
  <2> QED
    BY <2>1 DEF TypeOK
<1>2. WeightsInOrder' /\ FoldersInOrder'
  BY DEF WeightsInOrder, InOrder, FoldersInOrder, FolderOf
<1>3. InLoop'
  <2>1. Yielded' = Yielded
    BY DEF Yielded
  <2> QED
    BY <2>1, Numbers
    DEF InLoop, AtLoaded, AtLoop, AtRollout, AtSave, AtEnd, Overrun, Begins,
        Trains, Fresh, Saving
<1>4. OnDisk' /\ TrackerIsWhole'
  BY Numbers, SavedStep DEF OnDisk, TrackerIsWhole, Whole, Saving
<1>5. Queued'
  <2>1. queue \in Seq(Steps)
    BY DEF TypeOK
  <2>2. Written(queue) \subseteq {Head(queue)} \cup Written(Tail(queue))
    <3> SUFFICES ASSUME NEW i \in 1..Len(queue), i # 1
                 PROVE  queue[i] \in Written(Tail(queue))
      BY <2>1 DEF Written
    <3>1. /\ i - 1 \in 1..Len(Tail(queue))
          /\ Tail(queue)[i - 1] = queue[(i - 1) + 1]
      BY <2>1, HeadTailProperties
    <3> QED
      BY <3>1 DEF Written
  <2> QED
    BY <2>2 DEF Queued
<1> QED
  BY <1>1, <1>2, <1>3, <1>4, <1>5

LEMMA CrashKeeps == IInv /\ Crash => IInv'
<1> SUFFICES ASSUME IInv, Crash PROVE IInv'
  OBVIOUS
<1> USE Constants DEF IInv, Crash, loopVars, diskVars, dumpVars
<1>1. TypeOK'
  BY Numbers, SavedStep DEF TypeOK, Saving
<1>2. WeightsInOrder' /\ FoldersInOrder'
  BY DEF WeightsInOrder, InOrder, FoldersInOrder, FolderOf
<1>3. InLoop'
  <2>1. Yielded' = Yielded
    BY DEF Yielded
  <2> QED
    BY <2>1, Numbers
    DEF InLoop, AtLoaded, AtLoop, AtRollout, AtSave, AtEnd, Overrun, Begins,
        Trains, Fresh, Saving
<1>4. OnDisk' /\ TrackerIsWhole'
  BY Numbers, SavedStep DEF OnDisk, TrackerIsWhole, Whole, Saving
<1>5. Queued'
  BY Numbers, SavedStep DEF Queued, Written, Saving
<1> QED
  BY <1>1, <1>2, <1>3, <1>4, <1>5

\* What _load_checkpoint makes of a checkpoint that was saved at step n.
LEMMA LoadInOrder ==
  ASSUME NEW f \in Folder, NEW n \in 0..LastStep, Load(f, n),
         Len(f.weights) = n, InOrder(f.weights),
         n % StepsPerEpoch # 0 => f.data = Position(n)
  PROVE  /\ weights' \in Seq(0..StepsPerEpoch) /\ Len(weights') = n /\ InOrder(weights')
         /\ step' = n /\ replicas' = <<>> /\ first' = first
         /\ epoch' \in 0..TotalEpochs /\ cursor' \in 0..StepsPerEpoch
         /\ Begins'
<1>1. /\ step' = n /\ replicas' = <<>> /\ first' = first
      /\ epoch' = n \div StepsPerEpoch
      /\ weights' = IF f.shards = "mixed" THEN [i \in 1..n |-> 0] ELSE f.weights
      /\ cursor' = IF n % StepsPerEpoch = 0 THEN 0 ELSE f.data
  BY DEF Load, Restore
<1>2. weights' \in Seq(0..StepsPerEpoch) /\ Len(weights') = n /\ InOrder(weights')
  <2>1. CASE f.shards = "mixed"
    <3>1. weights' = [i \in 1..n |-> 0] /\ n \in Nat
      BY <1>1, <2>1, Constants
    <3>2. weights' \in [1..n -> 0..StepsPerEpoch]
      BY <3>1, Constants
    <3>3. weights' \in Seq(0..StepsPerEpoch) /\ Len(weights') = n
      BY <3>1, <3>2
    <3> QED
      BY <3>1, <3>3 DEF InOrder
  <2>2. CASE f.shards # "mixed"
    <3>1. weights' = f.weights
      BY <1>1, <2>2
    <3>2. PICK m \in 0..LastStep : f.weights \in [1..m -> 0..StepsPerEpoch]
      BY DEF Folder
    <3>3. f.weights \in Seq(0..StepsPerEpoch)
      BY <3>2, Constants
    <3> QED
      BY <3>1, <3>3 DEF InOrder
  <2> QED
    BY <2>1, <2>2
<1>3. /\ epoch' \in 0..TotalEpochs /\ cursor' = n % StepsPerEpoch
      /\ n % StepsPerEpoch \in 0..(StepsPerEpoch - 1)
      /\ n = (StepsPerEpoch * epoch') + cursor'
      /\ epoch' = TotalEpochs => cursor' = 0
  BY <1>1, EpochOf
<1> QED
  BY <1>1, <1>2, <1>3, Constants DEF Begins, Yielded

LEMMA LaunchAutoKeeps == IInv /\ LaunchAuto => IInv'
<1> SUFFICES ASSUME IInv, LaunchAuto PROVE IInv'
  OBVIOUS
<1> USE Constants DEF IInv, diskVars, dumpVars
<1> DEFINE f == IF tracker = 0 THEN Empty ELSE disk[tracker]
<1>1. /\ pc' = "loaded" /\ launches' = launches + 1 /\ launches < MaxLaunches
      /\ ~torn /\ Load(f, tracker)
      /\ UNCHANGED <<diskVars, dumpVars>>
  BY DEF LaunchAuto, Start
<1>2. /\ f \in Folder /\ Len(f.weights) = tracker /\ InOrder(f.weights)
      /\ tracker % StepsPerEpoch # 0 => f.data = Position(tracker)
  <2>1. CASE tracker = 0
    <3>1. f = Empty /\ 0 % StepsPerEpoch = 0
      BY <2>1
    <3> QED
      BY <2>1, <3>1, EmptyFolder DEF Empty, InOrder
  <2>2. CASE tracker # 0
    <3>1. tracker \in Steps /\ f = disk[tracker] /\ Whole(tracker)
      BY <1>1, <2>2, Numbers DEF Steps, TrackerIsWhole
    <3>2. f \in Folder /\ FolderOf(f, tracker)
      BY <3>1 DEF TypeOK, FoldersInOrder
    <3> QED
      BY <3>1, <3>2 DEF Whole, FolderOf
  <2> QED
    BY <2>1, <2>2
<1>3. tracker \in 0..LastStep
  BY Numbers
<1> HIDE DEF f
<1>4. /\ weights' \in Seq(0..StepsPerEpoch) /\ Len(weights') = tracker /\ InOrder(weights')
      /\ step' = tracker /\ replicas' = <<>> /\ first' = first
      /\ epoch' \in 0..TotalEpochs /\ cursor' \in 0..StepsPerEpoch
      /\ Begins'
  BY <1>1, <1>2, <1>3, LoadInOrder
<1>5. TypeOK'
  BY <1>1, <1>3, <1>4, Numbers DEF TypeOK
<1>6. WeightsInOrder' /\ FoldersInOrder'
  BY <1>1, <1>3, <1>4 DEF WeightsInOrder, InOrder, FoldersInOrder, FolderOf
<1>7. InLoop'
  BY <1>1, <1>4
  DEF InLoop, AtLoaded, AtLoop, AtRollout, AtSave, AtEnd, Overrun, Saving
<1>8. OnDisk' /\ TrackerIsWhole'
  BY <1>1, <1>3, <1>4 DEF OnDisk, TrackerIsWhole, Whole, Saving
<1>9. Queued'
  BY <1>1 DEF Queued
<1> QED
  BY <1>5, <1>6, <1>7, <1>8, <1>9

LEMMA LaunchFromKeeps == IInv /\ LaunchFrom => IInv'
<1> SUFFICES ASSUME IInv, LaunchFrom PROVE IInv'
  OBVIOUS
<1> USE Constants DEF IInv
<1>1. /\ pc' = "loaded" /\ launches' = launches + 1 /\ launches < MaxLaunches
      /\ disk' = [s \in Steps |-> Empty] /\ tracker' = 0 /\ torn' = FALSE
      /\ queue' = <<>> /\ dumped' = {}
  BY DEF LaunchFrom, Start
<1>2. PICK f \in {disk[s] : s \in Steps} \cup {former} :
        Accepted(f) /\ Load(f, Len(f.weights)) /\ former' = f
  BY DEF LaunchFrom
<1>3. f \in Folder
  BY <1>2 DEF TypeOK
<1>4. PICK n \in Steps : FolderOf(f, n)
  BY <1>2 DEF FoldersInOrder, Accepted, Empty
<1>5. /\ Len(f.weights) = n /\ InOrder(f.weights) /\ f.data = Position(n)
      /\ n \in 0..LastStep
  BY <1>2, <1>4 DEF Accepted, FolderOf, Steps
<1>6. /\ weights' \in Seq(0..StepsPerEpoch) /\ Len(weights') = n /\ InOrder(weights')
      /\ step' = n /\ replicas' = <<>> /\ first' = first
      /\ epoch' \in 0..TotalEpochs /\ cursor' \in 0..StepsPerEpoch
      /\ Begins'
  BY <1>2, <1>3, <1>5, LoadInOrder
<1>7. TypeOK'
  <2>1. disk' \in [Steps -> Folder] /\ former' \in Folder
    BY <1>1, <1>2, <1>3, EmptyFolder
  <2>2. queue' \in Seq(Steps) /\ replicas' \in Seq(0..StepsPerEpoch)
    BY <1>1, <1>6
  <2>3. first' \in 0..(LastStep + 1) /\ step' \in 0..(LastStep + 1)
    BY <1>5, <1>6, Numbers
  <2>4. launches \in 0..MaxLaunches
    BY DEF TypeOK
  <2>5. launches' \in 0..MaxLaunches
    BY <1>1, <2>4
  <2>6. tracker' \in 0..LastStep
    BY <1>1
  <2>7. dumped' \subseteq Steps /\ torn' \in BOOLEAN
    BY <1>1
  <2> QED
    BY <1>1, <1>6, <2>1, <2>2, <2>3, <2>5, <2>6, <2>7 DEF TypeOK
<1>8. WeightsInOrder' /\ FoldersInOrder'
  <2>1. \A s \in Steps : FolderOf(disk'[s], s)
    BY <1>1 DEF FolderOf, Empty
  <2>2. former' = f /\ FolderOf(f, n)
    BY <1>2, <1>4
  <2> QED
    BY <1>5, <1>6, <2>1, <2>2 DEF WeightsInOrder, InOrder, FoldersInOrder, FolderOf
<1>9. InLoop'
  BY <1>1, <1>6
  DEF InLoop, AtLoaded, AtLoop, AtRollout, AtSave, AtEnd, Overrun, Saving
<1>10. OnDisk' /\ TrackerIsWhole'
  BY <1>1, <1>5, <1>6 DEF OnDisk, TrackerIsWhole, Saving
<1>11. Queued'
  BY <1>1 DEF Queued
<1> QED
  BY <1>7, <1>8, <1>9, <1>10, <1>11

LEMMA StepKeeps == IInv /\ [Next]_vars => IInv'
<1> SUFFICES ASSUME IInv, [Next]_vars PROVE IInv'
  OBVIOUS
<1>1. CASE Fit
  BY <1>1, BeginFitKeeps, NextBatchKeeps, EndEpochKeeps, UpdateActorKeeps,
     UpdateWeightsKeeps, EndStepKeeps, ShutdownKeeps, SaveActorKeeps,
     ActorSavedKeeps, SaveDataKeeps, OpenTrackerKeeps, WriteTrackerKeeps DEF Fit
<1>2. CASE UNCHANGED vars
  <2> USE <1>2 DEF vars, loopVars, diskVars, dumpVars, IInv
  <2>1. TypeOK'
    BY DEF TypeOK
  <2>2. WeightsInOrder' /\ FoldersInOrder'
    BY DEF WeightsInOrder, InOrder, FoldersInOrder, FolderOf
  <2>3. InLoop'
    BY DEF InLoop, AtLoaded, AtLoop, AtRollout, AtSave, AtEnd, Overrun, Begins,
       Yielded, Trains, Fresh
  <2>4. OnDisk' /\ TrackerIsWhole' /\ Queued'
    BY DEF OnDisk, TrackerIsWhole, Whole, Queued, Written
  <2> QED
    BY <2>1, <2>2, <2>3, <2>4
<1> QED
  BY <1>1, <1>2, LaunchAutoKeeps, LaunchFromKeeps, WriteGenerationsKeeps,
     CrashKeeps DEF Next

LEMMA Invariance == Spec => []IInv
  BY InitHolds, StepKeeps, PTL DEF Spec

-----------------------------------------------------------------------------
(* The theorems *)

\* The loop, the folders and the tracker are well-typed: no step number, cursor
\* or saved state leaves its range, however often the run crashes.
THEOREM TypeCorrect == Spec => []TypeOK
<1>1. IInv => TypeOK
  BY DEF IInv
<1> QED
  BY <1>1, Invariance, PTL

\* Whatever _load_checkpoint resumes, the dataloader goes on where the weights
\* left it: no batch is repeated or left out.
THEOREM DataStaysInOrder == Spec => []DataInOrder
<1>1. IInv => DataInOrder
  BY DEF IInv, WeightsInOrder, InOrder, DataInOrder
<1> QED
  BY <1>1, Invariance, PTL

\* The replicas hold the actor's weights whenever fit generates rollouts.
THEOREM RolloutsAreOnPolicy == Spec => []OnPolicy
<1>1. IInv => OnPolicy
  BY Numbers DEF IInv, InLoop, AtRollout, OnPolicy
<1> QED
  BY <1>1, Invariance, PTL

\* A crash between any two steps of _save_checkpoint leaves a tracker that names
\* a whole checkpoint, or an unreadable one beside a whole checkpoint.
THEOREM TrackerIsTruthful == Spec => []TrackerIsWhole
<1>1. IInv => TrackerIsWhole
  BY DEF IInv
<1> QED
  BY <1>1, Invariance, PTL

\* The executor is drained before fit returns.
THEOREM RolloutsAreKept == Spec => []RolloutsKept
<1>1. IInv => RolloutsKept
  BY DEF IInv, Queued, Written, RolloutsKept
<1> QED
  BY <1>1, Invariance, PTL

\* fit returns only after the last step.
THEOREM FinishedRunsAreTrained == Spec => []FinishedIsTrained
<1>1. IInv => FinishedIsTrained
  BY DEF IInv, InLoop, AtEnd, FinishedIsTrained
<1> QED
  BY <1>1, Invariance, PTL

\* A resumed run that was finished goes one step too far, no other does.
THEOREM OverrunIsOneStep == Spec => []Overrun
<1>1. IInv => Overrun
  BY DEF IInv, InLoop
<1> QED
  BY <1>1, Invariance, PTL
=============================================================================
