CONSTANTS
  StepsPerEpoch = 3
  TotalEpochs = 2
  TotalSteps = 5
  SaveFreq = 1
  MaxLaunches = 5
SPECIFICATION FairSpec
INVARIANT TypeOK
INVARIANT DataInOrder
INVARIANT OnPolicy
INVARIANT TrackerIsWhole
INVARIANT RolloutsKept
INVARIANT FinishedIsTrained
INVARIANT Overrun
PROPERTY RunFinishes
CHECK_DEADLOCK FALSE
