SPECIFICATION FairSpec
CONSTANTS
  Run = {r1, r2, r3}
  Commands = {"migrate", "seed", "fresh"}
  LastFile = 2
  Blank <- BlankFiles
  Faults = TRUE
INVARIANTS RecordedIsApplied AppliedInOrder SuccessMeansApplied SomebodySucceeds
PROPERTIES EveryRunEnds
CHECK_DEADLOCK FALSE
