SPECIFICATION Spec
CONSTANTS
  Cells = {"a", "b", "c", "d"}
  Syms = {"x", "y", "z"}
  Notebooks <- SomeNotebooks
  Contents <- SomeContents
  Settings <- SomeSettings
CHECK_DEADLOCK FALSE
INVARIANTS
  AgreesWithLoop
  NothingMissed
  SomeoneCanRun
  WaitersHaveMakers
  CachedAnswersHold
  ClosureReadsInOrder
