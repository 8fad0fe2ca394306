SPECIFICATION Spec
CONSTANTS
  Known = {"A", "B"}
  TagOrder <- MCTags
  Cap = 4
  SubLen = 3
  EntryLen = 4
  Limit <- MCLimit
  NewAssets <- MCAssets
  NewMetas <- MCMetas
  Foreign <- MCForeign
  MaxAssets = 3
  MaxNew = 2
  MaxCopies = 1
INVARIANTS
  TypeOK
  OverflowOwned
  TresComeBack
  CopyKeepsRepeats
  SegmentsLocated
CHECK_DEADLOCK FALSE
