SPECIFICATION Spec
CONSTANTS
  TileMultiple = 2
  Foreign <- MCForeign
  Threads = {t1}
  Assets <- TwelveBitAssets
  MaxQueue = 1
INVARIANTS
  WrittenFilesOpen
CHECK_DEADLOCK FALSE
