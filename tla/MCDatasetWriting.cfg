SPECIFICATION Spec
CONSTANTS
  Openings <- MCOpenings
  Formats = {"jbp", "tiff", "png", "jpeg", "dted", "j2k"}
  Assets <- MCAssets
  Metadata = {m1}
  NoMetadata = none
INVARIANTS
  TypeOK
  FilesAgree
  AcceptedHaveAPlace
  NoHandleDangles
  WritingInv
  PyramidReadsBack
PROPERTIES
  NothingWrittenAfterCommit
  KeepsThePromise
  CloseReturns
CHECK_DEADLOCK FALSE
