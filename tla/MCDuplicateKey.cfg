SPECIFICATION Spec
CONSTANTS
  Openings <- MCPyramid
  Formats = {"jbp", "tiff", "png", "jpeg", "dted", "j2k"}
  Assets <- MCAssets
  Metadata = {m1}
  NoMetadata = none
INVARIANT
  DuplicateMeansPresent
CHECK_DEADLOCK FALSE
