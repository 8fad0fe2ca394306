SPECIFICATION Spec
CONSTANTS
  Openings <- MCReuse
  Formats = {"jbp", "tiff", "png", "jpeg", "dted", "j2k"}
  Assets <- MCAssets
  Metadata = {m1}
  NoMetadata = none
INVARIANT
  OneWriterPerSource
CHECK_DEADLOCK FALSE
