SPECIFICATION Spec
CONSTANTS
  TileMultiple = 2
  Foreign <- MCForeign
  Threads = {t1, t2}
  Assets <- MCAssets
  MaxQueue = 5
INVARIANTS
  TypeOK
  FamiliesKeptTogether
  OverviewsFall
  MasksFitOverviews
  CopyKeepsPages
  PixelsComeBack
  ViewShowsThePage
  ReadsTheirPage
  BlocksReadBack
PROPERTIES
  HandleFreed
CHECK_DEADLOCK FALSE
