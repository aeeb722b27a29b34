CONSTANTS
  r1 = r1
  r2 = r2
  d1 = d1
  d2 = d2
  w1 = w1
  Runs <- MCRuns
  Decisions <- MCDecisions
  ChapterOnly <- MCChapterOnly
  Sweepers <- MCSweepers
  MaxTime = 1
  MaxVersion = 2
  NoRun = NoRun
  NoRender = NoRender
CONSTRAINT MCBound
SYMMETRY MCSymmetry
SPECIFICATION FilesSpec
INVARIANT NoDecisionLost
CHECK_DEADLOCK FALSE
