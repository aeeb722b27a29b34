CONSTANTS
  Duration = 5
  MergeGap = 2
  MinAd = 2
  PostRoll = 3
  MaxMerged = 4
  MinFragment = 2
  Beep = 3
  Sound = TRUE
  ChapterTicks <- MCChapters
  Silent <- MCSilent
  Keepable <- MCKeepable
  Kinds <- MCKinds
  Overlaps = FALSE
  MaxItems = 3
SPECIFICATION Spec
INVARIANT CutsAreCut
