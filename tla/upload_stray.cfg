CONSTANTS
  e1 = e1
  s1 = s1
  p1 = p1
  p2 = p2
  r1 = r1
  r2 = r2
  Episodes <- MCEpisodes
  Staged <- MCStaged
  EntryOf <- MCEntryOf
  Stocked <- MCStocked
  Procs <- MCProcs
  Ids <- MCIds
  MaxGeneration = 1
  NoFile = NoFile
  NoProc = NoProc
  NoId = NoId
SYMMETRY MCSymmetry
SPECIFICATION UploadSpec
INVARIANT TakesOnlyItsOwn
CHECK_DEADLOCK FALSE
