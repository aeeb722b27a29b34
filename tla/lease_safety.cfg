CONSTANTS
  f1 = f1
  e1 = e1
  e2 = e2
  w1 = w1
  w2 = w2
  r1 = r1
  r2 = r2
  Podcasts <- MCPodcasts
  Episodes <- MCEpisodes
  PodcastOf <- MCPodcastOf
  AutoNumbered <- MCAutoNumbered
  Procs <- MCProcs
  Runs <- MCRuns
  Slots = {1, 2}
  MaxSlots = 2
  NoProc = NoProc
  NoEpisode = NoEpisode
SYMMETRY MCSymmetry
SPECIFICATION LeaseSpec
INVARIANTS
  LeaseTypeOK
  OneRunPerEpisode
  ThreadsExclusive
  UploadExclusive
PROPERTY ImplementsSlotPool
CHECK_DEADLOCK FALSE
