CONSTANTS
  f1 = f1
  e1 = e1
  w1 = w1
  w2 = w2
  r1 = r1
  r2 = r2
  Podcasts <- MCPodcasts
  Episodes <- MCEpisodes
  PodcastOf <- MCPodcastOf
  AutoNumbered = {}
  Procs = {w1, w2}
  Runs = {r1, r2}
  Slots = {1}
  MaxSlots = 1
  NoProc = NoProc
  NoEpisode = NoEpisode
  MaxAttempts = 1
  MaxRetries = 1
  MaxAsks = 0
  MaxCancels = 0
  OtherHolds = FALSE
  Overlap = TRUE
SYMMETRY MCSymmetry
SPECIFICATION Spec
PROPERTIES
  PublishesUnderLease
  SweepsSpareRuns
CHECK_DEADLOCK FALSE
