CONSTANTS
  llm = llm
  whisper = whisper
  tickLlm = tickLlm
  preRun = preRun
  Targets <- MCTargets
  LlmTargets = {llm}
  Checks <- MCChecks
  TargetOf <- MCTargetOf
  Ticks = {tickLlm}
  RecoveryProbes = 2
  MaxEvents = 3
  NoCheck = NoCheck
SPECIFICATION FairSpec
INVARIANT FailoverTypeOK
PROPERTIES
  EvidenceIsFresh
  ImplementsSwitch
  RecoversInTheEnd
  TripsInTheEnd
CHECK_DEADLOCK FALSE
