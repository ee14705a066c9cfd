SPECIFICATION FairSpec
CONSTANTS
  r1 = r1
  r2 = r2
  s1 = s1
  None = None
  Run = {r1, r2}
  Channel = {r1, r2}
  Subscriber = {s1}
  Ollama = "ollama"
  Stub = "stub"
  Generator = {"stub"}
  Event <- MCEvent
  Terminal <- MCTerminal
  NStages = 0
  Threads = 1
  MAX_RETAINED_RUNS = 1
  MaxFaults = 2
CHECK_DEADLOCK FALSE
PROPERTIES
  RunEnds
  RetainedStreamEnds
