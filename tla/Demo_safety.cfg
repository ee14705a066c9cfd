SPECIFICATION DemoSpec
CONSTANTS
  r1 = r1
  r2 = r2
  d1 = d1
  d2 = d2
  s1 = s1
  None = None
  Run = {r1, r2}
  DemoId = {d1, d2}
  Channel = {r1, r2, d1, d2}
  Subscriber = {s1}
  Ollama = "ollama"
  Stub = "stub"
  Generator = {"stub"}
  Event <- MCEvent
  Terminal <- MCTerminal
  NStages = 0
  Threads = 1
  MAX_RETAINED_RUNS = 1
  MaxFaults = 1
  MAX_RETAINED_DEMOS = 1
SYMMETRY DemoSymmetry
CHECK_DEADLOCK FALSE
INVARIANTS
  DemoInv
  NarratesCompletedRun
  RejectionIsAudited
  EveryBeatShown
