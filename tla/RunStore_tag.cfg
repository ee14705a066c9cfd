SPECIFICATION Spec
CONSTANTS
  r1 = r1
  s1 = s1
  None = None
  Run = {r1}
  Channel = {r1}
  Subscriber = {s1}
  Ollama = "ollama"
  Stub = "stub"
  Generator = {"ollama", "stub"}
  Event <- MCEvent
  Terminal <- MCTerminal
  NStages = 1
  Threads = 1
  MAX_RETAINED_RUNS = 1
  MaxFaults = 0
CHECK_DEADLOCK FALSE
INVARIANTS
  TagIsHonest
