SPECIFICATION Spec
CONSTANTS
  w1 = w1  s1 = s1  p1 = p1  tp = tp
  Write = {w1}
  Step = {s1}
  Press = {p1}
  Job <- StepAndPress
  NoJob = NoJob
  Config = {right, wrong}
  FileOf <- OneFile
  Refused = {wrong}
  NoConfig = NoConfig
  MaxEvents = 1
INVARIANTS HaltedForThisConfig
