CONSTANTS
  w1 = w1
  w2 = w2
  w3 = w3
  main = main
  r1 = r1
  Socket = {w1, w2, w3}
  NoSocket = NoSocket
  Session = {main}
  MainSession = main
  Run = {r1}
  NoRun = NoRun
  MaxSeq = 3
  MaxInbox = 2
  MaxAttempts = 2
SPECIFICATION FairShellSpec
INVARIANTS
  ShellTypeOK
  ReadyMeansHello
  LossIsFlagged
  PromptIsCurrent
  SendsAreHeard
PROPERTIES
  ShellNeverHangs
CHECK_DEADLOCK FALSE
