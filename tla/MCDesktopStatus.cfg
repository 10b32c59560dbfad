CONSTANTS
  w1 = w1
  w2 = w2
  main = main
  r1 = r1
  u1 = u1
  u2 = u2
  Socket = {w1, w2}
  NoSocket = NoSocket
  Session = {main}
  MainSession = main
  Run = {r1}
  NoRun = NoRun
  Url = {u1, u2}
  NoUrl = NoUrl
  MaxSeq = 3
  MaxInbox = 1
  MaxCommands = 1
SPECIFICATION DesktopSpec
INVARIANTS
  StatusIsTruthful
CHECK_DEADLOCK FALSE
