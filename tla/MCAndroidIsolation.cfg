CONSTANTS
  w1 = w1
  w2 = w2
  main = main
  other = other
  r1 = r1
  Socket = {w1, w2}
  NoSocket = NoSocket
  Session = {main, other}
  MainSession = main
  Run = {r1}
  NoRun = NoRun
  MaxSeq = 2
  MaxInbox = 1
  MaxOutbox = 1
  MaxPosted = 1
  IntentSessions = {main}
SPECIFICATION AppSpec
INVARIANTS
  TranscriptIsolation
CHECK_DEADLOCK FALSE
