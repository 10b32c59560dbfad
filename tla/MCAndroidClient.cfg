CONSTANTS
  w1 = w1
  w2 = w2
  main = main
  r1 = r1
  Socket = {w1, w2}
  NoSocket = NoSocket
  Session = {main}
  MainSession = main
  Run = {r1}
  NoRun = NoRun
  MaxSeq = 3
  MaxInbox = 1
  MaxOutbox = 1
  MaxPosted = 1
SPECIFICATION FairClientSpec
INVARIANTS
  ClientTypeOK
  OneLink
  ConnectedMeansAuthenticated
  GapHasReload
  SeqOfThisConnection
  NoGhostRun
PROPERTIES
  ImplementsLink
  FailureIsRetried
CHECK_DEADLOCK FALSE
