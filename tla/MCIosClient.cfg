CONSTANTS
  w1 = w1
  w2 = w2
  main = main
  r1 = r1
  b1 = b1
  b2 = b2
  Socket = {w1, w2}
  NoSocket = NoSocket
  Session = {main}
  MainSession = main
  Run = {r1}
  NoRun = NoRun
  Bubble = {b1, b2}
  NoBubble = NoBubble
  MaxSeq = 3
  MaxInbox = 1
  MaxOutbox = 1
SPECIFICATION FairClientSpec
INVARIANTS
  IosTypeOK
  NeverStranded
  GapHasReload
  NoGhostRun
  TranscriptOnDisk
PROPERTIES
  LossIsRetried
CHECK_DEADLOCK FALSE
