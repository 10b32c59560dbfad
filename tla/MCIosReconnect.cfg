CONSTANTS
  w1 = w1
  w2 = w2
  w3 = w3
  main = main
  r1 = r1
  b1 = b1
  Socket = {w1, w2, w3}
  NoSocket = NoSocket
  Session = {main}
  MainSession = main
  Run = {r1}
  NoRun = NoRun
  Bubble = {b1}
  NoBubble = NoBubble
  MaxSeq = 1
  MaxInbox = 1
  MaxOutbox = 1
SPECIFICATION ClientSpec
INVARIANTS
  ReconnectsLostLinks
CHECK_DEADLOCK FALSE
