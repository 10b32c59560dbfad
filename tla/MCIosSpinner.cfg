CONSTANTS
  w1 = w1
  main = main
  r1 = r1
  b1 = b1
  Socket = {w1}
  NoSocket = NoSocket
  Session = {main}
  MainSession = main
  Run = {r1}
  NoRun = NoRun
  Bubble = {b1}
  NoBubble = NoBubble
  MaxSeq = 2
  MaxInbox = 1
  MaxOutbox = 1
SPECIFICATION ClientSpec
INVARIANTS
  SpinnerStops
CHECK_DEADLOCK FALSE
