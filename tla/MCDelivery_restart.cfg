SPECIFICATION Spec
CONSTANTS
  m1 = m1
  e1 = e1
  e2 = e2
  e3 = e3
  e4 = e4
  e5 = e5
  Messages = {m1}
  Events = {e1, e2}
  MsgOf <- MCTwice
  Handlers = {"g1", "g2"}
  QueueCap = 2
  Grace = 1
  Stale = 2
  Retain = 3
  Skew = 0
  MaxQuick = 1
  MaxTime = 7
PROPERTY NoReplayAfterRestart
