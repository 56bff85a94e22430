SPECIFICATION MCSpec
CONSTANTS
  m1 = m1
  e1 = e1
  e2 = e2
  e3 = e3
  e4 = e4
  e5 = e5
  Messages = {m1}
  Events = {e1, e2, e3, e4, e5}
  MsgOf <- MCMixed
  Handlers = {"g1"}
  QueueCap = 1
  Grace = 0
  Stale = 1
  Retain = 2
  Skew = 1
  MaxQuick = 1
  MaxTime = 3
INVARIANTS RunsAtMostOnce LostOnlyWhenFull
PROPERTY EveryEventDispatched
