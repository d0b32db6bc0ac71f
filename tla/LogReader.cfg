CONSTANTS
  w1 = w1
  w2 = w2
  u = u
  v = v
  r = r
  g = g
  Worker = {w1, w2}
  Url = {u, v}
  Ref = {r, g}
  TOP_N = 1
  Log <- MCLog
SPECIFICATION Spec
INVARIANTS TypeOK QueueExact ReportRight
PROPERTIES Ends
CHECK_DEADLOCK FALSE
