CONSTANTS
  t1 = t1
  t2 = t2
  a = a
  b = b
  Thread = {t1, t2}
  Byte = {a, b}
  Junk = Junk
  Free = Free
  Message <- MCMessage
  MinSize = 2
  MaxSize = 3
  MaxPos = 3
  Offset <- MCOffset
  MaxEarly = 1
SPECIFICATION DriverSpec
INVARIANTS DriverTypeOK Integrity ReadExact ParamInSync NothingLeaks
PROPERTIES ImplementsFifo MutexReleased
