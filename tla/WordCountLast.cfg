CONSTANTS
  w1 = w1
  w2 = w2
  w3 = w3
  w4 = w4
  Word <- MCWord
  NoWord = NoWord
  Hash <- MCHash
  INITIAL_SIZE = 3
  MULTIPLIER = 2
  MaxRead = 6
SPECIFICATION Spec
INVARIANTS EveryWordCounted
CHECK_DEADLOCK FALSE
