SPECIFICATION Spec
CHECK_DEADLOCK FALSE
CONSTANTS
  Threads = {t1, t2}
  Buffers = {t1, t2}
  Of <- MCOwn
  Chars = {"a", "b", "c", "d", ".", "NUL"}
  Texts <- MCCommands
  Size = 8
  MaxCalls = 1
INVARIANTS
  AssertsHold
