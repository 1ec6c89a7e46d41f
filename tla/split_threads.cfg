SPECIFICATION Spec
CHECK_DEADLOCK FALSE  \* every call ends
CONSTANTS
  Threads = {t1, t2}
  Buffers = {t1, t2}
  Of <- MCOwn
  Chars = {"a", "b", "c", "d", ".", "NUL"}
  Texts <- MCTexts
  Size = 8
  MaxCalls = 2
INVARIANTS
  TypeOK
  TokensAreElements
  SplitInvertsJoin
SYMMETRY MCSymmetry
