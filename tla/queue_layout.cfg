SPECIFICATION Spec
CONSTANTS
  Bytes = {1, 2}
  Texts <- MCTexts
  BufSz = 14
  DescSz = 3
INVARIANTS
  TypeOK
  Layout
  BytesKept
PROPERTIES
  ImplementsFifo
