SPECIFICATION Spec
CONSTANTS
  Cap = 10
  QHDRSZ = 1
  PADSIZE = 1
  Sizes = {1, 3, 6, 8, 9}
  Payloads = {1, 2}
INVARIANTS
  LiveElementsTile
PROPERTY RefinesFifo
