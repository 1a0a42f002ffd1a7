CONSTANTS
  Bytes <- Bits
  Size = 3
  MaxNum = 4
SPECIFICATION FairSpec
INVARIANTS
  TypeOK
  InStep
  NoVainWait
PROPERTIES
  Woken
  ImplementsFifo
