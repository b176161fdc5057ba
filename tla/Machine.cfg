SPECIFICATION MachineSpec
CONSTANTS
  Files <- MCFiles
  Blank = Blank
  Space = 16
  ByteRange = 2
  Layouts <- MCLayouts
  Values <- MCValues
  Addrs = {1, 2, 5, 6, 12}
  Cell = {c1, c2, c3, c4, c5}
  Nil = Nil
  Addr = {1, 2, 3}
  MaxRegs = 2
  Still = Still
INVARIANTS
  TypeOK
  InOrder
  FirstIsSpecific
  BitsRight
  DivisionRight
  BytesRight
  SortedNoLeak
PROPERTIES
  DicoReadEnds
  ImplementsStore
  ImplementsSet
CHECK_DEADLOCK FALSE
