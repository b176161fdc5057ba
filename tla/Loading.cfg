SPECIFICATION LoadingSpec
CONSTANTS
  Longer <- MCLonger
  Images <- MCImages
  Unreadable = {"absent"}
  Libc <- MCLibc
  Space = 96
  Page = 4
  LibcEnd = 76
  Default = 4
  Stack <- MCStack
  Vsyscall <- MCVsyscall
  Addrs = {9, 68, 94}
  NoFile = NoFile
  Tables <- MCTables
  Free = Free
  Host = "LSB"
  Programs <- MCPrograms
  LibcFile <- MCLibcFile
  LenOf <- MCLenOf
  Garbage = Garbage
  Still = Still
  Names = {"main", "X", "printf", "text", "gpvalue"}
  Wild = {4, 79}
INVARIANTS
  TypeOK
  Disjoint
  OwnSlot
  CountExact
  SymtabRead
  SumsRelocated
PROPERTIES
  BoundsSet
  ProgramSymbolPlaced
  RelocEnds
CHECK_DEADLOCK FALSE
