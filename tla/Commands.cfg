SPECIFICATION StepSpec
CONSTANTS
  Reg <- MCReg
  HalfRange = 32
  ByteRange = 8
  DataAddr <- MCDataAddr
  DataInit <- MCDataInit
  TextStart = 1
  TextEnd = 18
  LibcStart = 23
  LibcEnd = 25
  StackTop = 0
  InChar = 5
  Empty = Empty
  Bubble = Bubble
  Programs <- NestedPrograms
  StepModes = {"step", "stepinto"}
  BreakAddr = {9, 23}
  RunAddr = {0}
INVARIANT TypeOK
PROPERTIES
  StallOnce
  WholeProcedure
