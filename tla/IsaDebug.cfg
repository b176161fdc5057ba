SPECIFICATION Spec
CONSTANTS
  Reg <- MCReg
  HalfRange = 18
  ByteRange = 8
  DataAddr <- MCDataAddr
  DataInit <- MCDataInit
  TextStart = 1
  TextEnd = 5
  LibcStart = 10
  LibcEnd = 12
  StackTop = 15
  InChar = 5
  Empty = Empty
  Bubble = Bubble
  Programs <- DebugPrograms
  StepModes = {"step", "stepinto"}
  BreakAddr = {2, 3}
  RunAddr = {}
PROPERTY ImplementsIsa
