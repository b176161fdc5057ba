SPECIFICATION ConsoleSpec
CONSTANTS
  Space = 16
  ByteRange = 4
  Layouts <- MCLayouts
  Values = {}
  Addrs = {}
  Lines <- MCLines
  Lex <- MCLex
  Scripts <- MCScripts
  NoScript = NoScript
  Typed <- MCTyped
  MaxTyped = 2
  Alphabet = {" ", "tab", "-", ":", "#", "nl", "a", "x", "0", "8"}
  MaxText = 5
  Numbers = {31, 32}
  Rests <- MCRests
  Addresses = 64
  Programs <- MCPrograms
  Ranges <- MCRanges
  Printf = Printf
  Table = Table
  Main = Main
  Turn = Turn
  X = X
  Y = Y
  NoLabel = NoLabel
  Nothing = Nothing
  Entries = {"", "step", "bad", "exit", "window"}
  MaxMachine = 2
  MaxOpen = 2
  Outside = Outside
INVARIANTS
  StatusTells
  LineReady
  Grammar
  RoundTrip
  LabelsRight
  WholeText
  PanelsFollow
PROPERTIES
  RefusalsKeep
  SetThenAssert
  WholeRange
  ScriptEnds
  ExitLeaves
CHECK_DEADLOCK FALSE
