------------------------------ MODULE MCConsole ------------------------------
(***************************************************************************)
(* What the user sees and types, on small instances: the commands that      *)
(* Commands decrypts, the loop of main (Shell), what is read of a line       *)
(* (Lexer, Registers), what disasm and the program panel show (Disasm,       *)
(* Panels), the window (Gui).  They share no variable, but for the loop and   *)
(* its commands, so a behaviour is that of one of them, part, while the       *)
(* others stay as they start.                                                *)
(***************************************************************************)
EXTENDS Shell, Lexer, Registers, Panels, Gui

CONSTANTS Printf, Table, Main, Turn, X, Y   (* the symbols of the programs *)

(* What the theorems assume of the constants. *)
ASSUME PartsAssumption ==
  RegistersAssumption /\ DisasmAssumption /\ PanelsAssumption /\ GuiAssumption

-----------------------------------------------------------------------------
(* Commands: no memory, or eight bytes of four values in two segments that   *)
(* touch, and lines that take every branch of decrypt.                       *)

Lexeme(t, v, r, d) == [type |-> t, value |-> v, reg |-> r, digit |-> d]

MCLex ==
  "0x1" :> Lexeme(2, 1, 0, TRUE) @@ "0x2" :> Lexeme(2, 2, 0, TRUE) @@
  "0x6" :> Lexeme(2, 6, 0, TRUE) @@ "0xF" :> Lexeme(2, 15, 0, TRUE) @@
  "3" :> Lexeme(3, 3, 3, TRUE) @@ "7" :> Lexeme(3, 7, 7, TRUE) @@
  "-1" :> Lexeme(3, -1, -1, FALSE) @@ "300" :> Lexeme(3, 300, -1, TRUE) @@
  "01" :> Lexeme(4, 1, 1, TRUE) @@ "0" :> Lexeme(3, 0, 0, TRUE) @@
  "$zero" :> Lexeme(-1, 0, 0, FALSE) @@ "$sp" :> Lexeme(-1, 0, 29, FALSE) @@
  "PC" :> Lexeme(-1, 0, 34, FALSE)

Region(a, n) == [start |-> a, size |-> n]
MCLayouts == { <<>>, <<Region(1, 5), Region(6, 3)>> }

SetLines ==
  { <<"set", "reg", r, v>> : r \in {"$sp", "$zero", "nothing"}, v \in {"300", "x"} }
  \cup { <<"set", "mem", "word", a, v>> : a \in {"0x1", "0x6", "3"}, v \in {"-1"} }
  \cup { <<"set", "mem", "byte", a, v>> : a \in {"0x2", "0xF"}, v \in {"3", "x"} }
  \cup { <<"set", "mem", "byte", "0x2", v>> : v \in {"-1"} }
  \cup { <<"set">>, <<"set", "reg">>, <<"set", "reg", "$sp">>, <<"set", "reg", "$sp", "7", "7">>,
         <<"set", "mem">>, <<"set", "mem", "half", "0x1", "3">>, <<"set", "mem", "byte", "0x1">>,
         <<"set", "mem", "word", "0x1", "7", "7">>, <<"set", "x">> }

AssertLines ==
  { <<"assert", "reg", r, v>> : r \in {"$sp", "$zero", "nothing"}, v \in {"300", "x"} }
  \cup { <<"assert", "word", a, v>> : a \in {"0x1", "0x6"}, v \in {"-1", "x"} }
  \cup { <<"assert", "byte", a, v>> : a \in {"0x2", "0xF"}, v \in {"3", "01"} }
  \cup { <<"assert", "byte", "0x2", v>> : v \in {"-1"} }
  \cup { <<"assert">>, <<"assert", "reg", "$sp", "3", "3">>, <<"assert", "word", "3", "3">> }

ShowLines ==
  { <<"disp", "mem", x>> : x \in {"map", "0x1"} }
  \cup { <<"disp", "mem", "0x6", o, b>> : o \in {":", "+"}, b \in {"0x1", "0xF"} }
  \cup { <<"disasm", "0x1", o, b>> : o \in {":", "+", "-"}, b \in {"0x6"} }
  \cup { <<"disp", x>> : x \in {"clockcycle", "x", "mem"} }
  \cup { <<"disp">>, <<"disasm">>, <<"disp", "exectime", "x">>, <<"disp", "reg", "$sp", "nothing", "PC">>,
         <<"disp", "mem", "0x1", ":", "0x2", "0x6", ":", "0xF">> }

LoopLines ==
  { <<"clock", v>> : v \in {"7", "-1", "0x1"} } \cup { <<"verbose", v>> : v \in {"3", "7", "-1"} }
  \cup { <<"clock">>, <<"verbose", "3", "3">>, <<"debug">>, <<"resume">>, <<"exit">>,
         <<"help">>, <<"help", "x">>, <<"nonsense">> }

MCLines == SetLines \cup AssertLines \cup ShowLines \cup LoopLines

-----------------------------------------------------------------------------
(* Shell: scripts of up to three lines, with and without a final newline;    *)
(* the lines succeed, fail, change the mode, or are blank.                   *)

Menu == { <<>>, <<"set", "reg", "$sp", "7">>, <<"assert", "reg", "$sp", "7">>, <<"debug">>, <<"exit">> }
MCScripts == [text : UNION { [1 .. k -> Menu] : k \in 1 .. 3 }, newline : BOOLEAN]
MCTyped == (Menu \ { <<"debug">> }) \cup { <<"resume">> }

-----------------------------------------------------------------------------
(* Disasm: a program of four instructions and, above it, a libc, their texts *)
(* apart, symbols of other sections at the same offsets, a word that is no   *)
(* instruction, a program without a text; every range of the addresses.      *)

Sym(n, s, k, v) == [name |-> n, section |-> s, scn |-> k, value |-> v]
Seg(n, a, s) == [name |-> n, start |-> a, size |-> s]

LibcSyms == << Sym(".text", TRUE, 1, 0), Sym(Printf, FALSE, 1, 4), Sym(Table, FALSE, 2, 12),
               Sym(Y, FALSE, 1, 12) >>
ProgramSyms == << Sym(".data", TRUE, 1, 0), Sym(".text", TRUE, 2, 0), Sym(X, FALSE, 1, 8),
                  Sym(Main, FALSE, 2, 0), Sym(Turn, FALSE, 2, 8) >>

Plain == [kind |-> "plain"]
Branch3(o) == [kind |-> "branch3", offset |-> o]
Branch2(o) == [kind |-> "branch2", offset |-> o]
Jump(t) == [kind |-> "jump", target |-> t]
NoInstruction == [kind |-> "invalid"]

LibcCode == << Branch3(0), Branch2(1), Jump(44), Jump(52) >>
LibcSegs == << Seg("libc.text", 40, 16), Seg("libc.data", 36, 3) >>
CodeOf(body) == [a \in {40, 44, 48, 52} \cup { 4 + (4 * k) : k \in DOMAIN body } |->
                   IF a >= 40 THEN LibcCode[(a \div 4) - 9] ELSE body[(a \div 4) - 1]]

Prog(body) ==
  LET n == 4 * Len(body) IN
  [segs |-> LibcSegs \o << Seg(".text", 8, n), Seg(".data", 8 + n, 4) >>,
   syms |-> ProgramSyms, libc |-> LibcSyms, code |-> CodeOf(body),
   textStart |-> 8, textEnd |-> 8 + n]

(* Without a text textEnd is 0, or that of the program before.               *)
NoTextAfter(end) ==
  [segs |-> LibcSegs \o << Seg(".data", 8, 4) >>, syms |-> << Sym(".data", TRUE, 1, 0) >>,
   libc |-> LibcSyms, code |-> CodeOf(<<>>), textStart |-> 8, textEnd |-> end]
NoText == NoTextAfter(0)

(* A load that is refused has moved textStart and emptied the table.         *)
RefusedAt(a, p) == [p EXCEPT !.textStart = a, !.syms = <<>>]

Turning(last) == Prog(<<Jump(16), Branch2(0), Branch3(-3), last>>)
DisasmPrograms ==
  { Turning(last) : last \in {Plain, Jump(44), NoInstruction} }
  \cup { NoText, RefusedAt(32, Turning(Plain)) }

(* Panels: every program of three or four instructions of a menu, the states *)
(* that programs without a text and refused loads leave.                     *)
Instrs == { Plain, Jump(16), Branch3(-1), Branch2(0), NoInstruction }
PanelPrograms ==
  { Prog(<<a, b, c>>) : a \in Instrs, b \in Instrs, c \in Instrs }
  \cup { Prog(<<a, b, c, c>>) : a \in Instrs, b \in Instrs, c \in Instrs }
  \cup { NoTextAfter(n) : n \in {0, 20, 24} }
  \cup { RefusedAt(a, Turning(Plain)) : a \in {8, 16, 32} }

MCPrograms == DisasmPrograms \cup PanelPrograms
MCRanges == [from : 4 .. 56, size : {0, 4, 11, 40}]

-----------------------------------------------------------------------------
(* Registers: every name of the two tables, one of neither, and none.        *)
MCRests == DOMAIN ReadTable \cup { WriteTable[k] : k \in DOMAIN WriteTable } \cup {"x", ""}

-----------------------------------------------------------------------------
VARIABLE part

others == <<rvars, pvars, gvars>>   \* the parts that are neither commands nor texts

CommandsStill == Commands_Init /\ memory = <<>>
LoopStill ==
  /\ script = NoScript /\ place = 0 /\ feof = FALSE /\ phase = "read" /\ input = <<>>
  /\ typed = 0 /\ failed = FALSE
DisasmStill ==
  /\ program = NoText /\ breaklist = {} /\ pc = 0 /\ start = 0 /\ size = 0 /\ i = 0
  /\ text_ident = 0 /\ libctext_ident = 1 /\ displayed = Nothing /\ ended = 1
  /\ written = Nothing
GuiStill == Gui_Init /\ ~loaded

DisasmAlone ==
  /\ program \in DisasmPrograms /\ Init /\ written = Nothing

ConsoleInit ==
  /\ Lexer_Init /\ Registers_Init
  /\ \/ /\ DisasmStill /\ GuiStill
        /\ \/ part = "commands" /\ Commands_Init /\ LoopStill
           \/ part = "loop" /\ Shell_Init /\ memory = <<>>
           \/ part \in {"text", "name"} /\ CommandsStill /\ LoopStill
     \/ /\ CommandsStill /\ LoopStill
        /\ \/ part = "disasm" /\ DisasmAlone /\ GuiStill
           \/ part = "panel" /\ program \in PanelPrograms /\ PanelInit /\ GuiStill
           \/ part = "window" /\ DisasmStill /\ Gui_Init

Decrypts == part = "commands" /\ Commands_Next /\ UNCHANGED <<part, loop, lvars, others>>
MainLoop == part = "loop" /\ Shell_Next /\ UNCHANGED <<part, lvars, others>>
MainStep == part = "loop" /\ Step /\ UNCHANGED <<part, lvars, others>>
ReadsText == part = "text" /\ Lexer_Next /\ UNCHANGED <<part, svars, others>>
ReadsName == part = "name" /\ Registers_Next /\ UNCHANGED <<part, svars, lvars, pvars, gvars>>
Disassembles ==
  part = "disasm" /\ Next /\ UNCHANGED <<part, svars, lvars, rvars, written, gvars>>
WritesPanel == part = "panel" /\ PanelNext /\ UNCHANGED <<part, svars, lvars, rvars, gvars>>
WindowTurns == part = "window" /\ Gui_Next /\ UNCHANGED <<part, svars, lvars, rvars, pvars>>
WindowLoop == part = "window" /\ Loop /\ UNCHANGED <<part, svars, lvars, rvars, pvars>>

ConsoleNext ==
  \/ Decrypts \/ MainLoop \/ ReadsText \/ ReadsName
  \/ Disassembles \/ WritesPanel \/ WindowTurns

consoleVars == <<part, svars, lvars, others>>

(* The fairness of Shell and of Gui: each loop turns by itself. *)
ConsoleSpec ==
  ConsoleInit /\ [][ConsoleNext]_consoleVars /\ WF_consoleVars(MainStep) /\ WF_consoleVars(WindowLoop)
=============================================================================
