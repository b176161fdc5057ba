------------------------------- MODULE Panels -------------------------------
(***************************************************************************)
(* The program panel of the window (affichage.c, stringDisasm): a second     *)
(* copy of disasm that writes the program into a string, from textStart to   *)
(* textEnd, each time a command has been run from the window.  Loading sets   *)
(* both globals once it has found a text, and textStart before it opens the  *)
(* file: without a text, or after a refused load, they are not its bounds.   *)
(***************************************************************************)
EXTENDS Disasm

(* What is assumed of a text too: it is whole instructions, which code has    *)
(* and no other address, it ends below the top of the addresses, and the      *)
(* libc, laid out in other pages, is not just behind it.                      *)
InstructionsAlone(p, s) ==
  /\ s.size % Word = 0 /\ s.start + s.size + Word < Addresses
  /\ \A a \in Extent(s) : a \in DOMAIN p.code <=> (a - s.start) % Word = 0
LibcElsewhere(p, a) ==
  \A k \in DOMAIN p.segs : p.segs[k].name = "libc.text" => a \notin Extent(p.segs[k])
Whole(p) ==
  /\ DOMAIN p.code \subseteq Int
  /\ \A k \in DOMAIN p.segs : p.segs[k].name = ".text" =>
       InstructionsAlone(p, p.segs[k]) /\ LibcElsewhere(p, p.segs[k].start + p.segs[k].size)
PanelsAssumption == \A p \in Programs : Whole(p)

VARIABLE written   (* the lines written in the string, Nothing without one *)

pvars == <<dvars, written>>

(* Mutant: from the address of the first instruction to that of the last. *)
PanelSizeLast == (program.textEnd - Word - program.textStart) % Addresses

(* textEnd - textStart + 1, of 32 bits. *)
PanelSize == (program.textEnd - program.textStart + 1) % Addresses

PanelInit ==
  /\ program \in Programs
  /\ Asked(program.textStart, PanelSize)
  /\ written = <<>>

-----------------------------------------------------------------------------
(* A line, with the same labels and marks as disasm. *)
PanelShow == Show /\ written' = Append(written, displayed')

PanelPass == (Pass \/ Invalid \/ Return) /\ UNCHANGED written

PanelNext == PanelShow \/ PanelPass
PanelSpec == PanelInit /\ [][PanelNext]_pvars

-----------------------------------------------------------------------------
(* PROPERTIES *)

(* Once a program with a text is loaded, and until a load is refused, a panel  *)
(* that is written whole has a line for every instruction of the program and   *)
(* for nothing else, in order, each under the symbol it stands at, and marks   *)
(* the one at PC and those that carry a breakpoint (affichage.c:174, 727-781). *)
WholeText ==
  written # Nothing /\ ended = 0 /\ BoundsOfText(program) =>
    /\ { written[k].addr : k \in DOMAIN written } = { a \in DOMAIN program.code : At(a, ".text") }
    /\ \A k \in 1 .. Len(written) - 1 : written[k].addr < written[k + 1].addr
    /\ \A k \in DOMAIN written :
         /\ written[k].label = Standing(program.syms, written[k].addr)
         /\ written[k].current <=> written[k].addr = pc
         /\ written[k].break <=> written[k].addr \in breaklist

(* "Mise a jour de l'affichage" (affichage.c:170): the panel shows the program *)
(* that is in memory, whatever was loaded, or asked for, last.                 *)
ProgramShown ==
  written # Nothing /\ ended = 0 =>
    { written[k].addr : k \in DOMAIN written } = { a \in DOMAIN program.code : At(a, ".text") }
=============================================================================
