------------------------------ MODULE Symbols ------------------------------
(***************************************************************************)
(* From a symbol to an address: addr_from_symnb (fonctions.c), used by the  *)
(* relocation and by break, and the way break looks a name up in the        *)
(* symbols of the program, then in those of the libc.                       *)
(***************************************************************************)
EXTENDS Loader

CONSTANTS
  Names,        (* the names given to break                                  *)
  Wild          (* what may be read as the start of seg[-1], the segment     *)
                (* before the first                                          *)

ASSUME SymbolsAssumption == Wild \subseteq 0 .. Space - 1

(* Mutant: the section of the symbol is not compared. *)
SegmentOfAny(table, k) ==
  LET y == FirstIndex(table, LAMBDA t : Called(FALSE, t.name) # {}) IN
  IF y = 0 THEN 0 ELSE CHOOSE i \in Called(FALSE, table[y].name) : TRUE

(* The segment that a table's section k was loaded in, 0 when none: the     *)
(* first entry of the table that is for the section and has the name of a   *)
(* segment.  The segments of the libc are named otherwise once loaded.      *)
SegmentOf(table, k) ==
  LET y == FirstIndex(table, LAMBDA t : t.scn = k /\ Called(FALSE, t.name) # {}) IN
  IF y = 0 THEN 0 ELSE CHOOSE i \in Called(FALSE, table[y].name) : TRUE

(* The addresses that are set for a symbol, none when the search fails.  One *)
(* defined elsewhere is looked for by name in the libc, and taken to be in   *)
(* its text, the first segment of memory.                                    *)
InLibc(name) ==
  LET y == SymByName(name, Libc.syms) IN
  IF y = 0 THEN {} ELSE { memory[1].start + Libc.syms[y].value }

(* When the section of the symbol is in no segment, the start of the segment *)
(* of number -1 is read, and the search succeeds.                            *)
AddrFromSymnb(k, table) ==
  LET u == SegmentOf(table, table[k].scn) IN
  IF table[k].scn = 0 THEN InLibc(table[k].name)
  ELSE IF u = 0 THEN { Address(w + table[k].value) : w \in Wild }
  ELSE { memory[u].start + table[k].value }

ProgramSyms == IF symtab = NoFile THEN <<>> ELSE Images[symtab].syms

Lookup(name, table, old) ==
  LET k == SymByName(name, table) IN
  IF k = 0 \/ AddrFromSymnb(k, table) = {} THEN old ELSE AddrFromSymnb(k, table)

(* The test between the two searches is followed by an empty statement: the *)
(* second is always made, and has the last word.                            *)
BreakAddress(name) == Lookup(name, Libc.syms, Lookup(name, ProgramSyms, {0}))

BreakSymbol(name) ==
  /\ phase = "prompt" /\ memory # <<>>
  /\ \E b \in BreakAddress(name) \ {0} :
       /\ InText(b - (b % 4))
       /\ breaklist' = breaklist \cup {b - (b % 4)}
  /\ UNCHANGED <<phase, file, place, next, memory, symtab, bounds, pc>>

SymNext == Next \/ \E n \in Names : BreakSymbol(n)

SymSpec == Init /\ [][SymNext]_vars

-----------------------------------------------------------------------------
(* Where a symbol of the libc is: the segment of its own section.           *)
LibcPlace(y) ==
  LET k == CHOOSE j \in DOMAIN Libc.syms : Libc.syms[j].scn = y.scn /\ Called(TRUE, Libc.syms[j].name) # {}
  IN memory[CHOOSE i \in Called(TRUE, Libc.syms[k].name) : TRUE].start + y.value

SectionLoaded(y) == y.scn # 0 /\ Called(FALSE, Images[symtab].headers[y.scn].name) # {}

(* A name that only the program defines, in a section that is in memory,     *)
(* breaks at its place in the text of the program or not at all              *)
(* (user_int.c, break add with a symbol).                                    *)
ProgramSymbolPlaced ==
  [][\A n \in Names :
       LET y == ProgramSyms[SymByName(n, ProgramSyms)] IN
         /\ BreakSymbol(n) /\ SymByName(n, Libc.syms) = 0 /\ SectionLoaded(y)
         /\ TextOf(FALSE, textStart, textEnd)
         => /\ Images[symtab].headers[y.scn].name = "text"
            /\ breaklist' = breaklist \cup {textStart + y.value - (y.value % 4)}]_vars

(* "Adress %s not valid" (user_int.c:747): a name that has no address, its   *)
(* section being in no segment, is refused.                                  *)
UnloadedRefused ==
  [][\A n \in Names :
       BreakSymbol(n) /\ SymByName(n, Libc.syms) = 0 =>
         SectionLoaded(ProgramSyms[SymByName(n, ProgramSyms)])]_vars

(* fonctions.c, addr_from_symnb: a symbol found in the libc is in           *)
(* libc.text.  break then looks for its section by name among segments      *)
(* whose libc ones have been renamed, and finds that of the program.        *)
LibcSymbolPlaced ==
  [][\A n \in Names :
       BreakSymbol(n) /\ SymByName(n, Libc.syms) # 0 =>
         LET a == LibcPlace(Libc.syms[SymByName(n, Libc.syms)]) IN
           breaklist' = breaklist \cup {a - (a % 4)}]_vars
=============================================================================
