------------------------------ MODULE MCLoading ------------------------------
(***************************************************************************)
(* The routines of a load on small files: loadELF with break (Symbols, which *)
(* extends Loader), the table of segments (SegTable), the symbols of the     *)
(* files (ElfFile) and the relocation of a segment (Reloc).  The program is  *)
(* sequential and their variables are locals or tables of their own, so a    *)
(* behaviour is that of one of them, part, while the others stay still.      *)
(***************************************************************************)
EXTENDS Symbols, SegTable, ElfFile

CONSTANTS Still        (* a model value *)

-----------------------------------------------------------------------------
(* loadELF: files with every section, with the text after the data, without *)
(* a text, with a section whose name begins with that of another, and with   *)
(* symbols in one that is not loaded.                                        *)

Section(n, k) == [name |-> n, size |-> k]
Sym(n, k, v) == [name |-> n, scn |-> k, value |-> v]

MCLibc == [headers |-> <<Section("text", 12), Section("data", 0)>>,
           syms |-> <<Sym("text", 1, 0), Sym("data", 2, 0), Sym("printf", 1, 4)>>]

Whole == [headers |-> <<Section("text", 12), Section("data", 4), Section("bss", 1)>>,
          syms |-> <<Sym("text", 1, 0), Sym("data", 2, 0), Sym("bss", 3, 0),
                     Sym("main", 1, 8), Sym("X", 2, 0), Sym("printf", 0, 0)>>]

Turned == [headers |-> <<Section("data", 3), Section("text", 4), Section("reginfo", 24)>>,
           syms |-> <<Sym("data", 1, 0), Sym("text", 2, 0), Sym("main", 2, 0), Sym("X", 1, 0),
                      Sym("reginfo", 3, 0), Sym("gpvalue", 3, 21)>>]

DataOnly == [headers |-> <<Section("data", 2)>>, syms |-> <<Sym("data", 1, 0)>>]

Strings == [headers |-> <<Section("text", 4), Section("rodata_str", 3), Section("rodata", 2),
                          Section("data", 1)>>,
            syms |-> <<Sym("text", 1, 0), Sym("rodata", 3, 0), Sym("data", 4, 0)>>]

MCImages == [f \in {"whole", "turned", "dataonly", "strings"} |->
               CASE f = "whole" -> Whole [] f = "turned" -> Turned
                 [] f = "dataonly" -> DataOnly [] OTHER -> Strings]
MCLonger == {<<"rodata_str", "rodata">>}
MCStack == [start |-> 80, size |-> 8]
MCVsyscall == [start |-> 92, size |-> 3]

-----------------------------------------------------------------------------
VARIABLES
  part,
  rel, content, asm, addr, ri, S, listing                (* Reloc *)

relVars == <<rel, content, asm, addr, ri, S, listing>>

(* Still is the value of the variables of a part the behaviour is not of. *)
SegStill ==
  /\ table = CHOOSE t \in Tables : TRUE
  /\ stage = Still /\ i = 0 /\ j = 0 /\ seg = Still
ElfStill ==
  /\ elfPhase = "prompt" /\ program = CHOOSE f \in Programs : TRUE
  /\ elf_sym = <<>> /\ ei = 0 /\ elfSymtab = <<>> /\ libcsymtab = <<>>
RelStill ==
  /\ rel = Still /\ content = Still /\ asm = Still /\ addr = Still /\ ri = Still
  /\ S = Still /\ listing = Still

-----------------------------------------------------------------------------
(* SegTable: any sections in either file; all can be read, or one cannot.    *)

AllSections == {"text", "rodata", "data", "bss"}
LibcChoices == { {"text", "data"}, {"text", "rodata", "bss"}, AllSections }
MCTables ==
  [libc : LibcChoices, program : SUBSET AllSections,
   unreadable : {{}} \cup { {<<"program", s>>} : s \in AllSections }]

-----------------------------------------------------------------------------
(* ElfFile: up to two symbols, in a file of either byte order.               *)

F(v, o) == [value |-> v, order |-> o]

Header(n, size, o) == [sh_name |-> F(n, o), sh_type |-> F("any", o), sh_offset |-> F(0, o),
                       sh_size |-> F(size, o), sh_link |-> F(0, o), sh_info |-> F(0, o)]

MCFile(o, symbols) ==
  [data |-> o, entsize |-> 2,
   ehdr |-> [e_machine |-> F("MIPS", o), e_shnum |-> F(4, o), e_shstrndx |-> F(3, o)],
   headers |-> << Header(".text", 8, o), Header(".data", 4, o), Header(".shstrtab", 30, o),
                  Header(".symtab", 2 * Len(symbols), o) >>,
   names |-> << "", "main", ".text", ".data" >>,
   syms |-> [k \in DOMAIN symbols |->
               [st_name |-> F(symbols[k][1], o), st_value |-> F(symbols[k][2], o),
                st_size |-> F(0, o), st_shndx |-> F(symbols[k][3], o), type |-> symbols[k][4]]]]

MCLenOf == [n \in {"", "main", ".text", ".data"} |-> CASE n = "" -> 0 [] n = "main" -> 4 [] OTHER -> 5]

MCSyms == { <<1, 4, 1, "function">>, <<6, 0, 1, "section">>, <<12, 0, 2, "section">>,
            <<0, 0, 1, "section">>, <<1, 0, 0, "notype">> }
Lists(T) == UNION { [1 .. n -> T] : n \in 0 .. 2 }

MCLibcFile == MCFile("MSB", << <<6, 0, 1, "section">>, <<1, 4, 1, "function">> >>)
MCPrograms == { MCFile(o, l) : o \in {"LSB", "MSB"}, l \in Lists(MCSyms) }

-----------------------------------------------------------------------------
(* Reloc, in words of two halves of four bits: pairs with and without        *)
(* neighbours, a symbol without an address, types that are passed over, one  *)
(* without a name.                                                           *)

E(t, s) == [type |-> t, sym |-> s]

RelTables ==
  {<<E(5, "a"), E(6, "a"), E(2, "b")>>,
   <<E(2, "a"), E(5, "b"), E(6, "b")>>,
   <<E(5, "a"), E(5, "a"), E(6, "a")>>,
   <<E(5, "a"), E(6, "a"), E(6, "a")>>,
   <<E(6, "a"), E(4, "a"), E(9, "b")>>,
   <<E(2, "unresolved"), E(5, "a")>>,
   <<E(33, "a"), E(2, "b")>>}

RelWords == {0, 7, 8, 250}
RelPlaces == {8, 120, 255}

Rel == INSTANCE Reloc WITH Half <- 16, Target <- 64, KeptMask <- 240, Tables <- RelTables,
  Syms <- {"a", "b"}, Places <- RelPlaces, Words <- RelWords, Verbose <- BOOLEAN, i <- ri

ASSUME PartsAssumption == Rel!RelocAssumption

-----------------------------------------------------------------------------
LoadingInit ==
  /\ Init
  /\ \/ part = "loadELF" /\ SegStill /\ ElfStill /\ RelStill
     \/ part = "segments" /\ Seg_Init /\ ElfStill /\ RelStill
     \/ part = "symbols" /\ Elf_Init /\ SegStill /\ RelStill
     \/ part = "reloc" /\ Rel!Init /\ SegStill /\ ElfStill

LoadELF == part = "loadELF" /\ SymNext /\ UNCHANGED <<part, tvars, evars, relVars>>
Segments_ == part = "segments" /\ Seg_Next /\ UNCHANGED <<part, vars, evars, relVars>>
ReadSymbols == part = "symbols" /\ Elf_Next /\ UNCHANGED <<part, vars, tvars, relVars>>
RelocSegment == part = "reloc" /\ Rel!Next /\ UNCHANGED <<part, vars, tvars, evars>>

LoadingNext == LoadELF \/ Segments_ \/ ReadSymbols \/ RelocSegment

loadingVars == <<part, vars, tvars, evars, relVars>>

(* The fairness is Reloc's: its loops are left to themselves. *)
LoadingSpec == LoadingInit /\ [][LoadingNext]_loadingVars /\ WF_loadingVars(RelocSegment)

-----------------------------------------------------------------------------
(* PROPERTIES: those of Reloc.  Loader, Symbols, SegTable and ElfFile hold   *)
(* their own.                                                                *)

(* A pair of halves and a full word stand for their sum once relocated.      *)
SumsRelocated == part = "reloc" => Rel!SumsRelocated

(* The relocation of a segment comes to its end, unless the listing of its     *)
(* table is held by a type that has no name.                                 *)
RelocEnds == <>(part = "reloc" => Rel!Over \/ Rel!ListingHeld)
=============================================================================
