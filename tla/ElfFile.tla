------------------------------ MODULE ElfFile -------------------------------
(***************************************************************************)
(* Reading the symbols of the program and of the libc (elf.c, bits.c,        *)
(* syms.c), as loadELF asks for them.  A field of a file is a value in the   *)
(* byte order of the file; it can be used once it is in the order of the     *)
(* host.  Files are 32-bit, as those of the emulated machine are.            *)
(***************************************************************************)
EXTENDS Elf, SequencesExt

CONSTANTS
  Host,         (* byte order of the machine the emulator runs on           *)
  Programs,     (* the files given to load                                  *)
  LibcFile,     (* the file of the libc                                     *)
  LenOf,        (* lengths of the names, a function                         *)
  Garbage       (* a value read in the wrong order                          *)

(* A file: data, its byte order; headers, the sections in order, each with   *)
(* fields; names, the strings of .strtab in order, the first one empty;      *)
(* syms, the entries of .symtab.                                             *)
Other(o) == IF o = "LSB" THEN "MSB" ELSE "LSB"
FLIP(f) == [f EXCEPT !.order = Other(@)]
Read(f) == IF f.order = Host THEN f.value ELSE Garbage

(* Mutant: st_shndx, a half word, is not swapped. *)
SymFlipWords(s, e) ==
  IF e = Host THEN s
  ELSE [s EXCEPT !.st_name = FLIP(@), !.st_value = FLIP(@), !.st_size = FLIP(@)]

SymFlip(s, e) ==
  IF e = Host THEN s
  ELSE [s EXCEPT !.st_name = FLIP(@), !.st_value = FLIP(@), !.st_size = FLIP(@),
                 !.st_shndx = FLIP(@)]

(* sh_link stays as it is in the file. *)
ShdrFlip(h, e) ==
  IF e = Host THEN h
  ELSE [f \in DOMAIN h |-> IF f = "sh_link" THEN h[f] ELSE FLIP(h[f])]

EhdrFlip(h, e) == IF e = Host THEN h ELSE [f \in DOMAIN h |-> FLIP(h[f])]

(* The header says in one byte which order the rest of it is in. *)
Ehdr(f) == EhdrFlip(f.ehdr, f.data)
ArchInfo(f) == [machine |-> Read(Ehdr(f).e_machine), endian |-> f.data]

(* The headers of the sections, each swapped. *)
HeaderTable(f) == [k \in 1 .. Read(Ehdr(f).e_shnum) |-> ShdrFlip(f.headers[k], f.data)]

(* The section names, when there are sections and one is for their names.    *)
HasNames(f) == Read(Ehdr(f).e_shstrndx) # 0 /\ Read(Ehdr(f).e_shnum) # 0

(* elf_extract_scn_by_name: the section's index, 0 for none. *)
Scn(f, s) ==
  IF HasNames(f) THEN FirstIndex(HeaderTable(f), LAMBDA h : Begins(Read(h.sh_name), s)) ELSE 0

NSymbols(f) ==
  LET k == Scn(f, ".symtab") IN
  IF k = 0 THEN 0 ELSE Read(HeaderTable(f)[k].sh_size) \div f.entsize

-----------------------------------------------------------------------------
(* The string table: what is at an offset is a name without its first        *)
(* characters.                                                               *)
Offset(f, k) == FoldLeft(LAMBDA n, m : n + LenOf[m] + 1, 0, SubSeq(f.names, 1, k - 1))
At(f, o) ==
  LET k == CHOOSE j \in DOMAIN f.names :
             /\ Offset(f, j) <= o
             /\ \A i \in j + 1 .. Len(f.names) : Offset(f, i) > o
  IN [name |-> f.names[k], skip |-> o - Offset(f, k)]
StrLen(f, o) == LenOf[At(f, o).name] - At(f, o).skip

(* "In case there is no symbol name for section": as many strings are passed *)
(* over as the section has before it, measured from the first characters.    *)
Passed(f, shndx) == FoldLeft(LAMBDA j, i : j + 1 + StrLen(f, i), 0, [i \in 1 .. shndx |-> i - 1])

NameOf(f, s) ==
  IF s.type = "section" /\ LenOf[At(f, Read(s.st_name)).name] = 0
  THEN At(f, Passed(f, Read(s.st_shndx)))
  ELSE At(f, Read(s.st_name))

(* new_sym32 *)
Entry(f, s) ==
  IF Garbage \in { Read(s.st_name), Read(s.st_value), Read(s.st_shndx) } THEN Garbage
  ELSE [name |-> NameOf(f, s), value |-> Read(s.st_value), scn |-> Read(s.st_shndx),
        type |-> s.type]

-----------------------------------------------------------------------------
(* What a file is: the bytes of a field are in the order its header tells,     *)
(* and .symtab holds the entries that its size counts.                         *)
Orders == {"LSB", "MSB"}
SymTypes == {"notype", "object", "function", "section", "file"}
Fields(o) == [value : Nat, order : {o}]
Elf32_Syms(o) ==
  [st_name : Fields(o), st_value : Fields(o), st_size : Fields(o), st_shndx : Fields(o),
   type : SymTypes]

ASSUME ElfFileAssumption ==
  /\ Host \in Orders /\ Garbage \notin Nat
  /\ \A f \in Programs \cup {LibcFile} :
       /\ f.data \in Orders /\ f.syms \in Seq(Elf32_Syms(f.data))
       /\ NSymbols(f) \in 0 .. Len(f.syms)

VARIABLES
  elfPhase,     (* "prompt", or the table being filled                      *)
  program,      (* the file being loaded                                    *)
  elf_sym,      (* the entries of .symtab, swapped so far up to ei          *)
  ei,
  elfSymtab, libcsymtab

evars == <<elfPhase, program, elf_sym, ei, elfSymtab, libcsymtab>>

Elf_Init ==
  /\ elfPhase = "prompt" /\ program \in Programs
  /\ elf_sym = <<>> /\ ei = 0
  /\ elfSymtab = <<>> /\ libcsymtab = <<>>

File == IF elfPhase = "libcsymtab" THEN LibcFile ELSE program

(* load: the old symbols are dropped, and the order is that of the program.  *)
Load ==
  /\ elfPhase = "prompt"
  /\ program' \in Programs
  /\ elfPhase' = "symtab" /\ ei' = 0
  /\ elf_sym' = SubSeq(program'.syms, 1, NSymbols(program'))
  /\ elfSymtab' = <<>>
  /\ UNCHANGED libcsymtab

(* One entry: swapped where it is, then copied. *)
Symbol ==
  /\ elfPhase # "prompt" /\ ei < Len(elf_sym)
  /\ elf_sym' = [elf_sym EXCEPT ![ei + 1] = SymFlip(@, ArchInfo(program).endian)]
  /\ ei' = ei + 1
  /\ IF elfPhase = "symtab"
     THEN elfSymtab' = Append(elfSymtab, Entry(File, elf_sym'[ei'])) /\ UNCHANGED libcsymtab
     ELSE libcsymtab' = Append(libcsymtab, Entry(File, elf_sym'[ei'])) /\ UNCHANGED elfSymtab
  /\ UNCHANGED <<elfPhase, program>>

(* The symbols of the libc are read twice, the second time for good. *)
NextTable ==
  /\ elfPhase = "symtab" /\ ei = Len(elf_sym)
  /\ elfPhase' = "libcsymtab" /\ ei' = 0 /\ libcsymtab' = <<>>
  /\ elf_sym' = SubSeq(LibcFile.syms, 1, NSymbols(LibcFile))
  /\ UNCHANGED <<program, elfSymtab>>

Done ==
  /\ elfPhase = "libcsymtab" /\ ei = Len(elf_sym)
  /\ elfPhase' = "prompt"
  /\ UNCHANGED <<program, elf_sym, ei, elfSymtab, libcsymtab>>

Elf_Next == Load \/ Symbol \/ NextTable \/ Done

Elf_Spec == Elf_Init /\ [][Elf_Next]_evars

-----------------------------------------------------------------------------
(* PROPERTIES *)

(* What the symbols of a file mean, whatever its order. *)
Meant(f, s) ==
  [name |-> At(f, s.st_name.value), value |-> s.st_value.value, scn |-> s.st_shndx.value,
   type |-> s.type]
Named(s, f) == s.type = "section" => LenOf[At(f, s.st_name.value).name] > 0

(* The symbols in memory are those of the file: each field is swapped once     *)
(* when the orders differ and never when they agree (elf.c:778-883).           *)
SymtabRead ==
  \A k \in DOMAIN elfSymtab :
    Named(program.syms[k], program) => elfSymtab[k] = Meant(program, program.syms[k])

(* "the byte order of the targeted architecture of the ELF file" (elf.c:773)   *)
(* is what elf_load_symtab is given: the symbols of the libc are read in the   *)
(* order of the libc.                                                          *)
LibcRead ==
  \A k \in DOMAIN libcsymtab : libcsymtab[k] = Meant(LibcFile, LibcFile.syms[k])

(* "In case there is no symbol name for section" (elf.c:856): the symbol of a  *)
(* section that has no name is given the name of the section.                  *)
SectionsNamed ==
  \A k \in DOMAIN elfSymtab :
    LET s == program.syms[k] IN
      s.type = "section" /\ ~Named(s, program) =>
        elfSymtab[k].name = [name |-> program.headers[s.st_shndx.value].sh_name.value, skip |-> 0]

(* "Swaps section table" (elf.c:88): a header is in the order of the host.     *)
HeadersRead ==
  \A h \in ToSet(HeaderTable(program)) : \A f \in DOMAIN h : h[f].order = Host
=============================================================================
