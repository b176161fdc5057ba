------------------------------- MODULE Loader -------------------------------
(***************************************************************************)
(* loadELF (emul.c), one step for each thing it does: set the address and   *)
(* drop the symbols, open the file, place the sections of the libc below    *)
(* LibcEnd, place those of the program above textStart, set the bounds of   *)
(* the text and PC.  Break keeps the breakpoints of the user, which a load  *)
(* does not see.  Addresses wrap at Space.                                  *)
(***************************************************************************)
EXTENDS Elf, FiniteSets

CONSTANTS
  Images,       (* the ELF files, a function from their names               *)
  Unreadable,   (* names of no file, or of a file that is not ELF           *)
  Libc,         (* the image of the libc                                    *)
  Space,        (* number of addresses                                      *)
  Page,         (* 0x1000                                                   *)
  LibcEnd,      (* LIBC_MEM_END                                             *)
  Default,      (* DEFAULT_S_ADDR                                           *)
  Stack, Vsyscall,  (* the two segments init_mem makes, [start, size]       *)
  Addrs,        (* addresses given to load and break                        *)
  NoFile

Files == DOMAIN Images
Sections == <<"text", "rodata", "data", "bss">>
AnImage(f) == IF f = NoFile THEN Libc ELSE Images[f]

ASSUME LoaderAssumption ==
  /\ Space \in Nat /\ Page \in 1 .. Space /\ LibcEnd \in Nat /\ Default \in Nat
  /\ Addrs \subseteq 0 .. Space - 1 /\ Default < Space /\ LibcEnd < Space
  /\ NoFile \notin Files \cup Unreadable
  /\ \A f \in Files \cup {NoFile} :
       LET im == AnImage(f) IN
         /\ im.headers \in Seq([name : {im.headers[i].name : i \in DOMAIN im.headers}, size : Nat])
         /\ \A k \in 1 .. 4 : IsInSymbols(Sections[k], im.syms) => Extract(im, Sections[k]) # 0
  /\ IsInSymbols("text", Libc.syms)
  /\ Stack.start \in Nat /\ Stack.size \in Nat /\ Vsyscall.start \in Nat /\ Vsyscall.size \in Nat
  /\ LibcEnd <= Stack.start /\ Stack.start + Stack.size <= Vsyscall.start

VARIABLES
  phase,        (* "prompt", or what loadELF is placing: "libc" or "program" *)
  file,         (* the file being loaded                                    *)
  place,        (* i, the section loadELF is at                             *)
  next,         (* next_segment_start                                       *)
  memory,       (* the segments placed; <<>> with no memory                 *)
  symtab,       (* the file whose symbols are in symtab, NoFile for none    *)
  textStart, textEnd, libcTextStart, libcTextEnd,
  pc,
  breaklist

bounds == <<textStart, textEnd, libcTextStart, libcTextEnd>>
vars == <<phase, file, place, next, memory, symtab, bounds, pc, breaklist>>

Init ==
  /\ phase = "prompt" /\ file = NoFile /\ place = 1 /\ next = 0
  /\ memory = <<>> /\ symtab = NoFile
  /\ textStart = 0 /\ textEnd = 0 /\ libcTextStart = 0 /\ libcTextEnd = 0
  /\ pc = 0 /\ breaklist = {}

(* uint32_t arithmetic, for sums of two addresses. *)
Address(a) == IF a < Space THEN a ELSE a - Space

(* Mutant: the sum is not an unsigned int. *)
RoundedUpWide(a) == IF a % Page > 0 THEN a + Page - (a % Page) ELSE a

RoundedUp(a) == IF a % Page > 0 THEN Address(a + Page - (a % Page)) ELSE a

(* Mutant: whole pages only. *)
PagesTight(size) == (size \div Page) * Page

Pages(size) == ((size + Page) \div Page) * Page

(***************************************************************************)
(* The two ways a load begins.  Both set textStart and drop the symbols of  *)
(* the program in memory; only the second goes on.                          *)
(***************************************************************************)
Request(a) ==
  /\ phase = "prompt"
  /\ textStart' = RoundedUp(a)

Refuse(f, a) ==
  /\ Request(a) /\ f \in Unreadable
  /\ symtab' = NoFile
  /\ UNCHANGED <<phase, file, place, next, memory, textEnd, libcTextStart, libcTextEnd, pc, breaklist>>

(* init_mem gives a memory with no section placed. *)
Open(f, a) ==
  /\ Request(a) /\ f \in Files
  /\ symtab' = f /\ file' = f
  /\ memory' = <<>> /\ phase' = "libc" /\ place' = 1 /\ next' = LibcEnd
  /\ UNCHANGED <<textEnd, libcTextStart, libcTextEnd, pc, breaklist>>

Segment(f, s, a) ==
  LET k == Extract(AnImage(f), s) IN
  [lib |-> f = NoFile, name |-> s, start |-> a,
   size |-> AnImage(f).headers[k].size, from |-> AnImage(f).headers[k].name]

(* A section with no symbol is not loaded. *)
Skip(f) ==
  /\ place <= 4 /\ ~IsInSymbols(Sections[place], AnImage(f).syms)
  /\ place' = place + 1
  /\ UNCHANGED <<next, memory>>

(* Below the section before it: the size is known before the address. *)
PlaceLibc ==
  /\ place <= 4 /\ IsInSymbols(Sections[place], Libc.syms)
  /\ LET s == Segment(NoFile, Sections[place], 0) IN
       /\ next' = next - Pages(s.size)
       /\ memory' = Append(memory, [s EXCEPT !.start = next'])
  /\ place' = place + 1

LoadLibc ==
  /\ phase = "libc"
  /\ Skip(NoFile) \/ PlaceLibc
  /\ UNCHANGED <<phase, file, symtab, bounds, pc, breaklist>>

LibcDone ==
  /\ phase = "libc" /\ place = 5
  /\ phase' = "program" /\ place' = 1 /\ next' = textStart
  /\ UNCHANGED <<file, memory, symtab, bounds, pc, breaklist>>

PlaceProgram ==
  /\ place <= 4 /\ IsInSymbols(Sections[place], Images[file].syms)
  /\ LET s == Segment(file, Sections[place], Address(next)) IN
       /\ memory' = Append(memory, s)
       /\ next' = next + Pages(s.size)
  /\ place' = place + 1

LoadProgram ==
  /\ phase = "program"
  /\ Skip(file) \/ PlaceProgram
  /\ UNCHANGED <<phase, file, symtab, bounds, pc, breaklist>>

(* Mutant: the segments of the libc keep the names of its sections. *)
CalledEither(lib, s) == {i \in DOMAIN memory : memory[i].name = s}

(* The segments that carry a name, of which the last one gives the bounds. *)
Called(lib, s) == {i \in DOMAIN memory : memory[i].lib = lib /\ memory[i].name = s}

Low(lib, old) ==
  IF Called(lib, "text") = {} THEN old
  ELSE memory[CHOOSE i \in Called(lib, "text") : \A j \in Called(lib, "text") : j <= i].start

High(lib, old) ==
  IF Called(lib, "text") = {} THEN old
  ELSE LET i == CHOOSE k \in Called(lib, "text") : \A j \in Called(lib, "text") : j <= k
       IN memory[i].start + memory[i].size

(* The bounds of the text, then initprog. *)
Finish ==
  /\ phase = "program" /\ place = 5
  /\ textStart' = Low(FALSE, textStart) /\ textEnd' = High(FALSE, textEnd)
  /\ libcTextStart' = Low(TRUE, libcTextStart) /\ libcTextEnd' = High(TRUE, libcTextEnd)
  /\ pc' = Low(FALSE, 0)
  /\ phase' = "prompt"
  /\ UNCHANGED <<file, place, next, memory, symtab, breaklist>>

InText(a) == a \in textStart .. textEnd - 1 \/ a \in libcTextStart .. libcTextEnd - 1

BreakAdd(a) ==
  /\ phase = "prompt" /\ memory # <<>>
  /\ InText(a - (a % 4))
  /\ breaklist' = breaklist \cup {a - (a % 4)}
  /\ UNCHANGED <<phase, file, place, next, memory, symtab, bounds, pc>>

Next ==
  \/ \E a \in Addrs \cup {Default}, f \in Files \cup Unreadable : Refuse(f, a) \/ Open(f, a)
  \/ LoadLibc \/ LibcDone \/ LoadProgram \/ Finish
  \/ \E a \in Addrs : BreakAdd(a)

Spec == Init /\ [][Next]_vars

-----------------------------------------------------------------------------
(* Addresses are those of the machine, and a segment has a section's name.  *)
SectionNames == {Sections[k] : k \in 1 .. 4}
HeaderNames == UNION {{AnImage(f).headers[i].name : i \in DOMAIN AnImage(f).headers} : f \in Files \cup {NoFile}}
Segments == [lib : BOOLEAN, name : SectionNames, start : Int, size : Nat, from : HeaderNames]

TypeOK ==
  /\ phase \in {"prompt", "libc", "program"}
  /\ file \in Files \cup {NoFile} /\ (phase # "prompt" => file \in Files)
  /\ place \in 1 .. 5 /\ next \in Int
  /\ memory \in Seq(Segments)
  /\ phase # "prompt" => textStart \in 0 .. Space - 1

(* The segments of libc and program never share an address, and none of     *)
(* them reaches the stack, when the program ends below the libc: whatever   *)
(* the sizes, whole pages included, loadELF leaves each its own pages       *)
(* (emul.c, next_segment_start).                                            *)
Apart(s, t) == s.start + s.size <= t.start \/ t.start + t.size <= s.start

Fits == phase \in {"program", "prompt"} =>
          /\ next <= LibcEnd
          /\ \A i \in DOMAIN memory : memory[i].lib => next <= memory[i].start

Disjoint ==
  Fits => /\ \A i, j \in DOMAIN memory : i # j => Apart(memory[i], memory[j])
          /\ \A i \in DOMAIN memory : Apart(memory[i], Stack) /\ Apart(memory[i], Vsyscall)

(* A load that ends has made the bounds, PC and the symbols those of the    *)
(* program it has put in memory (emul.c:533, initprog).                     *)
TextOf(lib, lo, hi) ==
  \E i \in DOMAIN memory :
    /\ memory[i].lib = lib /\ memory[i].name = "text"
    /\ lo = memory[i].start /\ hi = memory[i].start + memory[i].size

BoundsSet ==
  [][Finish => /\ IsInSymbols("text", Images[file].syms) =>
                    TextOf(FALSE, textStart', textEnd') /\ pc' = textStart'
               /\ TextOf(TRUE, libcTextStart', libcTextEnd')
               /\ symtab' = file']_vars

(* define.h: textStart is the start and textEnd the end of the text of the  *)
(* program in memory.  A load that is refused has already moved textStart.  *)
BoundsMatch ==
  phase = "prompt" /\ memory # <<>> => TextOf(FALSE, textStart, textEnd)

(* user_int.c, break: an address outside the text cannot be a breakpoint.   *)
(* A load keeps the breakpoints of the program it replaces.                 *)
BreaksInText == phase = "prompt" => \A a \in breaklist : InText(a)

(* elf.c: extracts the content of a section using its section name.  The    *)
(* names are compared on the length of the one asked for.                   *)
SectionContent == \A i \in DOMAIN memory : memory[i].from = memory[i].name
=============================================================================
