------------------------------- MODULE Disasm -------------------------------
(***************************************************************************)
(* disasm (disasm.c): the instructions of a range of addresses, each with    *)
(* the label of its address and, for a branch or a jump, of its destination. *)
(* Addresses outside the two texts are passed over.                          *)
(***************************************************************************)
EXTENDS Integers, Sequences, FiniteSets

CONSTANTS
  Addresses,    (* number of addresses                                         *)
  Programs,     (* [segs, syms, libc, code, textStart, textEnd]: the segments  *)
                (* [name, start, size], the two symbol tables [name, section,  *)
                (* scn, value], the instruction at each aligned address of a   *)
                (* text, and the globals of the loader                         *)
  Ranges,       (* the ranges asked for: [from, size]                          *)
  NoLabel, Nothing

Word == 4

-----------------------------------------------------------------------------
(* What is assumed of the programs: their segments are apart and each has a   *)
(* name of its own, as loadELF leaves them (LoadingProofs); the table of a    *)
(* text that is loaded has its section once, and the globals are its bounds,  *)
(* or a later load that was refused has emptied the table and moved them      *)
(* (emul.c:409-435); decode knows every instruction.                          *)

Segment == [name : STRING, start : Nat, size : Nat]
Extent(s) == s.start .. s.start + s.size - 1
Apart(segs) ==
  \A j, k \in DOMAIN segs :
    j # k => \/ segs[j].start + segs[j].size <= segs[k].start
             \/ segs[k].start + segs[k].size <= segs[j].start
OneNamed(segs) == \A j, k \in DOMAIN segs : segs[j].name = segs[k].name => j = k
Named(segs, name) == \E k \in DOMAIN segs : segs[k].name = name

SectionOf(table) == { k \in DOMAIN table : table[k].name = ".text" }
SectionOnce(table) ==
  DOMAIN table \subseteq Nat /\ \E k \in SectionOf(table) : SectionOf(table) = {k}

Kinds == {"plain", "branch3", "branch2", "jump", "invalid"}
Known(ins) ==
  /\ ins.kind \in Kinds
  /\ ins.kind \in {"branch2", "branch3"} => ins.offset \in Int
  /\ ins.kind = "jump" => ins.target \in Int

BoundsOfText(p) ==
  \E k \in DOMAIN p.segs : /\ p.segs[k].name = ".text" /\ p.textStart = p.segs[k].start
                           /\ p.textEnd = p.segs[k].start + p.segs[k].size

Loaded(p) ==
  /\ p.segs \in Seq(Segment) /\ Apart(p.segs) /\ OneNamed(p.segs)
  /\ p.textStart \in 0 .. Addresses - 1 /\ p.textEnd \in 0 .. Addresses - 1
  /\ Named(p.segs, ".text") => p.syms = <<>> \/ (SectionOnce(p.syms) /\ BoundsOfText(p))
  /\ Named(p.segs, "libc.text") => SectionOnce(p.libc)
  /\ \A k \in DOMAIN p.segs : p.segs[k].name \in {".text", "libc.text"} =>
       \A a \in Extent(p.segs[k]) : (a - p.segs[k].start) % Word = 0 => Known(p.code[a])

DisasmAssumption ==
  /\ Addresses \in Nat \ {0} /\ Addresses % Word = 0
  /\ \A p \in Programs : Loaded(p)
  /\ \A r \in Ranges : r.from \in 0 .. Addresses - 1 /\ r.size \in 0 .. Addresses - 1

-----------------------------------------------------------------------------
VARIABLES
  program, breaklist, pc,
  start, size,          (* the range                                        *)
  i,                    (* bytes of it done                                 *)
  text_ident, libctext_ident,
  displayed,            (* the line displayed last, Nothing for none        *)
  ended                 (* what disasm returned, 1 while it runs            *)

dvars == <<program, breaklist, pc, start, size, i, text_ident, libctext_ident, displayed, ended>>

Segs == program.segs
SegmentAt(a) ==
  LET s == { k \in DOMAIN Segs : a >= Segs[k].start /\ a - Segs[k].start < Segs[k].size }
  IN IF s = {} THEN 0 ELSE CHOOSE k \in s : \A j \in s : k <= j

At(a, name) == SegmentAt(a) # 0 /\ Segs[SegmentAt(a)].name = name
Base(a) == Segs[SegmentAt(a)].start
TextStart(name) ==
  LET s == { k \in DOMAIN Segs : Segs[k].name = name }
  IN IF s = {} THEN 0 ELSE Segs[CHOOSE k \in s : TRUE].start

(* The index of the section .text of a table; a variable that is not set      *)
(* when the table has no symbol for it may hold any index.                    *)
Ident(table) ==
  LET y == { k \in DOMAIN table : table[k].name = ".text" }
  IN IF y = {} THEN 0 .. 3 ELSE { table[CHOOSE k \in y : \A j \in y : k <= j].scn }

Asked(from, n) ==
  /\ program \in Programs
  /\ breaklist \in { {}, { TextStart(".text") + Word } } /\ pc = TextStart(".text")
  /\ start = from /\ size = n
  /\ i = 0 /\ displayed = Nothing /\ ended = 1
  /\ text_ident \in Ident(program.syms) /\ libctext_ident \in Ident(program.libc)

Init == \E r \in Ranges : Asked(r.from, r.size)

-----------------------------------------------------------------------------
(* Both counts are of 32 bits. *)
Here == (start + i) % Addresses
Advance4 == i' = (i + Word) % Addresses

(* A word read across two instructions is one more instruction or none; one   *)
(* that the segment does not hold whole is read as -1, which is none.         *)
Instructions ==
  IF Here + 3 >= Base(Here) + Segs[SegmentAt(Here)].size THEN { [kind |-> "invalid"] }
  ELSE IF (Here - Base(Here)) % Word = 0 THEN { program.code[Here] }
  ELSE { [kind |-> "invalid"], [kind |-> "plain"] }

(* The first symbol of a table at an offset of its text, other than a section. *)
Symbol(table, ident, offset) ==
  LET y == { k \in DOMAIN table :
               table[k].value = offset /\ ~table[k].section /\ table[k].scn = ident }
  IN IF y = {} THEN NoLabel ELSE table[CHOOSE k \in y : \A j \in y : k <= j].name

LineLabel ==
  IF At(Here, ".text") THEN Symbol(program.syms, text_ident, Here - Base(Here))
  ELSE Symbol(program.libc, libctext_ident, Here - Base(Here))

(* Mutant: the destination is counted from the branch itself. *)
BranchLabelSelf(ins, ident) ==
  LET to == Here + (Word * ins.offset) - Base(Here) IN
  IF At(Here, ".text") THEN Symbol(program.syms, text_ident, to)
  ELSE Symbol(program.libc, ident, to)

(* The branches with three arguments compare with libctext_ident in the libc, *)
(* those with two with text_ident.                                            *)
BranchLabel(ins, ident) ==
  LET to == Here + Word + (Word * ins.offset) - Base(Here) IN
  IF At(Here, ".text") THEN Symbol(program.syms, text_ident, to)
  ELSE Symbol(program.libc, ident, to)

(* A jump of the program is looked for in the program, from the global        *)
(* textStart, one of the libc in the libc, among the symbols of section       *)
(* text_ident.                                                                *)
JumpLabel(ins) ==
  IF At(Here, ".text")
  THEN Symbol(program.syms, text_ident, ins.target - program.textStart)
  ELSE Symbol(program.libc, text_ident, ins.target - TextStart("libc.text"))

Destination(ins) ==
  CASE ins.kind = "branch3" -> BranchLabel(ins, libctext_ident)
    [] ins.kind = "branch2" -> BranchLabel(ins, text_ident)
    [] ins.kind = "jump" -> JumpLabel(ins)
    [] OTHER -> NoLabel

Line(ins) ==
  [addr |-> Here, ins |-> ins, label |-> LineLabel, to |-> Destination(ins),
   break |-> Here \in breaklist, current |-> Here = pc]

InText == At(Here, ".text") \/ At(Here, "libc.text")

Pass ==
  /\ ended = 1 /\ i < size /\ ~InText
  /\ Advance4
  /\ UNCHANGED <<program, breaklist, pc, start, size, text_ident, libctext_ident, displayed, ended>>

Show ==
  /\ ended = 1 /\ i < size /\ InText
  /\ \E ins \in Instructions :
       /\ ins.kind # "invalid"
       /\ displayed' = Line(ins)
  /\ Advance4
  /\ UNCHANGED <<program, breaklist, pc, start, size, text_ident, libctext_ident, ended>>

(* An invalid instruction, or one whose arguments are not among those that    *)
(* are displayed, ends the display there.                                     *)
Invalid ==
  /\ ended = 1 /\ i < size /\ InText
  /\ \E ins \in Instructions : ins.kind = "invalid"
  /\ ended' = -1
  /\ UNCHANGED <<program, breaklist, pc, start, size, i, text_ident, libctext_ident, displayed>>

(* Mutant: the last instruction of the range is left out. *)
ReturnEarly ==
  /\ ended = 1 /\ i + Word >= size
  /\ ended' = 0
  /\ UNCHANGED <<program, breaklist, pc, start, size, i, text_ident, libctext_ident, displayed>>

Return ==
  /\ ended = 1 /\ i >= size
  /\ ended' = 0
  /\ UNCHANGED <<program, breaklist, pc, start, size, i, text_ident, libctext_ident, displayed>>

Next == Pass \/ Show \/ Invalid \/ Return

Spec == Init /\ [][Next]_dvars

-----------------------------------------------------------------------------
(* PROPERTIES *)

(* What stands at an address of a text: the first symbol of its own table that *)
(* is defined there, in the section loaded as that text.                       *)
Standing(table, a) ==
  LET y == { k \in DOMAIN table : /\ \E j \in SectionOf(table) : table[k].scn = table[j].scn
                                  /\ ~table[k].section /\ table[k].value = a - Base(a) }
  IN IF y = {} THEN NoLabel ELSE table[CHOOSE k \in y : \A j \in y : k <= j].name
TableOf(a) == IF At(a, ".text") THEN program.syms ELSE program.libc
Dest(s) == IF s.ins.kind = "jump" THEN s.ins.target
           ELSE s.addr + Word + (Word * s.ins.offset)

(* The label before an instruction is the symbol at its address, in the        *)
(* program or in the libc; a branch or a jump inside the program shows the     *)
(* symbol it goes to (disasm.c:86-100, 246, 320).                              *)
LabelsRight ==
  displayed # Nothing =>
    /\ displayed.label = Standing(TableOf(displayed.addr), displayed.addr)
    /\ displayed.ins.kind # "plain" /\ At(displayed.addr, ".text") /\ At(Dest(displayed), ".text") =>
         displayed.to = Standing(program.syms, Dest(displayed))

(* A range that does not go round the top of the addresses is displayed whole, *)
(* an instruction at a time and none twice, or the command fails               *)
(* (disasm.c:38).                                                              *)
BelowTop == start + size + Word <= Addresses
WholeRange ==
  [][BelowTop =>
     /\ displayed' # displayed =>
          /\ displayed'.addr = start + i
          /\ displayed # Nothing => displayed.addr < displayed'.addr
             /\ \A a \in displayed.addr + 1 .. displayed'.addr - 1 :
                  (a - start) % Word = 0 => ~(At(a, ".text") \/ At(a, "libc.text"))
     /\ ended' = 0 =>
          \A a \in start .. start + size - 1 :
            (a - start) % Word = 0 /\ (At(a, ".text") \/ At(a, "libc.text")) =>
              displayed # Nothing /\ displayed.addr >= a]_dvars

(* "affichage des etiquettes dans la libc" (disasm.c:324): a branch or a jump  *)
(* inside the libc shows the symbol of the libc it goes to.                    *)
LibcLabels ==
  displayed # Nothing /\ displayed.ins.kind # "plain" /\ TextStart(".text") # 0
    /\ At(displayed.addr, "libc.text") /\ At(Dest(displayed), "libc.text") =>
      displayed.to = Standing(program.libc, Dest(displayed))

(* "disasm fail unaligned" (Tests/test/disasm/09-disasm.emu): a range that is  *)
(* not aligned is refused.                                                     *)
UnalignedFails == start % Word # 0 /\ displayed # Nothing => ended # 0
=============================================================================
