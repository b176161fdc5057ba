---------------------------- MODULE PanelsProofs ----------------------------
(***************************************************************************)
(* What disasm and the program panel show, for every program that the       *)
(* loader can leave in memory, every range and every set of breakpoints:    *)
(* the labels are those of the symbols that stand there, the range is shown *)
(* whole, and the panel has every instruction of the text.  The invariants  *)
(* say what the lines shown so far are, up to the address start + i.        *)
(***************************************************************************)
EXTENDS Panels, SequenceTheorems, TLAPS

Holds(s, a) == a >= s.start /\ a - s.start < s.size

-----------------------------------------------------------------------------
(* The segment of an address. *)

(* At most one segment holds an address, and SegmentAt finds it. *)
LEMMA SegmentIs ==
  ASSUME Loaded(program), NEW a \in Int
  PROVE  /\ SegmentAt(a) # 0 => SegmentAt(a) \in DOMAIN Segs /\ Holds(Segs[SegmentAt(a)], a)
         /\ \A k \in DOMAIN Segs : Holds(Segs[k], a) => SegmentAt(a) = k /\ SegmentAt(a) # 0
<1> DEFINE H == { k \in DOMAIN Segs : Holds(Segs[k], a) }
<1>1. Segs \in Seq(Segment) /\ Apart(Segs)
  BY DEF Loaded, Segs
<1>2. DOMAIN Segs = 1 .. Len(Segs) /\ Len(Segs) \in Nat
  BY <1>1
<1>3. \A k \in DOMAIN Segs : Segs[k].start \in Nat /\ Segs[k].size \in Nat
  <2>1. \A k \in DOMAIN Segs : Segs[k] \in Segment
    BY <1>1, <1>2, ElementOfSeq
  <2> QED
    BY <2>1 DEF Segment
<1>4. ASSUME NEW k \in H PROVE H = {k}
  <2>1. \A j \in H : j = k
    <3> SUFFICES ASSUME NEW j \in H, j # k PROVE FALSE
      OBVIOUS
    <3>1. j \in DOMAIN Segs /\ k \in DOMAIN Segs
      BY <1>4
    <3>2. \/ Segs[j].start + Segs[j].size <= Segs[k].start
          \/ Segs[k].start + Segs[k].size <= Segs[j].start
      BY <1>1, <3>1 DEF Apart
    <3>3. Holds(Segs[j], a) /\ Holds(Segs[k], a)
      BY <1>4
    <3> QED
      BY <1>3, <3>1, <3>2, <3>3 DEF Holds
  <2> QED
    BY <1>4, <2>1
<1>5. PICK s : s = H
  OBVIOUS
<1>6. SegmentAt(a) = IF s = {} THEN 0 ELSE CHOOSE k \in s : \A j \in s : k <= j
  BY <1>5 DEF SegmentAt, Holds
<1>7. ASSUME NEW k \in s PROVE SegmentAt(a) = k
  <2>1. s = {k} /\ k <= k
    BY <1>2, <1>4, <1>5, <1>7
  <2>2. PICK c : c = CHOOSE n \in s : \A j \in s : n <= j
    OBVIOUS
  <2>3. c \in s
    BY <2>1, <2>2, Zenon
  <2> QED
    BY <1>6, <2>1, <2>2, <2>3
<1>8. SegmentAt(a) # 0 => SegmentAt(a) \in s
  BY <1>6, <1>7
<1> QED
  BY <1>2, <1>5, <1>7, <1>8

LEMMA HeldIsExtent ==
  ASSUME Loaded(program), NEW k \in DOMAIN Segs, NEW a \in Int
  PROVE  Holds(Segs[k], a) <=> a \in Extent(Segs[k])
<1>1. Segs[k] \in Segment
  BY ElementOfSeq DEF Loaded, Segs
<1>2. Segs[k].start \in Nat /\ Segs[k].size \in Nat
  BY <1>1 DEF Segment
<1> QED
  BY <1>2 DEF Holds, Extent

LEMMA AtName ==
  ASSUME Loaded(program), NEW a \in Int, NEW n, At(a, n)
  PROVE  /\ SegmentAt(a) \in DOMAIN Segs /\ Segs[SegmentAt(a)].name = n
         /\ Holds(Segs[SegmentAt(a)], a) /\ Named(Segs, n)
  BY SegmentIs DEF At, Named

LEMMA BaseTyped ==
  ASSUME Loaded(program), NEW a \in Int, NEW n, At(a, n)
  PROVE  Base(a) \in Int
<1>1. Segs \in Seq(Segment) /\ SegmentAt(a) \in DOMAIN Segs
  BY AtName DEF Loaded, Segs
<1>2. Segs[SegmentAt(a)] \in Segment
  BY <1>1, ElementOfSeq
<1> QED
  BY <1>2 DEF Segment, Base

(* Addresses of one text count from the same start, so that the offset of a  *)
(* branch's destination can be taken from that of the branch.                *)
LEMMA SameBase ==
  ASSUME Loaded(program), NEW a \in Int, NEW b \in Int, NEW n, At(a, n), At(b, n)
  PROVE  Base(a) = Base(b)
<1>1. SegmentAt(a) = SegmentAt(b)
  BY AtName DEF Loaded, OneNamed, Segs
<1> QED
  BY <1>1 DEF Base

(* The globals of the loader, when they are those of the text.               *)
LEMMA BoundIsBase ==
  ASSUME Loaded(program), BoundsOfText(program), NEW a \in Int, At(a, ".text")
  PROVE  program.textStart = Base(a)
<1>1. PICK k \in DOMAIN Segs : Segs[k].name = ".text" /\ program.textStart = Segs[k].start
  BY DEF BoundsOfText, Segs
<1>2. SegmentAt(a) = k
  BY <1>1, AtName DEF Loaded, OneNamed, Segs
<1> QED
  BY <1>1, <1>2 DEF Base

-----------------------------------------------------------------------------
(* Labels. *)

LEMMA SectionIs ==
  ASSUME NEW table, SectionOnce(table), NEW ident \in Ident(table)
  PROVE  \A n : (\E j \in SectionOf(table) : n = table[j].scn) <=> n = ident
<1>1. PICK k \in SectionOf(table) : SectionOf(table) = {k} /\ k <= k
  BY DEF SectionOnce, SectionOf
<1>2. PICK y : y = SectionOf(table)
  OBVIOUS
<1>3. PICK c : c = CHOOSE j \in y : \A l \in y : j <= l
  OBVIOUS
<1>4. c = k
  BY <1>1, <1>2, <1>3, Zenon
<1>5. ident = table[c].scn
  BY <1>1, <1>2, <1>3 DEF Ident, SectionOf
<1> QED
  BY <1>1, <1>4, <1>5

(* Looking the offset of an address up gives what stands there. *)
LEMMA SymbolStands ==
  ASSUME NEW table, SectionOnce(table), NEW ident \in Ident(table), NEW a
  PROVE  Symbol(table, ident, a - Base(a)) = Standing(table, a)
<1> DEFINE y == { k \in DOMAIN table : /\ \E j \in SectionOf(table) : table[k].scn = table[j].scn
                                       /\ ~table[k].section /\ table[k].value = a - Base(a) }
           z == { k \in DOMAIN table :
                    table[k].value = a - Base(a) /\ ~table[k].section /\ table[k].scn = ident }
<1>1. Standing(table, a) = IF y = {} THEN NoLabel ELSE table[CHOOSE k \in y : \A j \in y : k <= j].name
  BY Zenon DEF Standing
<1>2. Symbol(table, ident, a - Base(a)) =
        IF z = {} THEN NoLabel ELSE table[CHOOSE k \in z : \A j \in z : k <= j].name
  BY Zenon DEF Symbol
<1>3. y = z
  <2>1. \A n : (\E j \in SectionOf(table) : n = table[j].scn) <=> n = ident
    BY SectionIs
  <2>2. PICK S : S = SectionOf(table)
    OBVIOUS
  <2>3. \A n : (\E j \in S : n = table[j].scn) <=> n = ident
    BY <2>1, <2>2
  <2>4. y = { k \in DOMAIN table : /\ \E j \in S : table[k].scn = table[j].scn
                                  /\ ~table[k].section /\ table[k].value = a - Base(a) }
    BY <2>2
  <2> QED
    BY <2>3, <2>4
<1>4. PICK s : s = y
  OBVIOUS
<1>5. Standing(table, a) = IF s = {} THEN NoLabel ELSE table[CHOOSE k \in s : \A j \in s : k <= j].name
  BY <1>1, <1>4, Zenon
<1>6. Symbol(table, ident, a - Base(a)) =
        IF s = {} THEN NoLabel ELSE table[CHOOSE k \in s : \A j \in s : k <= j].name
  BY <1>2, <1>3, <1>4, Zenon
<1> QED
  BY <1>5, <1>6, Zenon

(* Nothing stands anywhere in a table that a refused load has emptied. *)
LEMMA NothingStands ==
  ASSUME NEW ident, NEW offset, NEW a
  PROVE  Symbol(<<>>, ident, offset) = NoLabel /\ Standing(<<>>, a) = NoLabel
<1>1. DOMAIN <<>> = {}
  OBVIOUS
<1> QED
  BY <1>1 DEF Symbol, Standing

(* What a text's own table says stands at an address of it. *)
LEMMA ProgramStands ==
  ASSUME Loaded(program), NEW b \in Int, At(b, ".text"), text_ident \in Ident(program.syms), NEW a
  PROVE  Symbol(program.syms, text_ident, a - Base(a)) = Standing(program.syms, a)
<1>1. program.syms = <<>> \/ SectionOnce(program.syms)
  BY AtName DEF Loaded, Segs
<1>2. CASE program.syms = <<>>
  BY <1>2, NothingStands
<1>3. CASE SectionOnce(program.syms)
  BY <1>3, SymbolStands
<1> QED
  BY <1>1, <1>2, <1>3

(* text_ident and libctext_ident are the sections of the two texts; they and *)
(* the range stay.                                                           *)
Idents ==
  /\ program \in Programs /\ start \in Int /\ size \in Int /\ i \in Int
  /\ text_ident \in Ident(program.syms) /\ libctext_ident \in Ident(program.libc)

(* What is read of the program, as functions of the program itself. *)
SegmentIn(p, a) ==
  LET s == { k \in DOMAIN p.segs : a >= p.segs[k].start /\ a - p.segs[k].start < p.segs[k].size }
  IN  IF s = {} THEN 0 ELSE CHOOSE k \in s : \A j \in s : k <= j

StandingIn(table, a, base) ==
  LET y == { k \in DOMAIN table : /\ \E j \in SectionOf(table) : table[k].scn = table[j].scn
                                  /\ ~table[k].section /\ table[k].value = a - base }
  IN IF y = {} THEN NoLabel ELSE table[CHOOSE k \in y : \A j \in y : k <= j].name

(* What is read of a program that stays the same stays the same. *)
LEMMA SameText ==
  ASSUME program' = program
  PROVE  /\ \A a : \A n : At(a, n)' = At(a, n)
         /\ \A a : SegmentAt(a)' = SegmentAt(a) /\ Base(a)' = Base(a) /\ TableOf(a)' = TableOf(a)
         /\ \A table : \A a : Standing(table, a)' = Standing(table, a)
         /\ program.syms' = program.syms
<1>1. \A a : SegmentAt(a)' = SegmentAt(a)
  <2>1. \A a : SegmentAt(a) = SegmentIn(program, a)
    BY Zenon DEF SegmentAt, SegmentIn, Segs
  <2>2. \A a : SegmentAt(a)' = SegmentIn(program', a)
    BY Zenon DEF SegmentAt, SegmentIn, Segs
  <2> QED
    BY <2>1, <2>2, Zenon
<1>2. \A a : \A n : At(a, n)' = At(a, n)
  BY <1>1, Zenon DEF At, Segs
<1>3. \A a : Base(a)' = Base(a)
  BY <1>1, Zenon DEF Base, Segs
<1>4. \A a : TableOf(a)' = TableOf(a)
  BY <1>2, Zenon DEF TableOf
<1>5. \A table : \A a : Standing(table, a)' = Standing(table, a)
  <2>1. \A table : \A a : Standing(table, a) = StandingIn(table, a, Base(a))
    BY Zenon DEF Standing, StandingIn
  <2>2. \A table : \A a : Standing(table, a)' = StandingIn(table, a, Base(a)')
    BY Zenon DEF Standing, StandingIn
  <2> QED
    BY <1>3, <2>1, <2>2, Zenon
<1> QED
  BY <1>1, <1>2, <1>3, <1>4, <1>5

LEMMA BranchIs ==
  ASSUME NEW ins, NEW ident, At(Here, ".text")
  PROVE  BranchLabel(ins, ident)
           = Symbol(program.syms, text_ident, Here + Word + (Word * ins.offset) - Base(Here))
  BY DEF BranchLabel

LEMMA InstructionKnown ==
  ASSUME Loaded(program), Here \in Int, InText, NEW ins \in Instructions
  PROVE  Known(ins)
<1>1. SegmentAt(Here) \in DOMAIN Segs /\ Segs[SegmentAt(Here)].name \in {".text", "libc.text"}
      /\ Holds(Segs[SegmentAt(Here)], Here)
  BY AtName DEF InText
<1>2. (Here - Base(Here)) % Word = 0 => Known(program.code[Here])
  BY HeldIsExtent, <1>1 DEF Loaded, Segs, Base
<1>3. \/ ins = [kind |-> "invalid"] \/ ins = [kind |-> "plain"]
      \/ ins = program.code[Here] /\ (Here - Base(Here)) % Word = 0
  BY DEF Instructions
<1>4. CASE ins = [kind |-> "invalid"]
  BY <1>4 DEF Known, Kinds
<1>5. CASE ins = [kind |-> "plain"]
  BY <1>5 DEF Known, Kinds
<1> QED
  BY <1>2, <1>3, <1>4, <1>5

(* A line that is shown has the right labels. *)
LEMMA LinesRight ==
  ASSUME DisasmAssumption, Idents, Show
  PROVE  LabelsRight'
<1>1. Loaded(program) /\ Here \in Int
  BY DEF DisasmAssumption, Idents, Here
<1>2. PICK ins \in Instructions : ins.kind # "invalid" /\ displayed' = Line(ins)
  BY DEF Show
<1>3. /\ displayed'.addr = Here /\ displayed'.ins = ins /\ displayed'.label = LineLabel
      /\ displayed'.to = Destination(ins)
  BY <1>2 DEF Line
<1>4. UNCHANGED <<program, start, text_ident, libctext_ident>>
  BY DEF Show
<1>6. LineLabel = Standing(TableOf(Here), Here)
  <2>1. CASE At(Here, ".text")
    BY <1>1, <2>1, ProgramStands DEF LineLabel, TableOf, Idents
  <2>2. CASE ~At(Here, ".text")
    <3>1. SectionOnce(program.libc)
      BY <1>1, <2>2, AtName DEF Loaded, Segs, Show, InText
    <3> QED
      BY <2>2, <3>1, SymbolStands DEF LineLabel, TableOf, Idents
  <2> QED
    BY <2>1, <2>2
<1>5. Known(ins)
  BY <1>1, <1>2, InstructionKnown DEF Show
<1>7. Dest(displayed)' = Dest(displayed')
  BY DEF Dest
<1>8. ASSUME ins.kind # "plain", At(Here, ".text"), At(Dest(displayed'), ".text")
      PROVE  Destination(ins) = Standing(program.syms, Dest(displayed'))
  <2>4. Dest(displayed') \in Int
    BY <1>1, <1>2, <1>3, <1>5, <1>8 DEF Dest, Known, Kinds, Word
  <2>2. CASE ins.kind = "jump"
    <3>1. Destination(ins) = Symbol(program.syms, text_ident, ins.target - program.textStart)
      BY <1>8, <2>2 DEF Destination, JumpLabel
    <3>2. Dest(displayed') = ins.target
      BY <1>3, <2>2 DEF Dest
    <3>3. program.syms = <<>> \/ BoundsOfText(program)
      BY <1>1, <1>8, AtName DEF Loaded, Segs
    <3>4. CASE program.syms = <<>>
      BY <3>1, <3>4, NothingStands
    <3>5. CASE BoundsOfText(program)
      <4>1. program.textStart = Base(ins.target)
        BY <1>1, <1>8, <2>4, <3>2, <3>5, BoundIsBase
      <4> QED
        BY <1>1, <1>8, <2>4, <3>1, <3>2, <4>1, ProgramStands DEF Idents
    <3> QED
      BY <3>3, <3>4, <3>5
  <2>3. CASE ins.kind \in {"branch2", "branch3"}
    <3> DEFINE dest == Here + Word + (Word * ins.offset)
    <3>1. Destination(ins) = Symbol(program.syms, text_ident, dest - Base(Here))
      <4> DEFINE off == Here + Word + (Word * ins.offset) - Base(Here)
      <4>1. /\ BranchLabel(ins, text_ident) = Symbol(program.syms, text_ident, off)
            /\ BranchLabel(ins, libctext_ident) = Symbol(program.syms, text_ident, off)
        BY <1>8, BranchIs, Zenon
      <4>2. off = dest - Base(Here)
        <5>1. Base(Here) \in Int
          BY <1>1, <1>8, BaseTyped
        <5>2. ins.offset \in Int
          BY <1>5, <2>3 DEF Known
        <5> QED
          BY <1>1, <5>1, <5>2 DEF Word
      <4> HIDE DEF off, dest
      <4> QED
        BY <2>3, <4>1, <4>2 DEF Destination
    <3>2. Dest(displayed') = dest
      BY <1>3, <2>3 DEF Dest
    <3>3. Base(Here) = Base(dest)
      BY <1>1, <1>8, <2>4, <3>2, SameBase
    <3> QED
      BY <1>1, <1>8, <2>4, <3>1, <3>2, <3>3, ProgramStands DEF Idents
  <2> QED
    BY <1>2, <1>5, <1>8, <2>2, <2>3 DEF Known, Kinds
<1>9. PICK l : l = displayed'
  OBVIOUS
<1>10. l.label = Standing(TableOf(l.addr), l.addr)
  BY <1>3, <1>6, <1>9
<1>11. l.ins.kind # "plain" /\ At(l.addr, ".text") /\ At(Dest(l), ".text") =>
         l.to = Standing(program.syms, Dest(l))
  BY <1>3, <1>8, <1>9
<1> QED
  BY <1>4, <1>9, <1>10, <1>11, SameText DEF LabelsRight

(* LabelsRight, for every program, range and set of breakpoints: the label of *)
(* a line is the symbol that stands there, and a branch or a jump inside the  *)
(* program shows the symbol it goes to.                                      *)
THEOREM LinesLabelled ==
  ASSUME DisasmAssumption
  PROVE  Spec => []LabelsRight
<1>1. Init => Idents /\ LabelsRight
  <2> SUFFICES ASSUME Init PROVE Idents /\ LabelsRight
    OBVIOUS
  <2>1. Idents
    BY DEF Init, Asked, DisasmAssumption, Idents
  <2> QED
    BY <2>1 DEF Init, Asked, LabelsRight
<1>2. Idents /\ LabelsRight /\ [Next]_dvars => Idents' /\ LabelsRight'
  <2> SUFFICES ASSUME Idents, LabelsRight, [Next]_dvars PROVE Idents' /\ LabelsRight'
    OBVIOUS
  <2>1. UNCHANGED <<program, start, size, text_ident, libctext_ident>> /\ (i' = i \/ Advance4)
    BY DEF Next, Pass, Show, Invalid, Return, dvars
  <2>2. Idents'
    BY <2>1 DEF Idents, Word, Ident, Advance4, DisasmAssumption
  <2>3. LabelsRight'
    <3>1. CASE Show
      BY <3>1, LinesRight
    <3>2. CASE ~Show
      <4>1. displayed' = displayed
        BY <3>2 DEF Next, Pass, Invalid, Return, dvars
      <4> QED
        BY <2>1, <4>1, SameText DEF LabelsRight, Dest
    <3> QED
      BY <3>1, <3>2
  <2> QED
    BY <2>2, <2>3
<1> QED
  BY <1>1, <1>2, PTL DEF Spec

-----------------------------------------------------------------------------
(* The range. *)

(* Nothing stands for no line. *)
NoLineIsNothing ==
  \A a, ins, label, to, break, current :
    [addr |-> a, ins |-> ins, label |-> label, to |-> to, break |-> break,
     current |-> current] # Nothing

TextAt(a) == At(a, ".text") \/ At(a, "libc.text")

(* Of a range below the top, what lies before start + i is done: the line     *)
(* shown last is there, and no instruction there comes after it.             *)
Ranged ==
  /\ program \in Programs /\ start \in Nat /\ size \in Nat /\ start + size + Word <= Addresses
  /\ i \in Nat /\ i % Word = 0 /\ i < size + Word

Done ==
  /\ displayed # Nothing => displayed.addr \in start .. Here - 1
  /\ \A a \in start .. Here - 1 :
       (a - start) % Word = 0 /\ TextAt(a) => displayed # Nothing /\ displayed.addr >= a

(* There neither count goes round. *)
LEMMA NotRound ==
  ASSUME DisasmAssumption, Ranged
  PROVE  /\ Here = start + i /\ Here \in Nat
         /\ i < size /\ Advance4 => i' = i + 4
         /\ start' = start /\ i' = i => Here' = Here
         /\ start' = start /\ i < size /\ Advance4 => Here' = Here + 4
<1>1. PICK n \in Nat \ {0} : n = Addresses
  BY DEF DisasmAssumption
<1>2. \A m \in Nat : m < n => m % n = m
  OBVIOUS
<1>3. /\ start \in Nat /\ i \in Nat /\ size \in Nat
      /\ start + size + 4 <= n /\ i < size + 4
  BY <1>1 DEF Ranged, Word
<1>4. Here = start + i
  BY <1>1, <1>2, <1>3 DEF Here
<1>5. ASSUME i < size, Advance4 PROVE i' = i + 4
  BY <1>1, <1>2, <1>3, <1>5 DEF Advance4, Word
<1>6. ASSUME start' = start, i < size, Advance4 PROVE Here' = Here + 4
  <2>1. Here' = (start + (i + 4)) % n
    BY <1>1, <1>5, <1>6 DEF Here
  <2> QED
    BY <1>2, <1>3, <1>4, <1>6, <2>1
<1> QED
  BY <1>3, <1>4, <1>5, <1>6 DEF Here

LEMMA SameTexts ==
  ASSUME program' = program
  PROVE  \A a : TextAt(a)' = TextAt(a)
  BY SameText, Zenon DEF TextAt

LEMMA DoneStep ==
  ASSUME DisasmAssumption, NoLineIsNothing, Ranged, Done, [Next]_dvars
  PROVE  Ranged' /\ Done'
<1>1. UNCHANGED <<program, start, size>> /\ (i' = i \/ (i < size /\ Advance4))
  BY DEF Next, Pass, Show, Invalid, Return, dvars
<1>2. Ranged'
  <2>1. i' = i \/ (i' = i + 4 /\ i < size)
    BY <1>1, NotRound
  <2> QED
    BY <1>1, <2>1 DEF Ranged, Word
<1>3. start \in Int /\ i \in Nat /\ i % 4 = 0 /\ Here \in Int /\ Here = start + i
  BY NotRound DEF Ranged, Word
<1>4. \A a : TextAt(a)' = TextAt(a)
  BY <1>1, SameTexts
<1>5. CASE Pass
  <2>1. displayed' = displayed /\ Here' = Here + 4 /\ ~TextAt(Here)
    BY <1>1, <1>5, NotRound DEF Pass, InText, TextAt
  <2>2. \A a \in start .. Here + 3 : (a - start) % 4 = 0 => a \in start .. Here
    BY <1>3
  <2>3. \A a \in start .. Here + 3 :
          (a - start) % 4 = 0 /\ TextAt(a) => displayed # Nothing /\ displayed.addr >= a
    <3> SUFFICES ASSUME NEW a \in start .. Here + 3, (a - start) % 4 = 0, TextAt(a)
                 PROVE  displayed # Nothing /\ displayed.addr >= a
      OBVIOUS
    <3>1. a # Here
      BY <2>1
    <3>2. a \in start .. Here - 1
      BY <1>3, <2>2, <3>1
    <3> QED
      BY <3>2 DEF Done, Word
  <2>4. displayed # Nothing => displayed.addr \in start .. Here + 3
    BY <1>3 DEF Done
  <2>5. \A a \in start .. Here + 3 :
          (a - start) % 4 = 0 /\ TextAt(a)' => displayed # Nothing /\ displayed.addr >= a
    BY <1>4, <2>3
  <2>6. Here' - 1 = Here + 3
    BY <1>3, <2>1
  <2> QED
    BY <1>1, <1>2, <2>1, <2>4, <2>5, <2>6 DEF Done, Word
<1>6. CASE Show
  <2>1. displayed'.addr = Here /\ displayed' # Nothing /\ Here' = Here + 4
    <3>1. Here' = Here + 4
      BY <1>1, <1>6, NotRound DEF Show
    <3> QED
      BY <1>6, <3>1 DEF Show, Line, NoLineIsNothing
  <2>2. \A a \in start .. Here + 3 : (a - start) % 4 = 0 => Here >= a
    BY <1>3
  <2>3. Here \in start .. Here + 3 /\ Here' - 1 = Here + 3
    BY <1>3, <2>1
  <2> QED
    BY <1>1, <1>2, <1>3, <2>1, <2>2, <2>3 DEF Done, Word
<1>7. CASE displayed' = displayed /\ i' = i
  <2>1. Here' = Here
    BY <1>1, <1>7 DEF Here
  <2> QED
    BY <1>1, <1>2, <1>4, <1>7, <2>1 DEF Done
<1> QED
  BY <1>2, <1>5, <1>6, <1>7 DEF Next, Invalid, Return, dvars

LEMMA RangeStep ==
  ASSUME DisasmAssumption, Ranged, Done, [Next]_dvars, dvars' # dvars
  PROVE  /\ displayed' # displayed =>
              /\ displayed'.addr = start + i
              /\ displayed # Nothing => displayed.addr < displayed'.addr
                 /\ \A a \in displayed.addr + 1 .. displayed'.addr - 1 :
                      (a - start) % Word = 0 => ~(At(a, ".text") \/ At(a, "libc.text"))
         /\ ended' = 0 =>
              \A a \in start .. start + size - 1 :
                (a - start) % Word = 0 /\ (At(a, ".text") \/ At(a, "libc.text")) =>
                  displayed # Nothing /\ displayed.addr >= a
<1>1. start \in Int /\ i \in Nat /\ size \in Int /\ Here \in Int /\ Here = start + i
  BY NotRound DEF Ranged
<1>2. ASSUME displayed' # displayed
      PROVE  displayed'.addr = start + i /\ Show
  BY <1>1, <1>2 DEF Next, Pass, Show, Invalid, Return, dvars, Line
<1>3. ASSUME displayed' # displayed, displayed # Nothing
      PROVE  /\ displayed.addr < displayed'.addr
             /\ \A a \in displayed.addr + 1 .. displayed'.addr - 1 :
                  (a - start) % Word = 0 => ~(At(a, ".text") \/ At(a, "libc.text"))
  <2>1. displayed'.addr = Here /\ displayed.addr \in start .. Here - 1
    BY <1>1, <1>2, <1>3 DEF Done
  <2>2. PICK x \in Int : x = displayed.addr /\ x \in start .. Here - 1
    BY <1>1, <2>1
  <2>3. ASSUME NEW a \in x + 1 .. Here - 1, (a - start) % Word = 0 PROVE ~TextAt(a)
    <3>1. a \in start .. Here - 1 /\ ~(x >= a)
      BY <1>1, <2>2
    <3> QED
      BY <2>2, <2>3, <3>1 DEF Done
  <2> QED
    BY <1>1, <2>1, <2>2, <2>3 DEF TextAt
<1>4. ASSUME ended' = 0
      PROVE  \A a \in start .. start + size - 1 :
               (a - start) % Word = 0 /\ (At(a, ".text") \/ At(a, "libc.text")) =>
                 displayed # Nothing /\ displayed.addr >= a
  <2>1. i >= size
    BY <1>4 DEF Next, Pass, Show, Invalid, Return, dvars
  <2>2. \A a \in start .. start + size - 1 : a \in start .. Here - 1
    BY <1>1, <2>1
  <2> QED
    BY <2>2 DEF Done, TextAt
<1> QED
  BY <1>2, <1>3, <1>4

(* WholeRange, for every range that does not go round the top, aligned or not: *)
(* a step shows the next word that is in a text, and disasm succeeds only when *)
(* it has passed the last.                                                    *)
THEOREM RangesWhole ==
  ASSUME DisasmAssumption, NoLineIsNothing
  PROVE  Spec => WholeRange
<1> DEFINE Shown == BelowTop => Ranged /\ Done
           Step ==
             BelowTop =>
               /\ displayed' # displayed =>
                    /\ displayed'.addr = start + i
                    /\ displayed # Nothing => displayed.addr < displayed'.addr
                       /\ \A a \in displayed.addr + 1 .. displayed'.addr - 1 :
                            (a - start) % Word = 0 => ~(At(a, ".text") \/ At(a, "libc.text"))
               /\ ended' = 0 =>
                    \A a \in start .. start + size - 1 :
                      (a - start) % Word = 0 /\ (At(a, ".text") \/ At(a, "libc.text")) =>
                        displayed # Nothing /\ displayed.addr >= a
<1>1. Init => Shown
  <2> SUFFICES ASSUME Init, BelowTop PROVE Ranged /\ Done
    OBVIOUS
  <2>1. Ranged
    BY DEF Init, Asked, DisasmAssumption, Ranged, BelowTop, Word
  <2>2. Here = start
    BY <2>1, NotRound DEF Init, Asked, Ranged
  <2> QED
    BY <2>1, <2>2 DEF Init, Asked, Done, Ranged
<1>2. Shown /\ [Next]_dvars => Shown'
  <2> SUFFICES ASSUME Shown, [Next]_dvars, BelowTop' PROVE (Ranged /\ Done)'
    OBVIOUS
  <2>1. UNCHANGED <<start, size>>
    BY DEF Next, Pass, Show, Invalid, Return, dvars
  <2>2. BelowTop
    BY <2>1 DEF BelowTop
  <2> QED
    BY <2>2, DoneStep
<1>3. Shown /\ [Next]_dvars => [Step]_dvars
  BY RangeStep
<1> HIDE DEF Step, Shown
<1>4. Spec => [][Step]_dvars
  BY <1>1, <1>2, <1>3, PTL DEF Spec
<1> QED
  BY <1>4 DEF WholeRange, Step

-----------------------------------------------------------------------------
(* The program panel. *)

(* The lines s of the panel are those of the text before the address here. *)
RowAt(l, here) ==
  /\ l.addr \in DOMAIN program.code /\ At(l.addr, ".text") /\ l.addr < here
  /\ l.label = Standing(program.syms, l.addr)
  /\ l.current <=> l.addr = pc
  /\ l.break <=> l.addr \in breaklist

RowsAt(s, here) ==
  /\ Len(s) \in Nat /\ s = [k \in 1 .. Len(s) |-> s[k]]
  /\ \A k \in 1 .. Len(s) : RowAt(s[k], here)
  /\ \A k \in 1 .. Len(s) - 1 : s[k].addr < s[k + 1].addr
  /\ \A a \in DOMAIN program.code : At(a, ".text") /\ a < here =>
       \E k \in 1 .. Len(s) : s[k].addr = a

Written ==
  /\ Ranged /\ Idents /\ BoundsOfText(program)
  /\ start = program.textStart /\ size = program.textEnd - program.textStart + 1
  /\ RowsAt(written, Here)
  /\ ended = 0 => i >= size

(* Primed lines are the lines primed, when the program and its marks stay. *)
LEMMA RowsPrimed ==
  ASSUME UNCHANGED <<program, pc, breaklist>>
  PROVE  RowsAt(written, Here)' <=> RowsAt(written', Here')
<1>1. \A a, n : At(a, n)' = At(a, n)
  BY SameText, Zenon
<1>2. \A a : Standing(program.syms, a)' = Standing(program.syms, a)
  <2>1. \A a : Standing(program.syms, a)' = StandingIn(program'.syms, a, Base(a)')
    BY Zenon DEF Standing, StandingIn
  <2>2. \A a : Standing(program.syms, a) = StandingIn(program.syms, a, Base(a))
    BY Zenon DEF Standing, StandingIn
  <2> QED
    BY <2>1, <2>2, SameText, Zenon
<1>3. program' = program /\ pc' = pc /\ breaklist' = breaklist
  OBVIOUS
<1>4. PICK s : s = written'
  OBVIOUS
<1> QED
  BY <1>1, <1>2, <1>3, <1>4, Zenon DEF RowsAt, RowAt

LEMMA Longer ==
  ASSUME NEW s, Len(s) \in Nat, s = [k \in 1 .. Len(s) |-> s[k]], NEW x
  PROVE  /\ Len(Append(s, x)) = Len(s) + 1
         /\ Append(s, x) = [k \in 1 .. Len(s) + 1 |-> Append(s, x)[k]]
         /\ \A k \in 1 .. Len(s) : Append(s, x)[k] = s[k]
         /\ Append(s, x)[Len(s) + 1] = x
<1> DEFINE S == { s[k] : k \in 1 .. Len(s) } \cup {x}
           n == Len(s)
<1>1. s \in [1 .. n -> S]
  BY Zenon
<1>2. s \in Seq(S) /\ x \in S
  BY <1>1
<1> HIDE DEF S
<1>3. /\ Append(s, x) \in Seq(S) /\ Len(Append(s, x)) = Len(s) + 1
      /\ \A k \in 1 .. Len(s) : Append(s, x)[k] = s[k]
      /\ Append(s, x)[Len(s) + 1] = x
  BY <1>2, AppendProperties
<1>4. Append(s, x) = [k \in 1 .. Len(s) + 1 |-> Append(s, x)[k]]
  <2>1. PICK m, u : m = Len(s) + 1 /\ u = Append(s, x)
    OBVIOUS
  <2>2. u \in [1 .. m -> S]
    BY <1>3, <2>1, LenProperties
  <2>3. u = [k \in 1 .. m |-> u[k]]
    BY <2>2
  <2> QED
    BY <2>1, <2>3, Zenon
<1> QED
  BY <1>3, <1>4

(* When the globals are the bounds of the text, they are those of any segment *)
(* of that name, and the sum that gives the size does not go round.          *)
LEMMA TextSegment ==
  ASSUME Loaded(program), Whole(program), BoundsOfText(program),
         NEW k \in DOMAIN Segs, Segs[k].name = ".text"
  PROVE  /\ program.textStart = Segs[k].start /\ program.textEnd = Segs[k].start + Segs[k].size
         /\ Segs[k].start \in Nat /\ Segs[k].size \in Nat
         /\ Segs[k].start + Segs[k].size + Word < Addresses
<1>1. PICK j \in DOMAIN Segs : /\ Segs[j].name = ".text" /\ program.textStart = Segs[j].start
                               /\ program.textEnd = Segs[j].start + Segs[j].size
  BY DEF BoundsOfText, Segs
<1>2. j = k
  BY <1>1 DEF Loaded, OneNamed, Segs
<1>3. Segs[k] \in Segment
  BY ElementOfSeq DEF Loaded, Segs
<1>4. Segs[k].start \in Nat /\ Segs[k].size \in Nat
  BY <1>3 DEF Segment
<1>5. Segs[k].start + Segs[k].size + Word < Addresses
  BY DEF Whole, InstructionsAlone, Segs
<1> QED
  BY <1>1, <1>2, <1>4, <1>5

(* The panel meets the text and nothing of the libc. *)
LEMMA InThePanel ==
  ASSUME DisasmAssumption, Loaded(program), Whole(program), Written, i < size, InText
  PROVE  At(Here, ".text") /\ Here \in DOMAIN program.code
<1>1. /\ i \in Nat /\ i % 4 = 0 /\ Here = start + i /\ start \in Int
      /\ start = program.textStart /\ size = program.textEnd - program.textStart + 1
  BY NotRound DEF Written, Ranged, Word
<1>2. PICK k \in DOMAIN Segs : Segs[k].name = ".text"
  BY DEF Written, BoundsOfText, Segs
<1>3. /\ start = Segs[k].start /\ size = Segs[k].size + 1
      /\ Segs[k].start \in Nat /\ Segs[k].size \in Nat
  BY <1>1, <1>2, TextSegment DEF Written
<1>4. InstructionsAlone(program, Segs[k]) /\ LibcElsewhere(program, Segs[k].start + Segs[k].size)
  BY <1>2 DEF Whole, Segs
<1>5. i <= Segs[k].size /\ Here \in Int
  BY <1>1, <1>3
<1>6. Here # Segs[k].start + Segs[k].size
  <2> SUFFICES ASSUME Here = Segs[k].start + Segs[k].size PROVE FALSE
    OBVIOUS
  <2>1. ~At(Here, "libc.text")
    BY HeldIsExtent, <1>4, <1>5, AtName DEF LibcElsewhere, Segs
  <2>2. At(Here, ".text")
    BY <2>1 DEF InText
  <2>3. SegmentAt(Here) = k
    BY <1>2, <1>5, <2>2, AtName DEF Loaded, OneNamed, Segs
  <2>4. Holds(Segs[k], Here)
    BY <1>5, <2>2, <2>3, AtName
  <2> QED
    BY <1>3, <2>4 DEF Holds
<1>7. Holds(Segs[k], Here)
  BY <1>1, <1>3, <1>5, <1>6 DEF Holds
<1>8. At(Here, ".text")
  BY <1>2, <1>5, <1>7, SegmentIs DEF At
<1>9. (Here - Segs[k].start) % Word = 0
  BY <1>1, <1>3 DEF Word
<1> QED
  BY HeldIsExtent, <1>4, <1>5, <1>7, <1>8, <1>9 DEF InstructionsAlone, Segs

(* Between two lines lies no other instruction. *)
LEMMA NoneBetween ==
  ASSUME DisasmAssumption, Loaded(program), Whole(program), Written,
         NEW a \in DOMAIN program.code, At(a, ".text"), a < Here + 4, ~(a < Here)
  PROVE  a = Here
<1>1. i \in Nat /\ i % 4 = 0 /\ Here = start + i /\ start = program.textStart /\ start \in Int
  BY NotRound DEF Written, Ranged, Word
<1>2. a \in Int
  BY DEF Whole
<1>3. PICK k : k = SegmentAt(a)
  OBVIOUS
<1>4. k \in DOMAIN Segs /\ Segs[k].name = ".text" /\ Holds(Segs[k], a)
  BY <1>2, <1>3, AtName
<1>5. start = Segs[k].start
  BY <1>1, <1>4, TextSegment DEF Written
<1>6. (a - start) % 4 = 0
  BY HeldIsExtent, <1>2, <1>4, <1>5 DEF Whole, InstructionsAlone, Segs, Word
<1>7. \A x \in start .. Here + 3 : (x - start) % 4 = 0 => x <= Here
  <2>1. \A s \in Int, n \in Nat : n % 4 = 0 =>
          \A x \in s .. s + n + 3 : (x - s) % 4 = 0 => x <= s + n
    OBVIOUS
  <2>2. \A x \in start .. start + i + 3 : (x - start) % 4 = 0 => x <= start + i
    BY <1>1, <2>1
  <2> QED
    BY <1>1, <2>2
<1>8. a \in start .. Here + 3
  BY <1>1, <1>2
<1> QED
  BY <1>1, <1>2, <1>6, <1>7, <1>8

LEMMA PanelLine ==
  ASSUME PanelShow, Loaded(program), Idents, At(Here, ".text"), Here \in Int
  PROVE  \E l : /\ written' = Append(written, l)
                /\ l.addr = Here /\ l.label = Standing(program.syms, Here)
                /\ l.current <=> Here = pc
                /\ l.break <=> Here \in breaklist
<1>1. PICK ins : displayed' = Line(ins)
  BY DEF PanelShow, Show
<1>2. PICK l : l = displayed'
  OBVIOUS
<1>3. l.addr = Here /\ l.label = LineLabel /\ l.current = (Here = pc) /\ l.break = (Here \in breaklist)
  BY <1>1, <1>2 DEF Line
<1>4. LineLabel = Standing(program.syms, Here)
  BY ProgramStands DEF LineLabel, Idents
<1>5. written' = Append(written, l)
  BY <1>2 DEF PanelShow
<1> QED
  BY <1>3, <1>4, <1>5, Zenon

LEMMA RowsLonger ==
  ASSUME DisasmAssumption, Loaded(program), Whole(program), Written, Here \in DOMAIN program.code,
         At(Here, ".text"), NEW l,
         l.addr = Here, l.label = Standing(program.syms, Here),
         l.current <=> Here = pc, l.break <=> Here \in breaklist
  PROVE  RowsAt(Append(written, l), Here + 4)
<1>1. PICK n, s, t : n = Len(written) /\ s = written /\ t = Append(written, l)
  OBVIOUS
<1>2. n \in Nat /\ s = [k \in 1 .. n |-> s[k]] /\ Here \in Int
  BY <1>1 DEF Written, RowsAt, Whole
<1>3. /\ Len(t) = n + 1 /\ t = [k \in 1 .. Len(t) |-> t[k]]
      /\ \A k \in 1 .. n : t[k] = s[k]
      /\ t[n + 1] = l
  BY <1>1, <1>2, Longer
<1>4. \A k \in 1 .. n : RowAt(s[k], Here) /\ s[k].addr \in Int /\ s[k].addr < Here
  BY <1>1 DEF Written, RowsAt, RowAt, Whole
<1>5. \A k \in 1 .. n + 1 : RowAt(t[k], Here + 4)
  <2>1. ASSUME NEW k \in 1 .. n PROVE RowAt(t[k], Here + 4)
    <3>1. PICK r : r = s[k] /\ r = t[k]
      BY <1>3
    <3>2. r.addr < Here + 4 /\ RowAt(r, Here)
      BY <1>2, <1>4, <3>1
    <3>3. RowAt(r, Here + 4)
      BY <3>2, Zenon DEF RowAt
    <3> QED
      BY <3>1, <3>3, Zenon
  <2>2. RowAt(l, Here + 4)
    <3>1. l.addr < Here + 4
      BY <1>2
    <3> QED
      BY <3>1, Zenon DEF RowAt
  <2> QED
    BY <1>2, <1>3, <2>1, <2>2
<1>6. \A k \in 1 .. n : t[k].addr < t[k + 1].addr
  <2>1. \A k \in 1 .. n - 1 : s[k].addr < s[k + 1].addr
    BY <1>1 DEF Written, RowsAt
  <2>2. \A k \in 1 .. n - 1 : t[k].addr < t[k + 1].addr
    <3>1. \A k \in 1 .. n - 1 : k \in 1 .. n /\ k + 1 \in 1 .. n
      BY <1>2
    <3> QED
      BY <1>3, <2>1, <3>1
  <2>3. n \in 1 .. n => t[n].addr < t[n + 1].addr
    BY <1>3, <1>4
  <2> QED
    BY <1>2, <2>2, <2>3
<1>7. \A a \in DOMAIN program.code : At(a, ".text") /\ a < Here + 4 =>
        \E k \in 1 .. n + 1 : t[k].addr = a
  <2> SUFFICES ASSUME NEW a \in DOMAIN program.code, At(a, ".text"), a < Here + 4
               PROVE  \E k \in 1 .. n + 1 : t[k].addr = a
    OBVIOUS
  <2>1. CASE a < Here
    <3>1. PICK k \in 1 .. n : s[k].addr = a
      BY <1>1, <2>1 DEF Written, RowsAt
    <3> QED
      BY <1>2, <1>3, <3>1
  <2>2. CASE ~(a < Here)
    <3>1. a = Here
      BY <2>2, NoneBetween
    <3>2. n + 1 \in 1 .. n + 1
      BY <1>2
    <3> QED
      BY <1>3, <3>1, <3>2
  <2> QED
    BY <2>1, <2>2
<1>8. Len(t) \in Nat /\ Len(t) - 1 = n
  BY <1>2, <1>3
<1> QED
  BY <1>1, <1>3, <1>5, <1>6, <1>7, <1>8 DEF RowsAt

(* The same lines, further on. *)
LEMMA RowsKept ==
  ASSUME DisasmAssumption, Loaded(program), Whole(program), Written, NEW here \in {Here, Here + 4}, Here \in Int,
         here = Here \/ ~At(Here, ".text")
  PROVE  RowsAt(written, here)
<1>1. PICK n, s : n = Len(written) /\ s = written
  OBVIOUS
<1>2. n \in Nat /\ s = [k \in 1 .. n |-> s[k]]
  BY <1>1 DEF Written, RowsAt
<1>3. ASSUME NEW k \in 1 .. n PROVE RowAt(s[k], here)
  <2>1. PICK r : r = s[k]
    OBVIOUS
  <2>2. RowAt(r, Here) /\ r.addr \in Int
    BY <1>1, <1>3, <2>1 DEF Written, RowsAt, RowAt, Whole
  <2>3. r.addr < Here => r.addr < here
    BY <2>2
  <2>4. RowAt(r, here)
    BY <2>2, <2>3, Zenon DEF RowAt
  <2> QED
    BY <2>1, <2>4, Zenon
<1>4. ASSUME NEW a \in DOMAIN program.code, At(a, ".text"), a < here
      PROVE  \E k \in 1 .. n : s[k].addr = a
  <2>1. a < Here
    <3> SUFFICES ASSUME ~(a < Here) PROVE FALSE
      OBVIOUS
    <3>1. a < Here + 4
      BY <1>4 DEF Whole
    <3>2. a = Here
      BY <1>4, <3>1, NoneBetween
    <3> QED
      BY <1>4, <3>2
  <2> QED
    BY <1>1, <1>4, <2>1 DEF Written, RowsAt
<1>5. \A k \in 1 .. n - 1 : s[k].addr < s[k + 1].addr
  BY <1>1 DEF Written, RowsAt
<1> QED
  BY <1>1, <1>2, <1>3, <1>4, <1>5 DEF RowsAt

LEMMA WrittenStep ==
  ASSUME DisasmAssumption, PanelsAssumption, Written, [PanelNext]_pvars
  PROVE  Written'
<1>1. Loaded(program) /\ Whole(program) /\ Here \in Int
  BY NotRound DEF Written, Idents, DisasmAssumption, PanelsAssumption
<1>2. /\ UNCHANGED <<program, pc, breaklist, start, size, text_ident, libctext_ident>>
      /\ i' = i \/ (i < size /\ Advance4)
  BY DEF PanelNext, PanelShow, PanelPass, Pass, Show, Invalid, Return, pvars, dvars
<1>3. Ranged' /\ Idents'
  <2>1. i' = i \/ (i' = i + 4 /\ i < size)
    BY <1>2, NotRound DEF Written
  <2> QED
    BY <1>2, <2>1 DEF Written, Ranged, Idents, Word, Ident
<1>4. /\ BoundsOfText(program)' /\ start' = program'.textStart
      /\ size' = program'.textEnd - program'.textStart + 1
  BY <1>2 DEF Written, BoundsOfText
<1>5. ended' = 0 => i' >= size'
  BY DEF PanelNext, PanelShow, PanelPass, Pass, Show, Invalid, Return, pvars, dvars, Written
<1>6. RowsAt(written, Here)'
  <2>1. CASE PanelShow
    <3>1. At(Here, ".text") /\ Here \in DOMAIN program.code
      BY <1>1, <2>1, InThePanel DEF PanelShow, Show
    <3>2. PICK l : /\ written' = Append(written, l)
                   /\ l.addr = Here /\ l.label = Standing(program.syms, Here)
                   /\ l.current <=> Here = pc
                   /\ l.break <=> Here \in breaklist
      BY <1>1, <2>1, <3>1, PanelLine DEF Written
    <3>3. RowsAt(Append(written, l), Here + 4)
      BY <1>1, <3>1, <3>2, RowsLonger
    <3>4. Here' = Here + 4
      BY <1>2, <2>1, NotRound DEF PanelShow, Show, Written
    <3> QED
      BY <1>2, <3>2, <3>3, <3>4, RowsPrimed
  <2>2. CASE PanelPass /\ Pass
    <3>1. Here' = Here + 4 /\ written' = written /\ ~At(Here, ".text")
      BY <1>2, <2>2, NotRound DEF PanelPass, Pass, Written, InText
    <3>2. RowsAt(written, Here + 4)
      BY <1>1, <3>1, RowsKept
    <3> QED
      BY <1>2, <3>1, <3>2, RowsPrimed
  <2>3. CASE written' = written /\ i' = i
    <3>1. Here' = Here
      BY <1>2, <2>3 DEF Here
    <3>2. RowsAt(written, Here)
      BY <1>1, RowsKept
    <3> QED
      BY <1>2, <2>3, <3>1, <3>2, RowsPrimed
  <2> QED
    BY <2>1, <2>2, <2>3 DEF PanelNext, PanelPass, Pass, Invalid, Return, pvars, dvars
<1> QED
  BY <1>3, <1>4, <1>5, <1>6 DEF Written

LEMMA WrittenFirst ==
  ASSUME DisasmAssumption, PanelsAssumption, PanelInit, BoundsOfText(program)
  PROVE  Written
<1>1. Loaded(program) /\ Whole(program)
  BY DEF PanelInit, DisasmAssumption, PanelsAssumption
<1>2. /\ start = program.textStart /\ size = program.textEnd - program.textStart + 1
      /\ Ranged
  <2>1. PICK k \in DOMAIN Segs : Segs[k].name = ".text"
    BY DEF BoundsOfText, Segs
  <2>2. PICK s \in Nat, n \in Nat :
          s = program.textStart /\ program.textEnd = s + n /\ s + n + 4 < Addresses
    BY <1>1, <2>1, TextSegment DEF Word
  <2>3. PICK m \in Nat \ {0} : m = Addresses
    BY DEF DisasmAssumption
  <2>4. (s + n) - s + 1 = n + 1 /\ (n + 1) % m = n + 1
    BY <2>2, <2>3
  <2>5. start = s /\ size = n + 1 /\ i = 0
    BY <2>2, <2>3, <2>4 DEF PanelInit, Asked, PanelSize
  <2>6. size = program.textEnd - program.textStart + 1
    BY <2>2, <2>4, <2>5
  <2>7. s + (n + 1) + 4 <= m /\ s < m
    BY <2>2, <2>3
  <2>8. Ranged
    <3>1. program \in Programs
      BY DEF PanelInit
    <3>2. n + 1 \in Nat /\ 0 < (n + 1) + 4 /\ 0 % 4 = 0
      BY <2>2
    <3>3. /\ start \in Nat /\ size \in Nat /\ start + size + 4 <= Addresses
          /\ i \in Nat /\ i % 4 = 0 /\ i < size + 4
      BY <2>2, <2>3, <2>5, <2>7, <3>2
    <3> QED
      BY <3>1, <3>3 DEF Ranged, Word
  <2> QED
    BY <2>2, <2>5, <2>6, <2>8
<1>3. Here = start /\ Idents
  <2>1. Here = start
    BY <1>2, NotRound DEF PanelInit, Asked, Ranged
  <2> QED
    BY <1>2, <2>1 DEF PanelInit, Asked, Idents, Ranged
<1>4. ASSUME NEW a \in DOMAIN program.code, At(a, ".text") PROVE ~(a < Here)
  <2>1. a \in Int
    BY <1>1 DEF Whole
  <2>2. PICK k : k = SegmentAt(a)
    OBVIOUS
  <2>3. k \in DOMAIN Segs /\ Segs[k].name = ".text" /\ Holds(Segs[k], a)
    BY <1>1, <1>4, <2>1, <2>2, AtName
  <2>4. Here = Segs[k].start /\ Segs[k].start \in Nat
    BY <1>1, <1>2, <1>3, <2>3, TextSegment
  <2> QED
    BY <2>1, <2>3, <2>4 DEF Holds
<1>5. PICK s : s = written
  OBVIOUS
<1>6. s = <<>> /\ Len(s) = 0 /\ s = [k \in 1 .. Len(s) |-> s[k]]
  BY <1>5 DEF PanelInit
<1>7. RowsAt(written, Here)
  BY <1>4, <1>5, <1>6 DEF RowsAt
<1> QED
  BY <1>2, <1>3, <1>7 DEF Written, PanelInit, Asked

LEMMA WrittenWhole ==
  ASSUME DisasmAssumption, PanelsAssumption, Written
  PROVE  WholeText
<1> SUFFICES ASSUME ended = 0 PROVE WholeText
  BY DEF WholeText
<1>1. Loaded(program) /\ Whole(program) /\ i \in Nat /\ i >= size /\ Here = start + i /\ Here \in Int
  BY NotRound DEF Written, Idents, DisasmAssumption, PanelsAssumption, Ranged
<1>2. ASSUME NEW a \in DOMAIN program.code, At(a, ".text") PROVE a < Here
  <2>1. a \in Int
    BY <1>1 DEF Whole
  <2>2. PICK k : k = SegmentAt(a)
    OBVIOUS
  <2>3. k \in DOMAIN Segs /\ Segs[k].name = ".text" /\ Holds(Segs[k], a)
    BY <1>1, <1>2, <2>1, <2>2, AtName
  <2>4. /\ start = Segs[k].start /\ size = Segs[k].size + 1
        /\ Segs[k].start \in Nat /\ Segs[k].size \in Nat
    BY <1>1, <2>3, TextSegment DEF Written
  <2> QED
    BY <1>1, <2>1, <2>3, <2>4 DEF Holds
<1>3. PICK n, s : n = Len(written) /\ s = written
  OBVIOUS
<1>4. n \in Nat /\ DOMAIN s = 1 .. n /\ s = [k \in 1 .. n |-> s[k]]
  BY <1>3 DEF Written, RowsAt
<1>5. \A k \in 1 .. n : RowAt(s[k], Here)
  BY <1>3 DEF Written, RowsAt
<1>6. \A a \in DOMAIN program.code : At(a, ".text") => \E k \in 1 .. n : s[k].addr = a
  BY <1>2, <1>3 DEF Written, RowsAt
<1>7. { s[k].addr : k \in DOMAIN s } = { a \in DOMAIN program.code : At(a, ".text") }
  BY <1>4, <1>5, <1>6 DEF RowAt
<1>8. \A k \in 1 .. n - 1 : s[k].addr < s[k + 1].addr
  BY <1>3 DEF Written, RowsAt
<1>9. \A k \in DOMAIN s :
         /\ s[k].label = Standing(program.syms, s[k].addr)
         /\ s[k].current <=> s[k].addr = pc
         /\ s[k].break <=> s[k].addr \in breaklist
  BY <1>4, <1>5, Zenon DEF RowAt
<1> QED
  BY <1>3, <1>7, <1>8, <1>9, Zenon DEF WholeText

(* WholeText, for every program: as long as the globals of the loader are the  *)
(* bounds of the text in memory, which a program without a text and a refused *)
(* load end, the panel that is written whole has each instruction once, in    *)
(* order, under its label and with its marks.                                *)
THEOREM PanelWhole ==
  ASSUME DisasmAssumption, PanelsAssumption
  PROVE  PanelSpec => []WholeText
<1> DEFINE Inv == BoundsOfText(program) => Written
<1>1. PanelInit => Inv
  BY WrittenFirst
<1>2. Inv /\ [PanelNext]_pvars => Inv'
  <2> SUFFICES ASSUME Inv, [PanelNext]_pvars, BoundsOfText(program)' PROVE Written'
    OBVIOUS
  <2>1. program' = program
    BY DEF PanelNext, PanelShow, PanelPass, Pass, Show, Invalid, Return, pvars, dvars
  <2>2. BoundsOfText(program)
    BY <2>1 DEF BoundsOfText
  <2> QED
    BY <2>2, WrittenStep
<1>3. Inv => WholeText
  BY WrittenWhole DEF WholeText
<1> HIDE DEF Inv
<1> QED
  BY <1>1, <1>2, <1>3, PTL DEF PanelSpec
=============================================================================
