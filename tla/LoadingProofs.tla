---------------------------- MODULE LoadingProofs -----------------------------
(***************************************************************************)
(* Proofs about loading: where the segments are placed and where symbols    *)
(* are found (Loader, Symbols), which slot of the table takes which section *)
(* (SegTable), and what the symbols are once read (ElfFile).                *)
(***************************************************************************)
EXTENDS Symbols, SegTable, ElfFile, SequenceTheorems, FiniteSetTheorems,
        WellFoundedInduction, NaturalsInduction, TLAPS

-----------------------------------------------------------------------------
(***************************************************************************)
(* For all images, sizes and addresses: loadELF leaves the segments of the  *)
(* libc, of the program and of the stack apart when the program ends below  *)
(* the libc.  The invariant that carries it follows next_segment_start: the *)
(* libc is laid out downwards, each segment below the one before, and the   *)
(* program upwards, below next.                                             *)
(***************************************************************************)

Ends(s) == s.start + s.size

LibcBelow ==
  \A u \in DOMAIN memory : memory[u].lib => Ends(memory[u]) <= LibcEnd

LibcDown ==
  \A u, w \in DOMAIN memory :
    u < w /\ memory[u].lib /\ memory[w].lib => Ends(memory[w]) <= memory[u].start

LibcAhead ==
  phase = "libc" =>
    /\ next <= LibcEnd
    /\ \A u \in DOMAIN memory : memory[u].lib /\ next <= memory[u].start

Room == next <= LibcEnd /\ \A u \in DOMAIN memory : memory[u].lib => next <= memory[u].start

ProgramUp ==
  phase \in {"program", "prompt"} /\ Room =>
    /\ \A u \in DOMAIN memory : ~memory[u].lib => Ends(memory[u]) <= next
    /\ \A u, w \in DOMAIN memory :
         u < w /\ ~memory[u].lib /\ ~memory[w].lib => Ends(memory[u]) <= memory[w].start

Layout == TypeOK /\ LibcBelow /\ LibcDown /\ LibcAhead /\ ProgramUp

LEMMA PagesEnough ==
  ASSUME NEW n \in Nat PROVE Pages(n) \in Nat /\ n <= Pages(n)
<1> DEFINE q == (n + Page) \div Page
           r == (n + Page) % Page
<1>1. Page \in Nat /\ Page > 0
  BY LoaderAssumption
<1>2. q \in Nat /\ r \in 0 .. Page - 1 /\ n + Page = Page * q + r
  BY <1>1
<1>3. Pages(n) = q * Page
  BY DEF Pages
<1>4. q * Page = Page * q /\ q * Page \in Nat
  BY <1>1, <1>2
<1> QED
  BY <1>1, <1>2, <1>3, <1>4

LEMMA RoundedUpIsAddress ==
  ASSUME NEW a \in 0 .. Space - 1 PROVE RoundedUp(a) \in 0 .. Space - 1
<1>1. Space \in Nat /\ Page \in 1 .. Space
  BY LoaderAssumption
<1>2. a % Page \in 0 .. Page - 1
  BY <1>1
<1> QED
  BY <1>1, <1>2 DEF RoundedUp, Address

LEMMA Least ==
  ASSUME NEW T, T \subseteq Nat, T # {}
  PROVE  \E n \in T : \A m \in T : n <= m
<1> DEFINE R == {ss \in Nat \X Nat : ss[1] < ss[2]}
<1>1. IsWellFoundedOn(R, Nat)
  BY NatLessThanWellFounded, Zenon DEF OpToRel
<1>2. \A x, y \in Nat : y < x => <<y, x>> \in R
  OBVIOUS
<1> HIDE DEF R
<1>3. PICK x \in T : \A y \in T : ~(<<y, x>> \in R)
  BY <1>1, WFMin
<1>4. \A y \in T : ~(y < x)
  BY <1>2, <1>3
<1> QED
  BY <1>3, <1>4

(* The least of some positions of a sequence. *)
LEMMA LeastOf ==
  ASSUME NEW n \in Nat, NEW T, T \subseteq 1 .. n, T # {}
  PROVE  \E u \in T : \A w \in 1 .. u - 1 : w \notin T
<1>1. T \subseteq Nat
  OBVIOUS
<1>2. PICK u \in T : \A w \in T : u <= w
  BY <1>1, Least
<1>3. \A w \in 1 .. u - 1 : w \notin T
  BY <1>2
<1> QED
  BY <1>3

(* The header taken for a name is one of the file's. *)
LEMMA HeaderFound ==
  ASSUME NEW im, NEW n \in Nat, DOMAIN im.headers = 1 .. n, NEW s
  PROVE  Extract(im, s) # 0 => Extract(im, s) \in DOMAIN im.headers
<1> DEFINE q == im.headers
           T == {u \in DOMAIN q : Begins(q[u].name, s)}
           P(u) == Begins(q[u].name, s) /\ \A w \in 1 .. u - 1 : ~Begins(q[w].name, s)
<1>1. Extract(im, s) = IF \E u \in DOMAIN q : Begins(q[u].name, s)
                       THEN CHOOSE u \in DOMAIN q : P(u) ELSE 0
  BY Zenon DEF Extract, FirstIndex
<1>2. ASSUME \E u \in DOMAIN q : Begins(q[u].name, s) PROVE \E u \in DOMAIN q : P(u)
  <2>1. T \subseteq 1 .. n /\ T # {}
    BY <1>2
  <2>2. PICK u \in T : \A w \in 1 .. u - 1 : w \notin T
    BY <2>1, LeastOf
  <2>3. \A w \in 1 .. u - 1 : w \in 1 .. n
    BY <2>1
  <2> QED
    BY <2>2, <2>3
<1> HIDE DEF P
<1> QED
  BY <1>1, <1>2, Zenon

LEMMA SectionTyped ==
  ASSUME NEW f \in Files \cup {NoFile}, NEW k \in 1 .. 4, NEW a \in Int,
         IsInSymbols(Sections[k], AnImage(f).syms)
  PROVE  /\ Segment(f, Sections[k], a) \in Segments
         /\ f = NoFile => Segment(f, Sections[k], a).lib = TRUE
         /\ f # NoFile => Segment(f, Sections[k], a).lib = FALSE
         /\ Segment(f, Sections[k], a).start = a
         /\ Segment(f, Sections[k], a).size \in Nat
<1> DEFINE im == AnImage(f)
           h == Extract(im, Sections[k])
<1>1. h # 0
  BY LoaderAssumption
<1>3. im.headers \in Seq([name : {im.headers[u].name : u \in DOMAIN im.headers}, size : Nat])
  BY LoaderAssumption
<1>2. h \in DOMAIN im.headers
  <2>1. PICK n \in Nat : DOMAIN im.headers = 1 .. n
    <3> HIDE DEF im
    <3> QED
      BY <1>3
  <2> QED
    BY <1>1, <2>1, HeaderFound
<1>4. im.headers[h].size \in Nat
  <2> DEFINE T == [name : {im.headers[u].name : u \in DOMAIN im.headers}, size : Nat]
             hs == im.headers
  <2>1. hs \in Seq(T) /\ h \in DOMAIN hs
    BY <1>2, <1>3
  <2> HIDE DEF T, hs, h
  <2>2. hs[h] \in T
    BY <2>1
  <2> QED
    BY <2>2 DEF T, hs
<1>5. im.headers[h].name \in HeaderNames
  BY <1>2 DEF HeaderNames
<1>6. Sections[k] \in SectionNames
  BY DEF SectionNames
<1> QED
  BY <1>4, <1>5, <1>6 DEF Segment, Segments

(* What placing a segment does to memory, for any names of the new values.  *)
LEMMA Placed ==
  ASSUME NEW m \in Seq(Segments), NEW s \in Segments
  PROVE  /\ Append(m, s) \in Seq(Segments)
         /\ DOMAIN Append(m, s) = 1 .. Len(m) + 1
         /\ DOMAIN m = 1 .. Len(m) /\ Len(m) \in Nat
         /\ \A u \in 1 .. Len(m) : Append(m, s)[u] = m[u] /\ m[u] \in Segments
         /\ Append(m, s)[Len(m) + 1] = s
  OBVIOUS

LEMMA InitLayout == Init => Layout
<1> SUFFICES ASSUME Init PROVE Layout
  OBVIOUS
<1>1. Space \in Nat /\ Page \in 1 .. Space
  BY LoaderAssumption
<1>2. TypeOK
  BY <1>1 DEF Init, TypeOK
<1> QED
  BY <1>2 DEF Init, Layout, LibcBelow, LibcDown, LibcAhead, ProgramUp

LEMMA LibcSection ==
  ASSUME Layout, PlaceLibc
  PROVE  LET s == Segment(NoFile, Sections[place], 0) IN
           s \in Segments /\ s.lib = TRUE /\ s.size \in Nat
<1>1. place \in 1 .. 4 /\ IsInSymbols(Sections[place], AnImage(NoFile).syms)
  BY DEF PlaceLibc, AnImage, Layout, TypeOK
<1>2. NoFile \in Files \cup {NoFile} /\ 0 \in Int
  OBVIOUS
<1> HIDE DEF Segment
<1> QED
  BY <1>1, <1>2, SectionTyped

LEMMA PlaceLibcTypes ==
  ASSUME Layout, LoadLibc PROVE TypeOK'
<1> USE DEF Layout, TypeOK
<1>1. CASE Skip(NoFile)
  BY <1>1 DEF LoadLibc, Skip, bounds
<1>2. CASE PlaceLibc
  <2> DEFINE s == Segment(NoFile, Sections[place], 0)
  <2>1. place \in 1 .. 4 /\ IsInSymbols(Sections[place], AnImage(NoFile).syms)
    BY <1>2 DEF PlaceLibc, AnImage
  <2>2. s \in Segments /\ s.size \in Nat
    BY <1>2, LibcSection
  <2> HIDE DEF s
  <2>3. next' = next - Pages(s.size) /\ memory' = Append(memory, [s EXCEPT !.start = next'])
        /\ place' = place + 1
    BY <1>2 DEF PlaceLibc, s
  <2>4. next' \in Int
    BY <2>2, <2>3, PagesEnough
  <2>5. [s EXCEPT !.start = next'] \in Segments
    BY <2>2, <2>4 DEF Segments
  <2> QED
    BY <2>1, <2>3, <2>4, <2>5 DEF LoadLibc, bounds
<1> QED
  BY <1>1, <1>2 DEF LoadLibc

LEMMA PlaceLibcLayout ==
  ASSUME Layout, LoadLibc PROVE Layout'
<1>1. TypeOK'
  BY PlaceLibcTypes
<1>2. phase = "libc" /\ phase' = "libc"
  BY DEF LoadLibc
<1>3. CASE Skip(NoFile)
  BY <1>1, <1>2, <1>3 DEF Skip, Layout, LibcBelow, LibcDown, LibcAhead, ProgramUp, Ends
<1>4. CASE PlaceLibc
  <2> DEFINE s == Segment(NoFile, Sections[place], 0)
             t == [s EXCEPT !.start = next']
             n == Len(memory)
  <2>1. place \in 1 .. 4 /\ IsInSymbols(Sections[place], AnImage(NoFile).syms)
    BY <1>4 DEF PlaceLibc, AnImage, Layout, TypeOK
  <2>2. s \in Segments /\ s.size \in Nat /\ s.lib = TRUE
    BY <1>4, LibcSection
  <2>3. next' = next - Pages(s.size) /\ memory' = Append(memory, t)
    BY <1>4 DEF PlaceLibc
  <2> HIDE DEF s
  <2>4. next \in Int /\ next' \in Int /\ next' + s.size <= next
    <3>1. Pages(s.size) \in Nat /\ s.size <= Pages(s.size)
      BY <2>2, PagesEnough
    <3>2. next \in Int
      BY DEF Layout, TypeOK
    <3> QED
      BY <2>2, <2>3, <3>1, <3>2
  <2>5. t \in Segments /\ t.lib = TRUE /\ t.start = next' /\ t.size = s.size
    BY <2>2, <2>4 DEF Segments
  <2> HIDE DEF t
  <2>6. memory \in Seq(Segments)
    BY DEF Layout, TypeOK
  <2>7. /\ DOMAIN memory' = 1 .. n + 1 /\ DOMAIN memory = 1 .. n /\ n \in Nat
        /\ \A u \in 1 .. n : memory'[u] = memory[u] /\ memory[u] \in Segments
        /\ memory'[n + 1] = t
    BY <2>3, <2>5, <2>6, Placed
  <2>8. next <= LibcEnd /\ \A u \in 1 .. n : memory[u].lib /\ next <= memory[u].start
    BY <1>2, <2>7 DEF Layout, LibcAhead
  <2>9. LibcEnd \in Nat
    BY LoaderAssumption
  <2>10. \A u \in 1 .. n : memory[u].start \in Int /\ memory[u].size \in Nat
    BY <2>7 DEF Segments
  <2> HIDE DEF n
  <2>11. LibcBelow'
    <3> SUFFICES ASSUME NEW u \in 1 .. n + 1 PROVE memory'[u].start + memory'[u].size <= LibcEnd
      BY <2>7 DEF LibcBelow, Ends
    <3>1. CASE u = n + 1
      BY <3>1, <2>2, <2>4, <2>5, <2>7, <2>8, <2>9
    <3>2. CASE u # n + 1
      BY <3>2, <2>7, <2>8 DEF Layout, LibcBelow, Ends
    <3> QED
      BY <3>1, <3>2
  <2>12. LibcDown'
    <3> SUFFICES ASSUME NEW u \in 1 .. n + 1, NEW w \in 1 .. n + 1, u < w
                 PROVE  memory'[w].start + memory'[w].size <= memory'[u].start
      BY <2>7 DEF LibcDown, Ends
    <3>1. u \in 1 .. n
      BY <2>7
    <3>2. CASE w = n + 1
      BY <3>1, <3>2, <2>2, <2>4, <2>5, <2>7, <2>8, <2>10
    <3>3. CASE w # n + 1
      BY <3>1, <3>3, <2>7, <2>8 DEF Layout, LibcDown, Ends
    <3> QED
      BY <3>2, <3>3
  <2>13. LibcAhead'
    <3>1. next' <= LibcEnd
      BY <2>2, <2>4, <2>8, <2>9
    <3>2. ASSUME NEW u \in 1 .. n + 1 PROVE memory'[u].lib /\ next' <= memory'[u].start
      <4>1. CASE u = n + 1
        BY <4>1, <2>4, <2>5, <2>7
      <4>2. CASE u # n + 1
        BY <4>2, <2>2, <2>4, <2>7, <2>8, <2>10
      <4> QED
        BY <4>1, <4>2
    <3> QED
      BY <3>1, <3>2, <2>7 DEF LibcAhead
  <2>14. ProgramUp'
    BY <1>2 DEF ProgramUp
  <2> QED
    BY <1>1, <2>11, <2>12, <2>13, <2>14 DEF Layout
<1> QED
  BY <1>3, <1>4 DEF LoadLibc

LEMMA ProgramSection ==
  ASSUME Layout, LoadProgram, PlaceProgram
  PROVE  LET s == Segment(file, Sections[place], Address(next)) IN
           s \in Segments /\ s.lib = FALSE /\ s.size \in Nat /\ s.start = Address(next)
<1>1. file \in Files /\ file # NoFile
  BY LoaderAssumption DEF LoadProgram, Layout, TypeOK
<1>2. place \in 1 .. 4 /\ IsInSymbols(Sections[place], AnImage(file).syms)
  BY <1>1 DEF PlaceProgram, AnImage, Layout, TypeOK
<1>3. Address(next) \in Int
  BY LoaderAssumption DEF Address, Layout, TypeOK
<1>4. file \in Files \cup {NoFile}
  BY <1>1
<1> DEFINE s == Segment(file, Sections[place], Address(next))
<1>5. s \in Segments /\ s.size \in Nat /\ s.start = Address(next) /\ (file # NoFile => s.lib = FALSE)
  BY <1>2, <1>3, <1>4, SectionTyped
<1> QED
  BY <1>1, <1>5

LEMMA PlaceProgramLayout ==
  ASSUME Layout, LoadProgram PROVE Layout'
<1>1. phase = "program" /\ phase' = "program" /\ file' = file /\ textStart' = textStart
  BY DEF LoadProgram, bounds
<1>2. CASE Skip(file)
  <2>1. TypeOK'
    BY <1>1, <1>2 DEF Skip, Layout, TypeOK
  <2> QED
    BY <1>1, <1>2, <2>1 DEF Skip, Layout, LibcBelow, LibcDown, LibcAhead, ProgramUp, Room, Ends
<1>3. CASE PlaceProgram
  <2> DEFINE s == Segment(file, Sections[place], Address(next))
             n == Len(memory)
  <2>1. s \in Segments /\ s.lib = FALSE /\ s.size \in Nat /\ s.start = Address(next)
    BY <1>3, ProgramSection
  <2>2. next' = next + Pages(s.size) /\ memory' = Append(memory, s) /\ place' = place + 1 /\ place <= 4
    BY <1>3 DEF PlaceProgram
  <2> HIDE DEF s
  <2>3. next \in Int /\ next' \in Int /\ next + s.size <= next'
    <3>1. Pages(s.size) \in Nat /\ s.size <= Pages(s.size)
      BY <2>1, PagesEnough
    <3>2. next \in Int
      BY DEF Layout, TypeOK
    <3> QED
      BY <2>1, <2>2, <3>1, <3>2
  <2>4. memory \in Seq(Segments)
    BY DEF Layout, TypeOK
  <2>5. /\ DOMAIN memory' = 1 .. n + 1 /\ DOMAIN memory = 1 .. n /\ n \in Nat
        /\ \A u \in 1 .. n : memory'[u] = memory[u] /\ memory[u] \in Segments
        /\ memory'[n + 1] = s /\ memory' \in Seq(Segments)
    BY <2>1, <2>2, <2>4, Placed
  <2>6. \A u \in 1 .. n : memory[u].start \in Int /\ memory[u].size \in Nat /\ memory[u].lib \in BOOLEAN
    BY <2>5 DEF Segments
  <2>7. LibcEnd \in Nat /\ LibcEnd < Space /\ Space \in Nat
    BY LoaderAssumption
  <2> HIDE DEF n
  <2>8. TypeOK'
    BY <1>1, <2>2, <2>3, <2>5 DEF Layout, TypeOK
  <2>9. LibcBelow' /\ LibcDown' /\ LibcAhead'
    BY <1>1, <2>1, <2>5 DEF Layout, LibcBelow, LibcDown, LibcAhead, Ends
  <2>10. ProgramUp'
    <3> SUFFICES ASSUME Room'
                 PROVE  /\ \A u \in 1 .. n + 1 : ~memory'[u].lib => memory'[u].start + memory'[u].size <= next'
                        /\ \A u, w \in 1 .. n + 1 :
                             u < w /\ ~memory'[u].lib /\ ~memory'[w].lib =>
                               memory'[u].start + memory'[u].size <= memory'[w].start
      BY <2>5 DEF ProgramUp, Ends
    <3>1. next <= next' /\ next' <= LibcEnd
      BY <2>1, <2>3, <2>7 DEF Room
    <3>2. Room
      BY <2>3, <2>5, <2>6, <2>7, <3>1 DEF Room
    <3>3. s.start = next
      BY <2>1, <2>3, <2>7, <3>1 DEF Address
    <3>4. \A u \in 1 .. n : ~memory[u].lib => memory[u].start + memory[u].size <= next
      BY <1>1, <2>5, <3>2 DEF Layout, ProgramUp, Ends
    <3>5. \A u, w \in 1 .. n : u < w /\ ~memory[u].lib /\ ~memory[w].lib =>
            memory[u].start + memory[u].size <= memory[w].start
      BY <1>1, <2>5, <3>2 DEF Layout, ProgramUp, Ends
    <3>6. ASSUME NEW u \in 1 .. n + 1, ~memory'[u].lib
          PROVE  memory'[u].start + memory'[u].size <= next'
      <4>1. CASE u = n + 1
        BY <4>1, <2>3, <2>5, <3>3
      <4>2. CASE u # n + 1
        BY <4>2, <2>3, <2>5, <2>6, <3>1, <3>4, <3>6
      <4> QED
        BY <4>1, <4>2
    <3>7. ASSUME NEW u \in 1 .. n + 1, NEW w \in 1 .. n + 1, u < w, ~memory'[u].lib, ~memory'[w].lib
          PROVE  memory'[u].start + memory'[u].size <= memory'[w].start
      <4>0. u \in 1 .. n
        BY <2>5, <3>7
      <4>1. CASE w = n + 1
        BY <4>0, <4>1, <2>5, <3>3, <3>4, <3>7
      <4>2. CASE w # n + 1
        BY <4>0, <4>2, <2>5, <3>5, <3>7
      <4> QED
        BY <4>1, <4>2
    <3> QED
      BY <3>6, <3>7
  <2> QED
    BY <2>8, <2>9, <2>10 DEF Layout
<1> QED
  BY <1>2, <1>3 DEF LoadProgram

LEMMA OpenLayout ==
  ASSUME Layout, NEW f \in Files, NEW a \in Addrs \cup {Default}, Open(f, a) PROVE Layout'
<1>1. a \in 0 .. Space - 1
  BY LoaderAssumption
<1>2. textStart' \in 0 .. Space - 1
  BY <1>1, RoundedUpIsAddress DEF Open, Request
<1>3. memory' = <<>> /\ DOMAIN memory' = {} /\ phase' = "libc" /\ next' = LibcEnd /\ place' = 1 /\ file' = f
  BY DEF Open
<1>4. LibcEnd \in Nat /\ Space \in Nat
  BY LoaderAssumption
<1>5. TypeOK'
  BY <1>2, <1>3, <1>4 DEF TypeOK
<1> QED
  BY <1>3, <1>4, <1>5 DEF Layout, LibcBelow, LibcDown, LibcAhead, ProgramUp

LEMMA OtherLayout ==
  ASSUME Layout,
         \/ \E f \in Unreadable, a \in Addrs \cup {Default} : Refuse(f, a)
         \/ \E a \in Addrs : BreakAdd(a)
         \/ UNCHANGED vars
  PROVE  Layout'
<1>1. CASE \E f \in Unreadable, a \in Addrs \cup {Default} : Refuse(f, a)
  <2>1. PICK f \in Unreadable, a \in Addrs \cup {Default} : Refuse(f, a)
    BY <1>1
  <2>2. a \in 0 .. Space - 1 /\ Space \in Nat
    BY LoaderAssumption
  <2>3. textStart' \in 0 .. Space - 1
    BY <2>1, <2>2, RoundedUpIsAddress DEF Refuse, Request
  <2>4. textStart' \in Int
    BY <2>2, <2>3
  <2> QED
    BY <2>1, <2>3, <2>4 DEF Refuse, Request, Layout, TypeOK, LibcBelow, LibcDown, LibcAhead, ProgramUp, Room, Ends
<1>2. CASE UNCHANGED <<phase, file, place, next, memory, textStart>>
  BY <1>2 DEF Layout, TypeOK, LibcBelow, LibcDown, LibcAhead, ProgramUp, Room, Ends
<1> QED
  BY <1>1, <1>2 DEF BreakAdd, bounds, vars

LEMMA LibcDoneLayout ==
  ASSUME Layout, LibcDone PROVE Layout'
<1>1. phase = "libc" /\ phase' = "program" /\ place' = 1 /\ memory' = memory /\ file' = file
      /\ next' = textStart /\ textStart' = textStart
  BY DEF LibcDone, bounds
<1>2. \A u \in DOMAIN memory : memory[u].lib
  BY <1>1 DEF Layout, LibcAhead
<1>3. TypeOK'
  BY <1>1 DEF Layout, TypeOK
<1> QED
  BY <1>1, <1>2, <1>3 DEF Layout, LibcBelow, LibcDown, LibcAhead, ProgramUp, Ends

LEMMA FinishLayout ==
  ASSUME Layout, Finish PROVE Layout'
<1>1. phase = "program" /\ phase' = "prompt" /\ UNCHANGED <<file, place, next, memory>>
  BY DEF Finish
<1> QED
  BY <1>1 DEF Layout, TypeOK, LibcBelow, LibcDown, LibcAhead, ProgramUp, Room, Ends

LEMMA LayoutKept == Layout /\ [Next]_vars => Layout'
<1> SUFFICES ASSUME Layout, [Next]_vars PROVE Layout'
  OBVIOUS
<1>1. CASE LoadLibc
  BY <1>1, PlaceLibcLayout
<1>2. CASE LibcDone
  BY <1>2, LibcDoneLayout
<1>3. CASE LoadProgram
  BY <1>3, PlaceProgramLayout
<1>4. CASE Finish
  BY <1>4, FinishLayout
<1>5. CASE \E a \in Addrs \cup {Default}, f \in Files \cup Unreadable : Refuse(f, a) \/ Open(f, a)
  <2>1. PICK a \in Addrs \cup {Default}, f \in Files \cup Unreadable : Refuse(f, a) \/ Open(f, a)
    BY <1>5
  <2>2. CASE Refuse(f, a)
    <3>1. f \in Unreadable
      BY <2>2 DEF Refuse
    <3> QED
      BY <2>2, <3>1, OtherLayout
  <2>3. CASE Open(f, a)
    <3>1. f \in Files
      BY <2>3 DEF Open
    <3> QED
      BY <2>3, <3>1, OpenLayout
  <2> QED
    BY <2>1, <2>2, <2>3
<1>6. CASE (\E a \in Addrs : BreakAdd(a)) \/ UNCHANGED vars
  BY <1>6, OtherLayout
<1> QED
  BY <1>1, <1>2, <1>3, <1>4, <1>5, <1>6 DEF Next

LEMMA LayoutApart == Layout => Disjoint
<1> SUFFICES ASSUME Layout, Fits PROVE
      /\ \A u, w \in DOMAIN memory : u # w => Apart(memory[u], memory[w])
      /\ \A u \in DOMAIN memory : Apart(memory[u], Stack) /\ Apart(memory[u], Vsyscall)
  BY DEF Disjoint
<1> DEFINE n == Len(memory)
<1>1. DOMAIN memory = 1 .. n /\ n \in Nat /\ \A u \in 1 .. n : memory[u] \in Segments
  BY DEF Layout, TypeOK
<1>2. \A u \in 1 .. n : memory[u].start \in Int /\ memory[u].size \in Nat /\ memory[u].lib \in BOOLEAN
  BY <1>1 DEF Segments
<1>3. next \in Int
  BY DEF Layout, TypeOK
<1> HIDE DEF n
<1>4. \A u \in 1 .. n : memory[u].lib => memory[u].start + memory[u].size <= LibcEnd
  BY <1>1 DEF Layout, LibcBelow, Ends
<1>5. \A u, w \in 1 .. n : u < w /\ memory[u].lib /\ memory[w].lib =>
        memory[w].start + memory[w].size <= memory[u].start
  BY <1>1 DEF Layout, LibcDown, Ends
<1>6. ASSUME NEW u \in 1 .. n, ~memory[u].lib
      PROVE  /\ phase \in {"program", "prompt"} /\ Room
             /\ memory[u].start + memory[u].size <= next
  BY <1>1, <1>6 DEF Layout, LibcAhead, ProgramUp, Room, Fits, TypeOK, Ends
<1>7. ASSUME NEW u \in 1 .. n, NEW w \in 1 .. n, u < w
      PROVE  Apart(memory[u], memory[w])
  <2>1. CASE memory[u].lib /\ memory[w].lib
    BY <1>5, <1>7, <2>1 DEF Apart
  <2>2. CASE ~memory[u].lib /\ ~memory[w].lib
    <3>1. memory[u].start + memory[u].size <= memory[w].start
      BY <1>1, <1>6, <1>7, <2>2 DEF Layout, ProgramUp, Ends
    <3> QED
      BY <3>1 DEF Apart
  <2>3. CASE memory[u].lib /\ ~memory[w].lib
    <3>1. memory[w].start + memory[w].size <= next /\ next <= memory[u].start
      BY <1>1, <1>6, <2>3 DEF Room
    <3> QED
      BY <1>2, <1>3, <3>1 DEF Apart
  <2>4. CASE ~memory[u].lib /\ memory[w].lib
    <3>1. memory[u].start + memory[u].size <= next /\ next <= memory[w].start
      BY <1>1, <1>6, <2>4 DEF Room
    <3> QED
      BY <1>2, <1>3, <3>1 DEF Apart
  <2> QED
    BY <1>2, <2>1, <2>2, <2>3, <2>4
<1>8. ASSUME NEW u \in 1 .. n PROVE Apart(memory[u], Stack) /\ Apart(memory[u], Vsyscall)
  <2>1. memory[u].start + memory[u].size <= LibcEnd
    <3>1. CASE memory[u].lib
      BY <1>4, <3>1
    <3>2. CASE ~memory[u].lib
      <4>1. memory[u].start + memory[u].size <= next /\ next <= LibcEnd
        BY <1>6, <3>2 DEF Room
      <4> QED
        BY <1>2, <1>3, <4>1, LoaderAssumption
    <3> QED
      BY <3>1, <3>2
  <2>2. /\ LibcEnd <= Stack.start /\ Stack.start + Stack.size <= Vsyscall.start
        /\ Stack.start \in Nat /\ Stack.size \in Nat /\ Vsyscall.start \in Nat /\ LibcEnd \in Int
    BY LoaderAssumption
  <2> QED
    BY <1>2, <2>1, <2>2 DEF Apart
<1>9. ASSUME NEW u \in 1 .. n, NEW w \in 1 .. n, u # w
      PROVE  Apart(memory[u], memory[w])
  <2>1. CASE u < w
    BY <1>7, <2>1
  <2>2. CASE w < u
    <3>1. Apart(memory[w], memory[u])
      BY <1>7, <2>2
    <3> QED
      BY <3>1 DEF Apart
  <2> QED
    BY <1>1, <1>9, <2>1, <2>2
<1> QED
  BY <1>1, <1>8, <1>9

(* The types of the loader's state, for all images and addresses (emul.c).  *)
THEOREM LoaderTyped == Spec => []TypeOK
<1>1. Init => Layout
  BY InitLayout
<1>2. Layout /\ [Next]_vars => Layout'
  BY LayoutKept
<1>3. Layout => TypeOK
  BY DEF Layout
<1> QED
  BY <1>1, <1>2, <1>3, PTL DEF Spec

(* Whatever the sizes of the sections and the address of the load, a        *)
(* program that ends below the libc shares no address with it, nor with the *)
(* stack, and no two of its own segments overlap (loadELF, emul.c).         *)
THEOREM SegmentsApart == Spec => []Disjoint
<1>1. Init => Layout
  BY InitLayout
<1>2. Layout /\ [Next]_vars => Layout'
  BY LayoutKept
<1>3. Layout => Disjoint
  BY LayoutApart
<1> QED
  BY <1>1, <1>2, <1>3, PTL DEF Spec

-----------------------------------------------------------------------------
(* The bounds of the text. *)

Texts(lib) == {u \in DOMAIN memory : memory[u].lib = lib /\ memory[u].name = "text"}

(* The first section of each file is its text: it is placed before the others, *)
(* once, and the segments of the program come after those of the libc.         *)
TextPlaced ==
  /\ phase = "libc" =>
       /\ \A u \in DOMAIN memory : memory[u].lib = TRUE
       /\ place = 1 => memory = <<>>
  /\ phase = "program" /\ place = 1 => \A u \in DOMAIN memory : memory[u].lib = TRUE
  /\ phase = "program" \/ (phase = "libc" /\ place > 1) => Texts(TRUE) # {}
  /\ phase = "program" /\ place > 1 /\ IsInSymbols("text", Images[file].syms) => Texts(FALSE) # {}
  /\ phase # "prompt" => symtab = file

TextOnce ==
  phase # "prompt" => \A lib \in BOOLEAN : \A u, w \in Texts(lib) : u = w

Bounded == Layout /\ TextPlaced /\ TextOnce

(* A segment more: the texts of the other file stay, and so do those of this  *)
(* one unless it is a text itself.                                            *)
LEMMA OneMore ==
  ASSUME NEW s \in Segments, memory \in Seq(Segments), memory' = Append(memory, s)
  PROVE  /\ DOMAIN memory' = 1 .. Len(memory) + 1 /\ Len(memory) \in Nat
         /\ DOMAIN memory = 1 .. Len(memory)
         /\ \A u \in DOMAIN memory : memory'[u] = memory[u]
         /\ memory'[Len(memory) + 1] = s
         /\ \A lib : Texts(lib)' =
                       IF s.lib = lib /\ s.name = "text"
                       THEN Texts(lib) \cup {Len(memory) + 1} ELSE Texts(lib)
<1>1. /\ DOMAIN memory' = 1 .. Len(memory) + 1 /\ Len(memory) \in Nat
      /\ DOMAIN memory = 1 .. Len(memory)
      /\ \A u \in 1 .. Len(memory) : memory'[u] = memory[u]
      /\ memory'[Len(memory) + 1] = s
  BY Placed
<1>2. PICK n \in Nat : n = Len(memory)
  BY <1>1
<1>3. ASSUME NEW lib
      PROVE  Texts(lib)' = IF s.lib = lib /\ s.name = "text" THEN Texts(lib) \cup {n + 1}
                           ELSE Texts(lib)
  <2>1. \A u : u \in Texts(lib)' <=> u \in 1 .. n + 1 /\ memory'[u].lib = lib
                                     /\ memory'[u].name = "text"
    BY <1>1, <1>2 DEF Texts
  <2>2. \A u : u \in Texts(lib) <=> u \in 1 .. n /\ memory[u].lib = lib
                                    /\ memory[u].name = "text"
    BY <1>1, <1>2 DEF Texts
  <2>3. \A u : u \in 1 .. n + 1 <=> u \in 1 .. n \/ u = n + 1
    BY <1>2
  <2>4. n + 1 \notin 1 .. n
    BY <1>2
  <2>5. \A u : u \in Texts(lib)' <=> \/ u \in Texts(lib)
                                     \/ u = n + 1 /\ s.lib = lib /\ s.name = "text"
    BY <1>1, <1>2, <2>1, <2>2, <2>3, <2>4
  <2>6. CASE s.lib = lib /\ s.name = "text"
    <3>1. \A u : u \in Texts(lib)' <=> u \in Texts(lib) \cup {n + 1}
      BY <2>5, <2>6
    <3> QED
      BY <2>6, <3>1
  <2>7. CASE ~(s.lib = lib /\ s.name = "text")
    <3>1. \A u : u \in Texts(lib)' <=> u \in Texts(lib)
      BY <2>5, <2>7
    <3> QED
      BY <2>7, <3>1
  <2> QED
    BY <2>6, <2>7
<1> QED
  BY <1>1, <1>2, <1>3

LEMMA TextFirst ==
  ASSUME NEW k \in 1 .. 4 PROVE Sections[k] = "text" <=> k = 1
  BY DEF Sections

LEMMA LibcBounded == ASSUME Bounded, LoadLibc PROVE TextPlaced' /\ TextOnce'
<1>1. phase = "libc" /\ phase' = "libc" /\ file' = file /\ symtab' = symtab
  BY DEF LoadLibc
<1>2. place \in 1 .. 5 /\ memory \in Seq(Segments)
  BY DEF Bounded, Layout, TypeOK
<1>3. CASE Skip(NoFile)
  <2>1. place \in 2 .. 4
    BY <1>2, <1>3, LoaderAssumption DEF Skip, AnImage, Sections
  <2>2. place' > 1 /\ place' # 1 /\ memory' = memory
    BY <1>3, <2>1 DEF Skip
  <2> QED
    BY <1>1, <2>1, <2>2 DEF Bounded, TextPlaced, TextOnce, Texts
<1>4. CASE PlaceLibc
  <2>1. PICK s \in Segments : s = Segment(NoFile, Sections[place], 0)
    BY <1>4, LibcSection DEF Bounded
  <2>2. s.lib = TRUE /\ s.name = Sections[place]
    BY <2>1 DEF Segment
  <2>3. PICK t \in Segments : t = [s EXCEPT !.start = next'] /\ memory' = Append(memory, t)
    <3>1. next' \in Int
      BY <1>1, PlaceLibcTypes DEF Bounded, TypeOK
    <3>2. memory' = Append(memory, [s EXCEPT !.start = next'])
      BY <1>4, <2>1 DEF PlaceLibc
    <3>3. [s EXCEPT !.start = next'] \in Segments
      BY <3>1 DEF Segments
    <3> QED
      BY <3>2, <3>3
  <2>4. t.lib = TRUE /\ t.name = Sections[place]
    BY <2>2, <2>3 DEF Segments
  <2>5. place \in 1 .. 4 /\ place' = place + 1
    BY <1>2, <1>4 DEF PlaceLibc
  <2>6. (t.name = "text" <=> place = 1)
    BY <2>4, <2>5, TextFirst
  <2>7. /\ DOMAIN memory' = 1 .. Len(memory) + 1 /\ Len(memory) \in Nat
        /\ DOMAIN memory = 1 .. Len(memory)
        /\ \A u \in DOMAIN memory : memory'[u] = memory[u]
        /\ memory'[Len(memory) + 1] = t
        /\ \A lib : Texts(lib)' = IF t.lib = lib /\ t.name = "text"
                                  THEN Texts(lib) \cup {Len(memory) + 1} ELSE Texts(lib)
    BY <1>2, <2>3, OneMore
  <2>8. \A u \in DOMAIN memory' : memory'[u].lib = TRUE
    BY <1>1, <2>4, <2>7 DEF Bounded, TextPlaced
  <2>9. place = 1 => Texts(TRUE) = {} /\ Texts(FALSE) = {}
    BY <1>1, <2>7 DEF Bounded, TextPlaced, Texts
  <2>0. place' > 1 /\ place' # 1 /\ (place # 1 => place > 1)
    BY <2>5
  <2>10. Texts(TRUE)' # {}
    <3>0. Texts(TRUE)' = IF t.lib = TRUE /\ t.name = "text"
                         THEN Texts(TRUE) \cup {Len(memory) + 1} ELSE Texts(TRUE)
      BY <2>7
    <3>1. CASE place = 1
      BY <2>4, <2>6, <3>0, <3>1
    <3>2. CASE place # 1
      <4>1. Texts(TRUE) # {}
        BY <1>1, <2>0, <3>2 DEF Bounded, TextPlaced
      <4>2. t.name # "text"
        BY <2>6, <3>2
      <4> QED
        BY <3>0, <4>1, <4>2
    <3> QED
      BY <3>1, <3>2
  <2>11. TextPlaced'
    BY <1>1, <2>0, <2>8, <2>10 DEF Bounded, TextPlaced
  <2>12. TextOnce'
    BY <1>1, <2>4, <2>6, <2>7, <2>9 DEF Bounded, TextOnce
  <2> QED
    BY <2>11, <2>12
<1> QED
  BY <1>3, <1>4 DEF LoadLibc

LEMMA ProgramBounded == ASSUME Bounded, LoadProgram PROVE TextPlaced' /\ TextOnce'
<1>1. phase = "program" /\ phase' = "program" /\ file' = file /\ symtab' = symtab
  BY DEF LoadProgram
<1>2. place \in 1 .. 5 /\ memory \in Seq(Segments) /\ file \in Files /\ file # NoFile
  BY <1>1, LoaderAssumption DEF Bounded, Layout, TypeOK
<1>3. CASE Skip(file)
  <2>1. place \in 1 .. 4 /\ place' = place + 1 /\ memory' = memory
    BY <1>2, <1>3 DEF Skip
  <2>2. place = 1 => ~IsInSymbols("text", Images[file].syms)
    BY <1>2, <1>3 DEF Skip, AnImage, Sections
  <2>3. place' > 1 /\ place' # 1 /\ (place # 1 => place > 1)
    BY <2>1
  <2> QED
    BY <1>1, <2>1, <2>2, <2>3 DEF Bounded, TextPlaced, TextOnce, Texts
<1>4. CASE PlaceProgram
  <2>1. PICK s \in Segments : s = Segment(file, Sections[place], Address(next)) /\ s.lib = FALSE
    BY <1>4, ProgramSection DEF Bounded
  <2>2. s.name = Sections[place]
    BY <2>1 DEF Segment
  <2>3. memory' = Append(memory, s)
    BY <1>4, <2>1 DEF PlaceProgram
  <2>4. place \in 1 .. 4 /\ place' = place + 1
    BY <1>2, <1>4 DEF PlaceProgram
  <2>5. s.name = "text" <=> place = 1
    BY <2>2, <2>4, TextFirst
  <2>6. /\ DOMAIN memory' = 1 .. Len(memory) + 1 /\ Len(memory) \in Nat
        /\ DOMAIN memory = 1 .. Len(memory)
        /\ \A lib : Texts(lib)' = IF s.lib = lib /\ s.name = "text"
                                  THEN Texts(lib) \cup {Len(memory) + 1} ELSE Texts(lib)
    BY <1>2, <2>3, OneMore
  <2>7. place = 1 => Texts(FALSE) = {}
    BY <1>1 DEF Bounded, TextPlaced, Texts
  <2>8. Texts(TRUE)' = Texts(TRUE)
    BY <2>1, <2>6
  <2>0. place' > 1 /\ place' # 1 /\ (place # 1 => place > 1)
    BY <2>4
  <2>9. IsInSymbols("text", Images[file].syms) => Texts(FALSE)' # {}
    <3>0. Texts(FALSE)' = IF s.lib = FALSE /\ s.name = "text"
                          THEN Texts(FALSE) \cup {Len(memory) + 1} ELSE Texts(FALSE)
      BY <2>6
    <3>1. CASE place = 1
      BY <2>1, <2>5, <3>0, <3>1
    <3>2. CASE place # 1
      <4>1. IsInSymbols("text", Images[file].syms) => Texts(FALSE) # {}
        BY <1>1, <2>0, <3>2 DEF Bounded, TextPlaced
      <4>2. s.name # "text"
        BY <2>5, <3>2
      <4> QED
        BY <3>0, <4>1, <4>2
    <3> QED
      BY <3>1, <3>2
  <2>12. Texts(TRUE) # {}
    BY <1>1 DEF Bounded, TextPlaced
  <2>13. file' \in Files /\ symtab' = file'
    BY <1>1, <1>2 DEF Bounded, TextPlaced
  <2>10. TextPlaced'
    BY <1>1, <2>0, <2>8, <2>9, <2>12, <2>13 DEF TextPlaced
  <2>11. TextOnce'
    BY <1>1, <2>1, <2>5, <2>6, <2>7 DEF Bounded, TextOnce
  <2> QED
    BY <2>10, <2>11
<1> QED
  BY <1>3, <1>4 DEF LoadProgram

LEMMA BoundedKept == Bounded /\ [Next]_vars => Bounded'
<1> SUFFICES ASSUME Bounded, [Next]_vars PROVE Bounded'
  OBVIOUS
<1>1. Layout'
  BY LayoutKept DEF Bounded
<1>2. CASE LoadLibc
  BY <1>1, <1>2, LibcBounded DEF Bounded
<1>3. CASE LoadProgram
  BY <1>1, <1>3, ProgramBounded DEF Bounded
<1>4. CASE LibcDone
  <2>1. /\ phase = "libc" /\ place = 5 /\ phase' = "program" /\ place' = 1
        /\ memory' = memory /\ file' = file /\ symtab' = symtab
    BY <1>4 DEF LibcDone
  <2>2. TextPlaced' /\ TextOnce'
    BY <2>1 DEF Bounded, TextPlaced, TextOnce, Texts
  <2> QED
    BY <1>1, <2>2 DEF Bounded
<1>5. CASE Finish
  <2>1. phase' = "prompt"
    BY <1>5 DEF Finish
  <2> QED
    BY <1>1, <2>1 DEF Bounded, TextPlaced, TextOnce
<1>6. ASSUME NEW a \in Addrs \cup {Default}, NEW f \in Files \cup Unreadable,
             Refuse(f, a) \/ Open(f, a)
      PROVE  TextPlaced' /\ TextOnce'
  <2>1. CASE Refuse(f, a)
    BY <2>1 DEF Refuse, Request, TextPlaced, TextOnce
  <2>2. CASE Open(f, a)
    <3>1. memory' = <<>> /\ phase' = "libc" /\ place' = 1 /\ symtab' = file' /\ DOMAIN memory' = {}
      BY <2>2 DEF Open
    <3>2. \A lib : Texts(lib)' = {}
      BY <3>1 DEF Texts
    <3> QED
      BY <3>1, <3>2 DEF TextPlaced, TextOnce
  <2> QED
    BY <1>6, <2>1, <2>2
<1>7. CASE \E a \in Addrs : BreakAdd(a)
  BY <1>1, <1>7 DEF BreakAdd, Bounded, TextPlaced, TextOnce, Texts
<1>8. CASE UNCHANGED vars
  BY <1>1, <1>8 DEF vars, Bounded, TextPlaced, TextOnce, Texts
<1> QED
  BY <1>1, <1>2, <1>3, <1>4, <1>5, <1>6, <1>7, <1>8 DEF Next, Bounded

LEMMA BoundsOfText ==
  ASSUME NEW lib \in BOOLEAN, NEW old, Texts(lib) # {}, \A u, w \in Texts(lib) : u = w,
         memory \in Seq(Segments)
  PROVE  TextOf(lib, Low(lib, old), High(lib, old)) /\ Low(lib, 0) = Low(lib, old)
<1>1. PICK u : u \in Texts(lib)
  OBVIOUS
<1>2. Texts(lib) = {u} /\ Called(lib, "text") = {u}
  BY <1>1 DEF Texts, Called
<1>3. u \in Nat
  BY <1>1 DEF Texts
<1>4. PICK c : c = CHOOSE k \in {u} : \A w \in {u} : w <= k
  BY Zenon
<1>6. c \in {u}
  <2>1. u \in {u} /\ \A w \in {u} : w <= u
    BY <1>3
  <2> QED
    BY <1>4, <2>1, Zenon
<1>5. /\ \A x : Low(lib, x) = memory[c].start
      /\ High(lib, old) = memory[c].start + memory[c].size
  BY <1>2, <1>4, Zenon DEF Low, High
<1> QED
  BY <1>1, <1>5, <1>6 DEF TextOf, Texts

(* A load that ends has made the bounds, PC and the symbols those of the      *)
(* program it has just put in memory (emul.c:533, initprog): for every file,  *)
(* every size of its sections and every load that came before, its text is    *)
(* the only segment of the program called so, and none of the libc's.         *)
THEOREM BoundsRight == Spec => BoundsSet
<1>1. Init => Bounded
  BY InitLayout DEF Init, Bounded, TextPlaced, TextOnce
<1>2. Bounded /\ [Next]_vars =>
        [Finish => /\ IsInSymbols("text", Images[file].syms) =>
                        TextOf(FALSE, textStart', textEnd') /\ pc' = textStart'
                   /\ TextOf(TRUE, libcTextStart', libcTextEnd')
                   /\ symtab' = file']_vars
  <2> SUFFICES ASSUME Bounded, Finish
               PROVE  /\ IsInSymbols("text", Images[file].syms) =>
                           TextOf(FALSE, textStart', textEnd') /\ pc' = textStart'
                      /\ TextOf(TRUE, libcTextStart', libcTextEnd')
                      /\ symtab' = file'
    OBVIOUS
  <2>1. phase = "program" /\ place = 5 /\ place > 1
    BY DEF Finish
  <2>2. memory \in Seq(Segments)
    BY DEF Bounded, Layout, TypeOK
  <2>3. \A lib \in BOOLEAN : \A u, w \in Texts(lib) : u = w
    BY <2>1 DEF Bounded, TextOnce
  <2>4. Texts(TRUE) # {} /\ (IsInSymbols("text", Images[file].syms) => Texts(FALSE) # {})
        /\ symtab = file
    BY <2>1 DEF Bounded, TextPlaced
  <2>5. TextOf(TRUE, Low(TRUE, libcTextStart), High(TRUE, libcTextEnd))
    BY <2>2, <2>3, <2>4, BoundsOfText
  <2>6. IsInSymbols("text", Images[file].syms) =>
          /\ TextOf(FALSE, Low(FALSE, textStart), High(FALSE, textEnd))
          /\ Low(FALSE, 0) = Low(FALSE, textStart)
    BY <2>2, <2>3, <2>4, BoundsOfText
  <2> QED
    BY <2>4, <2>5, <2>6 DEF Finish
<1> QED
  BY <1>1, <1>2, BoundedKept, PTL DEF Spec, BoundsSet
-----------------------------------------------------------------------------
(* A symbol of the program breaks at its place. *)

(* 0x1000 and 2^32. *)
Aligned == Page % 4 = 0 /\ Space % 4 = 0

SizeOf(f, s) == Images[f].headers[Extract(Images[f], s)].size

(* A section that loadELF places has a name of its own, its symbol has that   *)
(* name, and the symbols of a section are in what is loaded of it, or at its  *)
(* end.  Sections that are not loaded may have symbols too.                   *)
SymbolsInside ==
  \A f \in Files :
    LET im == Images[f] IN
      /\ \E n \in Nat : DOMAIN im.syms = 1 .. n
      /\ \A q, r \in DOMAIN im.headers :
           im.headers[q].name = im.headers[r].name /\ im.headers[q].name \in SectionNames => q = r
      /\ \A k \in DOMAIN im.syms : im.syms[k].scn # 0 => im.syms[k].scn \in DOMAIN im.headers
      /\ \A k \in DOMAIN im.syms :
           LET y == im.syms[k] IN
             /\ y.name \in SectionNames => y.scn # 0 /\ im.headers[y.scn].name = y.name
             /\ \A s \in SectionNames :
                  y.scn # 0 /\ im.headers[y.scn].name = s => y.value \in 0 .. SizeOf(f, s)

Word(x) == \E q \in Int : x = 4 * q

Mine == {u \in DOMAIN memory : ~memory[u].lib}

(* Each segment of the program starts at a multiple of four, is as large as   *)
(* its section and has a symbol of its name; a page that is never full keeps it below what comes next;  *)
(* the text is the first of them.                                             *)
Homed ==
  /\ symtab \in {file, NoFile}
  /\ phase # "prompt" => Word(textStart)
  /\ phase = "program" => Word(next)
  /\ \A u \in Mine :
       /\ file \in Files /\ Word(memory[u].start) /\ memory[u].size = SizeOf(file, memory[u].name)
       /\ IsInSymbols(memory[u].name, Images[file].syms)
  /\ phase \in {"program", "prompt"} /\ Room => \A u \in Mine : Ends(memory[u]) < next
  /\ \A u \in Texts(FALSE), w \in Mine : u <= w
  /\ phase = "prompt" /\ symtab # NoFile => TextOf(TRUE, libcTextStart, libcTextEnd)

LEMMA WordRest ==
  ASSUME NEW x \in Int, Word(x), NEW v \in Nat
  PROVE  (x + v) % 4 = v % 4 /\ v % 4 \in 0 .. 3 /\ (x + v) - (v % 4) >= x
<1>1. PICK q \in Int : x = 4 * q
  BY DEF Word
<1>2. v % 4 \in 0 .. 3 /\ v = 4 * (v \div 4) + (v % 4) /\ v \div 4 \in Nat
  OBVIOUS
<1>3. PICK r \in 0 .. 3, d \in Nat : r = v % 4 /\ v = 4 * d + r
  BY <1>2
<1>4. (4 * (q + d) + r) % 4 = r
  BY <1>3
<1>5. x + v = 4 * (q + d) + r
  BY <1>1, <1>3
<1> QED
  BY <1>1, <1>2, <1>3, <1>4, <1>5

LEMMA PageWord == ASSUME Aligned PROVE /\ \E p \in Nat : p > 0 /\ Page = 4 * p
                                       /\ \E s \in Nat : Space = 4 * s
<1>1. Page \in Nat /\ Page > 0 /\ Space \in Nat
  BY LoaderAssumption
<1>2. ASSUME NEW x \in Nat, x % 4 = 0 PROVE \E q \in Nat : x = 4 * q
  <2>1. x = 4 * (x \div 4) + (x % 4) /\ x \div 4 \in Nat
    OBVIOUS
  <2> QED
    BY <1>2, <2>1
<1>3. PICK p \in Nat : Page = 4 * p
  BY <1>1, <1>2 DEF Aligned
<1>4. p > 0
  BY <1>1, <1>3
<1> QED
  BY <1>1, <1>2, <1>3, <1>4 DEF Aligned

(* A number of pages is a number of words. *)
LEMMA PagesOfWords == ASSUME Aligned, NEW k \in Int PROVE Word(Page * k) /\ Page * k \in Int
<1>1. PICK p \in Nat : Page = 4 * p
  BY PageWord
<1>2. PICK m \in Int : m = p * k
  OBVIOUS
<1>3. (4 * p) * k = 4 * m
  BY <1>2
<1> QED
  BY <1>1, <1>3 DEF Word

LEMMA PagesLarger ==
  ASSUME Aligned, NEW n \in Nat PROVE Word(Pages(n)) /\ n < Pages(n) /\ Pages(n) \in Nat
<1>1. Page \in Nat /\ Page > 0
  BY LoaderAssumption
<1>2. PICK q \in Nat, r \in 0 .. Page - 1 : q = (n + Page) \div Page /\ n + Page = Page * q + r
  BY <1>1
<1>3. Pages(n) = Page * q
  BY <1>1, <1>2 DEF Pages
<1>4. PICK m \in Int : m = Page * q
  BY <1>1
<1>5. Word(m)
  <2>1. q \in Int
    OBVIOUS
  <2> QED
    BY <1>4, <2>1, PagesOfWords
<1>6. n < m
  BY <1>1, <1>2, <1>4
<1>7. Pages(n) = m
  BY <1>3, <1>4
<1> QED
  BY <1>5, <1>6, <1>7

LEMMA AddressWord == ASSUME Aligned, NEW a \in Int, Word(a) PROVE Word(Address(a)) /\ Address(a) \in Int
<1>1. PICK s \in Nat : Space = 4 * s
  BY PageWord
<1>2. PICK q \in Int : a = 4 * q
  BY DEF Word
<1>3. a - Space = 4 * (q - s)
  BY <1>1, <1>2
<1> QED
  BY <1>1, <1>2, <1>3 DEF Word, Address

LEMMA RoundedUpWord == ASSUME Aligned, NEW a \in 0 .. Space - 1 PROVE Word(RoundedUp(a))
<1>1. Page \in Nat /\ Page > 0 /\ Space \in Nat
  BY LoaderAssumption
<1>2. PICK q \in Int, r \in 0 .. Page - 1 : a = Page * q + r /\ r = a % Page
  BY <1>1
<1>3. PICK m \in Int : m = Page * q
  BY <1>1
<1>4. Page * (q + 1) = m + Page
  BY <1>1, <1>3
<1>5. Word(m) /\ Word(m + Page)
  BY <1>3, <1>4, PagesOfWords
<1>6. CASE r > 0
  <2>1. a + Page - r = m + Page
    BY <1>1, <1>2, <1>3
  <2>2. RoundedUp(a) = Address(m + Page)
    BY <1>2, <1>6, <2>1 DEF RoundedUp
  <2> QED
    BY <1>1, <1>5, <2>2, AddressWord
<1>7. CASE r = 0
  BY <1>1, <1>2, <1>3, <1>5, <1>7 DEF RoundedUp
<1> QED
  BY <1>1, <1>6, <1>7

Sited == Bounded /\ Homed

LEMMA LibcHomed == ASSUME Sited, LoadLibc, TextPlaced' PROVE Homed'
<1>1. phase = "libc" /\ phase' = "libc" /\ file' = file /\ symtab' = symtab /\ textStart' = textStart
  BY DEF LoadLibc, bounds
<1>2. Mine' = {} /\ Texts(FALSE)' = {}
  BY <1>1 DEF TextPlaced, Mine, Texts
<1> QED
  BY <1>1, <1>2 DEF Sited, Homed

LEMMA DoneHomed == ASSUME Sited, LibcDone PROVE Homed'
<1>1. /\ phase = "libc" /\ phase' = "program" /\ memory' = memory /\ file' = file
      /\ symtab' = symtab /\ textStart' = textStart /\ next' = textStart
  BY DEF LibcDone, bounds
<1>2. Mine' = {} /\ Texts(FALSE)' = {}
  BY <1>1 DEF Sited, Bounded, TextPlaced, Mine, Texts
<1> QED
  BY <1>1, <1>2 DEF Sited, Homed

LEMMA OpenHomed ==
  ASSUME Aligned, NEW f \in Files, NEW a \in Addrs \cup {Default}, Open(f, a) PROVE Homed'
<1>1. /\ phase' = "libc" /\ file' = f /\ symtab' = f /\ memory' = <<>> /\ textStart' = RoundedUp(a)
  BY DEF Open, Request
<1>2. Word(textStart')
  <2>1. a \in 0 .. Space - 1
    BY LoaderAssumption
  <2> QED
    BY <1>1, <2>1, RoundedUpWord
<1>3. Mine' = {} /\ Texts(FALSE)' = {}
  BY <1>1 DEF Mine, Texts
<1> QED
  BY <1>1, <1>2, <1>3 DEF Homed

LEMMA RefuseHomed ==
  ASSUME Sited, NEW f, NEW a, Refuse(f, a) PROVE Homed'
<1>1. /\ phase' = "prompt" /\ phase = "prompt" /\ file' = file /\ symtab' = NoFile
      /\ memory' = memory /\ next' = next
  BY DEF Refuse, Request
<1>2. Mine' = Mine /\ Texts(FALSE)' = Texts(FALSE) /\ (Room' <=> Room)
  BY <1>1 DEF Mine, Texts, Room
<1> QED
  BY <1>1, <1>2 DEF Sited, Homed, Ends

(* A step that moves breakpoints only, or nothing. *)
LEMMA StillHomed ==
  ASSUME Sited, UNCHANGED <<phase, file, next, memory, symtab, bounds>> PROVE Homed'
<1>1. Mine' = Mine /\ Texts(FALSE)' = Texts(FALSE) /\ (Room' <=> Room)
  BY DEF Mine, Texts, Room
<1>2. TextOf(TRUE, libcTextStart, libcTextEnd)' <=> TextOf(TRUE, libcTextStart, libcTextEnd)
  BY DEF TextOf, bounds
<1> QED
  BY <1>1, <1>2 DEF Sited, Homed, Ends, bounds

LEMMA FinishHomed == ASSUME Sited, Finish PROVE Homed'
<1>1. /\ phase = "program" /\ place = 5 /\ phase' = "prompt" /\ file' = file /\ symtab' = symtab
      /\ memory' = memory /\ next' = next
      /\ libcTextStart' = Low(TRUE, libcTextStart) /\ libcTextEnd' = High(TRUE, libcTextEnd)
  BY DEF Finish
<1>2. Mine' = Mine /\ Texts(FALSE)' = Texts(FALSE) /\ (Room' <=> Room)
  BY <1>1 DEF Mine, Texts, Room
<1>3. /\ memory \in Seq(Segments) /\ Texts(TRUE) # {}
      /\ \A u, w \in Texts(TRUE) : u = w
  BY <1>1 DEF Sited, Bounded, Layout, TypeOK, TextPlaced, TextOnce
<1>4. TextOf(TRUE, Low(TRUE, libcTextStart), High(TRUE, libcTextEnd))
  BY <1>3, BoundsOfText
<1>5. TextOf(TRUE, libcTextStart, libcTextEnd)'
  BY <1>1, <1>4 DEF TextOf
<1> QED
  BY <1>1, <1>2, <1>5 DEF Sited, Homed, Ends

LEMMA PlaceHomed == ASSUME Aligned, Sited, LoadProgram, PlaceProgram PROVE Homed'
<1>1. /\ phase = "program" /\ phase' = "program" /\ file' = file /\ symtab' = symtab
      /\ textStart' = textStart
  BY DEF LoadProgram, bounds
<1>2. PICK s \in Segments : /\ s = Segment(file, Sections[place], Address(next)) /\ s.lib = FALSE
                            /\ s.size \in Nat /\ s.start = Address(next)
  BY ProgramSection DEF Sited, Bounded
<1>3. /\ memory' = Append(memory, s) /\ next' = next + Pages(s.size)
      /\ place \in 1 .. 4 /\ place' = place + 1
  BY <1>2 DEF PlaceProgram, Sited, Bounded, Layout, TypeOK
<1>4. memory \in Seq(Segments) /\ next \in Int /\ file \in Files /\ file # NoFile
  BY <1>1, LoaderAssumption DEF Sited, Bounded, Layout, TypeOK
<1>5. PICK n \in Nat : n = Len(memory)
  BY <1>4
<1>6. /\ DOMAIN memory' = 1 .. n + 1 /\ DOMAIN memory = 1 .. n
      /\ \A u \in 1 .. n : memory'[u] = memory[u] /\ memory[u] \in Segments
      /\ memory'[n + 1] = s
      /\ Texts(FALSE)' = IF s.lib = FALSE /\ s.name = "text"
                         THEN Texts(FALSE) \cup {n + 1} ELSE Texts(FALSE)
  BY <1>3, <1>4, <1>5, OneMore, Placed
<1>7. Mine' = Mine \cup {n + 1} /\ Mine \subseteq 1 .. n
  BY <1>2, <1>6 DEF Mine
<1>8. s.name = Sections[place] /\ s.size = SizeOf(file, s.name) /\ IsInSymbols(s.name, Images[file].syms)
  BY <1>2, <1>4 DEF Segment, SizeOf, AnImage, PlaceProgram
<1>9. s.name = "text" => Mine = {}
  <2>1. s.name = "text" => place = 1
    BY <1>3, <1>8, TextFirst
  <2> QED
    BY <1>1, <2>1 DEF Sited, Bounded, TextPlaced, Mine
<1>10. Word(s.start) /\ Word(next')
  <2>1. Word(next)
    BY <1>1 DEF Sited, Homed
  <2>2. Word(Pages(s.size)) /\ Pages(s.size) \in Nat
    BY <1>2, PagesLarger
  <2>3. PICK m \in Nat : m = Pages(s.size)
    BY <2>2
  <2>4. PICK x \in Int, y \in Int : next = 4 * x /\ m = 4 * y
    BY <2>1, <2>2, <2>3 DEF Word
  <2>5. next + m = 4 * (x + y)
    BY <2>4
  <2>6. Word(next')
    BY <1>3, <2>3, <2>5 DEF Word
  <2> QED
    BY <1>2, <1>4, <2>1, <2>6, AddressWord
<1>11. ASSUME NEW u \in Mine'
       PROVE  /\ file' \in Files /\ Word(memory'[u].start) /\ memory'[u].size = SizeOf(file', memory'[u].name)
              /\ IsInSymbols(memory'[u].name, Images[file'].syms)
  <2>1. CASE u = n + 1
    BY <1>1, <1>4, <1>6, <1>8, <1>10, <2>1
  <2>2. CASE u # n + 1
    BY <1>1, <1>6, <1>7, <1>11, <2>2 DEF Sited, Homed
  <2> QED
    BY <2>1, <2>2
<1>12. ASSUME Room', NEW u \in Mine' PROVE memory'[u].start + memory'[u].size < next'
  <2>1. PICK m \in Nat : m = Pages(s.size) /\ s.size < m
    BY <1>2, PagesLarger
  <2>2. next' = next + m /\ next' <= LibcEnd /\ LibcEnd < Space /\ LibcEnd \in Nat /\ Space \in Nat
    BY <1>3, <1>12, <2>1, LoaderAssumption DEF Room
  <2>3. CASE u = n + 1
    <3>1. s.start = next
      BY <1>2, <1>4, <2>1, <2>2 DEF Address
    <3> QED
      BY <1>2, <1>4, <1>6, <2>1, <2>2, <2>3, <3>1
  <2>4. CASE u # n + 1
    <3>1. next <= LibcEnd
      BY <1>4, <2>1, <2>2
    <3>2. \A w \in 1 .. n : memory[w].lib => next <= memory[w].start
      <4>1. \A w \in 1 .. n : memory[w].lib => next' <= memory[w].start
        BY <1>6, <1>12 DEF Room
      <4>2. \A w \in 1 .. n : memory[w].start \in Int
        BY <1>6 DEF Segments
      <4> QED
        BY <1>4, <2>1, <2>2, <4>1, <4>2
    <3>3. Room
      BY <1>6, <3>1, <3>2 DEF Room
    <3>4. u \in Mine /\ u \in 1 .. n /\ memory'[u] = memory[u]
      BY <1>6, <1>7, <1>12, <2>4
    <3>5. memory[u].start + memory[u].size < next
      BY <1>1, <3>3, <3>4 DEF Sited, Homed, Ends
    <3>6. memory[u].start \in Int /\ memory[u].size \in Int
      BY <1>6, <3>4 DEF Segments
    <3> QED
      BY <1>4, <2>1, <2>2, <3>4, <3>5, <3>6
  <2> QED
    BY <2>3, <2>4
<1>13. ASSUME NEW u \in Texts(FALSE)', NEW w \in Mine' PROVE u <= w
  <2>1. CASE s.name = "text"
    <3>1. Texts(FALSE) \subseteq Mine
      BY <1>6 DEF Texts, Mine
    <3>2. u = n + 1 /\ w = n + 1
      BY <1>2, <1>6, <1>7, <1>9, <1>13, <2>1, <3>1
    <3> QED
      BY <3>2
  <2>2. CASE s.name # "text"
    <3>1. u \in Texts(FALSE) /\ u \in 1 .. n
      BY <1>6, <1>13, <2>2 DEF Texts
    <3>2. CASE w = n + 1
      BY <3>1, <3>2
    <3>3. CASE w # n + 1
      BY <1>7, <1>13, <3>1, <3>3 DEF Sited, Homed
    <3> QED
      BY <3>2, <3>3
  <2> QED
    BY <2>1, <2>2
<1>14. Word(textStart') /\ symtab' \in {file', NoFile}
  BY <1>1 DEF Sited, Homed
<1> QED
  BY <1>1, <1>10, <1>11, <1>12, <1>13, <1>14 DEF Homed, Ends

LEMMA SitedKept == ASSUME Aligned PROVE Sited /\ [SymNext]_vars => Sited'
<1> SUFFICES ASSUME Sited, [SymNext]_vars PROVE Sited'
  OBVIOUS
<1>1. ASSUME [Next]_vars PROVE Bounded'
  BY <1>1, BoundedKept DEF Sited
<1>2. CASE Next
  <2>1. Bounded'
    BY <1>1, <1>2
  <2>2. CASE LoadLibc
    BY <2>1, <2>2, LibcHomed DEF Sited, Bounded
  <2>3. CASE LibcDone
    BY <2>1, <2>3, DoneHomed DEF Sited
  <2>4. CASE LoadProgram
    <3>1. CASE PlaceProgram
      BY <2>1, <2>4, <3>1, PlaceHomed DEF Sited
    <3>2. CASE Skip(file)
      BY <2>1, <2>4, <3>2, StillHomed DEF Sited, LoadProgram, Skip
    <3> QED
      BY <2>4, <3>1, <3>2 DEF LoadProgram
  <2>5. CASE Finish
    BY <2>1, <2>5, FinishHomed DEF Sited
  <2>6. ASSUME NEW a \in Addrs \cup {Default}, NEW f \in Files \cup Unreadable,
               Refuse(f, a) \/ Open(f, a)
        PROVE  Homed'
    <3>1. CASE Refuse(f, a)
      BY <3>1, RefuseHomed
    <3>2. CASE Open(f, a)
      <4>1. f \in Files
        BY <3>2 DEF Open
      <4> QED
        BY <3>2, <4>1, OpenHomed
    <3> QED
      BY <2>6, <3>1, <3>2
  <2>7. CASE \E a \in Addrs : BreakAdd(a)
    <3>1. UNCHANGED <<phase, file, next, memory, symtab, bounds>>
      BY <2>7 DEF BreakAdd
    <3> QED
      BY <2>1, <3>1, StillHomed DEF Sited
  <2> QED
    BY <1>2, <2>1, <2>2, <2>3, <2>4, <2>5, <2>6, <2>7 DEF Next, Sited
<1>3. CASE \E n \in Names : BreakSymbol(n)
  <2>1. UNCHANGED <<phase, file, place, next, memory, symtab, bounds>>
    BY <1>3 DEF BreakSymbol
  <2>2. Layout'
    BY <2>1 DEF Sited, Bounded, Layout, TypeOK, LibcBelow, LibcDown, LibcAhead, ProgramUp, Room, Ends, bounds
  <2>3. TextPlaced' /\ TextOnce'
    BY <2>1 DEF Sited, Bounded, TextPlaced, TextOnce, Texts
  <2>4. Homed'
    BY <2>1, StillHomed
  <2> QED
    BY <2>2, <2>3, <2>4 DEF Sited, Bounded
<1>4. CASE UNCHANGED vars
  <2>1. UNCHANGED <<phase, file, next, memory, symtab, bounds>>
    BY <1>4 DEF vars
  <2>2. Homed'
    BY <2>1, StillHomed
  <2>3. [Next]_vars
    BY <1>4
  <2>4. Bounded'
    BY <1>1, <2>3
  <2> QED
    BY <2>2, <2>4 DEF Sited
<1> QED
  BY <1>2, <1>3, <1>4 DEF SymNext

(* The symbol found for a name has it. *)
LEMMA SymbolFound ==
  ASSUME NEW tab, NEW n \in Nat, DOMAIN tab = 1 .. n, NEW s, SymByName(s, tab) # 0
  PROVE  SymByName(s, tab) \in DOMAIN tab /\ tab[SymByName(s, tab)].name = s
<1> DEFINE T == {u \in DOMAIN tab : tab[u].name = s}
           P(u) == tab[u].name = s /\ \A w \in 1 .. u - 1 : ~(tab[w].name = s)
<1>1. SymByName(s, tab) = IF \E u \in DOMAIN tab : tab[u].name = s
                            THEN CHOOSE u \in DOMAIN tab : P(u) ELSE 0
  BY Zenon DEF SymByName, FirstIndex
<1>2. ASSUME \E u \in DOMAIN tab : tab[u].name = s PROVE \E u \in DOMAIN tab : P(u)
  <2>1. T \subseteq 1 .. n /\ T # {}
    BY <1>2
  <2>2. PICK u \in T : \A w \in 1 .. u - 1 : w \notin T
    BY <2>1, LeastOf
  <2>3. \A w \in 1 .. u - 1 : w \in 1 .. n
    BY <2>1
  <2> QED
    BY <2>2, <2>3
<1>3. SymByName(s, tab) \in DOMAIN tab /\ P(SymByName(s, tab))
  <2> HIDE DEF P
  <2> QED
    BY <1>1, <1>2, Zenon
<1> QED
  BY <1>3

(* The segment taken for section k has the name of a symbol of that section. *)
LEMMA SegmentFound ==
  ASSUME NEW tab, NEW n \in Nat, DOMAIN tab = 1 .. n, NEW k, NEW u,
         u = SegmentOf(tab, k), u # 0
  PROVE  \E y \in DOMAIN tab : tab[y].scn = k /\ u \in Called(FALSE, tab[y].name)
<1> DEFINE Good(y) == tab[y].scn = k /\ Called(FALSE, tab[y].name) # {}
           T == {y \in DOMAIN tab : Good(y)}
           P(y) == Good(y) /\ \A w \in 1 .. y - 1 : ~Good(w)
           y0 == IF \E y \in DOMAIN tab : Good(y) THEN CHOOSE y \in DOMAIN tab : P(y) ELSE 0
<1>1. u = IF y0 = 0 THEN 0 ELSE CHOOSE c \in Called(FALSE, tab[y0].name) : TRUE
  BY Zenon DEF SegmentOf, FirstIndex
<1>2. ASSUME \E y \in DOMAIN tab : Good(y) PROVE \E y \in DOMAIN tab : P(y)
  <2> HIDE DEF y0
  <2>1. T \subseteq 1 .. n /\ T # {}
    BY <1>2
  <2>2. PICK y \in T : \A w \in 1 .. y - 1 : w \notin T
    BY <2>1, LeastOf
  <2>3. \A w \in 1 .. y - 1 : w \in 1 .. n
    BY <2>1
  <2> QED
    BY <2>2, <2>3
<1>3. y0 # 0
  <2> HIDE DEF y0
  <2> QED
    BY <1>1, Zenon
<1>4. y0 \in DOMAIN tab /\ P(y0)
  <2> HIDE DEF P, Good
  <2> QED
    BY <1>2, <1>3, Zenon
<1> HIDE DEF y0
<1>5. Called(FALSE, tab[y0].name) # {}
  BY <1>4
<1>6. u \in Called(FALSE, tab[y0].name)
  BY <1>1, <1>3, <1>5, Zenon
<1> QED
  BY <1>4, <1>6


(* There is one when such a symbol exists. *)
LEMMA SegmentExists ==
  ASSUME NEW tab, NEW n \in Nat, DOMAIN tab = 1 .. n, NEW k, memory \in Seq(Segments),
         NEW t \in DOMAIN tab, tab[t].scn = k, Called(FALSE, tab[t].name) # {}
  PROVE  SegmentOf(tab, k) # 0
<1> DEFINE Good(y) == tab[y].scn = k /\ Called(FALSE, tab[y].name) # {}
           P(y) == Good(y) /\ \A w \in 1 .. y - 1 : ~Good(w)
           y0 == CHOOSE y \in DOMAIN tab : P(y)
<1>1. SegmentOf(tab, k) = IF (IF \E y \in DOMAIN tab : Good(y) THEN y0 ELSE 0) = 0 THEN 0
                          ELSE CHOOSE c \in Called(FALSE, tab[IF \E y \in DOMAIN tab : Good(y)
                                                             THEN y0 ELSE 0].name) : TRUE
  BY Zenon DEF SegmentOf, FirstIndex
<1>2. Good(t)
  OBVIOUS
<1>3. \E y \in DOMAIN tab : P(y)
  <2> DEFINE T == { y \in DOMAIN tab : Good(y) }
  <2>1. T \subseteq 1 .. n /\ T # {}
    BY <1>2
  <2>2. PICK y \in T : \A w \in 1 .. y - 1 : w \notin T
    <3> HIDE DEF T
    <3> QED
      BY <2>1, LeastOf
  <2>3. \A w \in 1 .. y - 1 : w \in 1 .. n
    BY <2>1
  <2> QED
    BY <2>2, <2>3
<1>4. y0 \in DOMAIN tab /\ P(y0)
  <2> HIDE DEF P, Good
  <2> QED
    BY <1>3, Zenon
<1>5. SegmentOf(tab, k) = IF y0 = 0 THEN 0 ELSE CHOOSE c \in Called(FALSE, tab[y0].name) : TRUE
  <2> HIDE DEF y0, Good
  <2> QED
    BY <1>1, <1>2, Zenon
<1> HIDE DEF y0
<1>6. y0 # 0 /\ Called(FALSE, tab[y0].name) # {}
  <2>1. y0 \in 1 .. n
    BY <1>4
  <2>2. Good(y0)
    <3> HIDE DEF Good
    <3> QED
      BY <1>4
  <2>3. y0 # 0
    <3> HIDE DEF Good
    <3>1. \A x \in 1 .. n : x # 0
      OBVIOUS
    <3> QED
      BY <2>1, <3>1
  <2> QED
    BY <2>2, <2>3, Zenon
<1>7. SegmentOf(tab, k) \in Called(FALSE, tab[y0].name)
  BY <1>5, <1>6, Zenon
<1>8. SegmentOf(tab, k) \in DOMAIN memory
  BY <1>7 DEF Called
<1> QED
  BY <1>8

(* What break finds for a name that only the program defines, in a section    *)
(* that is loaded: a symbol of the program, and the segment loaded from its   *)
(* section.                                                                   *)
FoundAs(n, b, k, u) ==
  /\ k = SymByName(n, ProgramSyms) /\ k \in DOMAIN ProgramSyms /\ ProgramSyms[k].scn # 0
  /\ \E t \in DOMAIN ProgramSyms :
       ProgramSyms[t].scn = ProgramSyms[k].scn /\ u \in Called(FALSE, ProgramSyms[t].name)
  /\ b = memory[u].start + ProgramSyms[k].value

(* The section of a symbol of the program has a segment. *)
HasSegment(k) ==
  \E t \in DOMAIN ProgramSyms :
    ProgramSyms[t].scn = ProgramSyms[k].scn /\ Called(FALSE, ProgramSyms[t].name) # {}

LEMMA NameDefined ==
  ASSUME NEW n, SymByName(n, Libc.syms) = 0, NEW b \in BreakAddress(n), b # 0,
         NEW len \in Nat, DOMAIN ProgramSyms = 1 .. len
  PROVE  /\ SymByName(n, ProgramSyms) \in DOMAIN ProgramSyms
         /\ b \in AddrFromSymnb(SymByName(n, ProgramSyms), ProgramSyms)
<1>1. PICK tab, k : tab = ProgramSyms /\ k = SymByName(n, tab)
  OBVIOUS
<1>2. BreakAddress(n) = Lookup(n, tab, {0})
  BY <1>1 DEF BreakAddress, Lookup
<1>3. k # 0 /\ b \in AddrFromSymnb(k, tab)
  BY <1>1, <1>2 DEF Lookup
<1>4. k \in DOMAIN tab
  BY <1>1, <1>3, SymbolFound
<1> QED
  BY <1>1, <1>3, <1>4

LEMMA BreakFound ==
  ASSUME NEW n, SymByName(n, Libc.syms) = 0, NEW b \in BreakAddress(n), b # 0,
         NEW len \in Nat, DOMAIN ProgramSyms = 1 .. len, memory \in Seq(Segments),
         ProgramSyms[SymByName(n, ProgramSyms)].scn # 0, HasSegment(SymByName(n, ProgramSyms))
  PROVE  \E k, u : FoundAs(n, b, k, u)
<1>1. PICK tab, k : tab = ProgramSyms /\ k = SymByName(n, tab)
  OBVIOUS
<1>2. k \in DOMAIN tab /\ tab[k].scn # 0 /\ b \in AddrFromSymnb(k, tab)
  BY <1>1, NameDefined
<1>3. PICK u, q : q = tab[k].scn /\ u = SegmentOf(tab, q)
  OBVIOUS
<1>4. DOMAIN tab = 1 .. len
  BY <1>1
<1>5. u # 0
  <2>1. PICK t \in DOMAIN tab : tab[t].scn = q /\ Called(FALSE, tab[t].name) # {}
    BY <1>1, <1>3 DEF HasSegment
  <2> QED
    BY <1>3, <1>4, <2>1, SegmentExists
<1>6. b = memory[u].start + tab[k].value
  BY <1>2, <1>3, <1>5 DEF AddrFromSymnb
<1>7. \E t \in DOMAIN tab : tab[t].scn = q /\ u \in Called(FALSE, tab[t].name)
  BY <1>3, <1>4, <1>5, SegmentFound
<1> QED
  BY <1>1, <1>2, <1>3, <1>6, <1>7 DEF FoundAs

(* An address of a segment other than the text is outside both texts.        *)
LEMMA OutsideText ==
  ASSUME Sited, Room, phase = "prompt", symtab # NoFile, TextOf(FALSE, textStart, textEnd),
         NEW u \in Mine, memory[u].name # "text", NEW a \in Int, NEW v \in 0 .. memory[u].size,
         a >= memory[u].start, a <= memory[u].start + v
  PROVE  ~InText(a)
<1>1. memory \in Seq(Segments)
  BY DEF Sited, Bounded, Layout, TypeOK
<1>2. \A w \in DOMAIN memory : memory[w].start \in Int /\ memory[w].size \in Nat /\ w \in Int
  <2> SUFFICES ASSUME NEW w \in DOMAIN memory
               PROVE  memory[w].start \in Int /\ memory[w].size \in Nat /\ w \in Int
    OBVIOUS
  <2>1. PICK n \in Nat : DOMAIN memory = 1 .. n
    BY <1>1
  <2>2. memory[w] \in Segments
    BY <1>1
  <2> QED
    BY <2>1, <2>2 DEF Segments
<1>3. PICK t \in Texts(FALSE) : textStart = memory[t].start /\ textEnd = memory[t].start + memory[t].size
  BY DEF TextOf, Texts
<1>4. t \in Mine /\ t # u /\ t <= u /\ u \in DOMAIN memory /\ t \in DOMAIN memory
  BY <1>3 DEF Sited, Homed, Texts, Mine
<1>5. t < u
  BY <1>2, <1>4
<1>6. textEnd <= memory[u].start
  BY <1>3, <1>4, <1>5 DEF Sited, Bounded, Layout, ProgramUp, Ends, Mine
<1>7. PICK l \in DOMAIN memory : memory[l].lib /\ libcTextStart = memory[l].start
  BY DEF Sited, Homed, TextOf
<1>8. memory[u].start + memory[u].size < next /\ next <= libcTextStart
  BY <1>4, <1>7 DEF Sited, Homed, Room, Ends
<1>9. next \in Int
  BY DEF Sited, Bounded, Layout, TypeOK
<1>10. ~(a \in textStart .. textEnd - 1)
  BY <1>2, <1>3, <1>4, <1>6
<1>11. ~(a \in libcTextStart .. libcTextEnd - 1)
  <2>1. memory[u].start \in Int /\ memory[u].size \in Nat /\ libcTextStart \in Int
    BY <1>2, <1>4, <1>7
  <2>2. memory[u].start + v <= memory[u].start + memory[u].size
    BY <2>1
  <2>3. a < libcTextStart
    BY <1>8, <1>9, <2>1, <2>2
  <2> QED
    BY <2>1, <2>3
<1> QED
  BY <1>10, <1>11 DEF InText

(* A name that only the program defines, in a section that is loaded, breaks  *)
(* at its place in the text of the program or not at all, for every file,     *)
(* address of load and sequence of commands: the symbols in memory are those  *)
(* of the program that is, each of its segments has the symbol that the       *)
(* search goes through and is on words, and an address outside its text is    *)
(* refused (user_int.c, break add with a symbol).  Files are those whose      *)
(* symbols are inside the sections that are loaded, whatever those of other   *)
(* sections are, and programs end below the libc.                             *)
THEOREM SymbolPlaced ==
  ASSUME Aligned, SymbolsInside
  PROVE  SymSpec /\ []Fits => ProgramSymbolPlaced
<1>1. Init => Sited
  <2> SUFFICES ASSUME Init PROVE Sited
    OBVIOUS
  <2>1. Layout
    BY InitLayout
  <2>2. Mine = {} /\ Texts(FALSE) = {} /\ Texts(TRUE) = {}
    BY DEF Init, Mine, Texts
  <2>3. TextPlaced /\ TextOnce
    BY <2>2 DEF Init, TextPlaced, TextOnce, Texts
  <2>4. Homed
    BY <2>2 DEF Init, Homed
  <2> QED
    BY <2>1, <2>3, <2>4 DEF Sited, Bounded
<1> DEFINE AtItsPlace(n) ==
      LET y == ProgramSyms[SymByName(n, ProgramSyms)] IN
        /\ BreakSymbol(n) /\ SymByName(n, Libc.syms) = 0 /\ SectionLoaded(y)
        /\ TextOf(FALSE, textStart, textEnd)
        => /\ Images[symtab].headers[y.scn].name = "text"
           /\ breaklist' = breaklist \cup {textStart + y.value - (y.value % 4)}
<1>2. Sited /\ Fits => [\A n \in Names : AtItsPlace(n)]_vars
  <2> SUFFICES ASSUME Sited, Fits, NEW n \in Names, BreakSymbol(n), SymByName(n, Libc.syms) = 0,
                      SectionLoaded(ProgramSyms[SymByName(n, ProgramSyms)]),
                      TextOf(FALSE, textStart, textEnd)
               PROVE  LET y == ProgramSyms[SymByName(n, ProgramSyms)] IN
                        /\ Images[symtab].headers[y.scn].name = "text"
                        /\ breaklist' = breaklist \cup {textStart + y.value - (y.value % 4)}
    OBVIOUS
  <2>1. PICK b \in BreakAddress(n) : /\ phase = "prompt" /\ b # 0 /\ InText(b - (b % 4))
                                     /\ breaklist' = breaklist \cup {b - (b % 4)}
    BY DEF BreakSymbol
  <2>2. Room
    BY <2>1 DEF Fits, Room
  <2>3. symtab # NoFile /\ symtab = file /\ file \in Files
    <3>1. CASE symtab = NoFile
      <4>1. ProgramSyms = <<>> /\ DOMAIN ProgramSyms = 1 .. 0
        BY <3>1 DEF ProgramSyms
      <4>2. SymByName(n, ProgramSyms) \in DOMAIN ProgramSyms
        BY <2>1, <4>1, NameDefined
      <4> QED
        BY <4>1, <4>2
    <3>2. CASE symtab # NoFile
      <4>1. symtab = file
        BY <3>2 DEF Sited, Homed
      <4>2. file \in Files
        BY <3>2, <4>1 DEF Sited, Bounded, Layout, TypeOK
      <4> QED
        BY <3>2, <4>1, <4>2
    <3> QED
      BY <3>1, <3>2
  <2>4. PICK im : im = Images[file] /\ ProgramSyms = im.syms
    BY <2>3 DEF ProgramSyms
  <2>5. PICK len \in Nat : DOMAIN ProgramSyms = 1 .. len
    BY <2>3, <2>4 DEF SymbolsInside
  <2>51. PICK m : m = SymByName(n, ProgramSyms) /\ m \in DOMAIN ProgramSyms
    BY <2>1, <2>5, NameDefined
  <2>52. PICK r : /\ r = ProgramSyms[m].scn /\ r # 0 /\ Called(FALSE, im.headers[r].name) # {}
    BY <2>3, <2>4, <2>51 DEF SectionLoaded
  <2>53. HasSegment(m)
    <3>1. PICK w \in DOMAIN memory : memory[w].lib = FALSE /\ memory[w].name = im.headers[r].name
      BY <2>52 DEF Called
    <3>2. w \in Mine /\ memory[w].name \in SectionNames
      <4>1. memory[w] \in Segments
        BY <3>1 DEF Sited, Bounded, Layout, TypeOK
      <4> QED
        BY <3>1, <4>1 DEF Mine, Segments
    <3>3. PICK t \in DOMAIN im.syms : im.syms[t].name = memory[w].name
      BY <2>4, <3>2 DEF Sited, Homed, IsInSymbols
    <3>4. PICK q : q = im.syms[t].scn /\ q # 0 /\ im.headers[q].name = memory[w].name
      BY <2>3, <2>4, <3>2, <3>3 DEF SymbolsInside
    <3>5. q \in DOMAIN im.headers /\ r \in DOMAIN im.headers
      BY <2>3, <2>4, <2>51, <2>52, <3>3, <3>4 DEF SymbolsInside
    <3>6. im.headers[q].name = im.headers[r].name /\ im.headers[q].name \in SectionNames
      BY <3>1, <3>2, <3>4
    <3>7. q = r
      BY <2>3, <2>4, <3>5, <3>6 DEF SymbolsInside
    <3>8. Called(FALSE, im.syms[t].name) # {}
      BY <2>52, <3>1, <3>3
    <3> QED
      BY <2>4, <2>52, <3>3, <3>4, <3>7, <3>8 DEF HasSegment
  <2>6. PICK k, u : FoundAs(n, b, k, u)
    <3>1. memory \in Seq(Segments)
      BY DEF Sited, Bounded, Layout, TypeOK
    <3> QED
      BY <2>1, <2>5, <2>51, <2>52, <2>53, <3>1, BreakFound
  <2>7. PICK t \in DOMAIN ProgramSyms :
          ProgramSyms[t].scn = ProgramSyms[k].scn /\ u \in Called(FALSE, ProgramSyms[t].name)
    BY <2>6 DEF FoundAs
  <2>8. PICK y, s : y = ProgramSyms[k] /\ s = ProgramSyms[t].name
    OBVIOUS
  <2>9. /\ y.scn # 0 /\ b = memory[u].start + y.value /\ k = SymByName(n, ProgramSyms)
        /\ k \in DOMAIN ProgramSyms
    BY <2>6, <2>8 DEF FoundAs
  <2>10. u \in Mine /\ memory[u].name = s /\ s \in SectionNames
    <3>1. u \in DOMAIN memory /\ memory[u].lib = FALSE /\ memory[u].name = s
      BY <2>7, <2>8 DEF Called
    <3>2. memory[u] \in Segments
      BY <3>1 DEF Sited, Bounded, Layout, TypeOK
    <3> QED
      BY <3>1, <3>2 DEF Mine, Segments
  <2>11. im.headers[y.scn].name = s
    BY <2>3, <2>4, <2>7, <2>8, <2>10 DEF SymbolsInside
  <2>12. y.value \in 0 .. memory[u].size
    <3>1. y.value \in 0 .. SizeOf(file, s)
      BY <2>3, <2>4, <2>8, <2>9, <2>10, <2>11 DEF SymbolsInside
    <3>2. memory[u].size = SizeOf(file, s)
      BY <2>10 DEF Sited, Homed
    <3> QED
      BY <3>1, <3>2
  <2>13. memory[u].start \in Int /\ memory[u].size \in Nat /\ Word(memory[u].start)
    <3>1. memory[u] \in Segments
      BY <2>10 DEF Mine, Sited, Bounded, Layout, TypeOK
    <3> QED
      BY <2>10, <3>1 DEF Segments, Sited, Homed
  <2>14. PICK x \in Int, v \in Nat : x = memory[u].start /\ v = y.value /\ Word(x)
    BY <2>12, <2>13
  <2>15. (x + v) % 4 = v % 4 /\ v % 4 \in 0 .. 3 /\ (x + v) - (v % 4) >= x
    BY <2>14, WordRest
  <2>16. PICK a \in Int : a = x + v - (v % 4)
    BY <2>15
  <2>17. b - (b % 4) = a
    BY <2>9, <2>14, <2>15, <2>16
  <2>18. a >= x /\ a <= x + v
    BY <2>15, <2>16
  <2>19. s = "text"
    <3>1. InText(a)
      BY <2>1, <2>17
    <3> QED
      BY <2>1, <2>2, <2>3, <2>10, <2>12, <2>14, <2>18, <3>1, OutsideText
  <2>20. textStart = x
    <3>1. u \in Texts(FALSE)
      BY <2>10, <2>19 DEF Mine, Texts
    <3>2. PICK w \in Texts(FALSE) : textStart = memory[w].start
      BY DEF TextOf, Texts
    <3>3. u = w
      <4>1. u \in Mine /\ w \in Mine
        BY <3>1, <3>2 DEF Texts, Mine
      <4>2. u <= w /\ w <= u
        BY <3>1, <3>2, <4>1 DEF Sited, Homed
      <4>3. u \in Int /\ w \in Int
        BY <4>1 DEF Mine, Sited, Bounded, Layout, TypeOK
      <4> QED
        BY <4>2, <4>3
    <3> QED
      BY <2>14, <3>2, <3>3
  <2>21. Images[symtab].headers[y.scn].name = "text"
    BY <2>3, <2>4, <2>11, <2>19
  <2>22. breaklist' = breaklist \cup {textStart + y.value - (y.value % 4)}
    BY <2>1, <2>14, <2>16, <2>17, <2>20
  <2> QED
    BY <2>8, <2>9, <2>21, <2>22
<1>3. Sited /\ [SymNext]_vars => Sited'
  BY SitedKept
<1>4. ProgramSymbolPlaced <=> [][\A n \in Names : AtItsPlace(n)]_vars
  BY DEF ProgramSymbolPlaced
<1> QED
  BY <1>1, <1>2, <1>3, <1>4, PTL DEF SymSpec

-----------------------------------------------------------------------------
(***************************************************************************)
(* The table of segments holds each section in the slot loadELF looks for    *)
(* it in, whatever the sections of the two files and those that cannot be     *)
(* read.  The invariant counts: j is the number of sections met so far, the   *)
(* slots up to j have names, those after it have none, and no name in use is  *)
(* that of a section still to come.                                           *)
(***************************************************************************)

Pairs == {"", "libc", "program", "init_mem"} \X (Loadable \cup SpecialNames)
Slots == [name : Pairs \cup {Free}, content : Pairs \cup {Free}]
Empty == [name |-> Free, content |-> Free]
Total == Count(table.libc, 4) + Count(table.program, 4)

Sized ==
  /\ table \in Tables /\ stage \in {"libc", "rename", "program", "bounds", "loaded"}
  /\ i \in 1 .. 5 /\ j \in Nat
  /\ seg \in [1 .. Total + 2 -> Slots]
  /\ seg[Total + 1].name # Free /\ seg[Total + 2].name # Free

Counted ==
  /\ stage = "libc" => j = Count(table.libc, i - 1)
  /\ stage = "rename" => j = Count(table.libc, 4)
  /\ stage = "program" => j = Count(table.libc, 4) + Count(table.program, i - 1)
  /\ stage \in {"bounds", "loaded"} => j = Total

SlotsNamed ==
  /\ \A k \in 1 .. j : seg[k].name # Free
  /\ \A k \in j + 1 .. Total : seg[k] = Empty
  /\ stage \in {"libc", "program"} =>
       \A k \in 1 .. j : \A m \in i .. 4 : seg[k].name # <<"", section_names[m]>>
  /\ stage \in {"libc", "rename"} =>
       \A k \in 1 .. j : \E s \in Loadable : seg[k].name = <<"", s>>

Attached == Sized /\ Counted /\ SlotsNamed /\ OwnSlot

-----------------------------------------------------------------------------
(* Counting. *)

LEMMA FourSections ==
  /\ DOMAIN section_names = 1 .. 4 /\ Len(section_names) = 4
  /\ \A m \in 1 .. 4 : section_names[m] \in Loadable
  /\ \A m, n \in 1 .. 4 : section_names[m] = section_names[n] => m = n
BY DEF section_names, Loadable

LEMMA FreeIsNone == Free \notin Pairs
<1>1. \A P, S : \A x \in P \X S : x = <<x[1], x[2]>> /\ x[1] \in P /\ x[2] \in S
  OBVIOUS
<1>2. \A p \in {"", "libc", "program", "init_mem"} : \A s \in Loadable \cup SpecialNames : Free # <<p, s>>
  BY SegTableAssumption
<1> DEFINE P == {"", "libc", "program", "init_mem"}
           S == Loadable \cup SpecialNames
<1> HIDE DEF P, S
<1>3. Free \in P \X S => Free = <<Free[1], Free[2]>> /\ Free[1] \in P /\ Free[2] \in S
  BY <1>1
<1> QED
  BY <1>2, <1>3 DEF Pairs, P, S

LEMMA EmptySlot == Empty.name = Free /\ Empty.content = Free
BY DEF Empty

LEMMA SpecialPairs ==
  <<"", "[stack]">> \in Pairs /\ <<"", "[vsyscall]">> \in Pairs /\ <<"init_mem", "zeroes">> \in Pairs
BY DEF Pairs, SpecialNames

LEMMA CountRange ==
  ASSUME NEW symbols, NEW m \in Nat, NEW n \in Nat, m <= n
  PROVE  Count(symbols, m) \in Nat /\ Count(symbols, m) <= Count(symbols, n)
<1>1. IsFiniteSet(1 .. m) /\ IsFiniteSet(1 .. n)
  BY FS_Interval
<1>2. {k \in 1 .. m : section_names[k] \in symbols} \subseteq {k \in 1 .. n : section_names[k] \in symbols}
  OBVIOUS
<1>3. IsFiniteSet({k \in 1 .. n : section_names[k] \in symbols})
  BY <1>1, FS_Subset
<1>4. IsFiniteSet({k \in 1 .. m : section_names[k] \in symbols})
  BY <1>2, <1>3, FS_Subset
<1>5. Cardinality({k \in 1 .. m : section_names[k] \in symbols}) \in Nat
  BY <1>4, FS_CardinalityType
<1>6. Cardinality({k \in 1 .. m : section_names[k] \in symbols})
        <= Cardinality({k \in 1 .. n : section_names[k] \in symbols})
  BY <1>2, <1>3, FS_Subset
<1> QED
  BY <1>5, <1>6 DEF Count

LEMMA CountNext ==
  ASSUME NEW symbols, NEW m \in Nat \ {0}
  PROVE  /\ Count(symbols, m) =
              IF section_names[m] \in symbols THEN Count(symbols, m - 1) + 1 ELSE Count(symbols, m - 1)
         /\ Count(symbols, m - 1) \in Nat
<1> DEFINE A == {k \in 1 .. m - 1 : section_names[k] \in symbols}
           B == {k \in 1 .. m : section_names[k] \in symbols}
<1>1. IsFiniteSet(A) /\ Count(symbols, m - 1) \in Nat
  <2>1. IsFiniteSet(1 .. m - 1)
    BY FS_Interval
  <2>2. IsFiniteSet(A)
    BY <2>1, FS_Subset
  <2> QED
    BY <2>2, FS_CardinalityType DEF Count
<1>2. m \notin A
  OBVIOUS
<1>3. CASE section_names[m] \in symbols
  <2>1. B = A \cup {m}
    BY <1>3
  <2>2. Cardinality(B) = Cardinality(A) + 1
    BY <1>1, <1>2, <2>1, FS_AddElement
  <2> QED
    BY <1>1, <1>3, <2>2 DEF Count
<1>4. CASE section_names[m] \notin symbols
  <2>1. B = A
    BY <1>4
  <2> QED
    BY <1>1, <1>4, <2>1 DEF Count
<1> QED
  BY <1>3, <1>4

LEMMA CountNone == ASSUME NEW symbols PROVE Count(symbols, 0) = 0
<1>1. {k \in 1 .. 0 : section_names[k] \in symbols} = {}
  OBVIOUS
<1> QED
  BY <1>1, FS_EmptySet DEF Count

LEMMA CountIsNumber == ASSUME NEW symbols PROVE get_nsegments(symbols) = Count(symbols, 4)
BY FourSections DEF get_nsegments, Count

(* The first slot of a name, as both loops of mem.c find it. *)
LEMMA FirstFound ==
  ASSUME NEW q, Len(q) \in Nat, NEW k \in 1 .. Len(q), NEW x,
         q[k].name = x, \A n \in 1 .. k - 1 : q[n].name # x
  PROVE  FirstNamed(q, x) = k
<1> DEFINE I == {n \in 1 .. Len(q) : q[n].name = x}
<1>1. k \in I /\ \A n \in I : n \in Int /\ k <= n
  OBVIOUS
<1>2. PICK c : c = CHOOSE n \in I : \A o \in I : n =< o
  BY Zenon
<1>3. FirstNamed(q, x) = c
  BY <1>1, <1>2, Zenon DEF FirstNamed, SelectInSeq, Min
<1> HIDE DEF I
<1>4. c \in I /\ \A n \in I : c =< n
  BY <1>1, <1>2, Zenon
<1>5. c = k
  BY <1>1, <1>4
<1> QED
  BY <1>3, <1>5

-----------------------------------------------------------------------------
LEMMA Empties == Seg_Init => Attached
<1> SUFFICES ASSUME Seg_Init PROVE Attached
  OBVIOUS
<1>1. table \in Tables /\ stage = "libc" /\ i = 1 /\ j = 0
  BY DEF Seg_Init
<1>2. Total \in Nat
  BY CountRange DEF Total
<1>3. seg = init_mem(Total)
  <2>1. get_nsegments(table.program) + get_nsegments(table.libc) = Total
    BY CountIsNumber, CountRange DEF Total
  <2> QED
    BY <2>1 DEF Seg_Init
<1>4. PICK n \in Nat : n = Total
  BY <1>2
<1> DEFINE A == [k \in 1 .. n |-> Empty]
           B == <<[name |-> <<"", "[stack]">>, content |-> <<"init_mem", "zeroes">>],
                  [name |-> <<"", "[vsyscall]">>, content |-> <<"init_mem", "zeroes">>]>>
<1>51. /\ A \in Seq(Slots) /\ Len(A) = n /\ \A k \in 1 .. n : A[k] = Empty
  BY <1>4 DEF Empty, Slots
<1>52. /\ B \in Seq(Slots) /\ Len(B) = 2
       /\ B[1] = [name |-> <<"", "[stack]">>, content |-> <<"init_mem", "zeroes">>]
       /\ B[2] = [name |-> <<"", "[vsyscall]">>, content |-> <<"init_mem", "zeroes">>]
  <2> DEFINE a == [name |-> <<"", "[stack]">>, content |-> <<"init_mem", "zeroes">>]
             b == [name |-> <<"", "[vsyscall]">>, content |-> <<"init_mem", "zeroes">>]
  <2>2. /\ [name |-> <<"", "[stack]">>, content |-> <<"init_mem", "zeroes">>] \in Slots
        /\ [name |-> <<"", "[vsyscall]">>, content |-> <<"init_mem", "zeroes">>] \in Slots
    BY SpecialPairs DEF Slots
  <2>3. a \in Slots /\ b \in Slots
    BY <2>2
  <2>4. B = <<a, b>>
    OBVIOUS
  <2> HIDE DEF a, b, B
  <2>5. B \in Seq(Slots) /\ Len(B) = 2 /\ B[1] = a /\ B[2] = b
    BY <2>3, <2>4
  <2> QED
    BY <2>5 DEF a, b
<1>53. seg = A \o B
  BY <1>3, <1>4 DEF init_mem, Empty
<1> HIDE DEF A, B
<1>540. /\ A \o B \in Seq(Slots) /\ Len(A \o B) = Len(A) + Len(B)
        /\ \A k \in 1 .. Len(A) + Len(B) : (A \o B)[k] = IF k <= Len(A) THEN A[k] ELSE B[k - Len(A)]
  BY <1>51, <1>52, ConcatProperties
<1>54. /\ A \o B \in Seq(Slots) /\ Len(A \o B) = n + 2
       /\ \A k \in 1 .. n + 2 : (A \o B)[k] = IF k <= n THEN A[k] ELSE B[k - n]
  BY <1>4, <1>51, <1>52, <1>540
<1>55. /\ seg \in Seq(Slots) /\ Len(seg) = n + 2
       /\ \A k \in 1 .. n + 2 : seg[k] = IF k <= n THEN A[k] ELSE B[k - n]
  BY <1>53, <1>54, Zenon
<1>5. /\ Len(seg) = n + 2 /\ DOMAIN seg = 1 .. n + 2
      /\ \A k \in 1 .. n : seg[k] = Empty
      /\ seg[n + 1] = [name |-> <<"", "[stack]">>, content |-> <<"init_mem", "zeroes">>]
      /\ seg[n + 2] = [name |-> <<"", "[vsyscall]">>, content |-> <<"init_mem", "zeroes">>]
  <2>1. n + 1 - n = 1 /\ n + 2 - n = 2 /\ n + 1 \in 1 .. n + 2 /\ n + 2 \in 1 .. n + 2
        /\ ~(n + 1 <= n) /\ ~(n + 2 <= n)
    BY <1>4
  <2>2. seg[n + 1] = B[1] /\ seg[n + 2] = B[2]
    BY <1>55, <2>1
  <2>3. \A k \in 1 .. n : seg[k] = A[k]
    BY <1>4, <1>55
  <2>4. \A k \in 1 .. n : seg[k] = Empty
    BY <1>51, <2>3
  <2>5. DOMAIN seg = 1 .. n + 2
    BY <1>4, <1>55
  <2>6. /\ seg[n + 1] = [name |-> <<"", "[stack]">>, content |-> <<"init_mem", "zeroes">>]
        /\ seg[n + 2] = [name |-> <<"", "[vsyscall]">>, content |-> <<"init_mem", "zeroes">>]
    BY <1>52, <2>2, Zenon
  <2> QED
    BY <1>55, <2>4, <2>5, <2>6, Zenon
<1>6. seg \in [1 .. n + 2 -> Slots]
  BY <1>4, <1>55
<1>7. seg[n + 1].name # Free /\ seg[n + 2].name # Free
  <2>1. seg[n + 1].name = <<"", "[stack]">> /\ seg[n + 2].name = <<"", "[vsyscall]">>
    <3>1. \A x, y : [name |-> x, content |-> y].name = x
      OBVIOUS
    <3> QED
      BY <1>5, <3>1, Zenon
  <2> QED
    BY <2>1, FreeIsNone, SpecialPairs, Zenon
<1>8. Sized
  BY <1>1, <1>4, <1>6, <1>7 DEF Sized
<1>9. Counted
  BY <1>1, CountNone DEF Counted
<1>10. SlotsNamed
  <2>1. 1 .. j = {} /\ j + 1 = 1 /\ Total = n
    BY <1>1, <1>4
  <2> QED
    BY <1>5, <2>1 DEF SlotsNamed
<1>11. OwnSlot
  <2> SUFFICES ASSUME NEW elf \in {"libc", "program"}, NEW m \in 1 .. 4,
                      section_names[m] \in table[elf]
               PROVE  ~(SlotOf(elf, m) <= j)
    BY FourSections DEF OwnSlot
  <2>1. Count(table[elf], m) = Count(table[elf], m - 1) + 1 /\ Count(table[elf], m - 1) \in Nat
    BY CountNext
  <2>2. Count(table.libc, 4) \in Nat
    BY CountRange
  <2> QED
    BY <1>1, <2>1, <2>2, FourSections DEF SlotOf
<1> QED
  BY <1>8, <1>9, <1>10, <1>11 DEF Attached

(* Where the section at hand goes, and that no other one goes there. *)
LEMMA NextSlot ==
  ASSUME Attached, NEW elf \in {"libc", "program"}, stage = elf, i <= 4,
         section_names[i] \in table[elf]
  PROVE  /\ j + 1 \in 1 .. Total /\ Total \in Nat /\ i \in 1 .. 4 /\ SlotOf(elf, i) = j + 1
         /\ \A f \in {"libc", "program"}, m \in 1 .. 4 :
              section_names[m] \in table[f] /\ SlotOf(f, m) <= j + 1 =>
                SlotOf(f, m) \in 1 .. j \/ (f = elf /\ m = i)
<1>1. i \in 1 .. 4 /\ j \in Nat
  BY DEF Attached, Sized
<1>2. PICK L \in Nat : L = Count(table.libc, 4)
  BY CountRange
<1>3. PICK P \in Nat : P = Count(table.program, 4)
  BY CountRange
<1>4. Total = L + P
  BY <1>2, <1>3 DEF Total
<1>5. PICK c \in Nat : c = Count(table[elf], i - 1)
  BY <1>1, CountNext
<1>6. Count(table[elf], i) = c + 1
  BY <1>1, <1>5, CountNext
<1>7. c + 1 <= Count(table[elf], 4)
  BY <1>1, <1>6, CountRange
<1>8. j = IF elf = "libc" THEN c ELSE L + c
  BY <1>2, <1>5 DEF Attached, Counted
<1>9. \A f, m : SlotOf(f, m) = Count(table[f], m) + IF f = "libc" THEN 0 ELSE L
  BY <1>2, FourSections DEF SlotOf
<1>10. ASSUME NEW f \in {"libc", "program"}, NEW m \in 1 .. 4,
              section_names[m] \in table[f], SlotOf(f, m) <= j + 1, ~(f = elf /\ m = i)
       PROVE  SlotOf(f, m) \in 1 .. j
  <2>1. PICK d \in Nat : d = Count(table[f], m - 1)
    BY CountNext
  <2>2. Count(table[f], m) = d + 1 /\ d + 1 <= Count(table[f], 4)
    <3>1. Count(table[f], m) = d + 1
      BY <1>10, <2>1, CountNext
    <3> QED
      BY <3>1, CountRange
  <2>3. CASE f = elf
    <3>1. CASE m < i
      <4>1. Count(table[f], m) <= c
        BY <1>1, <1>5, <2>3, <3>1, CountRange
      <4> QED
        BY <1>1, <1>8, <1>9, <2>1, <2>2, <2>3, <4>1
    <3>2. CASE m > i
      <4>1. c + 1 <= d
        BY <1>1, <1>6, <2>1, <2>3, <3>2, CountRange
      <4> QED
        BY <1>8, <1>9, <1>10, <2>1, <2>2, <2>3, <4>1
    <3> QED
      BY <1>1, <1>10, <2>3, <3>1, <3>2
  <2>4. CASE f = "libc" /\ elf = "program"
    BY <1>2, <1>8, <1>9, <2>1, <2>2, <2>4
  <2>5. CASE f = "program" /\ elf = "libc"
    <3>1. c + 1 <= L
      BY <1>2, <1>7, <2>5
    <3> QED
      BY <1>8, <1>9, <1>10, <2>1, <2>2, <2>5, <3>1
  <2> QED
    BY <2>3, <2>4, <2>5
<1>11. SlotOf(elf, i) = j + 1
  BY <1>6, <1>8, <1>9
<1>12. j + 1 \in 1 .. Total
  <2>1. CASE elf = "libc"
    BY <1>2, <1>4, <1>7, <1>8, <2>1
  <2>2. CASE elf = "program"
    BY <1>3, <1>4, <1>7, <1>8, <2>2
  <2> QED
    BY <2>1, <2>2
<1>13. \A f \in {"libc", "program"}, m \in 1 .. 4 :
         section_names[m] \in table[f] /\ SlotOf(f, m) <= j + 1 =>
           SlotOf(f, m) \in 1 .. j \/ (f = elf /\ m = i)
  <2> SUFFICES ASSUME NEW f \in {"libc", "program"}, NEW m \in 1 .. 4,
                      section_names[m] \in table[f], SlotOf(f, m) <= j + 1
               PROVE  SlotOf(f, m) \in 1 .. j \/ (f = elf /\ m = i)
    OBVIOUS
  <2> QED
    BY <1>10
<1>14. Total \in Nat
  BY <1>4
<1> QED
  BY <1>1, <1>11, <1>12, <1>13, <1>14

(* What elf_load_section_in_memory leaves: one slot more, with its name, and  *)
(* with its content unless it cannot be read.                                 *)
LEMMA SectionAttached ==
  ASSUME Attached, NEW elf \in {"libc", "program"}, stage = elf, i <= 4,
         section_names[i] \in table[elf], LoadSection(elf, section_names[i])
  PROVE  /\ stage' = stage
         /\ seg' \in [1 .. Total + 2 -> Slots]
         /\ \A k \in 1 .. Total + 2 : k # j + 1 => seg'[k] = seg[k]
         /\ seg'[j + 1].name = <<"", section_names[i]>>
         /\ seg'[j + 1].content = IF <<elf, section_names[i]>> \in table.unreadable THEN Free
                                  ELSE <<elf, section_names[i]>>
<1> DEFINE nm == <<"", section_names[i]>>
           ct == <<elf, section_names[i]>>
           vm == [seg EXCEPT ![j + 1].name = nm]
<1>1. j + 1 \in 1 .. Total /\ Total \in Nat /\ i \in 1 .. 4
  BY NextSlot
<1>2. PICK T \in Nat : T = Total
  BY <1>1
<1>3. PICK n \in 1 .. T : n = j + 1
  BY <1>1, <1>2
<1>4. nm \in Pairs /\ ct \in Pairs /\ nm # Free
  <2>1. section_names[i] \in Loadable
    BY <1>1, FourSections
  <2>2. nm \in Pairs /\ ct \in Pairs
    BY <2>1 DEF Pairs
  <2> QED
    BY <2>2, FreeIsNone
<1>5. seg \in [1 .. T + 2 -> Slots] /\ j \in Nat
  BY <1>2 DEF Attached, Sized
<1>6. /\ seg[n] = Empty
      /\ \A k \in 1 .. n - 1 : seg[k].name # Free /\ seg[k].name # nm
  <2>1. n \in j + 1 .. Total /\ \A k \in 1 .. n - 1 : k \in 1 .. j
    BY <1>2, <1>3, <1>5
  <2>2. i \in i .. 4
    BY <1>1
  <2> QED
    BY <2>1, <2>2 DEF Attached, SlotsNamed
<1>7. n \in 1 .. T + 2 /\ (\A k \in 1 .. n - 1 : k \in 1 .. T + 2 /\ k # n)
  BY <1>2, <1>3
<1>8. FirstFree = n
  <2>1. Len(seg) = T + 2
    BY <1>5
  <2>2. seg[n].name = Free
    BY <1>6, EmptySlot, Zenon
  <2>3. \A k \in 1 .. n - 1 : seg[k].name # Free
    BY <1>6
  <2>4. n \in 1 .. Len(seg) /\ Len(seg) \in Nat
    BY <1>7, <2>1
  <2> QED
    BY <2>2, <2>3, <2>4, FirstFound DEF FirstFree
<1>9. attach_scn_to_mem(nm) = vm
  BY <1>3, <1>8 DEF attach_scn_to_mem
<1> HIDE DEF nm, ct
<1>10. /\ vm \in [1 .. T + 2 -> Slots]
       /\ \A k \in 1 .. T + 2 : k # n => vm[k] = seg[k]
       /\ vm[n].name = nm /\ vm[n].content = Free
  <2>1. vm = [seg EXCEPT ![n] = [seg[n] EXCEPT !.name = nm]]
    BY <1>3
  <2>2. [seg[n] EXCEPT !.name = nm] = [name |-> nm, content |-> Free]
    BY <1>6 DEF Empty
  <2>3. [name |-> nm, content |-> Free] \in Slots
    BY <1>4 DEF Slots
  <2>4. vm = [seg EXCEPT ![n] = [name |-> nm, content |-> Free]]
    BY <2>1, <2>2
  <2> HIDE DEF vm
  <2> QED
    BY <1>5, <1>7, <2>3, <2>4
<1> HIDE DEF vm
<1>11. FirstNamed(vm, nm) = n
  <2>1. Len(vm) = T + 2
    BY <1>10
  <2>2. \A k \in 1 .. n - 1 : vm[k].name # nm
    BY <1>6, <1>7, <1>10
  <2>3. n \in 1 .. Len(vm) /\ Len(vm) \in Nat
    BY <1>7, <2>1
  <2> QED
    BY <1>10, <2>2, <2>3, FirstFound
<1>12. ~FillCrashes(vm, nm)
  <2>1. \A k \in 1 .. n - 1 : vm[k].name # Free
    BY <1>6, <1>7, <1>10
  <2> QED
    BY <1>11, <2>1 DEF FillCrashes
<1>13. FirstFree # 0
  BY <1>8
<1>14. CASE ct \in table.unreadable
  <2>1. seg' = vm /\ stage' = stage
    BY <1>9, <1>13, <1>14 DEF LoadSection, nm, ct
  <2>2. /\ vm \in [1 .. Total + 2 -> Slots]
        /\ \A k \in 1 .. Total + 2 : k # j + 1 => vm[k] = seg[k]
        /\ vm[j + 1].name = nm /\ vm[j + 1].content = Free
    BY <1>2, <1>3, <1>10
  <2> QED
    BY <1>14, <2>1, <2>2 DEF nm, ct
<1>15. CASE ct \notin table.unreadable
  <2>1. seg' = fill_mem_scn(vm, nm, ct) /\ stage' = stage
    BY <1>9, <1>12, <1>13, <1>15 DEF LoadSection, nm, ct
  <2>2. seg' = [vm EXCEPT ![n].content = ct]
    BY <1>11, <2>1 DEF fill_mem_scn
  <2>3. vm[n] \in Slots
    BY <1>7, <1>10
  <2>4. PICK t \in Slots : t = [vm[n] EXCEPT !.content = ct] /\ t.name = nm /\ t.content = ct
    <3>1. vm[n] = [name |-> nm, content |-> Free]
      BY <1>10, <2>3 DEF Slots
    <3>2. [vm[n] EXCEPT !.content = ct] = [name |-> nm, content |-> ct]
      BY <3>1
    <3>3. [name |-> nm, content |-> ct] \in Slots
      BY <1>4 DEF Slots
    <3>4. [name |-> nm, content |-> ct].name = nm /\ [name |-> nm, content |-> ct].content = ct
      OBVIOUS
    <3> QED
      BY <3>2, <3>3, <3>4, Zenon
  <2>5. seg' = [vm EXCEPT ![n] = t]
    BY <2>2, <2>4
  <2>6. /\ seg' \in [1 .. T + 2 -> Slots]
        /\ \A k \in 1 .. T + 2 : k # n => seg'[k] = seg[k]
        /\ seg'[n] = t
    BY <1>7, <1>10, <2>5
  <2>7. /\ seg' \in [1 .. Total + 2 -> Slots]
        /\ \A k \in 1 .. Total + 2 : k # j + 1 => seg'[k] = seg[k]
        /\ seg'[j + 1].name = nm /\ seg'[j + 1].content = ct
    BY <1>2, <1>3, <2>4, <2>6
  <2> QED
    BY <1>15, <2>1, <2>7 DEF nm, ct
<1> QED
  BY <1>14, <1>15

LEMMA SectionKept ==
  ASSUME Attached, NEW elf \in {"libc", "program"}, LoadFile(elf, table[elf]),
         section_names[i] \in table[elf]
  PROVE  Attached'
<1>1. /\ stage = elf /\ i <= 4 /\ LoadSection(elf, section_names[i])
      /\ i' = i + 1 /\ j' = j + 1 /\ table' = table
  BY FourSections DEF LoadFile
<1>2. /\ j + 1 \in 1 .. Total /\ Total \in Nat /\ i \in 1 .. 4 /\ SlotOf(elf, i) = j + 1
      /\ \A f \in {"libc", "program"}, m \in 1 .. 4 :
           section_names[m] \in table[f] /\ SlotOf(f, m) <= j + 1 =>
             SlotOf(f, m) \in 1 .. j \/ (f = elf /\ m = i)
  BY <1>1, NextSlot
<1>3. /\ stage' = stage
      /\ seg' \in [1 .. Total + 2 -> Slots]
      /\ \A k \in 1 .. Total + 2 : k # j + 1 => seg'[k] = seg[k]
      /\ seg'[j + 1].name = <<"", section_names[i]>>
      /\ seg'[j + 1].content = IF <<elf, section_names[i]>> \in table.unreadable THEN Free
                               ELSE <<elf, section_names[i]>>
  BY <1>1, SectionAttached
<1>4. Total' = Total /\ \A f, m : SlotOf(f, m)' = SlotOf(f, m)
  BY <1>1 DEF Total, SlotOf, Count
<1>5. j \in Nat /\ table \in Tables /\ section_names[i] \in Loadable
  BY <1>2, FourSections DEF Attached, Sized
<1>6. PICK n \in 1 .. Total : n = j + 1
  BY <1>2
<1>7. /\ \A k \in 1 .. n - 1 : seg'[k] = seg[k]
      /\ \A k \in n + 1 .. Total + 2 : seg'[k] = seg[k]
  <2>1. PICK T \in Nat : T = Total
    BY <1>2
  <2>2. /\ \A k \in 1 .. n - 1 : k \in 1 .. T + 2 /\ k # n
        /\ \A k \in n + 1 .. T + 2 : k \in 1 .. T + 2 /\ k # n
    BY <1>6, <2>1
  <2>3. \A k \in 1 .. T + 2 : k # n => seg'[k] = seg[k]
    BY <1>3, <1>6, <2>1
  <2> QED
    BY <2>1, <2>2, <2>3
<1>8. Sized'
  <2>1. Total + 1 \in n + 1 .. Total + 2 /\ Total + 2 \in n + 1 .. Total + 2
    BY <1>2, <1>6
  <2>2. seg'[Total + 1].name # Free /\ seg'[Total + 2].name # Free
    <3>1. seg[Total + 1].name # Free /\ seg[Total + 2].name # Free
      BY DEF Attached, Sized
    <3> QED
      BY <1>7, <2>1, <3>1
  <2>3. i' \in 1 .. 5 /\ j' \in Nat /\ table' \in Tables
    BY <1>1, <1>2, <1>5
  <2>4. stage' \in {"libc", "rename", "program", "bounds", "loaded"}
    BY <1>1, <1>3
  <2>5. seg' \in [1 .. Total' + 2 -> Slots] /\ seg'[Total' + 1].name # Free /\ seg'[Total' + 2].name # Free
    BY <1>3, <1>4, <2>2
  <2> QED
    BY <2>3, <2>4, <2>5 DEF Sized
<1>9. Counted'
  <2>1. i' - 1 = i /\ Count(table[elf], i) = Count(table[elf], i - 1) + 1
    BY <1>1, <1>2, CountNext
  <2>2. Count(table[elf], i - 1) \in Nat /\ Count(table.libc, 4) \in Nat
    BY <1>2, CountNext, CountRange
  <2>3. elf = "libc" => j = Count(table[elf], i - 1)
    BY <1>1 DEF Attached, Counted
  <2>4. elf = "program" => j = Count(table.libc, 4) + Count(table[elf], i - 1)
    BY <1>1 DEF Attached, Counted
  <2>5. elf = "libc" => j' = Count(table'.libc, i' - 1)
    BY <1>1, <2>1, <2>3
  <2>6. elf = "program" => j' = Count(table'.libc, 4) + Count(table'.program, i' - 1)
    BY <1>1, <2>1, <2>2, <2>4
  <2>7. (\A s, m : Count(s, m)' = Count(s, m)) /\ stage' = elf
    BY <1>1, <1>3 DEF Count
  <2> QED
    BY <2>5, <2>6, <2>7 DEF Counted, Count
<1>10. SlotsNamed'
  <2>1. \A k \in 1 .. j' : k \in 1 .. n - 1 \/ k = n
    BY <1>1, <1>5, <1>6
  <2>2. \A k \in 1 .. n - 1 : k \in 1 .. j
    BY <1>5, <1>6
  <2>3. seg'[n].name # Free
    <3>1. <<"", section_names[i]>> \in Pairs
      BY <1>5 DEF Pairs
    <3> QED
      BY <1>3, <1>6, <3>1, FreeIsNone
  <2>4. \A k \in 1 .. j' : seg'[k].name # Free
    BY <1>7, <2>1, <2>2, <2>3 DEF Attached, SlotsNamed
  <2>5. \A k \in j' + 1 .. Total' : seg'[k] = Empty
    <3>1. \A k \in j' + 1 .. Total' : k \in n + 1 .. Total + 2 /\ k \in j + 1 .. Total
      BY <1>1, <1>2, <1>4, <1>5, <1>6
    <3> QED
      BY <1>7, <3>1 DEF Attached, SlotsNamed
  <2>6. \A k \in 1 .. j' : \A m \in i' .. 4 : seg'[k].name # <<"", section_names[m]>>
    <3> SUFFICES ASSUME NEW k \in 1 .. j', NEW m \in i' .. 4
                 PROVE  seg'[k].name # <<"", section_names[m]>>
      OBVIOUS
    <3>1. m \in i .. 4 /\ m \in 1 .. 4 /\ m # i
      BY <1>1, <1>2
    <3>2. section_names[m] # section_names[i]
      BY <1>2, <3>1, FourSections
    <3>3. CASE k = n
      <4>1. \A x, y : <<"", x>> = <<"", y>> => x = y
        OBVIOUS
      <4>2. seg'[k].name = <<"", section_names[i]>>
        BY <1>3, <1>6, <3>3
      <4> QED
        BY <3>2, <4>1, <4>2, Zenon
    <3>4. CASE k \in 1 .. n - 1
      <4>1. k \in 1 .. j /\ seg'[k] = seg[k] /\ stage \in {"libc", "program"}
        BY <1>1, <1>7, <2>2, <3>4
      <4>2. seg[k].name # <<"", section_names[m]>>
        BY <3>1, <4>1 DEF Attached, SlotsNamed
      <4> QED
        BY <4>1, <4>2
    <3> QED
      BY <2>1, <3>3, <3>4
  <2>7. stage = "libc" => \A k \in 1 .. j' : \E s \in Loadable : seg'[k].name = <<"", s>>
    <3> SUFFICES ASSUME stage = "libc", NEW k \in 1 .. j'
                 PROVE  \E s \in Loadable : seg'[k].name = <<"", s>>
      OBVIOUS
    <3>1. CASE k = n
      BY <1>3, <1>5, <1>6, <3>1
    <3>2. CASE k \in 1 .. n - 1
      BY <1>7, <2>2, <3>2 DEF Attached, SlotsNamed
    <3> QED
      BY <2>1, <3>1, <3>2
  <2>8. stage' # "rename"
    BY <1>1, <1>3
  <2> QED
    BY <1>3, <2>4, <2>5, <2>6, <2>7, <2>8 DEF SlotsNamed, Empty
<1>11. OwnSlot'
  <2> SUFFICES ASSUME NEW f \in {"libc", "program"}, NEW m \in 1 .. 4,
                      SlotOf(f, m) <= j + 1, section_names[m] \in table[f]
               PROVE  LET s == seg'[SlotOf(f, m)] IN
                        /\ s.name \in {<<"", section_names[m]>>, <<"libc", section_names[m]>>}
                        /\ s.content = Free <=> <<f, section_names[m]>> \in table.unreadable
                        /\ s.content # Free => s.content = <<f, section_names[m]>>
    BY <1>1, <1>4, FourSections DEF OwnSlot
  <2>1. CASE SlotOf(f, m) \in 1 .. j
    <3>1. SlotOf(f, m) <= j /\ SlotOf(f, m) \in 1 .. n - 1
      BY <1>5, <1>6, <2>1
    <3>2. seg'[SlotOf(f, m)] = seg[SlotOf(f, m)]
      BY <1>7, <3>1
    <3>3. LET s == seg[SlotOf(f, m)] IN
            /\ s.name \in {<<"", section_names[m]>>, <<"libc", section_names[m]>>}
            /\ s.content = Free <=> <<f, section_names[m]>> \in table.unreadable
            /\ s.content # Free => s.content = <<f, section_names[m]>>
      BY <3>1, FourSections DEF Attached, OwnSlot
    <3> QED
      BY <3>2, <3>3
  <2>2. CASE f = elf /\ m = i
    <3>1. <<elf, section_names[i]>> # Free
      <4>1. <<elf, section_names[i]>> \in Pairs
        BY <1>5 DEF Pairs
      <4> QED
        BY <4>1, FreeIsNone
    <3>2. SlotOf(f, m) = j + 1
      BY <1>2, <2>2
    <3> QED
      BY <1>3, <2>2, <3>1, <3>2
  <2> QED
    BY <1>2, <2>1, <2>2
<1> QED
  BY <1>8, <1>9, <1>10, <1>11 DEF Attached

LEMMA LoadKept ==
  ASSUME Attached, NEW elf \in {"libc", "program"}, LoadFile(elf, table[elf])
  PROVE  Attached'
<1>1. CASE section_names[i] \in table[elf]
  BY <1>1, SectionKept
<1>2. CASE section_names[i] \notin table[elf]
  <2>1. /\ stage = elf /\ i <= 4 /\ i' = i + 1
        /\ UNCHANGED <<table, seg, stage, j>>
    BY <1>2, FourSections DEF LoadFile
  <2>2. i \in 1 .. 4 /\ j \in Nat
    BY <2>1 DEF Attached, Sized
  <2>3. Total' = Total /\ \A f, m : SlotOf(f, m)' = SlotOf(f, m)
    BY <2>1 DEF Total, SlotOf, Count
  <2>4. Sized'
    BY <2>1, <2>2, <2>3 DEF Attached, Sized
  <2>5. Counted'
    <3>1. Count(table[elf], i) = Count(table[elf], i - 1) /\ i' - 1 = i
      BY <1>2, <2>1, <2>2, CountNext
    <3>2. \A s, m : Count(s, m)' = Count(s, m)
      BY DEF Count
    <3>3. elf = "libc" => j' = Count(table'.libc, i' - 1)
      BY <2>1, <3>1 DEF Attached, Counted
    <3>4. elf = "program" => j' = Count(table'.libc, 4) + Count(table'.program, i' - 1)
      BY <2>1, <3>1 DEF Attached, Counted
    <3> QED
      BY <2>1, <3>3, <3>4 DEF Counted, Count
  <2>6. SlotsNamed'
    <3>1. \A m \in i' .. 4 : m \in i .. 4
      BY <2>1, <2>2
    <3> QED
      BY <2>1, <2>3, <3>1 DEF Attached, SlotsNamed, Empty
  <2>7. OwnSlot'
    BY <2>1, <2>3 DEF Attached, OwnSlot
  <2> QED
    BY <2>4, <2>5, <2>6, <2>7 DEF Attached
<1> QED
  BY <1>1, <1>2

LEMMA RenameKept == ASSUME Attached, Rename PROVE Attached'
<1>1. stage = "rename" /\ j \in Nat /\ j <= Total /\ Total \in Nat
  <2>1. Count(table.libc, 4) \in Nat /\ Count(table.program, 4) \in Nat
    BY CountRange
  <2> QED
    BY <2>1 DEF Rename, Attached, Sized, Counted, Total
<1>2. /\ \A k \in 1 .. j : seg[k].name # Free
      /\ \A k \in 1 .. j : \E s \in Loadable : seg[k].name = <<"", s>>
  BY <1>1 DEF Attached, SlotsNamed
<1>3. /\ seg' = [k \in DOMAIN seg |->
                   IF k <= j THEN [seg[k] EXCEPT !.name = <<"libc", @[2]>>] ELSE seg[k]]
      /\ stage' = "program" /\ i' = 1 /\ table' = table /\ j' = j
  BY <1>2 DEF Rename
<1>4. PICK T \in Nat : T = Total
  BY <1>1
<1>5. seg \in [1 .. T + 2 -> Slots]
  BY <1>4 DEF Attached, Sized
<1>6. Total' = Total /\ \A f, m : SlotOf(f, m)' = SlotOf(f, m)
  BY <1>3 DEF Total, SlotOf, Count
<1>7. ASSUME NEW k \in 1 .. j
      PROVE  /\ seg'[k] \in Slots /\ seg'[k].content = seg[k].content
             /\ \E s \in Loadable : seg[k].name = <<"", s>> /\ seg'[k].name = <<"libc", s>>
  <2>1. PICK s \in Loadable : seg[k].name = <<"", s>>
    BY <1>2
  <2>2. k \in DOMAIN seg /\ k <= j /\ seg[k] \in Slots
    BY <1>1, <1>4, <1>5
  <2>3. seg'[k] = [seg[k] EXCEPT !.name = <<"libc", @[2]>>]
    BY <1>3, <2>2
  <2>4. <<"libc", s>> \in Pairs
    BY DEF Pairs
  <2>5. seg'[k] = [seg[k] EXCEPT !.name = <<"libc", s>>]
    <3>1. \A x, y : <<x, y>>[2] = y
      OBVIOUS
    <3>2. seg[k].name[2] = s
      BY <2>1, <3>1, Zenon
    <3>3. seg'[k] = [seg[k] EXCEPT !.name = <<"libc", seg[k].name[2]>>]
      BY <2>3
    <3> QED
      BY <3>2, <3>3, Zenon
  <2>6. seg'[k] = [name |-> <<"libc", s>>, content |-> seg[k].content] /\ seg[k].content \in Pairs \cup {Free}
    BY <2>2, <2>5 DEF Slots
  <2>8. seg'[k] \in Slots
    BY <2>4, <2>6 DEF Slots
  <2>9. seg'[k].name = <<"libc", s>> /\ seg'[k].content = seg[k].content
    <3> DEFINE c == seg[k].content
               nm == <<"libc", s>>
    <3>1. seg'[k] = [name |-> nm, content |-> c]
      BY <2>6
    <3> HIDE DEF c, nm
    <3>2. seg'[k].name = nm /\ seg'[k].content = c
      BY <3>1
    <3> QED
      BY <3>2 DEF c, nm
  <2> QED
    BY <2>1, <2>8, <2>9, Zenon
<1>8. /\ DOMAIN seg' = 1 .. T + 2 /\ seg' = [k \in 1 .. T + 2 |-> seg'[k]]
      /\ \A k \in 1 .. T + 2 : k > j => seg'[k] = seg[k]
  BY <1>1, <1>3, <1>5
<1>9. Sized'
  <2>1. ASSUME NEW k \in 1 .. T + 2 PROVE seg'[k] \in Slots
    <3>1. CASE k <= j
      <4>1. k \in 1 .. j
        BY <1>1, <3>1
      <4> QED
        BY <1>7, <4>1
    <3>2. CASE k > j
      <4>1. seg[k] \in Slots /\ seg'[k] = seg[k]
        BY <1>5, <1>8, <3>2
      <4> QED
        BY <4>1
    <3> QED
      BY <1>1, <3>1, <3>2
  <2>2. seg' \in [1 .. Total' + 2 -> Slots]
    BY <1>4, <1>6, <1>8, <2>1
  <2>3. Total + 1 \in 1 .. T + 2 /\ Total + 1 > j /\ Total + 2 \in 1 .. T + 2 /\ Total + 2 > j
    BY <1>1, <1>4
  <2>4. seg'[Total' + 1].name # Free /\ seg'[Total' + 2].name # Free
    <3>1. seg'[Total + 1] = seg[Total + 1] /\ seg'[Total + 2] = seg[Total + 2]
      BY <1>8, <2>3
    <3> QED
      BY <1>6, <3>1 DEF Attached, Sized
  <2>5. table' \in Tables /\ j' \in Nat
    BY <1>1, <1>3 DEF Attached, Sized
  <2> QED
    BY <1>3, <2>2, <2>4, <2>5 DEF Sized
<1>10. Counted'
  <2>1. j = Count(table.libc, 4) /\ j \in Nat
    BY <1>1 DEF Attached, Counted
  <2>2. Count(table.program, 0) = 0
    BY CountNone
  <2>3. j' = Count(table'.libc, 4) + Count(table'.program, i' - 1)
    BY <1>3, <2>1, <2>2
  <2> QED
    BY <1>3, <2>3 DEF Counted, Count
<1>11. SlotsNamed'
  <2>1. \A s : <<"libc", s>> # <<"", s>> /\ \A t : <<"libc", s>> # <<"", t>>
    OBVIOUS
  <2>2. \A k \in 1 .. j : seg'[k].name # Free
    <3>1. \A s \in Loadable : <<"libc", s>> # Free
      <4>1. \A s \in Loadable : <<"libc", s>> \in Pairs
        BY DEF Pairs
      <4> QED
        BY <4>1, FreeIsNone
    <3> QED
      BY <1>7, <3>1
  <2>3. \A k \in 1 .. j : \A x : seg'[k].name # <<"", x>>
    BY <1>7, <2>1
  <2>4. \A k \in j + 1 .. Total : seg'[k] = Empty
    <3>1. \A k \in j + 1 .. Total : k \in 1 .. T + 2 /\ k > j
      BY <1>1, <1>4
    <3> QED
      BY <1>8, <3>1 DEF Attached, SlotsNamed
  <2> QED
    BY <1>3, <1>6, <2>2, <2>3, <2>4 DEF SlotsNamed, Empty
<1>12. OwnSlot'
  <2> SUFFICES ASSUME NEW f \in {"libc", "program"}, NEW m \in 1 .. 4,
                      SlotOf(f, m) <= j, section_names[m] \in table[f]
               PROVE  LET s == seg'[SlotOf(f, m)] IN
                        /\ s.name \in {<<"", section_names[m]>>, <<"libc", section_names[m]>>}
                        /\ s.content = Free <=> <<f, section_names[m]>> \in table.unreadable
                        /\ s.content # Free => s.content = <<f, section_names[m]>>
    BY <1>3, <1>6, FourSections DEF OwnSlot
  <2>1. SlotOf(f, m) \in 1 .. j
    <3>1. Count(table[f], m) = Count(table[f], m - 1) + 1 /\ Count(table[f], m - 1) \in Nat
      BY CountNext
    <3>2. Count(table.libc, 4) \in Nat
      BY CountRange
    <3> QED
      BY <1>1, <3>1, <3>2, FourSections DEF SlotOf
  <2>2. LET s == seg[SlotOf(f, m)] IN
          /\ s.name \in {<<"", section_names[m]>>, <<"libc", section_names[m]>>}
          /\ s.content = Free <=> <<f, section_names[m]>> \in table.unreadable
          /\ s.content # Free => s.content = <<f, section_names[m]>>
    BY FourSections DEF Attached, OwnSlot
  <2>3. PICK s \in Loadable : seg[SlotOf(f, m)].name = <<"", s>> /\ seg'[SlotOf(f, m)].name = <<"libc", s>>
    BY <1>7, <2>1
  <2>4. seg'[SlotOf(f, m)].content = seg[SlotOf(f, m)].content
    BY <1>7, <2>1
  <2>5. s = section_names[m]
    <3>1. \A x, y : <<"", x>> = <<"", y>> => x = y
      OBVIOUS
    <3>2. \A x, y : <<"", x>> # <<"libc", y>>
      OBVIOUS
    <3>3. seg[SlotOf(f, m)].name = <<"", section_names[m]>> \/ seg[SlotOf(f, m)].name = <<"libc", section_names[m]>>
      BY <2>2
    <3> QED
      BY <2>3, <3>1, <3>2, <3>3, Zenon
  <2>6. seg'[SlotOf(f, m)].name = <<"libc", section_names[m]>>
    BY <2>3, <2>5, Zenon
  <2> QED
    BY <2>2, <2>4, <2>6
<1> QED
  BY <1>9, <1>10, <1>11, <1>12 DEF Attached

LEMMA AttachedKept == Attached /\ [Seg_Next]_tvars => Attached'
<1> SUFFICES ASSUME Attached, [Seg_Next]_tvars PROVE Attached'
  OBVIOUS
<1>1. CASE LoadFile("libc", table.libc)
  BY <1>1, LoadKept
<1>2. CASE LoadFile("program", table.program)
  BY <1>2, LoadKept
<1>3. CASE Rename
  BY <1>3, RenameKept
<1>4. CASE LibcLoaded \/ ProgramLoaded \/ Bounds \/ UNCHANGED tvars
  <2>1. UNCHANGED <<table, i, j, seg>>
    BY <1>4 DEF LibcLoaded, ProgramLoaded, Bounds, tvars
  <2>2. Total' = Total /\ OwnSlot'
    <3>1. Total' = Total /\ \A f, m : SlotOf(f, m)' = SlotOf(f, m)
      BY <2>1 DEF Total, Count, SlotOf
    <3> QED
      BY <2>1, <3>1 DEF Attached, OwnSlot
  <2>3. CASE LibcLoaded
    <3>1. stage = "libc" /\ i - 1 = 4 /\ stage' = "rename"
      BY <2>3, FourSections DEF LibcLoaded
    <3> QED
      BY <2>1, <2>2, <3>1 DEF Attached, Sized, Counted, SlotsNamed, Count, Empty
  <2>4. CASE ProgramLoaded
    <3>1. stage = "program" /\ i - 1 = 4 /\ stage' = "bounds"
      BY <2>4, FourSections DEF ProgramLoaded
    <3>2. j' = Total'
      BY <2>1, <2>2, <3>1 DEF Attached, Counted, Total
    <3> QED
      BY <2>1, <2>2, <3>1, <3>2 DEF Attached, Sized, Counted, SlotsNamed, Empty
  <2>5. CASE Bounds
    <3>1. stage = "bounds" /\ j = Total
      BY <2>5 DEF Bounds, Attached, Counted
    <3>2. Total \in Nat /\ DOMAIN seg = 1 .. Total + 2
      BY <3>1 DEF Attached, Sized
    <3>3. \A k \in DOMAIN seg : seg[k].name # Free
      <4>1. \A k \in DOMAIN seg : k \in 1 .. j \/ k = Total + 1 \/ k = Total + 2
        BY <3>1, <3>2
      <4> QED
        BY <4>1 DEF Attached, Sized, SlotsNamed
    <3>4. stage' = "loaded"
      BY <2>5, <3>3 DEF Bounds
    <3>5. j' = Total'
      BY <2>1, <2>2, <3>1
    <3> QED
      BY <2>1, <2>2, <3>1, <3>4, <3>5 DEF Attached, Sized, Counted, SlotsNamed, Empty
  <2>6. CASE UNCHANGED tvars
    BY <2>2, <2>6 DEF tvars, Attached, Sized, Counted, SlotsNamed, Count, Empty
  <2> QED
    BY <1>4, <2>3, <2>4, <2>5, <2>6
<1> QED
  BY <1>1, <1>2, <1>3, <1>4 DEF Seg_Next

(* Whatever the sections of the libc and of the program, and those that       *)
(* cannot be read, each is in the slot loadELF looks for it in, under its     *)
(* name and with its own content (emul.c:471-520, mem.c:102-187).             *)
THEOREM SlotsRight == Seg_Spec => []OwnSlot
<1>1. Attached => OwnSlot
  BY DEF Attached
<1> QED
  BY <1>1, Empties, AttachedKept, PTL DEF Seg_Spec

(* There are as many slots as sections to place: a load never compares the    *)
(* name of a slot that has none, which would stop the program                 *)
(* (emul.c:461-464, 533, mem.c:140).                                          *)
THEOREM CountIsExact == Seg_Spec => []CountExact
<1>1. Attached => CountExact
  BY DEF Attached, Sized, CountExact
<1> QED
  BY <1>1, Empties, AttachedKept, PTL DEF Seg_Spec

-----------------------------------------------------------------------------
(***************************************************************************)
(* For every file of either byte order and every host: the symbols of the   *)
(* program in memory are those its file holds, at each step of the loops of *)
(* elf_load_symtab and after any sequence of loads.                         *)
(***************************************************************************)

(* The entry of symtab that symbol k of a file is copied to. *)
Made(f, k) == Entry(f, SymFlip(f.syms[k], f.data))
Table(f) == {Made(f, k) : k \in 1 .. NSymbols(f)}

(* Entries before ei have been swapped and copied, the others are as in the *)
(* file; the table of the libc is filled with that of the program complete. *)
Copied ==
  /\ program \in Programs
  /\ elfPhase \in {"prompt", "symtab", "libcsymtab"}
  /\ elfSymtab \in Seq(Table(program))
  /\ Len(elfSymtab) <= NSymbols(program)
  /\ \A k \in 1 .. Len(elfSymtab) : elfSymtab[k] = Made(program, k)
  /\ elfPhase = "symtab" =>
       /\ DOMAIN elf_sym = 1 .. NSymbols(program) /\ Len(elf_sym) = NSymbols(program)
       /\ ei = Len(elfSymtab)
       /\ \A k \in DOMAIN elf_sym : k > ei => elf_sym[k] = program.syms[k]

LEMMA FileSymbols ==
  ASSUME NEW f \in Programs
  PROVE  /\ f.data \in Orders /\ NSymbols(f) \in Nat
         /\ \A k \in 1 .. NSymbols(f) : f.syms[k] \in Elf32_Syms(f.data)
         /\ LET s == SubSeq(f.syms, 1, NSymbols(f)) IN
              /\ DOMAIN s = 1 .. NSymbols(f) /\ Len(s) = NSymbols(f)
              /\ \A k \in 1 .. NSymbols(f) : s[k] = f.syms[k]
<1>1. f.data \in Orders /\ f.syms \in Seq(Elf32_Syms(f.data)) /\ NSymbols(f) \in 0 .. Len(f.syms)
  BY ElfFileAssumption
<1>2. PICK n \in Nat : n = NSymbols(f) /\ n <= Len(f.syms)
  BY <1>1
<1>3. \A k \in 1 .. n : k \in 1 .. Len(f.syms) /\ f.syms[k] \in Elf32_Syms(f.data)
  BY <1>1, <1>2
<1>4. SubSeq(f.syms, 1, n) = [k \in 1 .. n |-> f.syms[k]]
  BY <1>1, <1>2
<1>5. Len(SubSeq(f.syms, 1, n)) = n
  BY <1>1, <1>2
<1> QED
  BY <1>1, <1>2, <1>3, <1>4, <1>5

(* A field is swapped once when the orders differ and never when they agree. *)
LEMMA FlippedRight ==
  ASSUME NEW o \in Orders, NEW s \in Elf32_Syms(o), NEW t, t = SymFlip(s, o)
  PROVE  /\ Read(t.st_name) = s.st_name.value /\ Read(t.st_value) = s.st_value.value
         /\ Read(t.st_shndx) = s.st_shndx.value /\ t.type = s.type
<1>1. Host \in Orders
  BY ElfFileAssumption
<1>2. /\ s.st_name.order = o /\ s.st_value.order = o /\ s.st_shndx.order = o
      /\ s.st_name \in Fields(o) /\ s.st_value \in Fields(o) /\ s.st_shndx \in Fields(o)
  BY DEF Elf32_Syms, Fields
<1>3. CASE o = Host
  <2>1. t = s
    BY <1>3 DEF SymFlip
  <2> QED
    BY <1>2, <1>3, <2>1 DEF Read
<1>4. CASE o # Host
  <2>1. Other(o) = Host
    BY <1>1, <1>4 DEF Orders, Other
  <2>2. ASSUME NEW x \in Fields(o) PROVE Read(FLIP(x)) = x.value
    <3>1. FLIP(x).value = x.value /\ FLIP(x).order = Other(x.order) /\ x.order = o
      BY DEF FLIP, Fields
    <3> QED
      BY <2>1, <3>1 DEF Read
  <2>3. /\ t.st_name = FLIP(s.st_name) /\ t.st_value = FLIP(s.st_value)
        /\ t.st_shndx = FLIP(s.st_shndx) /\ t.type = s.type
    BY <1>4 DEF SymFlip, Elf32_Syms
  <2> QED
    BY <1>2, <2>2, <2>3
<1> QED
  BY <1>3, <1>4

LEMMA MadeRight ==
  ASSUME NEW f \in Programs, NEW k \in 1 .. NSymbols(f), Named(f.syms[k], f)
  PROVE  Made(f, k) = Meant(f, f.syms[k])
<1> DEFINE s == f.syms[k]
           t == SymFlip(s, f.data)
<1>1. f.data \in Orders /\ s \in Elf32_Syms(f.data)
  BY FileSymbols
<1>2. /\ Read(t.st_name) = s.st_name.value /\ Read(t.st_value) = s.st_value.value
      /\ Read(t.st_shndx) = s.st_shndx.value /\ t.type = s.type
  BY <1>1, FlippedRight
<1>3. /\ s.st_name.value \in Nat /\ s.st_value.value \in Nat /\ s.st_shndx.value \in Nat
  BY <1>1 DEF Elf32_Syms, Fields
<1>4. Garbage \notin {Read(t.st_name), Read(t.st_value), Read(t.st_shndx)}
  BY <1>2, <1>3, ElfFileAssumption
<1>5. NameOf(f, t) = At(f, s.st_name.value)
  BY <1>2 DEF NameOf, Named
<1>6. Made(f, k) = Entry(f, t)
  BY DEF Made
<1>7. Entry(f, t) = [name |-> NameOf(f, t), value |-> Read(t.st_value), scn |-> Read(t.st_shndx),
                     type |-> t.type]
  BY <1>4 DEF Entry
<1> QED
  BY <1>2, <1>5, <1>6, <1>7 DEF Meant

LEMMA CopiedInit == Elf_Init => Copied
<1> SUFFICES ASSUME Elf_Init PROVE Copied
  OBVIOUS
<1>1. NSymbols(program) \in Nat /\ elfSymtab = <<>> /\ Len(elfSymtab) = 0
  BY FileSymbols DEF Elf_Init
<1> QED
  BY <1>1 DEF Elf_Init, Copied

LEMMA LoadCopied == ASSUME Load PROVE Copied'
<1>1. /\ program' \in Programs /\ elfPhase' = "symtab" /\ ei' = 0
      /\ elf_sym' = SubSeq(program'.syms, 1, NSymbols(program')) /\ elfSymtab' = <<>>
  BY DEF Load
<1>2. PICK f \in Programs : f = program'
  BY <1>1
<1>3. /\ NSymbols(f) \in Nat
      /\ DOMAIN elf_sym' = 1 .. NSymbols(f) /\ Len(elf_sym') = NSymbols(f)
      /\ \A k \in 1 .. NSymbols(f) : elf_sym'[k] = f.syms[k]
  BY <1>1, <1>2, FileSymbols
<1>4. Len(elfSymtab') = 0 /\ elfSymtab' \in Seq(Table(f))
  BY <1>1
<1> QED
  BY <1>1, <1>2, <1>3, <1>4 DEF Copied, Table, Made

LEMMA SymbolCopied == ASSUME Copied, Symbol PROVE Copied'
<1>1. /\ elfPhase # "prompt" /\ ei < Len(elf_sym) /\ ei' = ei + 1
      /\ elf_sym' = [elf_sym EXCEPT ![ei + 1] = SymFlip(@, ArchInfo(program).endian)]
      /\ elfPhase' = elfPhase /\ program' = program
  BY DEF Symbol
<1>2. CASE elfPhase # "symtab"
  <2>1. elfSymtab' = elfSymtab
    BY <1>2 DEF Symbol
  <2> QED
    BY <1>1, <1>2, <2>1 DEF Copied, Table, Made
<1>3. CASE elfPhase = "symtab"
  <2>1. PICK n \in Nat : n = NSymbols(program)
    BY FileSymbols DEF Copied
  <2>2. PICK m \in Nat : m = Len(elfSymtab)
    BY DEF Copied
  <2>3. /\ m = ei /\ m < n /\ DOMAIN elf_sym = 1 .. n /\ program \in Programs
        /\ elf_sym[m + 1] = program.syms[m + 1] /\ m + 1 \in 1 .. n
    BY <1>1, <1>3, <2>1, <2>2 DEF Copied
  <2>4. ArchInfo(program).endian = program.data
    BY DEF ArchInfo
  <2>5. elf_sym'[m + 1] = SymFlip(program.syms[m + 1], program.data)
    BY <1>1, <2>3, <2>4
  <2>6. PICK e : e = Entry(program, elf_sym'[m + 1])
    OBVIOUS
  <2>7. e = Made(program, m + 1) /\ e \in Table(program)
    BY <2>1, <2>3, <2>5, <2>6 DEF Made, Table
  <2>8. elfSymtab' = Append(elfSymtab, e)
    BY <1>1, <1>3, <2>3, <2>6 DEF Symbol, File
  <2>9. /\ elfSymtab' \in Seq(Table(program)) /\ Len(elfSymtab') = m + 1
        /\ \A k \in 1 .. m : elfSymtab'[k] = elfSymtab[k]
        /\ elfSymtab'[m + 1] = e
    BY <2>2, <2>7, <2>8 DEF Copied
  <2>10. \A k \in 1 .. m + 1 : elfSymtab'[k] = Made(program, k)
    BY <2>2, <2>7, <2>9 DEF Copied
  <2>11. /\ DOMAIN elf_sym' = 1 .. n
         /\ \A k \in 1 .. n : k > m + 1 => elf_sym'[k] = program.syms[k]
    BY <1>1, <1>3, <2>1, <2>2, <2>3 DEF Copied
  <2>12. Len(elf_sym') = n
    BY <2>1, <2>11
  <2> QED
    BY <1>1, <1>3, <2>1, <2>2, <2>3, <2>9, <2>10, <2>11, <2>12 DEF Copied, Table, Made
<1> QED
  BY <1>2, <1>3

LEMMA CopiedStep == Copied /\ [Elf_Next]_evars => Copied'
<1> SUFFICES ASSUME Copied, [Elf_Next]_evars PROVE Copied'
  OBVIOUS
<1>1. CASE Load
  BY <1>1, LoadCopied
<1>2. CASE Symbol
  BY <1>2, SymbolCopied
<1>3. CASE NextTable
  BY <1>3 DEF NextTable, Copied, Table, Made
<1>4. CASE Done
  BY <1>4 DEF Done, Copied, Table, Made
<1>5. CASE UNCHANGED evars
  BY <1>5 DEF evars, Copied, Table, Made
<1> QED
  BY <1>1, <1>2, <1>3, <1>4, <1>5 DEF Elf_Next

(* The symbols in memory are those of the program's file, for every file,     *)
(* whichever of the two orders it and the host have, and after every load     *)
(* (elf_load_symtab, elf.c:778-883).                                          *)
THEOREM SymbolsRead == Elf_Spec => []SymtabRead
<1>1. Copied => SymtabRead
  <2> SUFFICES ASSUME Copied, NEW k \in DOMAIN elfSymtab, Named(program.syms[k], program)
               PROVE  elfSymtab[k] = Meant(program, program.syms[k])
    BY DEF SymtabRead
  <2>1. k \in 1 .. Len(elfSymtab) /\ program \in Programs /\ NSymbols(program) \in Nat
    BY FileSymbols DEF Copied
  <2>2. k \in 1 .. NSymbols(program) /\ elfSymtab[k] = Made(program, k)
    BY <2>1 DEF Copied
  <2> QED
    BY <2>1, <2>2, MadeRight
<1> QED
  BY <1>1, CopiedInit, CopiedStep, PTL DEF Elf_Spec
=============================================================================
