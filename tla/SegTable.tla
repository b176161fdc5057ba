------------------------------ MODULE SegTable ------------------------------
(***************************************************************************)
(* The segment table of a load (mem.c and its use in emul.c).  The number of *)
(* slots is counted from the symbols before anything is placed; a section    *)
(* then takes the first free slot, is filled through its name, and loadELF   *)
(* reaches it through a count of its own, j.  The addresses are in Loader.   *)
(***************************************************************************)
EXTENDS Integers, SequencesExt

CONSTANTS
  Tables,       (* what may be in the symbol tables and in the files: the    *)
                (* names with a symbol in libc and program, and the sections *)
                (* whose content cannot be read                              *)
  Free          (* the name NULL, and the content NULL                       *)

section_names == <<"text", "rodata", "data", "bss">>
Loadable == {section_names[k] : k \in DOMAIN section_names}
SpecialNames == {"[stack]", "[vsyscall]", "zeroes"}

ASSUME SegTableAssumption ==
  /\ \A t \in Tables : t.libc \subseteq Loadable /\ t.program \subseteq Loadable
  /\ \A p \in {"", "libc", "program", "init_mem"}, s \in Loadable \cup SpecialNames : Free # <<p, s>>

VARIABLES
  table,        (* the files at hand                                         *)
  stage,        (* "libc", "rename", "program", "bounds", "loaded"; "crash"  *)
  i, j,         (* the section at hand, and the segments loaded              *)
  seg           (* memory->seg: [name, content], a name its prefix and its   *)
                (* section, a content its file and its section               *)

tvars == <<table, stage, i, j, seg>>

-----------------------------------------------------------------------------
(* mem.c *)

(* n free slots, the stack and vsyscall. *)
init_mem(n) ==
  [k \in 1 .. n |-> [name |-> Free, content |-> Free]] \o
  <<[name |-> <<"", "[stack]">>, content |-> <<"init_mem", "zeroes">>],
    [name |-> <<"", "[vsyscall]">>, content |-> <<"init_mem", "zeroes">>]>>

(* As both loops look for a slot: the first one that has the name. *)
FirstNamed(vm, name) == SelectInSeq(vm, LAMBDA s : s.name = name)

FirstFree == FirstNamed(seg, Free)
attach_scn_to_mem(name) == [seg EXCEPT ![FirstFree].name = name]

(* The first slot of that name; a free one before it stops the program. *)
fill_mem_scn(vm, name, content) ==
  [vm EXCEPT ![FirstNamed(vm, name)].content = content]
FillCrashes(vm, name) ==
  \E k \in 1 .. FirstNamed(vm, name) - 1 : vm[k].name = Free

-----------------------------------------------------------------------------
(* emul.c *)

(* Mutant: a slot for each section that may be. *)
get_nsegmentsAll(symbols) == Len(section_names)

get_nsegments(symbols) == Cardinality({k \in DOMAIN section_names : section_names[k] \in symbols})

Seg_Init ==
  /\ table \in Tables
  /\ seg = init_mem(get_nsegments(table.program) + get_nsegments(table.libc))
  /\ stage = "libc" /\ i = 1 /\ j = 0

(* elf_load_section_in_memory: with no slot left nothing is done; without a  *)
(* content the slot is attached and stays empty.                             *)
LoadSection(file, s) ==
  IF FirstFree = 0 THEN UNCHANGED <<seg, stage>>
  ELSE LET name == <<"", s>>
           vm == attach_scn_to_mem(name) IN
       IF <<file, s>> \in table.unreadable THEN seg' = vm /\ UNCHANGED stage
       ELSE IF FillCrashes(vm, name) THEN seg' = vm /\ stage' = "crash"
       ELSE seg' = fill_mem_scn(vm, name, <<file, s>>) /\ UNCHANGED stage

(* What it returns is not looked at: j counts the section in any case. *)
LoadFile(file, symbols) ==
  /\ stage = file /\ i <= Len(section_names)
  /\ IF section_names[i] \in symbols
     THEN LoadSection(file, section_names[i]) /\ j' = j + 1
     ELSE UNCHANGED <<seg, stage, j>>
  /\ i' = i + 1 /\ UNCHANGED table

LibcLoaded ==
  /\ stage = "libc" /\ i = Len(section_names) + 1
  /\ stage' = "rename" /\ UNCHANGED <<table, i, j, seg>>

(* Mutant: the libc keeps the names of its sections. *)
RenameNot == stage = "rename" /\ stage' = "program" /\ i' = 1 /\ UNCHANGED <<table, j, seg>>

(* The segments of the libc, the j first, get names of their own. *)
Rename ==
  /\ stage = "rename"
  /\ IF \E k \in 1 .. j : seg[k].name = Free
     THEN stage' = "crash" /\ UNCHANGED <<i, seg>>
     ELSE /\ seg' = [k \in DOMAIN seg |->
                       IF k <= j THEN [seg[k] EXCEPT !.name = <<"libc", @[2]>>] ELSE seg[k]]
          /\ stage' = "program" /\ i' = 1
  /\ UNCHANGED <<table, j>>

ProgramLoaded ==
  /\ stage = "program" /\ i = Len(section_names) + 1
  /\ stage' = "bounds" /\ UNCHANGED <<table, i, j, seg>>

(* The names of all the slots are compared, free ones too. *)
Bounds ==
  /\ stage = "bounds"
  /\ stage' = IF \E k \in DOMAIN seg : seg[k].name = Free THEN "crash" ELSE "loaded"
  /\ UNCHANGED <<table, i, j, seg>>

Seg_Next ==
  \/ LoadFile("libc", table.libc) \/ LibcLoaded \/ Rename
  \/ LoadFile("program", table.program) \/ ProgramLoaded \/ Bounds

Seg_Spec == Seg_Init /\ [][Seg_Next]_tvars

-----------------------------------------------------------------------------
(* PROPERTIES *)

Count(symbols, m) == Cardinality({n \in 1 .. m : section_names[n] \in symbols})

(* The libc comes first, the sections of a file are in the order of their names. *)
SlotOf(file, m) ==
  Count(table[file], m) + (IF file = "libc" THEN 0 ELSE Count(table.libc, Len(section_names)))

(* The j-th section loaded is in slot j, which is where emul.c:475, 485 and    *)
(* 519 look for it, and no section ends up in the slot of another one: the     *)
(* slot is chosen by mem.c, once by its freedom and once by its name.          *)
OwnSlot ==
  \A file \in {"libc", "program"}, m \in DOMAIN section_names :
    SlotOf(file, m) <= j /\ section_names[m] \in table[file] =>
      LET s == seg[SlotOf(file, m)] IN
        /\ s.name \in {<<"", section_names[m]>>, <<"libc", section_names[m]>>}
        /\ s.content = Free <=> <<file, section_names[m]>> \in table.unreadable
        /\ s.content # Free => s.content = <<file, section_names[m]>>

(* The count made before the load is that of the sections it places: no name   *)
(* of a slot that stayed free is ever compared (emul.c:461-464, 533, mem.c:140).*)
CountExact == stage # "crash"

(* "File loaded" (emul.c:551): every section of the program is in memory.      *)
LoadedWhole == stage = "loaded" => \A k \in 1 .. j : seg[k].content # Free
=============================================================================
