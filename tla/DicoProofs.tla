----------------------------- MODULE DicoProofs -----------------------------
(***************************************************************************)
(* For every dictionary file: the sort of readDico, when it ends, leaves    *)
(* masks that never increase.  While it runs, the entries before i are in   *)
(* order; an exchange goes back to the start and promises nothing.          *)
(***************************************************************************)
EXTENDS Dico, TLAPS

SortedBelow(n) ==
  \A k \in 1 .. nbinstr - 1 : k < n => ~Less(dico_data[k].mask, dico_data[k + 1].mask)

Sorting ==
  /\ TypeOK
  /\ phase = "sort" => SortedBelow(i)
  /\ phase = "ready" => SortedBelow(nbinstr)

LEMMA CountTyped == ASSUME TypeOK PROVE nbinstr \in Nat /\ nbinstr > 0
  BY DicoAssumption DEF TypeOK, nbinstr

LEMMA InitTyped == ASSUME Init PROVE TypeOK
<1>1. nbinstr \in Nat /\ nbinstr > 0 /\ dico_file.lines \in Seq(Entry \cup {Blank})
  BY DicoAssumption DEF Init, nbinstr
<1>2. Zero \in Entry
  BY DEF Zero, Entry
<1>3. dico_data \in [1 .. nbinstr -> Entry]
  BY <1>2 DEF Init
<1>4. i \in 1 .. nbinstr + 1 /\ pos \in 0 .. Len(dico_file.lines)
  BY <1>1 DEF Init
<1> QED
  BY <1>3, <1>4 DEF Init, TypeOK

LEMMA ReadTyped == ASSUME TypeOK, Read PROVE TypeOK'
<1>1. dico_file \in Files /\ dico_file' = dico_file /\ nbinstr' = nbinstr /\ nbinstr \in Nat
  BY CountTyped DEF Read, TypeOK, nbinstr
<1>2. dico_file.lines \in Seq(Entry \cup {Blank}) /\ dico_file.ended \in BOOLEAN
  BY <1>1, DicoAssumption
<1> DEFINE n == Len(dico_file.lines)
<1>3. n \in Nat
  BY <1>2
<1>4. line' \in Entry \cup {Blank} /\ pos' \in 0 .. n /\ eof' \in BOOLEAN
  <2>1. CASE pos = n
    BY <1>3, <2>1 DEF Read, GetLine, TypeOK
  <2>2. CASE pos # n
    <3>1. pos' = pos + 1 /\ pos' \in 1 .. n
      BY <1>3, <2>2 DEF Read, GetLine, TypeOK
    <3>2. line' = dico_file.lines[pos'] /\ eof' = (pos' = n /\ ~dico_file.ended)
      BY <2>2 DEF Read, GetLine
    <3>3. dico_file.lines[pos'] \in Entry \cup {Blank}
      BY <1>2, <3>1
    <3>4. eof' \in BOOLEAN
      BY <3>2
    <3> QED
      BY <1>3, <3>1, <3>2, <3>3, <3>4
  <2> QED
    BY <2>1, <2>2
<1>5. dico_data' \in [1 .. nbinstr -> Entry] /\ i' \in 1 .. nbinstr + 1
  <2>1. CASE line' = Blank
    BY <1>1, <2>1 DEF Read, TypeOK
  <2>2. CASE line' # Blank
    BY <1>1, <1>4, <2>2 DEF Read, TypeOK
  <2> QED
    BY <2>1, <2>2
<1> QED
  BY <1>1, <1>4, <1>5 DEF Read, TypeOK

LEMMA InitSorting == Init => Sorting
  BY InitTyped DEF Init, Sorting

LEMMA SortingKept == Sorting /\ [Next]_vars => Sorting'
<1> SUFFICES ASSUME Sorting, [Next]_vars PROVE Sorting'
  OBVIOUS
<1>1. TypeOK /\ nbinstr \in Nat /\ nbinstr > 0
  BY CountTyped DEF Sorting
<1>2. CASE Read
  BY <1>1, <1>2, ReadTyped DEF Read, Sorting
<1>3. CASE EndReached
  BY <1>1, <1>3 DEF EndReached, Sorting, TypeOK, nbinstr
<1>4. CASE AllRead
  <2>1. TypeOK'
    BY <1>1, <1>4 DEF AllRead, TypeOK, nbinstr
  <2>2. SortedBelow(i)'
    BY <1>1, <1>4 DEF AllRead, SortedBelow, nbinstr
  <2> QED
    BY <1>4, <2>1, <2>2 DEF AllRead, Sorting
<1>5. CASE Exchange
  <2>1. i \in 1 .. nbinstr /\ i + 1 \in 1 .. nbinstr
    BY <1>1, <1>5 DEF Exchange, OutOfOrder, TypeOK
  <2>2. dico_data' \in [1 .. nbinstr -> Entry]
    BY <1>1, <1>5, <2>1 DEF Exchange, TypeOK
  <2>3. dico_file' = dico_file /\ nbinstr' = nbinstr /\ i' = 1
    BY <1>5 DEF Exchange, nbinstr
  <2>4. TypeOK'
    BY <1>1, <1>5, <2>2, <2>3 DEF Exchange, TypeOK
  <2>5. SortedBelow(i)'
    BY <1>1, <2>3 DEF SortedBelow
  <2> QED
    BY <1>5, <2>4, <2>5 DEF Exchange, Sorting
<1>6. CASE Pass
  <2>1. dico_file' = dico_file /\ nbinstr' = nbinstr /\ i' = i + 1 /\ dico_data' = dico_data
        /\ phase = "sort" /\ phase' = "sort" /\ i \in 1 .. nbinstr
    BY <1>1, <1>6 DEF Pass, nbinstr, TypeOK
  <2>2. TypeOK'
    BY <1>1, <1>6, <2>1 DEF Pass, TypeOK
  <2>3. SortedBelow(i)
    BY <2>1 DEF Sorting
  <2>4. ASSUME NEW k \in 1 .. nbinstr - 1, k < i + 1
        PROVE  ~Less(dico_data[k].mask, dico_data[k + 1].mask)
    <3>1. CASE k = i
      BY <1>1, <1>6, <2>1, <2>4, <3>1 DEF Pass, OutOfOrder
    <3>2. CASE k < i
      BY <2>3, <2>4, <3>2 DEF SortedBelow
    <3> QED
      BY <1>1, <2>1, <2>4, <3>1, <3>2
  <2>5. SortedBelow(i)'
    BY <2>1, <2>4 DEF SortedBelow
  <2> QED
    BY <2>1, <2>2, <2>5 DEF Sorting
<1>7. CASE Sorted
  <2>1. TypeOK'
    BY <1>1, <1>7 DEF Sorted, TypeOK, nbinstr
  <2>2. SortedBelow(nbinstr)'
    BY <1>1, <1>7 DEF Sorted, Sorting, SortedBelow, nbinstr
  <2> QED
    BY <1>7, <2>1, <2>2 DEF Sorted, Sorting
<1>8. CASE UNCHANGED vars
  BY <1>8 DEF vars, Sorting, TypeOK, SortedBelow, nbinstr
<1> QED
  BY <1>2, <1>3, <1>4, <1>5, <1>6, <1>7, <1>8 DEF Next

(* The state of readDico keeps its types, for every file (fonctions.c).     *)
THEOREM DicoTyped == Spec => []TypeOK
<1>1. Sorting => TypeOK
  BY DEF Sorting
<1> QED
  BY <1>1, InitSorting, SortingKept, PTL DEF Spec

(* A dictionary that is ready has its masks in order, for every file: the   *)
(* order decode's search needs (fonctions.c:700).                           *)
THEOREM DicoInOrder == Spec => []InOrder
<1>1. Sorting => InOrder
  BY CountTyped DEF Sorting, InOrder, SortedBelow
<1> QED
  BY <1>1, InitSorting, SortingKept, PTL DEF Spec
=============================================================================
