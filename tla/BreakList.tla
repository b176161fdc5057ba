----------------------------- MODULE BreakList -----------------------------
(***************************************************************************)
(* The sorted linked lists of liste.c on a heap of cells, as break          *)
(* (user_int.c) and pipeiter use them: one list of breakpoints that lasts,  *)
(* and at each cycle two lists of registers that are compared and freed.    *)
(***************************************************************************)
EXTENDS Integers, Sequences, FiniteSets

CONSTANTS
  Cell,         (* addresses calloc may return                              *)
  Nil,          (* the null pointer                                         *)
  Addr,         (* the addresses, or registers, that lists hold             *)
  MaxRegs       (* registers one instruction reads or writes, at most       *)

ASSUME BreakListAssumption ==
  /\ IsFiniteSet(Cell) /\ Nil \notin Cell
  /\ Addr \subseteq Int
  /\ MaxRegs \in Nat

VARIABLES
  heap,         (* the allocated cells, each with its val and suiv          *)
  breaklist,    (* first cell of the breakpoints                            *)
  answer        (* last question to present or overlap, and its result      *)

lvars == <<heap, breaklist, answer>>

Pointer == Cell \cup {Nil}

-----------------------------------------------------------------------------
(* Operators on a heap h and a list p. *)

(* The cells of a list, in order, up to a null pointer or one to freed memory. *)
Chain(h, p) ==
  LET follow[q \in Pointer] == IF q \notin DOMAIN h THEN <<>> ELSE <<q>> \o follow[h[q].suiv]
  IN follow[p]

Held(h, p) == LET c == Chain(h, p) IN { h[c[i]].val : i \in DOMAIN c }

(* Mutant: insert does not walk and puts the value behind the first cell. *)
PlaceSecond(h, s, e) == IF s = <<>> \/ e < h[s[1]].val THEN 0 ELSE 1

(* How many cells insert leaves before the new one: none when e is smaller  *)
(* than the first, else the first and those that follow while e is larger.  *)
Place(h, s, e) ==
  IF s = <<>> \/ e < h[s[1]].val THEN 0
  ELSE CHOOSE k \in 1 .. Len(s) :
         /\ \A i \in 2 .. k : e > h[s[i]].val
         /\ k < Len(s) => ~(e > h[s[k + 1]].val)

(* insert(e, L) with the cell c that calloc returned: heap and new first.   *)
insert(h, p, e, c) ==
  LET s == Chain(h, p)
      k == Place(h, s, e)
      Grown(next) ==
        [d \in DOMAIN h \cup {c} |-> IF d = c THEN [val |-> e, suiv |-> next] ELSE h[d]]
  IN IF k = 0 THEN [heap |-> Grown(p), first |-> c]
     ELSE [heap |-> [Grown(h[s[k]].suiv) EXCEPT ![s[k]].suiv = c], first |-> p]

(* del(e, L): every cell that holds e is freed, and what pointed to one then  *)
(* points to the first after it that does not.                               *)
del(h, p, e) ==
  LET gone == { c \in DOMAIN h : h[c].val = e }
      after[q \in Pointer] == IF q \in gone THEN after[h[q].suiv] ELSE q
  IN [heap |-> [d \in DOMAIN h \ gone |-> [h[d] EXCEPT !.suiv = after[@]]], first |-> after[p]]

present(h, p, e) == e \in Held(h, p)

(* Mutant: overlap compares the first values only. *)
OverlapFirst(h, p1, p2) == p1 # Nil /\ p2 # Nil /\ h[p1].val = h[p2].val

(* overlap(L1, L2) looks each value of L1 up in L2. *)
overlap(h, p1, p2) == \E v \in Held(h, p1) : present(h, p2, v)

Registers(regs) == { regs[i] : i \in DOMAIN regs }

(* listWritedReg, listReadedReg: registers inserted one by one in an empty   *)
(* list, twice the same when an instruction names it twice.                  *)
ListOf(regs, cells) ==
  LET built[n \in 0 .. Len(regs)] ==
        IF n = 0 THEN [heap |-> <<>>, first |-> Nil]
        ELSE LET b == built[n - 1]
             IN insert(b.heap, b.first, regs[n], CHOOSE c \in cells \ DOMAIN b.heap : TRUE)
  IN built[Len(regs)]

-----------------------------------------------------------------------------
Lists_Init == heap = <<>> /\ breaklist = Nil /\ answer = <<>>

FreeCells == Cell \ DOMAIN heap

(* Following the list is defined: it meets allocated cells only.  What the   *)
(* program does when it is not is left out: the actions below stop there.    *)
Intact == breaklist = Nil \/ breaklist \in DOMAIN heap

(* break add of one address; nothing when it is there already. *)
BreakAdd(a) ==
  /\ Intact
  /\ ~present(heap, breaklist, a)
  /\ \E c \in FreeCells :
       LET r == insert(heap, breaklist, a, c)
       IN heap' = r.heap /\ breaklist' = r.first
  /\ UNCHANGED answer

BreakDel(a) ==
  /\ Intact
  /\ LET r == del(heap, breaklist, a)
     IN heap' = r.heap /\ breaklist' = r.first
  /\ UNCHANGED answer

(* break del all: freeList's result is dropped, breaklist keeps its value.   *)
BreakDelAll ==
  /\ Intact
  /\ heap' = LET s == Chain(heap, breaklist)
             IN [d \in DOMAIN heap \ { s[i] : i \in DOMAIN s } |-> heap[d]]
  /\ UNCHANGED <<breaklist, answer>>

(* pipeiter's test of breakpoints. *)
BreakTest(a) ==
  /\ Intact
  /\ answer' = <<a, present(heap, breaklist, a)>>
  /\ UNCHANGED <<heap, breaklist>>

(* pipeiter's test of a stall: two lists built in free cells, compared, freed. *)
StallTest(w, r) ==
  /\ Cardinality(FreeCells) >= Len(w) + Len(r)
  /\ LET L1 == ListOf(w, FreeCells)
         L2 == ListOf(r, FreeCells \ DOMAIN L1.heap)
         both == [c \in DOMAIN L1.heap \cup DOMAIN L2.heap |->
                    IF c \in DOMAIN L1.heap THEN L1.heap[c] ELSE L2.heap[c]]
     IN answer' = <<Registers(w), Registers(r), overlap(both, L1.first, L2.first)>>
  /\ UNCHANGED <<heap, breaklist>>

RegLists == UNION { [1 .. n -> Addr] : n \in 0 .. MaxRegs }

Lists_Next ==
  \/ \E a \in Addr : BreakAdd(a) \/ BreakDel(a) \/ BreakTest(a)
  \/ BreakDelAll
  \/ \E w, r \in RegLists : StallTest(w, r)

Lists_Spec == Lists_Init /\ [][Lists_Next]_lvars

-----------------------------------------------------------------------------
(* PROPERTIES *)

(* The list of breakpoints is sorted without repetition and holds every       *)
(* allocated cell: insert keeps the order whatever the order of the commands, *)
(* and neither it nor del loses a cell (liste.c:34-76).                       *)
SortedNoLeak ==
  LET s == Chain(heap, breaklist)
  IN /\ { s[i] : i \in DOMAIN s } = DOMAIN heap
     /\ \A i \in 1 .. Len(s) - 1 : heap[s[i]].val < heap[s[i + 1]].val

(* The lists behave as sets under every interleaving of commands and cycles.  *)
Set == INSTANCE BreakSet WITH points <- Held(heap, breaklist)
ImplementsSet == Set!Spec

(* The list can always be followed: its first cell is allocated.  The message *)
(* of break offers "break del <adress>+|all" (user_int.c:646); freeList frees *)
(* the cells and breaklist still points to the first.                         *)
ListAlive == Intact
=============================================================================
