------------------------------ MODULE BreakSet ------------------------------
(***************************************************************************)
(* What the lists of liste.c promise their users: a set of breakpoints, and *)
(* the answer to a question about sets, kept with the question.             *)
(***************************************************************************)
CONSTANT Addr
VARIABLES points, answer

Init == points = {} /\ answer = <<>>

Add(a) == points' = points \cup {a} /\ UNCHANGED answer
Del(a) == points' = points \ {a} /\ UNCHANGED answer
DelAll == points' = {} /\ UNCHANGED answer

(* Does PC stand on a breakpoint?  Do two sets of registers meet? *)
Query(a) == answer' = <<a, a \in points>> /\ UNCHANGED points
Meet(w, r) == answer' = <<w, r, w \cap r # {}>> /\ UNCHANGED points

Next ==
  \/ \E a \in Addr : Add(a) \/ Del(a) \/ Query(a)
  \/ \E w \in SUBSET Addr : \E r \in SUBSET Addr : Meet(w, r)
  \/ DelAll

Spec == Init /\ [][Next]_<<points, answer>>
=============================================================================
