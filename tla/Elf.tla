-------------------------------- MODULE Elf --------------------------------
(***************************************************************************)
(* What the loader takes from an ELF file (elf.c, syms.c): its section      *)
(* headers in file order and its symbol table.  An image is a record        *)
(*   headers : the sequence of [name, size],                                *)
(*   syms    : the sequence of [name, scn, value], scn the index of the     *)
(*             section of the symbol, 0 for one defined elsewhere.          *)
(* Names are model values or strings; all that is known of their spelling   *)
(* is Longer, the pairs <<n, s>> where n begins with s and goes on.         *)
(***************************************************************************)
EXTENDS Integers, Sequences

CONSTANTS Longer

(* strncmp(n, s, strlen(s)) *)
Begins(n, s) == n = s \/ <<n, s>> \in Longer

FirstIndex(q, Test(_)) ==
  IF \E i \in DOMAIN q : Test(q[i])
  THEN CHOOSE i \in DOMAIN q : Test(q[i]) /\ \A j \in 1 .. i - 1 : ~Test(q[j])
  ELSE 0

(* The header elf_extract_scn_by_name takes for a name, 0 when none. *)
Extract(image, s) == FirstIndex(image.headers, LAMBDA h : Begins(h.name, s))

IsInSymbols(s, table) == \E i \in DOMAIN table : table[i].name = s

(* Symbol 0 is the null symbol in the file; tables here start after it. *)
SymByName(s, table) == FirstIndex(table, LAMBDA y : y.name = s)
=============================================================================
