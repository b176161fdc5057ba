---------------------------- MODULE Decode ----------------------------
(***************************************************************************)
(* decode (pipeline.c): the first entry of the sorted dictionary whose mask *)
(* selects its instr in the word.  Words and masks are two halves of sixteen*)
(* bits.                                                                    *)
(***************************************************************************)
EXTENDS Dico, Bitwise

Both(a, b) == <<a[1] & b[1], a[2] & b[2]>>

Matches(w, e) == Both(w, e.mask) = e.instr

(* Past the table the mask is zero, which matches: InvalidInstruction.      *)
Decode(w) ==
  IF \E k \in 1 .. nbinstr : Matches(w, dico_data[k])
  THEN CHOOSE k \in 1 .. nbinstr :
         Matches(w, dico_data[k]) /\ \A j \in 1 .. k - 1 : ~Matches(w, dico_data[j])
  ELSE 0

(* Two entries that some word matches both. *)
Overlap(d, e) == Both(d.instr, e.mask) = Both(e.instr, d.mask)

-----------------------------------------------------------------------------
(* pipeline.c and addNOP take entry 0 for the instruction that does nothing, *)
(* and every entry decodes as itself but where a more specific one is meant.  *)
ZeroIsFirst ==
  (\E k \in 1 .. nbinstr : dico_data[k].mask = <<65535, 65535>>) =>
    /\ Decode(<<0, 0>>) = 1 /\ dico_data[1].instr = <<0, 0>>
    /\ \A k \in 1 .. nbinstr : Decode(dico_data[k].instr) \in {1, k}

(* Of two entries that a word may match, the one that comes first is the      *)
(* more specific: its mask holds the other's (the reason given for the sort   *)
(* at fonctions.c:700); and NOP is entry 0 (fonctions.c:864).                 *)
FirstIsSpecific ==
  phase = "ready" =>
    /\ \A j, k \in 1 .. nbinstr :
         j < k /\ Overlap(dico_data[j], dico_data[k]) =>
           Both(dico_data[j].mask, dico_data[k].mask) = dico_data[k].mask
    /\ ZeroIsFirst
=============================================================================
