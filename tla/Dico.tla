-------------------------------- MODULE Dico --------------------------------
(***************************************************************************)
(* readDico (fonctions.c): the dictionary is read line by line, then sorted *)
(* so that the first entry that matches a word is the one to use.  A file   *)
(* is a record                                                              *)
(*   lines  : the sequence of its lines after the count, Blank or an entry, *)
(*   ended  : whether the last line ends with a newline,                    *)
(*   number : the count of entries it announces.                            *)
(* An entry is known by its mask and its instr, two halves each; a line     *)
(* that is no entry (ERROR_MSG ends the program) is left out.               *)
(***************************************************************************)
EXTENDS Integers, Sequences

CONSTANTS Files, Blank

(* What calloc leaves in an entry, and past the last one. *)
Zero == [mask |-> <<0, 0>>, instr |-> <<0, 0>>]

Entry == [mask : Nat \X Nat, instr : Nat \X Nat]

ASSUME DicoAssumption ==
  /\ Blank \notin Entry
  /\ \A f \in Files :
       f.lines \in Seq(Entry \cup {Blank}) /\ f.ended \in BOOLEAN /\ f.number \in Nat \ {0}

VARIABLES
  dico_file,
  line,         (* the last line read                                       *)
  pos,          (* the number of lines read                                 *)
  eof,          (* feof(dico_file)                                          *)
  dico_data,
  i,            (* the entry at hand                                        *)
  phase         (* "read", "sort", "ready", or "failed" for a return of -1  *)

vars == <<dico_file, line, pos, eof, dico_data, i, phase>>

nbinstr == dico_file.number

Init ==
  /\ dico_file \in Files
  /\ line = Blank /\ pos = 0 /\ eof = FALSE
  /\ dico_data = [k \in 1 .. nbinstr |-> Zero]
  /\ i = 1 /\ phase = "read"

(* getFromScript: at the end of the file line keeps what it holds.          *)
GetLine ==
  IF pos = Len(dico_file.lines)
  THEN line' = line /\ pos' = pos /\ eof' = TRUE
  ELSE /\ pos' = pos + 1 /\ line' = dico_file.lines[pos']
       /\ eof' = (pos' = Len(dico_file.lines) /\ ~dico_file.ended)

(* Mutant: lines are stored as long as the file has any, whatever its count. *)
ReadToEnd ==
  /\ phase = "read" /\ ~eof
  /\ GetLine
  /\ IF line' = Blank
     THEN UNCHANGED <<dico_data, i>>
     ELSE dico_data' = [dico_data EXCEPT ![i] = line'] /\ i' = i + 1
  /\ UNCHANGED <<dico_file, phase>>

Read ==
  /\ phase = "read" /\ i <= nbinstr /\ ~eof
  /\ GetLine
  /\ IF line' = Blank
     THEN UNCHANGED <<dico_data, i>>
     ELSE dico_data' = [dico_data EXCEPT ![i] = line'] /\ i' = i + 1
  /\ UNCHANGED <<dico_file, phase>>

(* The entries read so far stay, unsorted: main does not look at the return *)
(* of readDico.                                                             *)
EndReached ==
  /\ phase = "read" /\ i <= nbinstr /\ eof
  /\ phase' = "failed"
  /\ UNCHANGED <<dico_file, line, pos, eof, dico_data, i>>

AllRead ==
  /\ phase = "read" /\ i = nbinstr + 1
  /\ phase' = "sort" /\ i' = 1
  /\ UNCHANGED <<dico_file, line, pos, eof, dico_data>>

(* Mutant: equal masks are exchanged too. *)
LessOrEqual(m, n) == m[1] < n[1] \/ (m[1] = n[1] /\ m[2] <= n[2])

(* Mutant: the smallest mask first. *)
Greater(m, n) == m[1] > n[1] \/ (m[1] = n[1] /\ m[2] > n[2])

Less(m, n) == m[1] < n[1] \/ (m[1] = n[1] /\ m[2] < n[2])

(* Entry i + 1 of the last one is past the table, where the mask is zero.   *)
OutOfOrder == i < nbinstr /\ Less(dico_data[i].mask, dico_data[i + 1].mask)

(* Mutant: the search goes on from where it is. *)
ExchangeOn ==
  /\ phase = "sort" /\ i <= nbinstr /\ OutOfOrder
  /\ dico_data' = [dico_data EXCEPT ![i] = dico_data[i + 1], ![i + 1] = dico_data[i]]
  /\ i' = i + 1
  /\ UNCHANGED <<dico_file, line, pos, eof, phase>>

Exchange ==
  /\ phase = "sort" /\ i <= nbinstr /\ OutOfOrder
  /\ dico_data' = [dico_data EXCEPT ![i] = dico_data[i + 1], ![i + 1] = dico_data[i]]
  /\ i' = 1
  /\ UNCHANGED <<dico_file, line, pos, eof, phase>>

Pass ==
  /\ phase = "sort" /\ i <= nbinstr /\ ~OutOfOrder
  /\ i' = i + 1
  /\ UNCHANGED <<dico_file, line, pos, eof, dico_data, phase>>

Sorted ==
  /\ phase = "sort" /\ i = nbinstr + 1
  /\ phase' = "ready"
  /\ UNCHANGED <<dico_file, line, pos, eof, dico_data, i>>

Next == Read \/ EndReached \/ AllRead \/ Exchange \/ Pass \/ Sorted

(* One thread that nothing blocks. *)
Spec == Init /\ [][Next]_vars /\ WF_vars(Next)

-----------------------------------------------------------------------------
TypeOK ==
  /\ dico_file \in Files
  /\ line \in Entry \cup {Blank} /\ pos \in 0 .. Len(dico_file.lines) /\ eof \in BOOLEAN
  /\ dico_data \in [1 .. nbinstr -> Entry]
  /\ i \in 1 .. nbinstr + 1
  /\ phase \in {"read", "sort", "ready", "failed"}

(* Once the dictionary is ready, masks never increase, whatever the order   *)
(* of the file: what decode's search and addNOP rely on (fonctions.c:700).  *)
InOrder ==
  phase = "ready" => \A k \in 1 .. nbinstr - 1 : ~Less(dico_data[k].mask, dico_data[k + 1].mask)

(* The sort goes back to the start at each exchange and still ends.         *)
ReadEnds == <>(phase \in {"ready", "failed"})

Entries == SelectSeq(dico_file.lines, LAMBDA l : l # Blank)

(* fonctions.c:503 announces an end of file reached before the number of    *)
(* entries.  After a last line that ends with a newline, the entry of that  *)
(* line is taken a second time instead.                                     *)
NoEntryTwice ==
  phase = "ready" =>
    \A j, k \in 1 .. nbinstr :
      j # k /\ dico_data[j] = dico_data[k] =>
        \E a, b \in DOMAIN Entries : a # b /\ Entries[a] = dico_data[j] /\ Entries[b] = dico_data[j]
=============================================================================
