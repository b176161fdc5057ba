------------------------------- MODULE Reloc -------------------------------
(***************************************************************************)
(* reloc_segment (emul.c): one step for each entry of the relocation table  *)
(* of a segment.  Word k is the one that entry k relocates.  A word is two  *)
(* halves of Half values, 2^16 in the program; the low Target values of a   *)
(* jump are its target, 2^26 in the program.  The region of a jump          *)
(* (P & 0xF0000000) goes no further than the mask of the target and is left *)
(* out, and so are the warnings.                                            *)
(***************************************************************************)
EXTENDS Integers, Sequences, Bitwise

CONSTANTS
  Half, Target,
  KeptMask,     (* the bits 0xFC00000 keeps of a jump                       *)
  Tables,       (* relocation tables: sequences of [type, sym]              *)
  Syms,         (* symbols with an address                                  *)
  Places,       (* the addresses they may have                              *)
  Words,        (* the words of the segment before its relocation           *)
  Verbose       (* values of verbose > 0                                    *)

Unresolved == "unresolved"
Types == {2, 4, 5, 6, 9, 33}   (* 9 for any other type, 33 for one with no name *)
Word == Half * Half

RelocAssumption ==
  /\ Half \in Nat /\ Half > 0 /\ Words \subseteq 0 .. Word - 1 /\ Places \subseteq 0 .. Word - 1
  /\ Verbose \subseteq BOOLEAN
  /\ \A t \in Tables : t \in Seq([type : Types, sym : Syms \cup {Unresolved}])

VARIABLES
  rel,          (* the table                                                *)
  content,      (* the words of the segment                                 *)
  asm,          (* the same words as the assembler left them                *)
  addr,         (* the address of each symbol                               *)
  i,            (* the entry the loop is at                                 *)
  S,            (* the variable that addr_from_symnb fills                  *)
  listing       (* the entry the listing is at, 0 once it is over           *)

vars == <<rel, content, asm, addr, i, S, listing>>

(* S starts with what the stack holds. *)
Init ==
  /\ rel \in Tables
  /\ content \in [DOMAIN rel -> Words] /\ asm = content
  /\ addr \in [Syms -> Places]
  /\ i = 1 /\ S \in Places
  /\ \E v \in Verbose : listing = IF v THEN 1 ELSE 0

(* The table is listed first; an entry whose type has no name is not passed. *)
List ==
  /\ listing # 0
  /\ listing' = IF listing > Len(rel) THEN 0
                ELSE IF rel[listing].type > 32 THEN listing
                ELSE listing + 1
  /\ UNCHANGED <<rel, content, asm, addr, i, S>>

Low(w) == w % Half
High(w) == (w \div Half) % Half

(* Mutant: the cast to short is forgotten. *)
ShortUnsigned(n) == n % Half

(* (short)n *)
Short(n) == IF n % Half < Half \div 2 THEN n % Half ELSE (n % Half) - Half

Symbol == IF rel[i].sym = Unresolved THEN S ELSE addr[rel[i].sym]

Patch(w) ==
  /\ content' = [content EXCEPT ![i] = w]
  /\ S' = Symbol /\ i' = i + 1
  /\ UNCHANGED <<rel, asm, addr, listing>>

(* Mutant: an entry that is refused is not passed. *)
RefusedAgain == UNCHANGED vars

Refused == Patch(content[i])

At(type) == listing = 0 /\ i \in DOMAIN rel /\ rel[i].type = type

(* The halves of a pair make AHL. *)
Joined(hi, lo) == Low(hi) * Half + Short(lo)

WithLow(w, n) == High(w) * Half + (n % Half)

R32 == At(2) /\ Patch((Symbol + content[i]) % Word)

(* The offset in the word and the address of the symbol are joined bit by   *)
(* bit.                                                                     *)
R26 ==
  /\ At(4)
  /\ Patch((content[i] & KeptMask) | (((content[i] % Target) | (Symbol \div 4)) % Target))

CarryOf(hi, lo) == (Joined(hi, lo) + Symbol - Short(Joined(hi, lo) + Symbol)) \div Half

(* Only an entry followed by a low half.  After the last entry the program  *)
(* reads what follows the table.                                            *)
RHi16 ==
  /\ At(5)
  /\ \/ i < Len(rel) /\ rel[i + 1].type # 6 /\ Refused
     \/ i < Len(rel) /\ rel[i + 1].type = 6
        /\ Patch(WithLow(content[i], CarryOf(content[i], content[i + 1])))
     \/ i = Len(rel) /\ Refused
     \/ i = Len(rel) /\ \E w \in Words : Patch(WithLow(content[i], CarryOf(content[i], w)))

(* Only an entry preceded by a high half, which is relocated by then.  Before *)
(* the first entry the program reads what lies before the table.            *)
RLo16 ==
  /\ At(6)
  /\ \/ i > 1 /\ rel[i - 1].type = 5
        /\ Patch(WithLow(content[i], Joined(content[i - 1], content[i]) + Symbol))
     \/ i > 1 /\ rel[i - 1].type # 5 /\ Refused
     \/ i = 1 /\ Refused
     \/ i = 1 /\ \E w \in Words : Patch(WithLow(content[i], Joined(w, content[i]) + Symbol))

ROther == (At(9) \/ At(33)) /\ Refused

Relocate == R32 \/ R26 \/ RHi16 \/ RLo16 \/ ROther
Next == List \/ Relocate

(* One loop after the other, in one thread. *)
Spec == Init /\ [][Next]_vars /\ WF_vars(Next)

-----------------------------------------------------------------------------
Over == i = Len(rel) + 1

(* What a pair of halves stands for, as LUI and a signed offset use it.     *)
Meant(hi, lo) ==
  LET n == lo % Half IN ((hi % Half) * Half + (IF n < Half \div 2 THEN n ELSE n - Half)) % Word

(* A high half and the low half after it stand, once relocated, for the     *)
(* address they stood for plus that of their symbol, carry and borrow of    *)
(* the low half included; a full word for the same sum (emul.c, types 2, 5  *)
(* and 6).                                                                  *)
SumsRelocated ==
  Over => \A k \in DOMAIN rel :
    LET s == rel[k].sym IN
    s # Unresolved =>
      /\ rel[k].type = 2 => content[k] = (asm[k] + addr[s]) % Word
      /\ k < Len(rel) /\ rel[k].type = 5 /\ rel[k + 1].type = 6 /\ rel[k + 1].sym = s =>
           /\ Meant(content[k], content[k + 1]) = (Meant(asm[k], asm[k + 1]) + addr[s]) % Word
           /\ High(content[k]) = High(asm[k]) /\ High(content[k + 1]) = High(asm[k + 1])

(* emul.c: this function relocates the segment.  A jump should reach the    *)
(* symbol plus its offset; the two are joined by a bitwise or.              *)
JumpsRelocated ==
  Over => \A k \in DOMAIN rel :
    rel[k].type = 4 /\ rel[k].sym # Unresolved =>
      content[k] % Target = ((asm[k] % Target) + (addr[rel[k].sym] \div 4)) % Target

(* The same, of the low halves that share one high half: those after the    *)
(* first are refused.                                                       *)
SharedHighRelocated ==
  Over => \A k \in DOMAIN rel :
    /\ k > 2 /\ rel[k].type = 6 /\ rel[k - 1].type = 6 /\ rel[k - 2].type = 5
    /\ rel[k].sym = rel[k - 1].sym /\ rel[k].sym = rel[k - 2].sym /\ rel[k].sym # Unresolved
    => Low(content[k]) = (Low(asm[k]) + addr[rel[k].sym]) % Half

(* The listing does not get past an entry whose type has no name. *)
ListingHeld == listing \in DOMAIN rel /\ rel[listing].type > 32

(* The relocation of a segment ends: an entry that cannot be relocated is      *)
(* passed over, whatever its type and its neighbours (emul.c:210, 300).  Only  *)
(* the listing asked for by verbose may be held before it (emul.c:194).        *)
RelocEnds == <>(Over \/ ListingHeld)
=============================================================================
