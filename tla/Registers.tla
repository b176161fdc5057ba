----------------------------- MODULE Registers ------------------------------
(***************************************************************************)
(* The names of the registers (fonctions.c): isReg reads one, parseReg       *)
(* writes one, each with its own table.  A name is a number of '$', an       *)
(* optional sign and number, which is the prefix strtol reads, and the rest. *)
(***************************************************************************)
EXTENDS Integers, Sequences

CONSTANTS
  Numbers,      (* the numbers a name may start with                        *)
  Rests         (* the rests a name may have, names of registers or not     *)

RegistersAssumption == Numbers \subseteq Nat

NBREG == 32

Names == [dollars : 0 .. 1, sign : BOOLEAN, number : Numbers \cup {-1}, rest : Rests]

VARIABLES
  name,         (* the last name given to set, assert or disp               *)
  index         (* what isReg made of it                                    *)

rvars == <<name, index>>

(* The comparisons of isReg, in their order. *)
ReadTable ==
  [ zero |-> 0, at |-> 1, v0 |-> 2, v1 |-> 3, a0 |-> 4, a1 |-> 5, a2 |-> 6, a3 |-> 7,
    t0 |-> 8, t1 |-> 9, t2 |-> 10, t3 |-> 11, t4 |-> 12, t5 |-> 13, t6 |-> 14, t7 |-> 15,
    s0 |-> 16, s1 |-> 17, s2 |-> 18, s3 |-> 19, s4 |-> 20, s5 |-> 21, s6 |-> 22, s7 |-> 23,
    t8 |-> 24, t9 |-> 25, k0 |-> 26, k1 |-> 27, gp |-> 28, sp |-> 29, fp |-> 30, ra |-> 31,
    HI |-> 32, LO |-> 33, PC |-> 34 ]

(* The cases of parseReg, from 0 to 34. *)
WriteTable ==
  << "zero", "at", "v0", "v1", "a0", "a1", "a2", "a3", "t0", "t1", "t2", "t3", "t4", "t5", "t6",
     "t7", "s0", "s1", "s2", "s3", "s4", "s5", "s6", "s7", "t8", "t9", "k0", "k1", "gp", "sp",
     "fp", "ra", "HI", "LO", "PC" >>

(* A name that begins with a digit is a number, whatever follows it.  Else    *)
(* the rest is compared with the names: a signed number before it is dropped, *)
(* a sign without a number is not.                                            *)
isReg(n) ==
  CASE ~n.sign /\ n.number # -1 -> IF n.number < NBREG THEN n.number ELSE -1
    [] n.sign /\ n.number = -1 -> -1
    [] OTHER -> IF n.rest \in DOMAIN ReadTable THEN ReadTable[n.rest] ELSE -1

(* Mutant: a case is copied from the next and its name left as it was. *)
ParseCopied(i) ==
  [dollars |-> 1, sign |-> FALSE, number |-> -1, rest |-> WriteTable[IF i = 30 THEN 32 ELSE i + 1]]

(* The name of register i, the three special ones included. *)
parseReg(i) == [dollars |-> 1, sign |-> FALSE, number |-> -1, rest |-> WriteTable[i + 1]]

Registers_Init == name = parseReg(0) /\ index = 0

Lookup(n) == name' = n /\ index' = isReg(n)

Registers_Next == \E n \in Names : Lookup(n)

Registers_Spec == Registers_Init /\ [][Registers_Next]_rvars

-----------------------------------------------------------------------------
(* PROPERTIES *)

(* The name disp reg shows a register under, which parseReg's table gives, is  *)
(* one that isReg's table takes for the same register, whatever name it was    *)
(* asked by (fonctions.c:250-354, 363-470).                                    *)
RoundTrip == index # -1 => isReg(parseReg(index)) = index

(* "Test si une chaine de caractere est un registre valide" (fonctions.c:236): *)
(* a name that is accepted is a number alone or a register's name alone.       *)
RegistersOnly ==
  index # -1 => \/ name.number = -1 /\ ~name.sign
                \/ name.number # -1 /\ ~name.sign /\ name.rest = ""
=============================================================================
