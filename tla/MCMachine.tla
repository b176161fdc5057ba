------------------------------ MODULE MCMachine ------------------------------
(***************************************************************************)
(* What the pipeline calls, on small instances: the dictionary and decode    *)
(* (Decode, which extends Dico), the instructions module Mips leaves out     *)
(* (Alu), the memory (Memory), and the lists of breakpoints and registers             *)
(* (BreakList).  They share no variable, so a behaviour is that of one of    *)
(* them, part, while the others stay as they start.                          *)
(***************************************************************************)
EXTENDS Decode, Memory, BreakList

CONSTANTS
  Still         (* the variables of a part the behaviour is not of          *)

-----------------------------------------------------------------------------
(* The dictionary: dico.dico as it is and turned round, and every file of up *)
(* to three lines over three nested masks, whatever the count it announces.  *)

D(a, b, c, d) == [mask |-> <<a, b>>, instr |-> <<c, d>>]

Repository == <<
  D(64512, 63, 0, 32),  (* ADD *)
  D(64512, 0, 8192, 0),  (* ADDI *)
  D(64512, 0, 9216, 0),  (* ADDIU *)
  D(64512, 63, 0, 33),  (* ADDU *)
  D(64512, 63, 0, 36),  (* AND *)
  D(64512, 0, 12288, 0),  (* ANDI *)
  D(64512, 0, 4096, 0),  (* BEQ *)
  D(64543, 0, 1025, 0),  (* BGEZ *)
  D(64543, 0, 7168, 0),  (* BGTZ *)
  D(64543, 0, 6144, 0),  (* BLEZ *)
  D(64543, 0, 1024, 0),  (* BLTZ *)
  D(64512, 0, 5120, 0),  (* BNE *)
  D(64512, 63, 0, 13),  (* BREAK *)
  D(64512, 65535, 0, 26),  (* DIV *)
  D(64512, 0, 2048, 0),  (* J *)
  D(64512, 0, 3072, 0),  (* JAL *)
  D(64543, 63, 0, 9),  (* JALR *)
  D(64543, 63551, 0, 8),  (* JR *)
  D(64512, 0, 32768, 0),  (* LB *)
  D(64512, 0, 36864, 0),  (* LBU *)
  D(65504, 0, 15360, 0),  (* LUI *)
  D(64512, 0, 35840, 0),  (* LW *)
  D(65535, 2047, 0, 16),  (* MFHI *)
  D(65535, 2047, 0, 18),  (* MFLO *)
  D(64512, 65535, 0, 24),  (* MULT *)
  D(65535, 65535, 0, 0),  (* NOP *)
  D(64512, 2047, 0, 37),  (* OR *)
  D(64512, 0, 13312, 0),  (* ORI *)
  D(64512, 0, 40960, 0),  (* SB *)
  D(65504, 2047, 31744, 1056),  (* SEB *)
  D(65504, 63, 0, 0),  (* SLL *)
  D(64512, 2047, 0, 42),  (* SLT *)
  D(64512, 0, 10240, 0),  (* SLTI *)
  D(64512, 0, 11264, 0),  (* SLTIU *)
  D(64512, 2047, 0, 43),  (* SLTU *)
  D(65504, 63, 0, 3),  (* SRA *)
  D(65504, 63, 0, 2),  (* SRL *)
  D(64512, 2047, 0, 34),  (* SUB *)
  D(64512, 2047, 0, 35),  (* SUBU *)
  D(64512, 0, 44032, 0),  (* SW *)
  D(64512, 63, 0, 12),  (* SYSCALL *)
  D(64512, 2047, 0, 38)  (* XOR *)
>>

Turned == [k \in DOMAIN Repository |-> Repository[Len(Repository) + 1 - k]]
Whole(entries) == [lines |-> entries \o <<Blank>>, ended |-> TRUE, number |-> Len(entries)]

SmallLines == {Blank, D(3, 0, 0, 0), D(3, 2, 0, 0), D(2, 0, 0, 0)}
SmallFiles ==
  [lines : UNION {[1 .. n -> SmallLines] : n \in 1 .. 3}, ended : BOOLEAN, number : 1 .. 3]

MCFiles == {Whole(Repository), Whole(Turned)} \cup SmallFiles

-----------------------------------------------------------------------------
VARIABLES
  part,
  op, x, y, imm, sa, stage, tmp, tmp2, hi, lo, result, content   (* Alu *)

aluVars == <<op, x, y, imm, sa, stage, tmp, tmp2, hi, lo, result, content>>

AluStill ==
  /\ op = Still /\ x = Still /\ y = Still /\ imm = Still /\ sa = Still /\ stage = Still
  /\ tmp = Still /\ tmp2 = Still /\ hi = Still /\ lo = Still /\ result = Still /\ content = Still
DicoStill ==
  /\ dico_file = [lines |-> <<Blank>>, ended |-> TRUE, number |-> 1]
  /\ line = Blank /\ pos = 0 /\ eof = FALSE /\ dico_data = <<Zero>> /\ i = 1 /\ phase = "read"

-----------------------------------------------------------------------------
(* Words of six bits; one shift by nothing, two inside a word, one by most   *)
(* of it.                                                                    *)
AllOps == {"AND", "OR", "XOR", "SLL", "SRA", "SRL", "LUI", "LB", "LBU", "SB", "DIV", "SEB",
           "ANDI", "ORI"}
A == INSTANCE Alu WITH Word <- 64, Imm <- 8, Byte <- 4, Shifts <- {0, 1, 3, 5},
  Mapped <- {1, 62}, Ops <- AllOps

(* No memory, segments that touch, segments out of order with holes, one of  *)
(* which ends where [vsyscall] does, a byte before the last address.  The    *)
(* words that begin in its last two bytes are WordInSegment's.               *)
S(a, n) == [start |-> a, size |-> n]
MCLayouts == { <<>>, <<S(1, 4), S(5, 4)>>, <<S(5, 4), S(0, 3), S(12, 3)>> }
MCValues == {-1, 6}
MemStill == memory = <<>> /\ value = 0 /\ code = 0

ASSUME PartsAssumption == A!AluAssumption

-----------------------------------------------------------------------------
MachineInit ==
  \/ part = "dictionary" /\ Init /\ AluStill /\ MemStill /\ Lists_Init
  \/ part = "alu" /\ DicoStill /\ A!Init /\ MemStill /\ Lists_Init
  \/ part = "memory" /\ DicoStill /\ AluStill /\ Memory_Init /\ Lists_Init
  \/ part = "lists" /\ DicoStill /\ AluStill /\ MemStill /\ Lists_Init

ReadDico == part = "dictionary" /\ Next /\ UNCHANGED <<part, aluVars, mvars, lvars>>
Instruction == part = "alu" /\ A!Next /\ UNCHANGED <<part, vars, mvars, lvars>>
MemoryAccess == part = "memory" /\ Memory_Next /\ UNCHANGED <<part, vars, aluVars, lvars>>
ListCommand == part = "lists" /\ Lists_Next /\ UNCHANGED <<part, vars, aluVars, mvars>>

MachineNext == ReadDico \/ Instruction \/ MemoryAccess \/ ListCommand

machineVars == <<part, vars, aluVars, mvars, lvars>>

(* The fairness is Dico's: one thread that nothing blocks. *)
MachineSpec == MachineInit /\ [][MachineNext]_machineVars /\ WF_machineVars(ReadDico)

-----------------------------------------------------------------------------
(* PROPERTIES: those of the parts; Dico, Decode, Memory and BreakList keep    *)
(* their own, but for ReadEnds, asked of the behaviours that read a dictionary.  *)

(* readDico ends, sorted or with -1, whatever the file.                      *)
DicoReadEnds == <>(part = "dictionary" => phase \in {"ready", "failed"})

(* Logic, shifts and LUI do to each bit what the manual says.                *)
BitsRight == part = "alu" => A!BitsRight

(* DIV leaves the quotient and the rest of a division, by zero nothing.      *)
DivisionRight == part = "alu" => A!DivisionRight

(* LBU and SB reach one byte, the one they name.                             *)
BytesRight == part = "alu" => A!BytesRight
=============================================================================
