-------------------------------- MODULE Mips --------------------------------
(***************************************************************************)
(* The instruction set of the emulator: the dictionary's entries           *)
(* (dico.dico), the registers each entry is listed as reading and writing  *)
(* (fonctions.c) and what each entry does when it sits in the EX, MEM and  *)
(* WB stage (execute.c).  Everything here is an operator on values; the    *)
(* state is in module Pipeline.                                            *)
(*                                                                         *)
(* Two choices of scale: an address is a WORD number, so the code's        *)
(* "PC + 4" is PC + 1 and "textEnd + 16" is TextEnd + 4; a 32-bit register *)
(* holds -HalfRange .. HalfRange - 1 and arithmetic wraps in that range.   *)
(* Logical and shift operations and the byte accesses LB, LBU and SB are   *)
(* not here: in the pipeline they behave as ADDU, LW and SW do.            *)
(***************************************************************************)
EXTENDS Integers

CONSTANTS
  Reg,                 (* the general purpose registers in use, among 0..31 *)
  HalfRange,           (* 2^31 in the program                               *)
  ByteRange,           (* 2^8 in the program                                *)
  DataAddr,            (* addresses of the writable segments                *)
  TextStart, TextEnd,  (* bounds of the program's .text, the end excluded   *)
  LibcStart, LibcEnd,  (* bounds of libc.text, the end excluded             *)
  StackTop,            (* initial value of register 29                      *)
  InChar               (* what reading standard input returns               *)

V0 == 2
SP == 29
RA == 31
HI == 32
LO == 33
PC == 34

RegIdx == Reg \cup {HI, LO, PC}
Val == -HalfRange .. HalfRange - 1

(* Segments do not overlap, and PC + 4 bytes cannot wrap round inside them. *)
ASSUME MipsAssumption ==
  /\ Reg \subseteq 0..31 /\ {0, V0, RA} \subseteq Reg
  /\ HalfRange \in Nat /\ ByteRange \in Nat
  /\ 1 < ByteRange /\ ByteRange < HalfRange
  /\ TextStart \in Nat /\ TextEnd \in Nat /\ LibcStart \in Nat /\ LibcEnd \in Nat
  /\ TextStart < TextEnd /\ TextEnd + 4 < LibcStart
  /\ LibcStart < LibcEnd /\ LibcEnd + 4 < HalfRange
  /\ StackTop \in Val /\ InChar \in Val
  /\ DataAddr \subseteq Val

Text == (TextStart .. TextEnd - 1) \cup (LibcStart .. LibcEnd - 1)

(* Reading an int as unsigned, and the low 32 bits of an integer as an int. *)
Unsigned(x) == x % (2 * HalfRange)
Wrap(x) == ((x + HalfRange) % (2 * HalfRange)) - HalfRange

(* Where a PC ends the program: four words (16 bytes) past the end of a text. *)
OutOfText(a) ==
  \/ Unsigned(a) >= TextEnd + 4 /\ Unsigned(a) < LibcStart
  \/ Unsigned(a) < TextStart
  \/ Unsigned(a) >= LibcEnd + 4

-----------------------------------------------------------------------------
(* The dictionary: one record per instruction word.  A field the format    *)
(* lacks is 0; imm is the immediate, the jump target or the syscall code.  *)

Branches == {"BEQ", "BNE", "BGEZ", "BGTZ", "BLEZ", "BLTZ"}
Jumps == {"J", "JAL", "JR", "JALR"}
Control == Branches \cup Jumps
AluR == {"ADD", "SUB", "ADDU", "SUBU", "SLT", "SLTU"}
AluI == {"ADDI", "ADDIU", "SLTI", "SLTIU"}

RType == AluR \cup {"SEB", "MULT", "MFHI", "MFLO", "JR", "JALR",
                    "SYSCALL", "BREAK", "NOP"}
IType == AluI \cup Branches \cup {"LW", "SW"}
JType == {"J", "JAL"}

Ins == [op : RType \cup IType \cup JType,
        rs : Reg, rt : Reg, rd : Reg, imm : Val]

NopIns == [op |-> "NOP", rs |-> 0, rt |-> 0, rd |-> 0, imm |-> 0]
NoIns == [NopIns EXCEPT !.op = "EMPTY"]   \* the instruction word -1

(* Mutant: isBeqBne forgotten, every I instruction reads rs alone. *)
ReadedRegRsOnly(i) ==
  (CASE i.op \in RType -> {i.rs, i.rt}
     [] i.op \in IType -> {i.rs}
     [] OTHER -> {}) \ {0}

(* Registers the dictionary makes an instruction read and write; register 0 *)
(* never counts.  HI, LO, PC and $v0 of SYSCALL are not listed by the code. *)
ReadedReg(i) ==
  (CASE i.op \in RType \cup {"BEQ", "BNE"} -> {i.rs, i.rt}
     [] i.op \in IType \ {"BEQ", "BNE"} -> {i.rs}
     [] OTHER -> {}) \ {0}

WritedReg(i) ==
  (CASE i.op \in RType -> {i.rd}
     [] i.op \in IType \ Branches -> {i.rt}
     [] OTHER -> {}) \ {0}

-----------------------------------------------------------------------------
(* What an instruction does in a stage, as a function of the registers and  *)
(* the memory it finds there and of its pipeline block [at, tmp, tmp2].     *)

WriteReg(reg, r, v) == IF r = 0 THEN reg ELSE [reg EXCEPT ![r] = v]

Taken(i, reg) ==
  \/ i.op = "BEQ" /\ reg[i.rs] = reg[i.rt]
  \/ i.op = "BNE" /\ reg[i.rs] # reg[i.rt]
  \/ i.op = "BGEZ" /\ reg[i.rs] >= 0
  \/ i.op = "BGTZ" /\ reg[i.rs] > 0
  \/ i.op = "BLEZ" /\ reg[i.rs] <= 0
  \/ i.op = "BLTZ" /\ reg[i.rs] < 0

(* Mutant: the branches return OK from EX. *)
FlushesJumpsOnly(i, reg) == i.op \in Jumps

(* EX returns "flush" for a jump and a taken branch. *)
Flushes(i, reg) == i.op \in Jumps \/ Taken(i, reg)

(* Mutant: the overflow test is forgotten. *)
TrappingNever(sum, old) == sum

(* On a signed overflow the destination is written back with what it holds *)
(* when the instruction is in EX.                                          *)
Trapping(sum, old) == IF sum \in Val THEN sum ELSE old

Bit(b) == IF b THEN 1 ELSE 0

SetTmp(i, x, y) ==
  Bit(CASE i.op = "SLT"   -> x < y
        [] i.op = "SLTU"  -> Unsigned(x) < Unsigned(y)
        [] i.op = "SLTI"  -> x < i.imm
        [] i.op = "SLTIU" -> Unsigned(x) < Unsigned(i.imm))

(* One more than the address MEM gives to PC: the target, or the word after *)
(* the one that this cycle fetches from PC.                                 *)
BranchTmp(i, reg) == Wrap(reg[PC] + (IF Taken(i, reg) THEN i.imm ELSE 2))

EXTmp(i, reg, b) ==
  LET x == reg[i.rs]
      y == reg[i.rt]
  IN CASE i.op = "ADD"  -> Trapping(x + y, reg[i.rd])
       [] i.op = "SUB"  -> Trapping(x - y, reg[i.rd])
       [] i.op = "ADDI" -> Trapping(x + i.imm, reg[i.rt])
       [] i.op = "ADDU" -> Wrap(x + y)
       [] i.op = "SUBU" -> Wrap(x - y)
       [] i.op \in {"ADDIU", "LW", "SW"} -> Wrap(x + i.imm)
       [] i.op \in {"SLT", "SLTU", "SLTI", "SLTIU"} -> SetTmp(i, x, y)
       [] i.op = "MULT"  -> Wrap(x * y)
       [] i.op \in Branches -> BranchTmp(i, reg)
       [] OTHER -> b.tmp

EXBlock(i, reg, b) ==
  [b EXCEPT !.tmp = EXTmp(i, reg, b),
            !.tmp2 = IF i.op = "MULT"
                     THEN Wrap((reg[i.rs] * reg[i.rt]) \div (2 * HalfRange))
                     ELSE @]

(* JAL and JALR write the link register already in EX, and JALR does not   *)
(* spare register 0.                                                       *)
EXReg(i, reg) ==
  CASE i.op = "JAL" -> [reg EXCEPT ![RA] = reg[PC]]
    [] i.op = "JALR" -> [reg EXCEPT ![i.rd] = reg[PC]]
    [] OTHER -> reg

MEMReg(i, reg, b) ==
  CASE i.op \in Branches -> [reg EXCEPT ![PC] = Wrap(b.tmp - 1)]
    [] i.op \in {"J", "JAL"} -> [reg EXCEPT ![PC] = i.imm]
    [] i.op \in {"JR", "JALR"} -> [reg EXCEPT ![PC] = reg[i.rs]]
    [] OTHER -> reg

(* A load from an unmapped address leaves tmp2 as it was. *)
MEMBlock(i, mem, b) ==
  [b EXCEPT !.tmp2 = IF i.op = "LW" /\ b.tmp \in DataAddr THEN mem[b.tmp] ELSE @]

MEMMemory(i, reg, mem, b) ==
  IF i.op = "SW" /\ b.tmp \in DataAddr
  THEN [mem EXCEPT ![b.tmp] = reg[i.rt]] ELSE mem

(* The syscall services, chosen by $v0 after SYSCALL has put its code there. *)
ExitCodes == {0, 10}
InputCodes == {2, 5}
Quits(i) == i.op = "SYSCALL" /\ i.imm \in ExitCodes

WBReg(i, reg, b) ==
  CASE i.op \in AluR -> WriteReg(reg, i.rd, b.tmp)
    [] i.op \in AluI -> WriteReg(reg, i.rt, b.tmp)
    [] i.op = "LW" -> WriteReg(reg, i.rt, b.tmp2)
    [] i.op = "MULT" -> [reg EXCEPT ![HI] = b.tmp2, ![LO] = b.tmp]
    [] i.op = "MFHI" -> WriteReg(reg, i.rd, reg[HI])
    [] i.op = "MFLO" -> WriteReg(reg, i.rd, reg[LO])
    [] i.op = "SEB" -> WriteReg(reg, i.rd, reg[i.rt] % ByteRange)
    [] i.op = "SYSCALL" ->
         [reg EXCEPT ![V0] = IF i.imm \in InputCodes THEN InChar ELSE i.imm]
    [] OTHER -> reg
=============================================================================
