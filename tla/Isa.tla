-------------------------------- MODULE Isa ---------------------------------
(***************************************************************************)
(* What the pipeline promises: a MIPS processor that executes one          *)
(* instruction at a time, each on the result of all earlier ones, with one *)
(* delay slot after a jump or a branch.  It knows neither stages, stalls,  *)
(* flushes, breakpoints nor steps.  The effects of the instructions are    *)
(* those of execute.c with the stages forgotten.                           *)
(***************************************************************************)
EXTENDS Mips

CONSTANT DataInit

VARIABLES
  prog,      (* the program                                                *)
  reg,       (* registers, HI and LO; no PC                                *)
  mem,       (* the writable segments                                      *)
  pc, npc,   (* the instruction to execute and the one after it; 0 0 when  *)
             (* halted                                                     *)
  halted     (* nothing more is executed until the program is started again *)

vars == <<prog, reg, mem, pc, npc, halted>>

ArchReg == RegIdx \ {PC}

StartReg == [r \in ArchReg |-> IF r = SP THEN StackTop ELSE 0]

Init ==
  /\ prog \in [Text -> Ins]
  /\ reg = StartReg
  /\ mem = DataInit
  /\ pc = TextStart /\ npc = TextStart + 1
  /\ halted = FALSE

(* Outside the text there is nothing to execute. *)
Current == IF pc \in Text THEN prog[pc] ELSE NopIns

(* Where control goes after the delay slot of the current instruction. *)
Successor(i) ==
  CASE i.op \in {"J", "JAL"} -> i.imm
    [] i.op \in {"JR", "JALR"} -> reg[i.rs]
    [] i.op \in Branches /\ Taken(i, reg) -> Wrap(pc + 1 + i.imm)
    [] OTHER -> Wrap(npc + 1)

(* An addition that overflows leaves its destination alone. *)
Checked(r, sum) == IF sum \in Val THEN WriteReg(reg, r, sum) ELSE reg

Loaded(a) == IF a \in DataAddr THEN mem[a] ELSE 0

Result(i) ==
  LET x == reg[i.rs]
      y == reg[i.rt]
  IN CASE i.op = "ADD"  -> Checked(i.rd, x + y)
       [] i.op = "SUB"  -> Checked(i.rd, x - y)
       [] i.op = "ADDI" -> Checked(i.rt, x + i.imm)
       [] i.op = "ADDU" -> WriteReg(reg, i.rd, Wrap(x + y))
       [] i.op = "SUBU" -> WriteReg(reg, i.rd, Wrap(x - y))
       [] i.op = "ADDIU" -> WriteReg(reg, i.rt, Wrap(x + i.imm))
       [] i.op \in {"SLT", "SLTU"} -> WriteReg(reg, i.rd, SetTmp(i, x, y))
       [] i.op \in {"SLTI", "SLTIU"} -> WriteReg(reg, i.rt, SetTmp(i, x, y))
       [] i.op = "SEB"  -> WriteReg(reg, i.rd, y % ByteRange)
       [] i.op = "MULT" -> [reg EXCEPT ![LO] = Wrap(x * y),
                                       ![HI] = Wrap((x * y) \div (2 * HalfRange))]
       [] i.op = "MFHI" -> WriteReg(reg, i.rd, reg[HI])
       [] i.op = "MFLO" -> WriteReg(reg, i.rd, reg[LO])
       [] i.op = "LW"   -> WriteReg(reg, i.rt, Loaded(Wrap(x + i.imm)))
       [] i.op = "JAL"  -> [reg EXCEPT ![RA] = Wrap(pc + 2)]
       [] i.op = "JALR" -> WriteReg(reg, i.rd, Wrap(pc + 2))
       [] i.op = "SYSCALL" ->
            [reg EXCEPT ![V0] = IF i.imm \in InputCodes THEN InChar ELSE i.imm]
       [] OTHER -> reg

Stored(i) ==
  LET a == Wrap(reg[i.rs] + i.imm)
  IN IF i.op = "SW" /\ a \in DataAddr THEN [mem EXCEPT ![a] = reg[i.rt]] ELSE mem

-----------------------------------------------------------------------------
Execute ==
  /\ ~halted
  /\ reg' = Result(Current)
  /\ mem' = Stored(Current)
  /\ IF Quits(Current)
     THEN halted' = TRUE /\ pc' = 0 /\ npc' = 0
     ELSE halted' = FALSE /\ pc' = npc /\ npc' = Successor(Current)
  /\ UNCHANGED prog

(* The program is over when control has left the text.  The delay slot of   *)
(* the jump that leaves it is executed, unless the target is where PC ends   *)
(* the program, or one word before: then it may not be.                      *)
Outside(a) == OutOfText(a) \/ OutOfText(Wrap(a + 1))

Halt ==
  /\ ~halted
  /\ npc \notin Text
  /\ pc \notin Text \/ Outside(npc)
  /\ halted' = TRUE /\ pc' = 0 /\ npc' = 0
  /\ UNCHANGED <<prog, reg, mem>>

(* Starting again gives fresh registers; the memory is not loaded again. *)
Restart ==
  /\ halted
  /\ reg' = StartReg
  /\ pc' = TextStart /\ npc' = TextStart + 1
  /\ halted' = FALSE
  /\ UNCHANGED <<prog, mem>>

Next == Execute \/ Halt \/ Restart

Spec == Init /\ [][Next]_vars
=============================================================================
