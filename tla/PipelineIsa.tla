---------------------------- MODULE PipelineIsa -----------------------------
(***************************************************************************)
(* The pipeline implements the instruction set (module Isa) on every       *)
(* program that avoids the pairs of instructions listed under Clean.       *)
(*                                                                         *)
(* An instruction counts as executed when it moves from EX to MEM.  What   *)
(* it has still to do then is done by the abstraction: the registers and   *)
(* the memory of Isa are those the pipeline would have after the MEM and   *)
(* WB stages of the instructions past EX.                                  *)
(***************************************************************************)
EXTENDS Pipeline

(* An exit is final once its SYSCALL is past EX: what follows it in the     *)
(* pipeline does not count as executed.                                     *)
ExitInWB  == Quits(InsOf(vpipeline.WB))
ExitInMEM == Quits(InsOf(vpipeline.MEM))
Over == OutOfText(reg_mips[PC]) \/ ExitInWB \/ ExitInMEM

MemIns == InsOf(vpipeline.MEM)
DrainedMemory == MEMMemory(MemIns, RegAfterWB, memory, vpipeline.MEM)
DrainedReg == WBReg(MemIns, RegAfterMEM, MEMBlock(MemIns, memory, vpipeline.MEM))

(* The next instructions to execute: EX, ID, then the address the next fetch *)
(* uses, which a jump in MEM decides, and the one after it.                  *)
NextFetch == RegAfterMEM[PC]
Upcoming ==
  CASE Real(vpipeline.EX) /\ Real(vpipeline.ID) -> <<vpipeline.EX.at, vpipeline.ID.at>>
    [] Real(vpipeline.EX) /\ ~Real(vpipeline.ID) -> <<vpipeline.EX.at, NextFetch>>
    [] ~Real(vpipeline.EX) /\ Real(vpipeline.ID) -> <<vpipeline.ID.at, NextFetch>>
    [] OTHER -> <<NextFetch, Wrap(NextFetch + 1)>>

(* After the end nothing more happens to the instructions past EX. *)
ArchState(full, r) ==
  IF OutOfText(reg_mips[PC]) THEN reg_mips[r]
  ELSE IF ExitInWB THEN RegAfterWB[r] ELSE full[r]

ISA == INSTANCE Isa WITH
  reg <- [r \in RegIdx \ {PC} |-> ArchState(DrainedReg, r)],
  mem <- IF OutOfText(reg_mips[PC]) \/ ExitInWB THEN memory ELSE DrainedMemory,
  pc <- IF Over THEN 0 ELSE Upcoming[1],
  npc <- IF Over THEN 0 ELSE Upcoming[2],
  halted <- Over

(* Whatever the commands, stops and steps, the pipeline computes what a     *)
(* machine without a pipeline does (pipeline.c:181-333 with execute.c).     *)
ImplementsIsa == ISA!Spec

-----------------------------------------------------------------------------
(* The programs for which that holds.  In each of them no instruction x and *)
(* the instruction y placed right after it form one of these pairs.         *)

Links(i) == i.op \in {"JAL", "JALR"}
LinkReg(i) == IF i.op = "JAL" THEN RA ELSE i.rd
Dest(i) == WritedReg(i) \cup (IF i.op = "SYSCALL" THEN {V0} ELSE {})
MayTrap(i) == i.op \in {"ADD", "SUB", "ADDI"}

PairHazard(x, y) ==
  \* a jump or a branch in the delay slot of another
  \/ x.op \in Control /\ y.op \in Control
  \* $v0 is read one cycle before SYSCALL writes it: no stall is asked for
  \/ x.op = "SYSCALL" /\ V0 \in ReadedReg(y)
  \* the link is written in EX, before an older write, or too early in a stall
  \/ Links(y) /\ LinkReg(y) \in Dest(x)
  \/ y.op = "JALR" /\ Dest(x) \cap ReadedReg(y) # {}
  \* ... and before SEB reads the register, in WB
  \/ x.op = "SEB" /\ Links(y) /\ x.rt = LinkReg(y)
  \* an overflow gives back a destination that an older write is still to change
  \/ MayTrap(y) /\ Dest(x) \cap WritedReg(y) \cap ReadedReg(y) = {}
                /\ Dest(x) \cap WritedReg(y) # {}
  \* a store right after an exit is done, and so is a link
  \/ Quits(x) /\ (y.op = "SW" \/ Links(y))
  \* ... the link too of an instruction jumped to with an exit in the delay slot
  \/ x.op \in Control /\ Quits(y)

(* A jump to two words before the end of the program loses its delay slot    *)
(* after it has counted as executed: Clean looks at the targets that the text *)
(* shows, ReturnsNear at those of JR and JALR.                               *)
TooFar == {TextEnd + 2, LibcEnd + 2}
ReturnsNear == MemIns.op \in {"JR", "JALR"} => NextFetch \notin TooFar
Target(a, i) == IF i.op \in Branches THEN a + 1 + i.imm ELSE i.imm

Clean(p) ==
  \A a \in Text :
    /\ a + 1 \in Text => ~PairHazard(p[a], p[a + 1])
    /\ Quits(p[a]) /\ a + 2 \in Text => ~Links(p[a + 2])
    /\ p[a].op \in Branches \cup {"J", "JAL"} => Target(a, p[a]) \notin TooFar
    /\ p[a].op = "JALR" => p[a].rd \notin {0, p[a].rs}

-----------------------------------------------------------------------------
(* What comments and the help text say of the program, and the code does not *)
(* do: each is checked by a run that finds the counterexample.               *)

(* pipeline.c:205-209: EX is stalled when it reads a register the instruction *)
(* in MEM writes; so an instruction that leaves EX has read what all older    *)
(* ones leave.                                                                *)
NoStaleRead ==
  mode # "stop" /\ ~Stall =>
    \A r \in ReadedReg(InsOf(vpipeline.EX)) : DrainedReg[r] = RegAfterWB[r]

(* user_int.c:829: "run [adress], run from [adress]": the first address the   *)
(* run fetches from is the one given.                                         *)
RunsFromAddress ==
  [][\A a \in RunAddr : RunFrom(a) /\ ~OutOfText(a) => NextFetch' = a]_vars

(* define.h:114: breaklist is the list of points where execution stops: no    *)
(* cycle fetches an instruction with a breakpoint on it unless the emulator   *)
(* has stopped in front of it, or stops now.                                  *)
StopsAtBreakpoints ==
  [][ Advance /\ mode = "running" /\ vpipeline'.ID # vpipeline.ID
        /\ vpipeline'.ID.at \in breaklist
      => reg_mips[PC] = vpipeline'.ID.at \/ mode' = "stop" ]_vars

(* fonctions.c:226: register 0 "non modifiable".                              *)
ZeroFixed == reg_mips[0] = 0
=============================================================================
