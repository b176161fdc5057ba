----------------------------- MODULE MCPipeline -----------------------------
(***************************************************************************)
(* Instances of the pipeline for TLC: a text of four words (1..4), a libc  *)
(* of one procedure (10..11), four general registers of 36 values and one  *)
(* data word.  The sets of programs below are the values the runs give to  *)
(* Programs.                                                               *)
(***************************************************************************)
EXTENDS PipelineIsa, TLC

R(op, d, s, t) == [op |-> op, rd |-> d, rs |-> s, rt |-> t, imm |-> 0]
I(op, t, s, n) == [op |-> op, rd |-> 0, rs |-> s, rt |-> t, imm |-> n]
J(op, n) == [op |-> op, rd |-> 0, rs |-> 0, rt |-> 0, imm |-> n]

MCReg == {0, 2, 8, 31}
MCDataAddr == {0}
MCDataInit == [a \in {0} |-> 3]

Body == 1..4
Libc == (10 :> R("JR", 0, 31, 0)) @@ (11 :> I("ADDI", 2, 2, 1))
Image(b) == b @@ Libc

(* Every program of four instructions of a menu: all the orders in which    *)
(* producers, consumers, jumps, calls, accesses to memory and exits can meet.  *)
Menu == { NopIns, I("ADDI", 8, 8, 9), I("BNE", 8, 0, -2), R("ADDU", 8, 31, 2),
          J("J", 3), J("J", TextEnd + 2), J("JAL", 10), R("JR", 0, 31, 0), R("JALR", 8, 31, 0),
          I("LW", 8, 2, 0), I("SW", 8, 2, 0), R("SEB", 2, 0, 8),
          J("SYSCALL", 2), J("SYSCALL", 0) }

AllPrograms == { Image(b) : b \in [Body -> Menu] }
CleanPrograms == { p \in AllPrograms : Clean(p) }

(* Clean programs that only go forward. *)
ForwardMenu == { NopIns, I("ADDI", 8, 8, 9), I("BEQ", 8, 0, 2), R("ADD", 8, 8, 8),
                 J("J", 5), J("JAL", 10), I("LW", 8, 2, 0),
                 J("SYSCALL", 2), J("BREAK", 0) }
ForwardPrograms ==
  { p \in { Image(b) : b \in [Body -> ForwardMenu] } : Clean(p) }

(* A few programs that between them use the rest of the dictionary, for the *)
(* runs in which the user steps and sets breakpoints.                       *)
DebugPrograms == { Image(b) : b \in {
  <<I("ADDI", 8, 0, 9), R("MULT", 0, 8, 8), R("MFHI", 2, 0, 0), R("MFLO", 8, 0, 0)>>,
  <<I("ADDIU", 8, 8, 11), NopIns, R("ADD", 8, 8, 8), R("SUB", 2, 0, 8)>>,
  <<I("SLTI", 2, 0, 1), I("BGTZ", 0, 2, 1), R("SUBU", 8, 8, 2), R("SLT", 2, 8, 0)>>,
  <<I("SLTIU", 2, 8, -1), I("BLTZ", 0, 8, -2), R("SUBU", 8, 8, 2), R("SLTU", 2, 0, 8)>>,
  <<J("JAL", 10), NopIns, J("BREAK", 0), J("SYSCALL", 10)>>,
  <<I("ADDIU", 8, 0, 7), J("J", TextEnd + 3), I("ADDIU", 8, 8, 1), NopIns>>,
  <<J("J", 3), I("LW", 8, 0, 5), I("BLEZ", 0, 8, -2), I("SW", 8, 0, 0)>>,
  <<I("BGEZ", 0, 8, 1), I("LW", 8, 0, 0), NopIns, I("BEQ", 8, 8, -4)>>,
  <<J("SYSCALL", 5), J("SYSCALL", 1), R("SEB", 8, 0, 2), J("SYSCALL", 4)>> } }

(* One program for each run that looks for a counterexample. *)
InputThenUse == { Image(<<J("SYSCALL", 2), R("ADDU", 8, 2, 0), NopIns, NopIns>>) }
Looping == { Image(<<NopIns, I("ADDIU", 8, 8, 1), J("J", 2), NopIns>>) }
LinkToZero == { Image(<<J("JAL", 3), NopIns, R("JALR", 0, 31, 0), NopIns>>) }
=============================================================================
