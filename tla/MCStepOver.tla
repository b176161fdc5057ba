---------------------------- MODULE MCStepOver -----------------------------
(***************************************************************************)
(* Instances of StepOver: a main program (1..6), one procedure (7..17) and *)
(* a libc of one procedure (23..24); the stack grows down from address 0.  *)
(***************************************************************************)
EXTENDS StepOver, Sequences, TLC

R(op, d, s, t) == [op |-> op, rd |-> d, rs |-> s, rt |-> t, imm |-> 0]
I(op, t, s, n) == [op |-> op, rd |-> 0, rs |-> s, rt |-> t, imm |-> n]
J(op, n) == [op |-> op, rd |-> 0, rs |-> 0, rt |-> 0, imm |-> n]

MCReg == {0, 2, 8, 29, 31}
MCDataAddr == -3 .. -1
MCDataInit == [a \in MCDataAddr |-> 0]

Image(b) == b @@ (23 :> R("JR", 0, 31, 0)) @@ (24 :> I("ADDI", 2, 2, 1))

(* What the procedure does between saving and restoring its return address: *)
(* nothing, a call to libc, one through a register, a loop, a sum that        *)
(* overflows the second time.                                                *)
Procedure(work) ==
  <<I("ADDIU", 29, 29, -1), I("SW", 31, 29, 0), I("ADDIU", 8, 8, -1)>> \o work \o
  <<I("LW", 31, 29, 0), I("ADDIU", 29, 29, 1), R("JR", 0, 31, 0), NopIns>>

Bodies == { <<NopIns, NopIns, NopIns, NopIns>>,
            <<J("JAL", 23), NopIns, J("JAL", 23), NopIns>>,
            <<I("ADDIU", 2, 0, 23), NopIns, R("JALR", 31, 2, 0), NopIns>>,
            <<I("BGTZ", 0, 8, -2), NopIns, J("JAL", 23), NopIns>>,
            <<I("ADDI", 2, 2, 20), NopIns, NopIns, NopIns>> }

Main(a, b) == <<I("ADDIU", 8, 0, 2), J("JAL", a), NopIns, J("JAL", b), NopIns, J("SYSCALL", 10)>>

NestedPrograms ==
  { Image(Main(a, b) \o Procedure(w)) : a \in {7, 23}, b \in {7, 23}, w \in Bodies }
=============================================================================
