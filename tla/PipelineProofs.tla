--------------------------- MODULE PipelineProofs ---------------------------
(***************************************************************************)
(* Proofs about the pipeline for every program, every range of values and  *)
(* every layout of the text: types, stalls, flushes, the end of the text,  *)
(* and that the pipeline implements Isa for the programs that are Clean.   *)
(***************************************************************************)
EXTENDS PipelineIsa, TLAPS

(* Every word InsOf can return, -1 included. *)
AnyIns == [op : RType \cup IType \cup JType \cup {"EMPTY"},
           rs : Reg, rt : Reg, rd : Reg, imm : Val]
RegFile == [RegIdx -> Val]
Mem == [DataAddr -> Val]

-----------------------------------------------------------------------------
(* Arithmetic stays within the width of a register. *)

LEMMA ModRange == ASSUME NEW a \in Int, NEW n \in Nat \ {0} PROVE a % n \in 0 .. n - 1
  OBVIOUS

LEMMA WrapType == ASSUME NEW x \in Int PROVE Wrap(x) \in Val
<1> DEFINE n == 2 * HalfRange
<1>1. HalfRange \in Nat /\ n \in Nat \ {0}
  BY MipsAssumption
<1>2. (x + HalfRange) % n \in 0 .. n - 1
  BY <1>1, ModRange
<1> QED
  BY <1>1, <1>2 DEF Wrap, Val

LEMMA UnsignedType == ASSUME NEW x \in Val PROVE Unsigned(x) \in Nat
<1> DEFINE n == 2 * HalfRange
<1>1. HalfRange \in Nat /\ n \in Nat \ {0} /\ x \in Int
  BY MipsAssumption DEF Val
<1>2. x % n \in 0 .. n - 1
  BY <1>1, ModRange
<1> QED
  BY <1>1, <1>2 DEF Unsigned

(* Constants that registers may receive are values. *)
LEMMA SmallValues ==
  /\ 0 \in Val /\ 1 \in Val /\ TextStart \in Val /\ TextEnd + 4 \in Val
  /\ \A v \in 0 .. ByteRange - 1 : v \in Val
  /\ \A v \in Val : v \in Int
  BY MipsAssumption DEF Val

LEMMA Indices ==
  /\ Reg \subseteq RegIdx /\ {0, V0, RA, HI, LO, PC} \subseteq RegIdx
  /\ PC \notin Reg
  BY MipsAssumption DEF RegIdx, V0, RA, HI, LO, PC

-----------------------------------------------------------------------------
(* The stages take registers to registers, memory to memory, blocks to blocks. *)

LEMMA WriteRegType ==
  ASSUME NEW reg \in RegFile, NEW r \in Reg, NEW v \in Val
  PROVE  WriteReg(reg, r, v) \in RegFile
  BY Indices DEF WriteReg, RegFile

LEMMA WBRegType ==
  ASSUME NEW i \in AnyIns, NEW reg \in RegFile, NEW b \in Block
  PROVE  WBReg(i, reg, b) \in RegFile
<1>1. i.rs \in Reg /\ i.rt \in Reg /\ i.rd \in Reg /\ i.imm \in Val
  BY DEF AnyIns
<1>2. b.tmp \in Val /\ b.tmp2 \in Val
  BY DEF Block
<1>3. reg[HI] \in Val /\ reg[LO] \in Val /\ reg[i.rt] \in Val
  BY <1>1, Indices DEF RegFile
<1>4. reg[i.rt] % ByteRange \in Val
  <2>1. reg[i.rt] \in Int
    BY <1>3, SmallValues
  <2>2. ByteRange \in Nat \ {0}
    BY MipsAssumption
  <2>3. reg[i.rt] % ByteRange \in 0 .. ByteRange - 1
    BY <2>1, <2>2, ModRange
  <2> QED
    BY <2>3, SmallValues
<1>5. [reg EXCEPT ![HI] = b.tmp2, ![LO] = b.tmp] \in RegFile
  BY <1>2, Indices DEF RegFile
<1>6. [reg EXCEPT ![V0] = IF i.imm \in InputCodes THEN InChar ELSE i.imm] \in RegFile
  BY <1>1, Indices, MipsAssumption DEF RegFile
<1>7. /\ WriteReg(reg, i.rd, b.tmp) \in RegFile /\ WriteReg(reg, i.rt, b.tmp) \in RegFile
      /\ WriteReg(reg, i.rt, b.tmp2) \in RegFile
      /\ WriteReg(reg, i.rd, reg[HI]) \in RegFile /\ WriteReg(reg, i.rd, reg[LO]) \in RegFile
      /\ WriteReg(reg, i.rd, reg[i.rt] % ByteRange) \in RegFile
  BY <1>1, <1>2, <1>3, <1>4, WriteRegType
<1> QED
  BY <1>5, <1>6, <1>7 DEF WBReg, AluR, AluI

LEMMA MEMRegType ==
  ASSUME NEW i \in AnyIns, NEW reg \in RegFile, NEW b \in Block
  PROVE  MEMReg(i, reg, b) \in RegFile
<1>1. i.rs \in RegIdx /\ i.imm \in Val /\ b.tmp \in Val
  BY Indices DEF AnyIns, Block
<1>2. Wrap(b.tmp - 1) \in Val
  BY <1>1, WrapType, SmallValues
<1>3. reg[i.rs] \in Val
  BY <1>1 DEF RegFile
<1> QED
  BY <1>1, <1>2, <1>3, Indices DEF MEMReg, RegFile

LEMMA EXRegType ==
  ASSUME NEW i \in AnyIns, NEW reg \in RegFile
  PROVE  EXReg(i, reg) \in RegFile
  BY Indices DEF EXReg, AnyIns, RegFile

LEMMA MEMBlockType ==
  ASSUME NEW i \in AnyIns, NEW mem \in Mem, NEW b \in Block
  PROVE  MEMBlock(i, mem, b) \in Block
  BY DEF MEMBlock, Mem, Block

LEMMA MEMMemoryType ==
  ASSUME NEW i \in AnyIns, NEW reg \in RegFile, NEW mem \in Mem, NEW b \in Block
  PROVE  MEMMemory(i, reg, mem, b) \in Mem
  BY Indices DEF MEMMemory, Mem, RegFile, AnyIns

LEMMA EXTmpType ==
  ASSUME NEW i \in AnyIns, NEW reg \in RegFile, NEW b \in Block
  PROVE  EXTmp(i, reg, b) \in Val
<1> DEFINE x == reg[i.rs]
           y == reg[i.rt]
<1>1. /\ x \in Val /\ y \in Val /\ i.imm \in Val /\ reg[PC] \in Val /\ b.tmp \in Val
      /\ reg[i.rd] \in Val /\ reg[i.rt] \in Val
  BY Indices DEF AnyIns, RegFile, Block
<1>2. /\ x \in Int /\ y \in Int /\ i.imm \in Int /\ reg[PC] \in Int
      /\ x * y \in Int
  BY <1>1, SmallValues
<1>3. /\ Wrap(x + y) \in Val /\ Wrap(x - y) \in Val /\ Wrap(x + i.imm) \in Val
      /\ Wrap(x * y) \in Val
  BY <1>2, WrapType
<1>4. BranchTmp(i, reg) \in Val
  BY <1>2, WrapType DEF BranchTmp
<1>5. \A s : Trapping(s, reg[i.rd]) \in Val /\ Trapping(s, reg[i.rt]) \in Val
  BY <1>1 DEF Trapping
<1>6. SetTmp(i, x, y) \in Val
  BY SmallValues DEF SetTmp, Bit
<1> QED
  BY <1>1, <1>3, <1>4, <1>5, <1>6 DEF EXTmp

LEMMA EXBlockType ==
  ASSUME NEW i \in AnyIns, NEW reg \in RegFile, NEW b \in Block
  PROVE  EXBlock(i, reg, b) \in Block
<1>1. EXTmp(i, reg, b) \in Val
  BY EXTmpType
<1>2. reg[i.rs] \in Int /\ reg[i.rt] \in Int
  BY Indices, SmallValues DEF AnyIns, RegFile
<1>3. (reg[i.rs] * reg[i.rt]) \div (2 * HalfRange) \in Int
  BY <1>2, MipsAssumption
<1>4. Wrap((reg[i.rs] * reg[i.rt]) \div (2 * HalfRange)) \in Val
  BY <1>3, WrapType
<1> QED
  BY <1>1, <1>4 DEF EXBlock, Block

LEMMA InsOfType ==
  ASSUME prog \in [Text -> Ins], NEW b PROVE InsOf(b) \in AnyIns
  BY MipsAssumption, SmallValues DEF InsOf, AnyIns, Ins, NoIns, NopIns, RType

-----------------------------------------------------------------------------
(* The pipeline's blocks and registers during a cycle have their types. *)

LEMMA StageTypes ==
  ASSUME TypeOK
  PROVE  /\ RegAfterWB \in RegFile /\ RegAfterMEM \in RegFile /\ RegAfterEX \in RegFile
         /\ NextPC \in Val
         /\ Shifted \in [ID : Block, EX : Block, MEM : Block, WB : Block]
<1>1. /\ reg_mips \in RegFile /\ memory \in Mem
      /\ vpipeline.ID \in Block /\ vpipeline.EX \in Block
      /\ vpipeline.MEM \in Block /\ vpipeline.WB \in Block
  BY DEF TypeOK, RegFile, Mem
<1>2. \A b : InsOf(b) \in AnyIns
  BY InsOfType DEF TypeOK
<1>3. RegAfterWB \in RegFile
  BY <1>1, <1>2, WBRegType DEF RegAfterWB
<1>4. RegAfterMEM \in RegFile
  BY <1>1, <1>2, <1>3, MEMRegType DEF RegAfterMEM
<1>5. RegAfterEX \in RegFile
  BY <1>2, <1>4, EXRegType DEF RegAfterEX
<1>6. RegAfterEX[PC] \in Val /\ RegAfterEX[PC] \in Int
  BY <1>5, Indices, SmallValues DEF RegFile
<1>7. NextPC \in Val
  BY <1>6, WrapType DEF NextPC
<1>8. Shifted \in [ID : Block, EX : Block, MEM : Block, WB : Block]
  <2> DEFINE mem == MEMBlock(InsOf(vpipeline.MEM), memory, vpipeline.MEM)
             ex  == EXBlock(InsOf(vpipeline.EX), RegAfterMEM, vpipeline.EX)
             fetched == [at |-> IF Flush THEN Bubble ELSE RegAfterEX[PC],
                         tmp |-> 0, tmp2 |-> 0]
  <2>1. mem \in Block
    BY <1>1, <1>2, MEMBlockType
  <2>2. ex \in Block
    BY <1>1, <1>2, <1>4, EXBlockType
  <2>3. fetched \in Block
    BY <1>6, SmallValues DEF Block
  <2>4. [mem EXCEPT !.at = Bubble, !.tmp = 0] \in Block
    BY <2>1, SmallValues DEF Block
  <2>5. [vpipeline.ID EXCEPT !.tmp = 0] \in Block
    BY <1>1, SmallValues DEF Block
  <2> HIDE DEF mem, ex, fetched
  <2>6. Shifted = IF Stall
                  THEN [WB |-> mem, MEM |-> [mem EXCEPT !.at = Bubble, !.tmp = 0],
                        EX |-> ex, ID |-> vpipeline.ID]
                  ELSE [WB |-> mem, MEM |-> ex,
                        EX |-> [vpipeline.ID EXCEPT !.tmp = 0], ID |-> fetched]
    BY DEF Shifted, mem, ex, fetched
  <2> QED
    BY <1>1, <2>1, <2>2, <2>3, <2>4, <2>5, <2>6
<1> QED
  BY <1>3, <1>4, <1>5, <1>7, <1>8

-----------------------------------------------------------------------------
(* Type correctness. *)

LEMMA InitRegType == InitReg \in RegFile
  BY SmallValues, MipsAssumption DEF InitReg, RegFile

LEMMA InitTypeOK == Init => TypeOK
<1> SUFFICES ASSUME Init PROVE TypeOK
  OBVIOUS
<1>1. prog \in [Text -> Ins] /\ memory \in [DataAddr -> Val]
  BY PipelineAssumption DEF Init
<1>2. reg_mips \in [RegIdx -> Val]
  BY InitRegType DEF Init, RegFile
<1>3. vpipeline \in [ID : Block, EX : Block, MEM : Block, WB : Block]
  BY SmallValues DEF Init, EmptyBlock, Block
<1>4. breaklist \subseteq BreakAddr /\ return_addr \in Val /\ mode \in Modes
  BY SmallValues DEF Init, Modes
<1> QED
  BY <1>1, <1>2, <1>3, <1>4 DEF TypeOK

(* A clock cycle of pipeiter leaves registers, memory and blocks well typed. *)
LEMMA AdvanceTypeOK == TypeOK /\ Advance => TypeOK'
<1> SUFFICES ASSUME TypeOK, Advance PROVE TypeOK'
  OBVIOUS
<1>1. /\ RegAfterWB \in RegFile /\ RegAfterEX \in RegFile /\ NextPC \in Val
      /\ Shifted \in [ID : Block, EX : Block, MEM : Block, WB : Block]
  BY StageTypes
<1>2. prog' \in [Text -> Ins] /\ breaklist' \subseteq BreakAddr
  BY DEF TypeOK, Advance
<1>3. memory' \in [DataAddr -> Val]
  <2>1. InsOf(vpipeline.MEM) \in AnyIns
    BY InsOfType DEF TypeOK
  <2>2. memory \in Mem /\ vpipeline.MEM \in Block
    BY DEF TypeOK, Mem
  <2>3. MEMMemory(InsOf(vpipeline.MEM), RegAfterWB, memory, vpipeline.MEM) \in Mem
    BY <1>1, <2>1, <2>2, MEMMemoryType
  <2> QED
    BY <2>3 DEF Advance, Mem
<1>4. reg_mips' \in [RegIdx -> Val]
  BY <1>1, SmallValues DEF Advance, RegFile
<1>5. vpipeline' \in [ID : Block, EX : Block, MEM : Block, WB : Block]
  <2>1. Shifted.ID \in Block
    BY <1>1
  <2>2. [Shifted.ID EXCEPT !.at = Empty] \in Block
    BY <2>1 DEF Block
  <2>3. [Shifted EXCEPT !.ID.at = Empty] = [Shifted EXCEPT !.ID = [Shifted.ID EXCEPT !.at = Empty]]
    BY <1>1
  <2>4. [Shifted EXCEPT !.ID.at = Empty] \in [ID : Block, EX : Block, MEM : Block, WB : Block]
    BY <1>1, <2>2, <2>3
  <2> QED
    BY <1>1, <2>4 DEF Advance
<1>6. return_addr' \in Val
  <2>1. reg_mips[PC] - 1 \in Int
    BY Indices, SmallValues DEF TypeOK
  <2>2. Wrap(reg_mips[PC] - 1) \in Val
    BY <2>1, WrapType
  <2> QED
    BY <2>2 DEF TypeOK, Advance
<1>7. mode' \in Modes
  BY DEF TypeOK, Advance, NextMode, Modes
<1> QED
  BY <1>2, <1>3, <1>4, <1>5, <1>6, <1>7 DEF TypeOK

LEMMA StartTypeOK ==
  ASSUME TypeOK, NEW m \in Modes, NEW pc \in Val, Start(m, pc)
  PROVE  TypeOK'
<1>1. /\ prog' \in [Text -> Ins] /\ memory' \in [DataAddr -> Val]
      /\ breaklist' \subseteq BreakAddr /\ return_addr' \in Val /\ mode' \in Modes
  BY DEF TypeOK, Start
<1>2. reg_mips' \in [RegIdx -> Val]
  BY InitRegType DEF TypeOK, Start, RegFile
<1>3. Emptied(vpipeline) \in [ID : Block, EX : Block, MEM : Block, WB : Block]
  <2>1. \A b \in Block : [b EXCEPT !.at = Empty] \in Block
    BY DEF Block
  <2> QED
    BY <2>1 DEF TypeOK, Emptied
<1>4. vpipeline' \in [ID : Block, EX : Block, MEM : Block, WB : Block]
  BY <1>3 DEF TypeOK, Start
<1> QED
  BY <1>1, <1>2, <1>4 DEF TypeOK

(* Whatever the program and the user do, every register, memory word and     *)
(* pipeline field keeps a value of its type (reg_mips, vpipeline and flag of  *)
(* main.c:30-46): additions, links, loads and branch targets included.        *)
THEOREM TypeCorrect == Spec => []TypeOK
<1>1. Init => TypeOK
  BY InitTypeOK
<1>2. TypeOK /\ [Next]_vars => TypeOK'
  <2> SUFFICES ASSUME TypeOK, [Next]_vars PROVE TypeOK'
    OBVIOUS
  <2>1. CASE StepReturned
    BY <2>1 DEF TypeOK, StepReturned, Modes
  <2>2. CASE Advance
    BY <2>2, AdvanceTypeOK
  <2>3. CASE \E m \in Modes, pc \in Val : Start(m, pc)
    BY <2>3, StartTypeOK
  <2>4. CASE \E a \in BreakAddr : BreakAdd(a) \/ BreakDel(a)
    BY <2>4 DEF TypeOK, BreakAdd, BreakDel
  <2>5. CASE \E a \in RunAddr : RunRefused(a)
    BY <2>5, PipelineAssumption, Indices DEF TypeOK, RunRefused
  <2>6. CASE UNCHANGED vars
    BY <2>6 DEF TypeOK, vars
  <2>7. Command => (\E m \in Modes, pc \in Val : Start(m, pc))
                   \/ (\E a \in BreakAddr : BreakAdd(a) \/ BreakDel(a))
                   \/ (\E a \in RunAddr : RunRefused(a))
    <3>1. reg_mips[PC] \in Val
      BY Indices DEF TypeOK
    <3>2. "running" \in Modes /\ StepModes \subseteq Modes /\ RunAddr \subseteq Val
      BY PipelineAssumption DEF Modes
    <3>3. "stop" \in Modes
      BY DEF Modes
    <3> QED
      BY <3>1, <3>2, <3>3 DEF Command, Run, Step, StepRefused, RunFrom
  <2> QED
    BY <2>1, <2>2, <2>3, <2>4, <2>5, <2>6, <2>7 DEF Next, Cycle
<1> QED
  BY <1>1, <1>2, PTL DEF Spec

-----------------------------------------------------------------------------
(* Stalls. *)

LEMMA TextIsVal == Text \subseteq Val
  BY MipsAssumption DEF Text, Val

LEMMA StallInsertsNop ==
  ASSUME TypeOK, Advance, Stall PROVE InsOf(vpipeline.MEM)' = NopIns
<1> DEFINE mem == MEMBlock(InsOf(vpipeline.MEM), memory, vpipeline.MEM)
<1>1. mem \in Block
  <2>1. InsOf(vpipeline.MEM) \in AnyIns
    BY InsOfType DEF TypeOK
  <2> QED
    BY <2>1, MEMBlockType DEF TypeOK, Mem
<1>2. Shifted.MEM = [mem EXCEPT !.at = Bubble, !.tmp = 0]
  BY DEF Shifted
<1>3. Shifted.MEM.at = Bubble
  BY <1>1, <1>2 DEF Block
<1>4. Shifted \in [ID : Block, EX : Block, MEM : Block, WB : Block]
  BY StageTypes
<1>5. vpipeline'.MEM = Shifted.MEM
  BY <1>4 DEF Advance
<1>6. vpipeline'.MEM.at = Bubble /\ Bubble \notin Text
  BY <1>3, <1>5, TextIsVal, PipelineAssumption
<1> QED
  BY <1>6 DEF InsOf

(* A cycle that stalls leaves a NOP in MEM, whatever the instruction that     *)
(* waits in EX (pipeline.c:297), so the next cycle does not stall: the        *)
(* pipeline never holds an instruction in EX for two cycles on end.           *)
THEOREM StallsAreSingle == Spec => StallOnce
<1>1. TypeOK /\ Advance /\ Stall => ~Stall'
  <2>1. WritedReg(NopIns) = {}
    BY DEF WritedReg, NopIns, RType
  <2> QED
    BY <2>1, StallInsertsNop DEF Stall
<1>2. TypeOK /\ [Next]_vars => [Advance /\ Stall => ~Stall']_vars
  BY <1>1
<1> QED
  BY <1>2, TypeCorrect, PTL DEF Spec, StallOnce

-----------------------------------------------------------------------------
(* The wrong path. *)

LEMMA ModSame == ASSUME NEW n \in Nat \ {0}, NEW a \in 0 .. n - 1 PROVE a % n = a
  OBVIOUS

LEMMA ModAbove == ASSUME NEW n \in Nat \ {0}, NEW a \in n .. 2 * n - 1 PROVE a % n = a - n
  OBVIOUS

LEMMA ModBelow == ASSUME NEW n \in Nat \ {0}, NEW a \in -n .. -1 PROVE a % n = a + n
  OBVIOUS

(* The "PC + 8" a branch computes in EX and the "- 4" it applies in MEM meet  *)
(* the fetch's "PC + 4", wrap-around included.                                *)
LEMMA WrapStep == ASSUME NEW x \in Val PROVE Wrap(Wrap(x + 2) - 1) = Wrap(x + 1)
<1> DEFINE n == 2 * HalfRange
           y == x + HalfRange
<1>1. HalfRange \in Nat /\ n \in Nat \ {0} /\ HalfRange > 2
  BY MipsAssumption
<1>2. y \in 0 .. n - 1 /\ x \in Int
  BY <1>1 DEF Val
<1>3. Wrap(x + 2) = ((y + 2) % n) - HalfRange /\ Wrap(x + 1) = ((y + 1) % n) - HalfRange
  BY <1>1, <1>2 DEF Wrap
<1>4. CASE y + 2 < n
  <2>1. (y + 2) % n = y + 2
    BY <1>1, <1>2, <1>4, ModSame
  <2>2. Wrap(x + 2) - 1 = x + 1
    BY <1>1, <1>2, <1>3, <2>1
  <2> QED
    BY <2>2
<1>5. CASE y + 2 >= n
  <2>1. (y + 2) % n = y + 2 - n
    BY <1>1, <1>2, <1>5, ModAbove
  <2>2. Wrap(Wrap(x + 2) - 1) = ((y + 1 - n) % n) - HalfRange
    <3>1. Wrap(x + 2) - 1 + HalfRange = y + 1 - n
      BY <1>1, <1>2, <1>3, <2>1
    <3> QED
      BY <3>1 DEF Wrap
  <2>3. (y + 1 - n) % n = (y + 1) % n
    <3>1. CASE y = n - 1
      BY <1>1, <3>1, ModSame, ModAbove
    <3>2. CASE y = n - 2
      <4>1. (-1) % n = n - 1
        BY <1>1, ModBelow
      <4>2. (n - 1) % n = n - 1
        BY <1>1, ModSame
      <4>3. y + 1 - n = -1 /\ y + 1 = n - 1
        BY <1>1, <3>2
      <4> QED
        BY <4>1, <4>2, <4>3
    <3> QED
      BY <1>1, <1>2, <1>5, <3>1, <3>2
  <2> QED
    BY <1>3, <2>2, <2>3
<1> QED
  BY <1>1, <1>2, <1>4, <1>5

LEMMA PastTheEnd == OutOfText(TextEnd + 4)
<1>1. Unsigned(TextEnd + 4) = TextEnd + 4
  BY MipsAssumption, ModSame DEF Unsigned
<1> QED
  BY <1>1, MipsAssumption DEF OutOfText

LEMMA WBKeepsPC ==
  ASSUME NEW i \in AnyIns, NEW reg \in RegFile, NEW b
  PROVE  WBReg(i, reg, b)[PC] = reg[PC]
<1>1. PC \notin {i.rt, i.rd, HI, LO, V0} /\ PC \in RegIdx
  BY Indices DEF AnyIns, PC, HI, LO, V0
<1>2. \A r \in {i.rt, i.rd} : \A v : WriteReg(reg, r, v)[PC] = reg[PC]
  BY <1>1 DEF WriteReg, RegFile
<1>3. \A v, w : [reg EXCEPT ![HI] = v, ![LO] = w][PC] = reg[PC]
  BY <1>1 DEF RegFile
<1>4. \A v : [reg EXCEPT ![V0] = v][PC] = reg[PC]
  BY <1>1 DEF RegFile
<1> QED
  BY <1>2, <1>3, <1>4 DEF WBReg

LEMMA NotTakenTmp ==
  ASSUME NEW i, i.op \in Branches, NEW reg, ~Taken(i, reg), NEW b
  PROVE  EXTmp(i, reg, b) = Wrap(reg[PC] + 2)
  BY DEF EXTmp, BranchTmp, Branches

LEMMA BranchMEM ==
  ASSUME NEW i, i.op \in Branches, NEW reg \in RegFile, NEW b
  PROVE  MEMReg(i, reg, b)[PC] = Wrap(b.tmp - 1)
<1>1. MEMReg(i, reg, b) = [reg EXCEPT ![PC] = Wrap(b.tmp - 1)]
  BY DEF MEMReg, Branches
<1> QED
  BY <1>1, Indices DEF RegFile

(* After a cycle that fetched a real instruction behind EX, MEM sets PC to    *)
(* the value it has.                                                          *)
LEMMA AdvanceNoWrongPath == TypeOK /\ Advance => NoWrongPath'
<1> SUFFICES ASSUME TypeOK, Advance,
                    ~OutOfText(reg_mips'[PC]), Real(vpipeline'.ID)
             PROVE  RegAfterMEM'[PC] = RegAfterWB'[PC]
  BY DEF NoWrongPath
<1> DEFINE i == InsOf(vpipeline.EX)
<1>1. TypeOK'
  BY AdvanceTypeOK
<1>2. /\ RegAfterWB \in RegFile /\ RegAfterMEM \in RegFile /\ RegAfterEX \in RegFile
      /\ Shifted \in [ID : Block, EX : Block, MEM : Block, WB : Block]
  BY StageTypes
<1>3. \A b : InsOf(b) \in AnyIns
  BY InsOfType DEF TypeOK
<1>4. ~Quit /\ reg_mips'[PC] = NextPC /\ ~OutOfText(NextPC)
  <2>1. reg_mips'[PC] = IF Quit THEN TextEnd + 4 ELSE NextPC
    BY <1>2, Indices DEF Advance, RegFile
  <2> QED
    BY <2>1, PastTheEnd
<1>5. vpipeline' = Shifted
  BY <1>4 DEF Advance
<1>6. RegAfterWB' \in RegFile /\ RegAfterWB'[PC] = NextPC
  <2>1. RegAfterWB' = WBReg(InsOf(vpipeline'.WB), reg_mips', vpipeline'.WB)
    BY DEF RegAfterWB, InsOf, Advance
  <2>2. reg_mips' \in RegFile /\ vpipeline'.WB \in Block
    BY <1>1 DEF TypeOK, RegFile
  <2>3. InsOf(vpipeline'.WB) \in AnyIns
    BY <1>3
  <2> QED
    BY <1>4, <2>1, <2>2, <2>3, WBKeepsPC, WBRegType
<1>7. RegAfterMEM' = MEMReg(InsOf(vpipeline.MEM)', RegAfterWB', vpipeline'.MEM)
  BY DEF RegAfterMEM
<1>8. CASE Stall
  <2>1. InsOf(vpipeline.MEM)' = NopIns
    BY <1>8, StallInsertsNop
  <2>2. \A r, b : MEMReg(NopIns, r, b) = r
    BY DEF MEMReg, NopIns, Branches
  <2> QED
    BY <1>7, <2>1, <2>2
<1>9. CASE ~Stall
  <2>1. vpipeline'.MEM = EXBlock(i, RegAfterMEM, vpipeline.EX)
    BY <1>5, <1>9 DEF Shifted
  <2>2. /\ vpipeline'.MEM.at = vpipeline.EX.at
        /\ vpipeline'.MEM.tmp = EXTmp(i, RegAfterMEM, vpipeline.EX)
    BY <2>1 DEF EXBlock, TypeOK, Block
  <2>3. InsOf(vpipeline.MEM)' = i
    BY <2>2 DEF InsOf, Advance
  <2>4. ~Flush
    BY <1>5, <1>9 DEF Shifted, Real
  <2>5. i.op \notin Jumps /\ ~Taken(i, RegAfterMEM)
    BY <2>4 DEF Flush, Flushes
  <2>6. CASE i.op \in Branches
    <3>1. vpipeline'.MEM.tmp = Wrap(RegAfterMEM[PC] + 2)
      BY <2>2, <2>5, <2>6, NotTakenTmp
    <3>2. RegAfterMEM'[PC] = Wrap(vpipeline'.MEM.tmp - 1)
      BY <1>6, <1>7, <2>3, <2>6, BranchMEM
    <3>3. RegAfterEX = RegAfterMEM
      BY <2>5 DEF RegAfterEX, EXReg, Jumps
    <3>4. NextPC = Wrap(RegAfterMEM[PC] + 1)
      BY <1>9, <3>3 DEF NextPC
    <3>5. RegAfterMEM[PC] \in Val
      BY <1>2, Indices DEF RegFile
    <3> QED
      BY <1>6, <3>1, <3>2, <3>4, <3>5, WrapStep
  <2>7. CASE i.op \notin Branches
    <3>1. \A r, b : MEMReg(i, r, b) = r
      BY <2>5, <2>7 DEF MEMReg, Jumps
    <3> QED
      BY <1>7, <2>3, <3>1
  <2> QED
    BY <2>6, <2>7
<1> QED
  BY <1>8, <1>9

(* Whatever the program and the layout of the text, no instruction fetched on *)
(* the wrong side of a jump or a branch is decoded (the flush of              *)
(* pipeline.c:289-294), as long as the user does not give run an address.     *)
THEOREM WrongPathFlushed == ASSUME RunAddr = {} PROVE Spec => []NoWrongPath
<1>1. Init => NoWrongPath
  BY DEF Init, EmptyBlock, NoWrongPath, Real
<1>2. TypeOK /\ NoWrongPath /\ [Next]_vars => NoWrongPath'
  <2> SUFFICES ASSUME TypeOK, NoWrongPath, [Next]_vars PROVE NoWrongPath'
    OBVIOUS
  <2>1. CASE StepReturned
    BY <2>1 DEF StepReturned, NoWrongPath, RegAfterMEM, RegAfterWB, InsOf
  <2>2. CASE Advance
    BY <2>2, AdvanceNoWrongPath
  <2>3. ASSUME NEW m, Start(m, reg_mips[PC]) PROVE NoWrongPath'
    <3>1. CASE OutOfText(reg_mips[PC])
      BY <2>3, <3>1 DEF Start, Emptied, NoWrongPath, Real, TypeOK, Block
    <3>2. CASE ~OutOfText(reg_mips[PC])
      <4>1. reg_mips' = reg_mips
        BY <2>3, <3>2, Indices DEF Start, TypeOK
      <4> QED
        BY <2>3, <3>2, <4>1 DEF Start, NoWrongPath, RegAfterMEM, RegAfterWB, InsOf
    <3> QED
      BY <3>1, <3>2
  <2>4. CASE \E a \in BreakAddr : BreakAdd(a) \/ BreakDel(a)
    BY <2>4 DEF BreakAdd, BreakDel, NoWrongPath, RegAfterMEM, RegAfterWB, InsOf
  <2>5. CASE UNCHANGED vars
    BY <2>5 DEF vars, NoWrongPath, RegAfterMEM, RegAfterWB, InsOf
  <2>6. Command => (\E m : Start(m, reg_mips[PC]))
                   \/ (\E a \in BreakAddr : BreakAdd(a) \/ BreakDel(a))
    BY DEF Command, Run, Step, StepRefused
  <2> QED
    BY <2>1, <2>2, <2>3, <2>4, <2>5, <2>6 DEF Next, Cycle
<1> QED
  BY <1>1, <1>2, TypeCorrect, PTL DEF Spec
-----------------------------------------------------------------------------
(* The end of the text. *)

(* The blocks of p, one behind the other, when PC is pc: ID holds the word    *)
(* before pc or nothing, and each of EX and MEM the word before the one it    *)
(* precedes, or a NOP; an empty block is only met while the first words of    *)
(* the program enter the pipeline.                                            *)
Trails(p, pc) ==
  /\ p.ID.at \in {Bubble, Empty, pc - 1}
  /\ p.ID.at = Empty => pc = TextStart /\ p.EX.at = Empty /\ p.MEM.at = Empty
  /\ p.ID.at \in Val => p.EX.at \in {p.ID.at - 1, Bubble, Empty}
  /\ p.ID.at \in Val /\ p.EX.at = Empty => p.ID.at = TextStart
  /\ p.EX.at \in Val => p.MEM.at \in {p.EX.at - 1, Bubble, Empty}

(* No cycle starts once PC has left the text.                                 *)
Trail ==
  /\ mode # "stop" => ~OutOfText(reg_mips[PC])
  /\ ~OutOfText(reg_mips[PC]) => Trails(vpipeline, reg_mips[PC])

(* An increment that wraps round leads out of the text. *)
LEMMA NoWrapInside ==
  ASSUME NEW x \in Val, ~OutOfText(Wrap(x + 1)) \/ AtEnd(Wrap(x + 1))
  PROVE  Wrap(x + 1) = x + 1
<1> DEFINE n == 2 * HalfRange
           y == x + HalfRange
<1>1. HalfRange \in Nat /\ n \in Nat \ {0} /\ HalfRange > LibcEnd + 4 /\ LibcEnd \in Nat
  BY MipsAssumption
<1>2. y \in 0 .. n - 1 /\ x \in Int
  BY <1>1 DEF Val
<1>3. Wrap(x + 1) = ((y + 1) % n) - HalfRange
  BY <1>1, <1>2 DEF Wrap
<1>4. CASE y + 1 < n
  BY <1>1, <1>2, <1>3, <1>4, ModSame
<1>5. CASE y + 1 = n
  <2>1. (y + 1) % n = 0
    BY <1>1, <1>5, ModAbove
  <2>2. Wrap(x + 1) = -HalfRange
    BY <1>1, <1>3, <2>1
  <2>3. Unsigned(-HalfRange) = HalfRange
    <3>1. (-HalfRange) % n = -HalfRange + n
      BY <1>1, ModBelow
    <3> QED
      BY <1>1, <3>1 DEF Unsigned
  <2>4. OutOfText(-HalfRange)
    BY <1>1, <2>3 DEF OutOfText
  <2>5. ~AtEnd(-HalfRange)
    BY <1>1, MipsAssumption DEF AtEnd
  <2> QED
    BY <2>2, <2>4, <2>5
<1> QED
  BY <1>1, <1>2, <1>4, <1>5

LEMMA MarkersApart ==
  /\ Empty \notin Val /\ Bubble \notin Val /\ Empty # Bubble
  /\ Empty \notin Text /\ Bubble \notin Text
  BY PipelineAssumption, TextIsVal

LEMMA EXKeepsPC ==
  ASSUME NEW i \in AnyIns, NEW reg \in RegFile
  PROVE  EXReg(i, reg)[PC] = reg[PC]
<1>1. i.rd # PC /\ RA # PC /\ PC \in RegIdx
  BY Indices DEF AnyIns, RA, PC
<1> QED
  BY <1>1 DEF EXReg, RegFile

(* Which PC the fetch finds: the one the cycle started with, or the one that  *)
(* MEM has just set, and then ID carries a NOP.                               *)
LEMMA FetchPC ==
  ASSUME TypeOK, NoWrongPath, Trail, ~OutOfText(reg_mips[PC])
  PROVE  /\ RegAfterEX[PC] = RegAfterMEM[PC] /\ RegAfterEX[PC] \in Val
         /\ RegAfterEX[PC] # reg_mips[PC] => vpipeline.ID.at = Bubble
<1>1. \A b : InsOf(b) \in AnyIns
  BY InsOfType DEF TypeOK
<1>2. RegAfterWB \in RegFile /\ RegAfterMEM \in RegFile /\ RegAfterEX \in RegFile
  BY StageTypes
<1>3. RegAfterEX[PC] = RegAfterMEM[PC]
  BY <1>1, <1>2, EXKeepsPC DEF RegAfterEX
<1>4. RegAfterWB[PC] = reg_mips[PC]
  <2>1. reg_mips \in RegFile
    BY DEF TypeOK, RegFile
  <2> QED
    BY <1>1, <2>1, WBKeepsPC DEF RegAfterWB
<1>5. RegAfterEX[PC] \in Val
  BY <1>2, Indices DEF RegFile
<1>6. ASSUME RegAfterMEM[PC] # RegAfterWB[PC] PROVE vpipeline.ID.at = Bubble
  <2>1. vpipeline.ID.at \in {Empty, Bubble}
    BY <1>6 DEF NoWrongPath, Real
  <2>2. ASSUME vpipeline.ID.at = Empty PROVE FALSE
    <3>1. vpipeline.MEM.at = Empty
      BY <2>2 DEF Trail, Trails
    <3>2. InsOf(vpipeline.MEM) = NoIns
      BY <3>1, MarkersApart DEF InsOf
    <3>3. RegAfterMEM = RegAfterWB
      BY <3>2 DEF RegAfterMEM, MEMReg, NoIns, NopIns, Branches
    <3> QED
      BY <1>6, <3>3
  <2> QED
    BY <2>1, <2>2
<1> QED
  BY <1>3, <1>4, <1>5, <1>6

(* A cycle moves each block behind the one it follows. *)
LEMMA AdvanceTrail == TypeOK /\ NoWrongPath /\ Trail /\ Advance => Trail'
<1> SUFFICES ASSUME TypeOK, NoWrongPath, Trail, Advance PROVE Trail'
  OBVIOUS
<1> DEFINE p == vpipeline
           q == vpipeline'
           pc == RegAfterEX[PC]
<1>1. /\ RegAfterEX \in RegFile /\ NextPC \in Val
      /\ Shifted \in [ID : Block, EX : Block, MEM : Block, WB : Block]
      /\ p \in [ID : Block, EX : Block, MEM : Block, WB : Block]
  BY StageTypes DEF TypeOK
<1>2. reg_mips'[PC] = IF Quit THEN TextEnd + 4 ELSE NextPC
  BY <1>1, Indices DEF Advance, RegFile
<1>3. OutOfText(reg_mips'[PC]) => mode' = "stop"
  BY <1>2 DEF Advance
<1>4. ASSUME ~OutOfText(reg_mips'[PC]) PROVE Trails(q, reg_mips'[PC])
  <2>1. reg_mips'[PC] = NextPC /\ ~OutOfText(NextPC)
    BY <1>2, <1>4, PastTheEnd
  <2>2. q = Shifted
    BY <2>1 DEF Advance
  <2>3. MEMBlock(InsOf(p.MEM), memory, p.MEM) \in Block
    <3>1. InsOf(p.MEM) \in AnyIns
      BY InsOfType DEF TypeOK
    <3> QED
      BY <3>1, MEMBlockType DEF TypeOK, Mem
  <2>4. EXBlock(InsOf(p.EX), RegAfterMEM, p.EX).at = p.EX.at
    BY <1>1 DEF EXBlock, Block
  <2>5. ~OutOfText(reg_mips[PC]) /\ Trails(p, reg_mips[PC])
    BY DEF Trail, Advance
  <2>6. pc \in Val /\ (pc # reg_mips[PC] => p.ID.at = Bubble)
    BY <2>5, FetchPC
  <2>7. CASE Stall
    <3>1. q.ID.at = p.ID.at /\ q.EX.at = p.EX.at /\ q.MEM.at = Bubble
      BY <2>2, <2>3, <2>4, <2>7 DEF Shifted, Block
    <3>2. NextPC = pc
      BY <2>7 DEF NextPC
    <3>3. p.EX.at # Empty
      <4>1. ReadedReg(NoIns) = {}
        BY DEF ReadedReg, NoIns, NopIns, RType, IType
      <4>2. InsOf(p.EX) # NoIns
        BY <2>7, <4>1 DEF Stall
      <4> QED
        BY <4>2, MarkersApart DEF InsOf
    <3> QED
      BY <2>1, <2>5, <2>6, <3>1, <3>2, <3>3, MarkersApart DEF Trails
  <2>8. CASE ~Stall
    <3>1. /\ q.ID.at = (IF Flush THEN Bubble ELSE pc)
          /\ q.EX.at = p.ID.at /\ q.MEM.at = p.EX.at
      BY <1>1, <2>2, <2>4, <2>8 DEF Shifted, Block
    <3>2. NextPC = pc + 1
      BY <2>1, <2>6, <2>8, NoWrapInside DEF NextPC
    <3>3. pc \in Int /\ NextPC - 1 = pc
      BY <2>6, <3>2, SmallValues
    <3> QED
      BY <2>1, <2>5, <2>6, <3>1, <3>3, MarkersApart DEF Trails
  <2> QED
    BY <2>7, <2>8
<1> QED
  BY <1>3, <1>4 DEF Trail

LEMMA TextStartInside == ~OutOfText(TextStart)
<1>1. Unsigned(TextStart) = TextStart
  BY MipsAssumption, ModSame DEF Unsigned
<1> QED
  BY <1>1, MipsAssumption DEF OutOfText

(* Starting again empties the pipeline. *)
LEMMA StartTrail ==
  ASSUME TypeOK, Trail, NEW m, Start(m, reg_mips[PC]) PROVE Trail'
<1>1. CASE OutOfText(reg_mips[PC])
  <2>1. reg_mips'[PC] = TextStart
    BY <1>1, Indices DEF Start, InitReg
  <2>2. vpipeline'.ID.at = Empty /\ vpipeline'.EX.at = Empty /\ vpipeline'.MEM.at = Empty
    BY <1>1 DEF Start, Emptied, TypeOK, Block
  <2>3. Trails(vpipeline', TextStart)
    BY <2>2, MarkersApart DEF Trails
  <2> QED
    BY <2>1, <2>3, TextStartInside DEF Trail
<1>2. CASE ~OutOfText(reg_mips[PC])
  <2>1. reg_mips' = reg_mips /\ vpipeline' = vpipeline
    BY <1>2, Indices DEF Start, TypeOK
  <2> QED
    BY <1>2, <2>1 DEF Trail
<1> QED
  BY <1>1, <1>2

LEMMA InitTrail == Init => Trail
<1> SUFFICES ASSUME Init PROVE Trail
  OBVIOUS
<1>1. reg_mips[PC] = TextStart
  BY Indices DEF Init, InitReg
<1>2. Trails(vpipeline, TextStart)
  BY MarkersApart DEF Init, EmptyBlock, Trails
<1> QED
  BY <1>1, <1>2, TextStartInside DEF Trail

(* The three invariants of a cycle, when run is given no address. *)
LEMMA InvTrail == ASSUME RunAddr = {} PROVE Spec => [](TypeOK /\ NoWrongPath /\ Trail)
<1>1. Init => Trail
  BY InitTrail
<1>2. TypeOK /\ NoWrongPath /\ Trail /\ [Next]_vars => Trail'
  <2> SUFFICES ASSUME TypeOK, NoWrongPath, Trail, [Next]_vars PROVE Trail'
    OBVIOUS
  <2>1. CASE StepReturned
    BY <2>1 DEF StepReturned, Trail
  <2>2. CASE Advance
    BY <2>2, AdvanceTrail
  <2>3. ASSUME NEW m, Start(m, reg_mips[PC]) PROVE Trail'
    BY <2>3, StartTrail
  <2>4. CASE \E a \in BreakAddr : BreakAdd(a) \/ BreakDel(a)
    BY <2>4 DEF BreakAdd, BreakDel, Trail
  <2>5. CASE UNCHANGED vars
    BY <2>5 DEF vars, Trail
  <2>6. Command => (\E m : Start(m, reg_mips[PC]))
                   \/ (\E a \in BreakAddr : BreakAdd(a) \/ BreakDel(a))
    BY DEF Command, Run, Step, StepRefused
  <2> QED
    BY <2>1, <2>2, <2>3, <2>4, <2>5, <2>6 DEF Next, Cycle
<1> QED
  BY <1>1, <1>2, TypeCorrect, WrongPathFlushed, PTL DEF Spec

(* The four words after each text. *)
LEMMA PastText ==
  ASSUME NEW a \in Val, AtEnd(Wrap(a + 1))
  PROVE  /\ a \in Int /\ a \notin Text /\ a - 1 \notin Text /\ a - 2 \notin Text
         /\ a - 3 \notin Text /\ a - 1 \in Val /\ a - 2 \in Val /\ a # TextStart
         /\ a - 1 # TextStart /\ OutOfText(Wrap(a + 1))
<1>1. Wrap(a + 1) = a + 1 /\ a \in Int
  BY NoWrapInside, SmallValues
<1>2. a \in {TextEnd + 3, LibcEnd + 3}
  BY <1>1, MipsAssumption DEF AtEnd
<1>3. OutOfText(a + 1)
  <2>1. Unsigned(a + 1) = a + 1
    BY <1>2, MipsAssumption, ModSame DEF Unsigned
  <2> QED
    BY <1>2, <2>1, MipsAssumption DEF OutOfText
<1> QED
  BY <1>1, <1>2, <1>3, MipsAssumption DEF Text, Val

(* A program that runs past its last instruction has completed it: no word of *)
(* the text is left in a block when PC is four words past the end and no NOP  *)
(* was put in EX or MEM (the "+16" of pipeline.c:320), whatever the program   *)
(* and the length of the text, as long as run is given no address.            *)
THEOREM EndDrains == ASSUME RunAddr = {} PROVE Spec => DrainedAtEnd
<1> DEFINE q == vpipeline'
           Ending == /\ Advance /\ AtEnd(NextPC) /\ ~Quit
                     /\ Bubble \notin {q.EX.at, q.MEM.at}
           Drained == \A b \in {q.ID, q.EX, q.MEM, q.WB} : b.at \notin Text
<1>1. TypeOK /\ NoWrongPath /\ Trail /\ Ending => Drained
  <2> SUFFICES ASSUME TypeOK, NoWrongPath, Trail, Ending PROVE Drained
    OBVIOUS
  <2> DEFINE p == vpipeline
             pc == RegAfterEX[PC]
  <2>1. /\ p \in [ID : Block, EX : Block, MEM : Block, WB : Block]
        /\ Shifted \in [ID : Block, EX : Block, MEM : Block, WB : Block]
    BY StageTypes DEF TypeOK
  <2>2. MEMBlock(InsOf(p.MEM), memory, p.MEM) \in Block
        /\ MEMBlock(InsOf(p.MEM), memory, p.MEM).at = p.MEM.at
    <3>1. InsOf(p.MEM) \in AnyIns
      BY InsOfType DEF TypeOK
    <3>2. MEMBlock(InsOf(p.MEM), memory, p.MEM).at = p.MEM.at
      BY <2>1 DEF MEMBlock, Block
    <3> QED
      BY <3>1, <3>2, MEMBlockType DEF TypeOK, Mem
  <2>3. EXBlock(InsOf(p.EX), RegAfterMEM, p.EX).at = p.EX.at
    BY <2>1 DEF EXBlock, Block
  <2>4. ~OutOfText(reg_mips[PC]) /\ Trails(p, reg_mips[PC])
    BY DEF Trail, Advance
  <2>5. pc \in Val /\ (pc # reg_mips[PC] => p.ID.at = Bubble)
    BY <2>4, FetchPC
  <2>6. ~Stall
    <3>1. Shifted.MEM.at # Bubble
      BY <2>1 DEF Advance
    <3> QED
      BY <2>2, <3>1 DEF Shifted, Block
  <2>7. AtEnd(Wrap(pc + 1)) /\ OutOfText(NextPC)
    BY <2>5, <2>6, PastText DEF NextPC
  <2>8. q.ID.at = Empty /\ q.EX.at = p.ID.at /\ q.MEM.at = p.EX.at /\ q.WB.at = p.MEM.at
    <3>1. q = [Shifted EXCEPT !.ID.at = Empty]
      BY <2>7 DEF Advance
    <3>2. Shifted.EX.at = p.ID.at /\ Shifted.MEM.at = p.EX.at /\ Shifted.WB.at = p.MEM.at
      BY <2>1, <2>2, <2>3, <2>6 DEF Shifted, Block
    <3> QED
      BY <2>1, <3>1, <3>2 DEF Block
  <2>9. pc = reg_mips[PC] /\ p.ID.at # Bubble /\ p.EX.at # Bubble
    BY <2>5, <2>8
  <2>10. p.ID.at = pc - 1
    BY <2>4, <2>5, <2>7, <2>9, PastText DEF Trails
  <2>11. p.EX.at = pc - 2
    BY <2>4, <2>5, <2>7, <2>9, <2>10, PastText, MarkersApart DEF Trails
  <2>12. p.MEM.at \in {pc - 3, Bubble, Empty}
    BY <2>4, <2>5, <2>7, <2>9, <2>11, PastText DEF Trails
  <2> QED
    BY <2>5, <2>7, <2>8, <2>10, <2>11, <2>12, PastText, MarkersApart
<1>2. TypeOK /\ NoWrongPath /\ Trail /\ [Next]_vars => [Ending => Drained]_vars
  BY <1>1
<1> QED
  BY <1>2, InvTrail, PTL DEF Spec, DrainedAtEnd

-----------------------------------------------------------------------------
(* The refinement: instructions. *)

ArchReg == RegIdx \ {PC}
Arch(reg) == [r \in ArchReg |-> reg[r]]

LEMMA ArchIndices ==
  /\ Reg \subseteq ArchReg /\ {0, V0, RA, HI, LO} \subseteq ArchReg
  /\ HI # LO /\ HI \notin Reg /\ LO \notin Reg /\ {0, V0, RA} \subseteq Reg /\ V0 # 0 /\ RA # 0
  BY Indices, MipsAssumption DEF ArchReg, RegIdx, V0, RA, HI, LO, PC

(* A register that is not the destination of an instruction is not written in *)
(* its WB.                                                                    *)
LEMMA NotWritten ==
  ASSUME NEW x \in AnyIns, NEW reg \in RegFile, NEW b, NEW r \in Reg, r \notin Dest(x)
  PROVE  WBReg(x, reg, b)[r] = reg[r]
<1>1. r \in RegIdx /\ r # HI /\ r # LO
  BY Indices, ArchIndices
<1>2. \A q, v : q # r \/ q = 0 => WriteReg(reg, q, v)[r] = reg[r]
  BY <1>1 DEF WriteReg, RegFile
<1>3. \A v, w : [reg EXCEPT ![HI] = v, ![LO] = w][r] = reg[r]
  BY <1>1 DEF RegFile
<1>4. CASE x.op = "SYSCALL"
  <2>1. r # V0
    BY <1>4 DEF Dest
  <2>2. WBReg(x, reg, b) = [reg EXCEPT ![V0] = IF x.imm \in InputCodes THEN InChar ELSE x.imm]
    BY <1>4 DEF WBReg, AluR, AluI
  <2> QED
    BY <1>1, <2>1, <2>2 DEF RegFile
<1>5. CASE x.op \in AluR \cup {"MFHI", "MFLO", "SEB"}
  <2>1. x.rd # r \/ x.rd = 0
    <3>1. WritedReg(x) = {x.rd} \ {0}
      BY <1>5 DEF WritedReg, RType, IType, AluR, AluI, Branches
    <3> QED
      BY <3>1 DEF Dest
  <2> QED
    BY <1>2, <1>5, <2>1 DEF WBReg, AluR, AluI
<1>6. CASE x.op \in AluI \cup {"LW"}
  <2>1. x.rt # r \/ x.rt = 0
    BY <1>6 DEF Dest, WritedReg, RType, IType, AluI, AluR, Branches
  <2> QED
    BY <1>2, <1>6, <2>1 DEF WBReg, AluR, AluI
<1> QED
  BY <1>3, <1>4, <1>5, <1>6 DEF WBReg

(* What WB does to two sets of registers that differ on S only.               *)
LEMMA WBSame ==
  ASSUME NEW x \in AnyIns, NEW f \in RegFile, NEW g \in RegFile, NEW b, NEW S,
         \A r \in RegIdx \ S : f[r] = g[r], HI \notin S, LO \notin S,
         x.op = "SEB" => x.rt \notin S
  PROVE  \A r \in RegIdx \ S : WBReg(x, f, b)[r] = WBReg(x, g, b)[r]
<1>1. f[HI] = g[HI] /\ f[LO] = g[LO]
  BY Indices
<1>2. x.op = "SEB" => f[x.rt] = g[x.rt]
  BY Indices DEF AnyIns
<1>3. \A q, v : \A r \in RegIdx \ S : WriteReg(f, q, v)[r] = WriteReg(g, q, v)[r]
  BY DEF WriteReg, RegFile
<1>4. CASE x.op \in {"MULT", "SYSCALL"}
  <2>1. CASE x.op = "MULT"
    <3>1. /\ WBReg(x, f, b) = [f EXCEPT ![HI] = b.tmp2, ![LO] = b.tmp]
          /\ WBReg(x, g, b) = [g EXCEPT ![HI] = b.tmp2, ![LO] = b.tmp]
      BY <2>1 DEF WBReg, AluR, AluI
    <3> QED
      BY <3>1 DEF RegFile
  <2>2. CASE x.op = "SYSCALL"
    <3>1. PICK v : v = IF x.imm \in InputCodes THEN InChar ELSE x.imm
      OBVIOUS
    <3>2. WBReg(x, f, b) = [f EXCEPT ![V0] = v] /\ WBReg(x, g, b) = [g EXCEPT ![V0] = v]
      BY <2>2, <3>1 DEF WBReg, AluR, AluI
    <3> QED
      BY <3>2 DEF RegFile
  <2> QED
    BY <1>4, <2>1, <2>2
<1>5. CASE x.op \in AluR \cup AluI \cup {"LW", "SEB", "MFHI", "MFLO"}
  BY <1>1, <1>2, <1>3, <1>5 DEF WBReg, AluR, AluI
<1>6. CASE x.op \notin AluR \cup AluI \cup {"LW", "SEB", "MFHI", "MFLO", "MULT", "SYSCALL"}
  BY <1>6 DEF WBReg
<1> QED
  BY <1>4, <1>5, <1>6

(* An instruction that EX does not hold back finds what the one before it     *)
(* leaves.                                                                    *)
LEMMA OperandsReady ==
  ASSUME NEW x \in AnyIns, NEW y \in AnyIns, ~PairHazard(x, y), WritedReg(x) \cap ReadedReg(y) = {}
  PROVE  Dest(x) \cap (ReadedReg(y) \cup {0}) = {}
<1>1. x.op = "SYSCALL" => V0 \notin ReadedReg(y)
  BY DEF PairHazard
<1>2. 0 \notin WritedReg(x) /\ V0 # 0
  BY DEF WritedReg, V0
<1> QED
  BY <1>1, <1>2 DEF Dest

LEMMA Operands ==
  ASSUME NEW y \in AnyIns
  PROVE  /\ y.rs \in Reg /\ y.rt \in Reg /\ y.rd \in Reg /\ y.imm \in Val
         /\ y.op \in RType \cup {"BEQ", "BNE"} => {y.rs, y.rt} \subseteq ReadedReg(y) \cup {0}
         /\ y.op \in IType => y.rs \in ReadedReg(y) \cup {0}
<1>1. y.rs \in Reg /\ y.rt \in Reg /\ y.rd \in Reg /\ y.imm \in Val
  BY DEF AnyIns
<1>2. CASE y.op \in RType \cup {"BEQ", "BNE"}
  BY <1>1, <1>2 DEF ReadedReg, RType, IType, Branches, AluI, AluR
<1>3. CASE y.op \in IType \ {"BEQ", "BNE"}
  BY <1>1, <1>3 DEF ReadedReg, RType, IType, Branches, AluI, AluR
<1> QED
  BY <1>1, <1>2, <1>3

(* Registers as Isa has them, after a write. *)
LEMMA ArchWrite ==
  ASSUME NEW f \in RegFile, NEW g \in RegFile, \A r \in ArchReg : f[r] = g[r], NEW q \in Reg, NEW v
  PROVE  Arch(WriteReg(f, q, v)) = WriteReg(Arch(g), q, v)
  BY ArchIndices DEF Arch, ArchReg, WriteReg, RegFile

(* Isa's Result, with the registers, the memory and the address it is applied *)
(* to as parameters.                                                          *)
CheckedOn(reg, r, sum) == IF sum \in Val THEN WriteReg(reg, r, sum) ELSE reg
LoadedFrom(mem, a) == IF a \in DataAddr THEN mem[a] ELSE 0
ResultOn(i, reg, mem, pc) ==
  LET x == reg[i.rs]
      y == reg[i.rt]
  IN CASE i.op = "ADD"  -> CheckedOn(reg, i.rd, x + y)
       [] i.op = "SUB"  -> CheckedOn(reg, i.rd, x - y)
       [] i.op = "ADDI" -> CheckedOn(reg, i.rt, x + i.imm)
       [] i.op = "ADDU" -> WriteReg(reg, i.rd, Wrap(x + y))
       [] i.op = "SUBU" -> WriteReg(reg, i.rd, Wrap(x - y))
       [] i.op = "ADDIU" -> WriteReg(reg, i.rt, Wrap(x + i.imm))
       [] i.op \in {"SLT", "SLTU"} -> WriteReg(reg, i.rd, SetTmp(i, x, y))
       [] i.op \in {"SLTI", "SLTIU"} -> WriteReg(reg, i.rt, SetTmp(i, x, y))
       [] i.op = "SEB"  -> WriteReg(reg, i.rd, y % ByteRange)
       [] i.op = "MULT" -> [reg EXCEPT ![LO] = Wrap(x * y),
                                       ![HI] = Wrap((x * y) \div (2 * HalfRange))]
       [] i.op = "MFHI" -> WriteReg(reg, i.rd, reg[HI])
       [] i.op = "MFLO" -> WriteReg(reg, i.rd, reg[LO])
       [] i.op = "LW"   -> WriteReg(reg, i.rt, LoadedFrom(mem, Wrap(x + i.imm)))
       [] i.op = "JAL"  -> [reg EXCEPT ![RA] = Wrap(pc + 2)]
       [] i.op = "JALR" -> WriteReg(reg, i.rd, Wrap(pc + 2))
       [] i.op = "SYSCALL" ->
            [reg EXCEPT ![V0] = IF i.imm \in InputCodes THEN InChar ELSE i.imm]
       [] OTHER -> reg

(* The variables of Isa, in the order of its vars. *)
IsaReg == [r \in RegIdx \ {PC} |-> ArchState(DrainedReg, r)]
IsaMem == IF OutOfText(reg_mips[PC]) \/ ExitInWB THEN memory ELSE DrainedMemory
IsaPc  == IF Over THEN 0 ELSE Upcoming[1]
IsaNpc == IF Over THEN 0 ELSE Upcoming[2]

(* Isa reads the instruction set through an instance of its own: its operators *)
(* are those of Mips.                                                         *)
LEMMA SameValues ==
  /\ ISA!Val = Val /\ ISA!Text = Text /\ ISA!NopIns = NopIns /\ ISA!InputCodes = InputCodes
  /\ ISA!Branches = Branches /\ ISA!RA = RA /\ ISA!V0 = V0 /\ ISA!HI = HI /\ ISA!LO = LO
  BY Zenon DEF ISA!Val, ISA!Text, ISA!NopIns, ISA!InputCodes, ISA!Branches, ISA!RA, ISA!V0, ISA!HI, ISA!LO,
     Val, Text, NopIns, InputCodes, Branches, RA, V0, HI, LO

LEMMA SameOperators ==
  /\ \A x : ISA!Wrap(x) = Wrap(x)
  /\ \A x : ISA!OutOfText(x) <=> OutOfText(x)
  /\ \A i : ISA!Quits(i) <=> Quits(i)
  /\ \A reg, r, v : ISA!WriteReg(reg, r, v) = WriteReg(reg, r, v)
  /\ \A i, reg : ISA!Taken(i, reg) <=> Taken(i, reg)
  BY Zenon DEF ISA!Wrap, ISA!OutOfText, ISA!Unsigned, ISA!Quits, ISA!ExitCodes, ISA!WriteReg, ISA!Taken,
     Wrap, OutOfText, Unsigned, Quits, ExitCodes, WriteReg, Taken

LEMMA SameSetTmp ==
  \A i, x, y : ISA!SetTmp(i, x, y) = SetTmp(i, x, y)
  BY Zenon DEF ISA!SetTmp, ISA!Bit, ISA!Unsigned, SetTmp, Bit, Unsigned

LEMMA SameChecks ==
  /\ \A r, s : ISA!Checked(r, s) = CheckedOn(IsaReg, r, s)
  /\ \A a : ISA!Loaded(a) = LoadedFrom(IsaMem, a)
  BY SameValues, SameOperators, Zenon DEF ISA!Checked, ISA!Loaded, CheckedOn, LoadedFrom, IsaReg, IsaMem

LEMMA ResultIs == \A i : ISA!Result(i) = ResultOn(i, IsaReg, IsaMem, IsaPc)
  BY SameValues, SameOperators, SameSetTmp, SameChecks, Zenon DEF ResultOn, ISA!Result, IsaReg, IsaPc

StoredOn(i, reg, mem) ==
  LET a == Wrap(reg[i.rs] + i.imm)
  IN IF i.op = "SW" /\ a \in DataAddr THEN [mem EXCEPT ![a] = reg[i.rt]] ELSE mem
SuccessorOn(i, reg, pc, npc) ==
  CASE i.op \in {"J", "JAL"} -> i.imm
    [] i.op \in {"JR", "JALR"} -> reg[i.rs]
    [] i.op \in Branches /\ Taken(i, reg) -> Wrap(pc + 1 + i.imm)
    [] OTHER -> Wrap(npc + 1)
Word(a) == IF a \in Text THEN prog[a] ELSE NopIns
OutsideAt(a) == OutOfText(a) \/ OutOfText(Wrap(a + 1))

LEMMA StoredIs == \A i : ISA!Stored(i) = StoredOn(i, IsaReg, IsaMem)
<1> TAKE i
<1>1. ISA!Wrap(IsaReg[i.rs] + i.imm) = Wrap(IsaReg[i.rs] + i.imm)
  BY SameOperators, Zenon
<1>2. CASE i.op = "SW" /\ Wrap(IsaReg[i.rs] + i.imm) \in DataAddr
  <2>1. ISA!Stored(i) = [IsaMem EXCEPT ![ISA!Wrap(IsaReg[i.rs] + i.imm)] = IsaReg[i.rt]]
    BY <1>1, <1>2, Zenon DEF ISA!Stored, IsaReg, IsaMem
  <2>2. StoredOn(i, IsaReg, IsaMem) = [IsaMem EXCEPT ![Wrap(IsaReg[i.rs] + i.imm)] = IsaReg[i.rt]]
    BY <1>2, Zenon DEF StoredOn
  <2> QED
    BY <1>1, <2>1, <2>2, Zenon
<1>3. CASE ~(i.op = "SW" /\ Wrap(IsaReg[i.rs] + i.imm) \in DataAddr)
  <2>1. ISA!Stored(i) = IsaMem
    BY <1>1, <1>3, Zenon DEF ISA!Stored, IsaReg, IsaMem
  <2> QED
    BY <1>3, <2>1, Zenon DEF StoredOn
<1> QED
  BY <1>2, <1>3, Zenon

LEMMA SuccessorIs == \A i : ISA!Successor(i) = SuccessorOn(i, IsaReg, IsaPc, IsaNpc)
  BY SameValues, SameOperators, Zenon DEF SuccessorOn, ISA!Successor, IsaReg, IsaPc, IsaNpc

LEMMA CurrentIs == ISA!Current = Word(IsaPc)
  BY SameValues, Zenon DEF ISA!Current, Word, IsaPc

LEMMA OutsideIs == \A a : ISA!Outside(a) <=> OutsideAt(a)
  BY SameOperators, Zenon DEF ISA!Outside, OutsideAt

LEMMA ExecuteIs ==
  ASSUME NEW i, i = Word(IsaPc), ~Over,
         IsaReg' = ResultOn(i, IsaReg, IsaMem, IsaPc), IsaMem' = StoredOn(i, IsaReg, IsaMem),
         prog' = prog,
         IF Quits(i) THEN Over'
         ELSE ~Over' /\ IsaPc' = IsaNpc /\ IsaNpc' = SuccessorOn(i, IsaReg, IsaPc, IsaNpc)
  PROVE  ISA!Execute
<1>1. i = ISA!Current
  BY CurrentIs
<1>2. Quits(i) <=> ISA!Quits(i)
  BY SameOperators
<1>3. Over' => IsaPc' = 0 /\ IsaNpc' = 0
  BY DEF IsaPc, IsaNpc
<1>4. IsaReg' = ISA!Result(i) /\ IsaMem' = ISA!Stored(i)
  BY ResultIs, StoredIs, Zenon
<1>5. ~Quits(i) => IsaNpc' = ISA!Successor(i)
  BY SuccessorIs, Zenon
<1>6. CASE Quits(i)
  BY <1>1, <1>2, <1>3, <1>4, <1>6, Zenon DEF ISA!Execute, IsaReg, IsaMem, IsaPc, IsaNpc
<1>7. CASE ~Quits(i)
  <2>1. Over' = FALSE
    BY <1>7 DEF Over
  <2>2. IsaPc' = IsaNpc /\ IsaNpc' = ISA!Successor(i)
    BY <1>5, <1>7, Zenon
  <2> QED
    BY <1>1, <1>2, <1>4, <1>7, <2>1, <2>2, Zenon DEF ISA!Execute, IsaReg, IsaMem, IsaPc, IsaNpc
<1> QED
  BY <1>6, <1>7

LEMMA HaltIs ==
  ASSUME ~Over, IsaNpc \notin Text, IsaPc \notin Text \/ OutsideAt(IsaNpc), Over',
         UNCHANGED <<prog, IsaReg, IsaMem>>
  PROVE  ISA!Halt
<1>1. IsaPc' = 0 /\ IsaNpc' = 0
  BY DEF IsaPc, IsaNpc
<1>2. ISA!Text = Text /\ (ISA!Outside(IsaNpc) <=> OutsideAt(IsaNpc))
  BY SameValues, OutsideIs, Zenon
<1> QED
  BY <1>1, <1>2, Zenon DEF ISA!Halt, IsaReg, IsaMem, IsaPc, IsaNpc

LEMMA StutterIs ==
  ASSUME UNCHANGED <<prog, IsaReg, IsaMem, IsaPc, IsaNpc>>, Over' = Over
  PROVE  UNCHANGED ISA!vars
  BY Zenon DEF ISA!vars, IsaReg, IsaMem, IsaPc, IsaNpc

-----------------------------------------------------------------------------
(* One instruction on its way through the stages computes what Isa says: f is  *)
(* what it finds in EX, w what it finds in MEM and WB, d what the instructions *)
(* before it leave.                                                            *)

Finds(y, f, w, d) ==
  /\ f \in RegFile /\ w \in RegFile /\ d \in RegFile
  /\ \A r \in ArchReg : w[r] = d[r]
  /\ \A r \in ReadedReg(y) \cup {0} : f[r] = d[r]
  /\ MayTrap(y) => \A r \in WritedReg(y) : f[r] = d[r]

Leaves(y, f, w, b, m) ==
  LET e == EXBlock(y, f, b) IN WBReg(y, MEMReg(y, w, e), MEMBlock(y, m, e))

LEMMA BlockFields ==
  ASSUME NEW y, NEW f, NEW m, NEW b \in Block
  PROVE  /\ EXBlock(y, f, b).at = b.at /\ EXBlock(y, f, b).tmp = EXTmp(y, f, b)
         /\ EXBlock(y, f, b).tmp2 =
              IF y.op = "MULT" THEN Wrap((f[y.rs] * f[y.rt]) \div (2 * HalfRange)) ELSE b.tmp2
         /\ MEMBlock(y, m, b).at = b.at /\ MEMBlock(y, m, b).tmp = b.tmp
         /\ MEMBlock(y, m, b).tmp2 = IF y.op = "LW" /\ b.tmp \in DataAddr THEN m[b.tmp] ELSE b.tmp2
<1>1. \A t, v : /\ [b EXCEPT !.tmp = t, !.tmp2 = v].at = b.at
                /\ [b EXCEPT !.tmp = t, !.tmp2 = v].tmp = t
                /\ [b EXCEPT !.tmp = t, !.tmp2 = v].tmp2 = v
                /\ [b EXCEPT !.tmp2 = v].at = b.at
                /\ [b EXCEPT !.tmp2 = v].tmp = b.tmp
                /\ [b EXCEPT !.tmp2 = v].tmp2 = v
  BY DEF Block
<1> QED
  BY <1>1 DEF EXBlock, MEMBlock

(* A checked addition: on an overflow WB writes back what EX found. *)
LEMMA CheckedWrite ==
  ASSUME NEW f \in RegFile, NEW w \in RegFile, NEW d \in RegFile,
         \A r \in ArchReg : w[r] = d[r], NEW q \in Reg, NEW s, q # 0 => f[q] = d[q]
  PROVE  Arch(WriteReg(w, q, Trapping(s, f[q]))) = CheckedOn(Arch(d), q, s)
<1>1. Arch(WriteReg(w, q, Trapping(s, f[q]))) = WriteReg(Arch(d), q, Trapping(s, f[q]))
  BY ArchWrite
<1>2. CASE s \in Val
  BY <1>1, <1>2 DEF CheckedOn, Trapping
<1>3. CASE s \notin Val
  <2>1. q \in ArchReg
    BY ArchIndices
  <2>2. q # 0 => [Arch(d) EXCEPT ![q] = d[q]] = Arch(d)
    BY <2>1 DEF Arch
  <2>3. Trapping(s, f[q]) = f[q] /\ CheckedOn(Arch(d), q, s) = Arch(d)
    BY <1>3 DEF CheckedOn, Trapping
  <2> QED
    BY <1>1, <2>2, <2>3 DEF WriteReg
<1> QED
  BY <1>2, <1>3

LEMMA ExecutedAlu ==
  ASSUME NEW y \in AnyIns, y.op \in AluR \cup AluI, NEW f, NEW w, NEW d, Finds(y, f, w, d),
         NEW b \in Block, NEW m, NEW pc
  PROVE  Arch(Leaves(y, f, w, b, m)) = ResultOn(y, Arch(d), m, pc)
<1> DEFINE q == IF y.op \in AluR THEN y.rd ELSE y.rt
           t == EXTmp(y, f, b)
           ad == Arch(d)
<1>1. y.rs \in ArchReg /\ y.rt \in ArchReg /\ q \in Reg
  BY Operands, ArchIndices
<1>2. f[y.rs] = ad[y.rs] /\ (y.op \in AluR => f[y.rt] = ad[y.rt])
  <2>1. y.rs \in ReadedReg(y) \cup {0} /\ (y.op \in AluR => y.rt \in ReadedReg(y) \cup {0})
    BY Operands DEF RType, IType
  <2> QED
    BY <1>1, <2>1 DEF Finds, Arch
<1>3. Leaves(y, f, w, b, m) = WriteReg(w, q, t)
  <2>1. PICK e : e = EXBlock(y, f, b)
    OBVIOUS
  <2>2. MEMReg(y, w, e) = w
    BY DEF MEMReg, AluR, AluI, Branches
  <2>3. e \in [at : {b.at}, tmp : {t}, tmp2 : {b.tmp2}] /\ MEMBlock(y, m, e).tmp = t
    <3>1. e = [b EXCEPT !.tmp = t, !.tmp2 = @]
      BY <2>1 DEF EXBlock, AluR, AluI
    <3> QED
      BY <3>1 DEF Block, MEMBlock
  <2>4. WBReg(y, w, MEMBlock(y, m, e)) = WriteReg(w, q, t)
    BY <2>3 DEF WBReg, AluR, AluI
  <2> QED
    BY <2>1, <2>2, <2>4 DEF Leaves
<1>4. Arch(WriteReg(w, q, t)) = WriteReg(ad, q, t)
  BY <1>1, ArchWrite DEF Finds
<1>5. CASE MayTrap(y)
  <2>1. q # 0 => f[q] = d[q]
    BY <1>5, <1>1 DEF Finds, MayTrap, WritedReg, RType, IType, AluR, AluI, Branches
  <2>2. \A s : Arch(WriteReg(w, q, Trapping(s, f[q]))) = CheckedOn(ad, q, s)
    BY <1>1, <2>1, CheckedWrite DEF Finds
  <2>3. CASE y.op \in {"ADD", "SUB"}
    <3>1. q = y.rd /\ f[y.rt] = ad[y.rt]
      BY <1>2, <2>3 DEF AluR
    <3>2. t = IF y.op = "ADD" THEN Trapping(f[y.rs] + f[y.rt], f[y.rd])
              ELSE Trapping(f[y.rs] - f[y.rt], f[y.rd])
      BY <2>3 DEF EXTmp, Branches
    <3>3. ResultOn(y, ad, m, pc) = IF y.op = "ADD" THEN CheckedOn(ad, y.rd, ad[y.rs] + ad[y.rt])
                                   ELSE CheckedOn(ad, y.rd, ad[y.rs] - ad[y.rt])
      BY <2>3 DEF ResultOn
    <3> HIDE DEF q, t
    <3> QED
      BY <1>2, <1>3, <2>2, <2>3, <3>1, <3>2, <3>3
  <2>4. CASE y.op = "ADDI"
    <3>1. q = y.rt
      BY <2>4 DEF AluR
    <3>2. t = Trapping(f[y.rs] + y.imm, f[y.rt])
      BY <2>4 DEF EXTmp, Branches
    <3>3. ResultOn(y, ad, m, pc) = CheckedOn(ad, y.rt, ad[y.rs] + y.imm)
      BY <2>4 DEF ResultOn
    <3> HIDE DEF q, t
    <3> QED
      BY <1>2, <1>3, <2>2, <3>1, <3>2, <3>3
  <2> QED
    BY <1>5, <2>3, <2>4 DEF MayTrap
<1>6. CASE ~MayTrap(y)
  <2>1. CASE y.op \in AluR
    <3>1. q = y.rd /\ f[y.rt] = ad[y.rt] /\ y.op \in {"ADDU", "SUBU", "SLT", "SLTU"}
      BY <1>2, <1>6, <2>1 DEF AluR, MayTrap
    <3>2. t = IF y.op = "ADDU" THEN Wrap(f[y.rs] + f[y.rt])
              ELSE IF y.op = "SUBU" THEN Wrap(f[y.rs] - f[y.rt])
              ELSE SetTmp(y, f[y.rs], f[y.rt])
      BY <3>1 DEF EXTmp, Branches
    <3>3. ResultOn(y, ad, m, pc) = WriteReg(ad, y.rd,
              IF y.op = "ADDU" THEN Wrap(ad[y.rs] + ad[y.rt])
              ELSE IF y.op = "SUBU" THEN Wrap(ad[y.rs] - ad[y.rt])
              ELSE SetTmp(y, ad[y.rs], ad[y.rt]))
      BY <3>1 DEF ResultOn
    <3> HIDE DEF q, t
    <3> QED
      BY <1>2, <1>3, <1>4, <3>1, <3>2, <3>3
  <2>2. CASE y.op \in AluI
    <3>1. q = y.rt /\ y.op \in {"ADDIU", "SLTI", "SLTIU"}
      BY <1>6, <2>2 DEF AluI, AluR, MayTrap
    <3>2. t = IF y.op = "ADDIU" THEN Wrap(f[y.rs] + y.imm)
              ELSE SetTmp(y, f[y.rs], f[y.rt])
      BY <3>1 DEF EXTmp, Branches
    <3>3. ResultOn(y, ad, m, pc) = WriteReg(ad, y.rt,
              IF y.op = "ADDIU" THEN Wrap(ad[y.rs] + y.imm)
              ELSE SetTmp(y, ad[y.rs], ad[y.rt]))
      BY <3>1 DEF ResultOn
    <3>4. y.op # "ADDIU" => SetTmp(y, f[y.rs], f[y.rt]) = SetTmp(y, f[y.rs], ad[y.rt])
      BY <3>1 DEF SetTmp
    <3> HIDE DEF q, t
    <3> QED
      BY <1>2, <1>3, <1>4, <3>1, <3>2, <3>3, <3>4
  <2> QED
    BY <2>1, <2>2
<1> QED
  BY <1>5, <1>6

LEMMA ExecutedMove ==
  ASSUME NEW y \in AnyIns, y.op \in {"LW", "SEB", "MFHI", "MFLO", "SYSCALL"},
         NEW f, NEW w, NEW d, Finds(y, f, w, d), NEW b \in Block, b.tmp2 = 0, NEW m, NEW pc
  PROVE  Arch(Leaves(y, f, w, b, m)) = ResultOn(y, Arch(d), m, pc)
<1>1. PICK ad : ad = Arch(d)
  OBVIOUS
<1>2. y.rs \in ArchReg /\ y.rt \in ArchReg /\ y.rd \in Reg /\ y.rt \in Reg /\ {HI, LO, V0} \subseteq ArchReg
  BY Operands, ArchIndices
<1>3. \A r \in ArchReg : w[r] = d[r] /\ ad[r] = d[r]
  BY <1>1 DEF Finds, Arch
<1>4. w \in RegFile /\ d \in RegFile
  BY DEF Finds
<1>5. PICK c : c = MEMBlock(y, m, EXBlock(y, f, b))
  OBVIOUS
<1>6. Leaves(y, f, w, b, m) = WBReg(y, w, c)
  <2>1. \A e : MEMReg(y, w, e) = w
    BY DEF MEMReg, Branches
  <2> QED
    BY <1>5, <2>1 DEF Leaves
<1>7. \A q \in Reg : \A v : Arch(WriteReg(w, q, v)) = WriteReg(ad, q, v)
  BY <1>1, <1>3, <1>4, ArchWrite
<1>8. CASE y.op = "LW"
  <2>1. f[y.rs] = ad[y.rs]
    <3>1. y.rs \in ReadedReg(y) \cup {0}
      BY <1>8, Operands DEF IType
    <3> QED
      BY <1>2, <1>3, <3>1 DEF Finds
  <2>2. PICK a : a = Wrap(f[y.rs] + y.imm)
    OBVIOUS
  <2>3. EXTmp(y, f, b) = a
    BY <1>8, <2>2 DEF EXTmp, Branches
  <2>4. c.tmp2 = LoadedFrom(m, a)
    <3>1. c.tmp2 = [EXBlock(y, f, b) EXCEPT
                      !.tmp2 = IF y.op = "LW" /\ EXBlock(y, f, b).tmp \in DataAddr
                               THEN m[EXBlock(y, f, b).tmp] ELSE @].tmp2
      BY <1>5 DEF MEMBlock
    <3>2. EXBlock(y, f, b) = [b EXCEPT !.tmp = a, !.tmp2 = @]
      BY <1>8, <2>3 DEF EXBlock
    <3>3. EXBlock(y, f, b) = [at |-> b.at, tmp |-> a, tmp2 |-> 0]
      BY <3>2 DEF Block
    <3> QED
      BY <1>8, <3>1, <3>3 DEF LoadedFrom
  <2>5. WBReg(y, w, c) = WriteReg(w, y.rt, c.tmp2)
    BY <1>8 DEF WBReg, AluR, AluI
  <2>6. ResultOn(y, ad, m, pc) = WriteReg(ad, y.rt, LoadedFrom(m, a))
    BY <1>8, <2>1, <2>2 DEF ResultOn
  <2> QED
    BY <1>1, <1>2, <1>6, <1>7, <2>4, <2>5, <2>6
<1>9. CASE y.op \in {"SEB", "MFHI", "MFLO"}
  <2>1. PICK v : v = IF y.op = "SEB" THEN w[y.rt] % ByteRange ELSE IF y.op = "MFHI" THEN w[HI] ELSE w[LO]
    OBVIOUS
  <2>2. WBReg(y, w, c) = WriteReg(w, y.rd, v)
    BY <1>9, <2>1 DEF WBReg, AluR, AluI
  <2>3. v = IF y.op = "SEB" THEN ad[y.rt] % ByteRange ELSE IF y.op = "MFHI" THEN ad[HI] ELSE ad[LO]
    BY <1>2, <1>3, <2>1
  <2>4. ResultOn(y, ad, m, pc) = WriteReg(ad, y.rd, v)
    BY <1>9, <2>3 DEF ResultOn
  <2> QED
    BY <1>1, <1>2, <1>6, <1>7, <2>2, <2>4
<1>10. CASE y.op = "SYSCALL"
  <2>1. PICK v : v = IF y.imm \in InputCodes THEN InChar ELSE y.imm
    OBVIOUS
  <2>2. WBReg(y, w, c) = [w EXCEPT ![V0] = v]
    BY <1>10, <2>1 DEF WBReg, AluR, AluI
  <2>3. ResultOn(y, ad, m, pc) = [ad EXCEPT ![V0] = v]
    BY <1>10, <2>1 DEF ResultOn, Branches
  <2>4. Arch([w EXCEPT ![V0] = v]) = [ad EXCEPT ![V0] = v]
    BY <1>1, <1>2, <1>3, <1>4 DEF Arch, ArchReg, RegFile
  <2> QED
    BY <1>1, <1>6, <2>2, <2>3, <2>4
<1> QED
  BY <1>8, <1>9, <1>10

LEMMA ExecutedMult ==
  ASSUME NEW y \in AnyIns, y.op = "MULT",
         NEW f, NEW w, NEW d, Finds(y, f, w, d), NEW b \in Block, NEW m, NEW pc
  PROVE  Arch(Leaves(y, f, w, b, m)) = ResultOn(y, Arch(d), m, pc)
<1>1. PICK ad : ad = Arch(d)
  OBVIOUS
<1>2. f[y.rs] = ad[y.rs] /\ f[y.rt] = ad[y.rt]
  <2>1. y.rs \in ArchReg /\ y.rt \in ArchReg /\ {y.rs, y.rt} \subseteq ReadedReg(y) \cup {0}
    BY Operands, ArchIndices DEF RType
  <2> QED
    BY <1>1, <2>1 DEF Finds, Arch
<1>3. PICK lo, hi : /\ lo = Wrap(f[y.rs] * f[y.rt])
                    /\ hi = Wrap((f[y.rs] * f[y.rt]) \div (2 * HalfRange))
  OBVIOUS
<1>4. EXTmp(y, f, b) = lo
  BY <1>3 DEF EXTmp, Branches
<1>5. EXBlock(y, f, b) = [at |-> b.at, tmp |-> lo, tmp2 |-> hi]
  <2>1. EXBlock(y, f, b) = [b EXCEPT !.tmp = lo, !.tmp2 = hi]
    BY <1>3, <1>4 DEF EXBlock
  <2> QED
    BY <2>1 DEF Block
<1>6. MEMBlock(y, m, EXBlock(y, f, b)) = [at |-> b.at, tmp |-> lo, tmp2 |-> hi]
  BY <1>5 DEF MEMBlock
<1>7. \A e : MEMReg(y, w, e) = w
  BY DEF MEMReg, Branches
<1>8. Leaves(y, f, w, b, m) = WBReg(y, w, [at |-> b.at, tmp |-> lo, tmp2 |-> hi])
  BY <1>6, <1>7 DEF Leaves
<1>9. WBReg(y, w, [at |-> b.at, tmp |-> lo, tmp2 |-> hi]) = [w EXCEPT ![HI] = hi, ![LO] = lo]
  BY DEF WBReg, AluR, AluI
<1>10. ResultOn(y, ad, m, pc) = [ad EXCEPT ![LO] = lo, ![HI] = hi]
  BY <1>2, <1>3 DEF ResultOn, Branches
<1>11. Arch([w EXCEPT ![HI] = hi, ![LO] = lo]) = [ad EXCEPT ![LO] = lo, ![HI] = hi]
  <2>1. w \in RegFile /\ d \in RegFile /\ \A r \in ArchReg : w[r] = d[r]
    BY DEF Finds
  <2>2. HI # LO /\ {HI, LO} \subseteq ArchReg
    BY ArchIndices
  <2> QED
    BY <1>1, <2>1, <2>2 DEF Arch, ArchReg, RegFile
<1> QED
  BY <1>1, <1>8, <1>9, <1>10, <1>11

(* Jumps that do not link, stores, breaks and words that are no instruction   *)
(* leave the registers alone.                                                 *)
LEMMA ExecutedPlain ==
  ASSUME NEW y \in AnyIns, y.op \in Branches \cup {"SW", "J", "JR", "BREAK", "NOP", "EMPTY"},
         NEW f, NEW w \in RegFile, NEW d \in RegFile, \A r \in ArchReg : w[r] = d[r], NEW b, NEW m, NEW pc
  PROVE  Arch(Leaves(y, f, w, b, m)) = Arch(d) /\ ResultOn(y, Arch(d), m, pc) = Arch(d)
<1>1. PICK e : e = EXBlock(y, f, b)
  OBVIOUS
<1>2. PICK g : g = MEMReg(y, w, e)
  OBVIOUS
<1>3. \A v : \A r \in ArchReg : [w EXCEPT ![PC] = v][r] = w[r]
  BY DEF ArchReg, RegFile
<1>4. \A r \in ArchReg : g[r] = w[r]
  BY <1>2, <1>3 DEF MEMReg
<1>5. WBReg(y, g, MEMBlock(y, m, e)) = g
  BY DEF WBReg, AluR, AluI, Branches
<1>6. Arch(Leaves(y, f, w, b, m)) = Arch(g)
  BY <1>1, <1>2, <1>5 DEF Leaves
<1>7. Arch(g) = Arch(d)
  BY <1>4 DEF Arch
<1>8. ResultOn(y, Arch(d), m, pc) = Arch(d)
  BY DEF ResultOn, Branches
<1> QED
  BY <1>6, <1>7, <1>8

(* JAL and JALR, whose link register holds the address after the delay slot   *)
(* since EX.                                                                  *)
LEMMA ExecutedLink ==
  ASSUME NEW y \in AnyIns, Links(y), LinkReg(y) # 0, NEW f, NEW w \in RegFile, NEW d \in RegFile,
         NEW m, NEW pc, \A r \in ArchReg \ {LinkReg(y)} : w[r] = d[r],
         w[LinkReg(y)] = Wrap(pc + 2), NEW b
  PROVE  Arch(Leaves(y, f, w, b, m)) = ResultOn(y, Arch(d), m, pc)
<1>1. PICK e : e = EXBlock(y, f, b)
  OBVIOUS
<1>2. PICK g : g = MEMReg(y, w, e)
  OBVIOUS
<1>3. PICK q : q = LinkReg(y)
  OBVIOUS
<1>4. q \in ArchReg
  BY <1>3, ArchIndices, Operands DEF LinkReg
<1>5. \A v : \A r \in ArchReg : [w EXCEPT ![PC] = v][r] = w[r]
  BY DEF ArchReg, RegFile
<1>6. \A r \in ArchReg : g[r] = w[r]
  BY <1>2, <1>5 DEF MEMReg
<1>7. WBReg(y, g, MEMBlock(y, m, e)) = g
  BY DEF Links, WBReg, AluR, AluI
<1>8. Arch(Leaves(y, f, w, b, m)) = Arch(g)
  BY <1>1, <1>2, <1>7 DEF Leaves
<1>9. PICK v : v = Wrap(pc + 2)
  OBVIOUS
<1>10. ResultOn(y, Arch(d), m, pc) = [Arch(d) EXCEPT ![q] = v]
  BY <1>3, <1>9 DEF Links, LinkReg, ResultOn, WriteReg, Branches
<1>11. Arch(g) = [Arch(d) EXCEPT ![q] = v]
  BY <1>3, <1>4, <1>6, <1>9 DEF Arch
<1> QED
  BY <1>8, <1>10, <1>11

(* A store writes in MEM what Isa stores. *)
LEMMA ExecutedStore ==
  ASSUME NEW y \in AnyIns, NEW f, NEW w, NEW d, y.op = "SW" => Finds(y, f, w, d), NEW b \in Block, NEW m
  PROVE  MEMMemory(y, w, m, EXBlock(y, f, b)) = StoredOn(y, Arch(d), m)
<1>1. CASE y.op # "SW"
  BY <1>1 DEF MEMMemory, StoredOn
<1>2. CASE y.op = "SW"
  <2>1. y.rs \in ArchReg /\ y.rt \in ArchReg /\ y.rs \in ReadedReg(y) \cup {0}
    BY <1>2, Operands, ArchIndices DEF IType
  <2>2. f[y.rs] = Arch(d)[y.rs] /\ w[y.rt] = Arch(d)[y.rt]
    BY <1>2, <2>1 DEF Finds, Arch
  <2>3. PICK a : a = Wrap(f[y.rs] + y.imm)
    OBVIOUS
  <2>4. EXTmp(y, f, b) = a
    BY <1>2, <2>3 DEF EXTmp, Branches
  <2>5. EXBlock(y, f, b).tmp = a
    BY <2>4, BlockFields
  <2> QED
    BY <1>2, <2>2, <2>3, <2>5 DEF MEMMemory, StoredOn
<1> QED
  BY <1>1, <1>2

LEMMA Executed ==
  ASSUME NEW y \in AnyIns, ~Links(y), NEW f, NEW w, NEW d, Finds(y, f, w, d),
         NEW b \in Block, y.op # "MULT" => b.tmp2 = 0, NEW m, NEW pc
  PROVE  Arch(Leaves(y, f, w, b, m)) = ResultOn(y, Arch(d), m, pc)
<1>1. CASE y.op \in AluR \cup AluI
  BY <1>1, ExecutedAlu
<1>2. CASE y.op \in {"LW", "SEB", "MFHI", "MFLO", "SYSCALL"}
  BY <1>2, ExecutedMove
<1>3. CASE y.op = "MULT"
  BY <1>3, ExecutedMult
<1>4. CASE y.op \in Branches \cup {"SW", "J", "JR", "BREAK", "NOP", "EMPTY"}
  BY <1>4, ExecutedPlain DEF Finds
<1> QED
  BY <1>1, <1>2, <1>3, <1>4 DEF AnyIns, RType, IType, JType, Links

-----------------------------------------------------------------------------
(* What the blocks of a clean program hold.                                   *)

(* a comes right after a jump or a branch. *)
AfterControl(a) == a \in Val /\ a - 1 \in Text /\ prog[a - 1].op \in Control

(* A flushed fetch has a delay slot before it and a target behind it.         *)
Slots ==
  /\ vpipeline.ID.at = Bubble => AfterControl(vpipeline.EX.at) /\ NextFetch \notin TooFar
  /\ vpipeline.EX.at = Bubble => AfterControl(vpipeline.MEM.at) /\ vpipeline.ID.at \notin TooFar
  /\ vpipeline.EX.at = Empty => vpipeline.MEM.at = Empty

(* Behind an exit in WB come the next two words, or a stall and the next one. *)
ExitLast ==
  ExitInWB => /\ vpipeline.MEM.at \in {Bubble, vpipeline.WB.at + 1}
              /\ vpipeline.EX.at \in {vpipeline.WB.at + 1, vpipeline.WB.at + 2}

(* tmp2 is clear until MULT or a load sets it. *)
Fresh ==
  /\ vpipeline.ID.at \in Val => vpipeline.ID.tmp2 = 0
  /\ vpipeline.EX.at \in Val /\ InsOf(vpipeline.EX).op # "MULT" => vpipeline.EX.tmp2 = 0
  /\ InsOf(vpipeline.MEM).op = "LW" => vpipeline.MEM.tmp2 = 0

InsInv == Clean(prog) /\ (~OutOfText(reg_mips[PC]) => Slots /\ ExitLast /\ Fresh)

ExIns == InsOf(vpipeline.EX)
Lively == TypeOK /\ NoWrongPath /\ Trail /\ InsInv /\ ~OutOfText(reg_mips[PC])

LEMMA InsOfCases ==
  ASSUME NEW b
  PROVE  /\ b.at \in Text => InsOf(b) = prog[b.at]
         /\ b.at = Bubble => InsOf(b) = NopIns
         /\ b.at \notin Text /\ b.at # Bubble => InsOf(b) = NoIns
  BY MarkersApart DEF InsOf

LEMMA NopOps ==
  /\ NopIns.op = "NOP" /\ NoIns.op = "EMPTY"
  /\ \A i \in {NopIns, NoIns} : i.op \in {"NOP", "EMPTY"} /\ i.rd = 0
  /\ \A i \in {NopIns, NoIns} : WritedReg(i) = {} /\ ReadedReg(i) = {} /\ Dest(i) = {}
<1>1. \A i \in {NopIns, NoIns} : i.op \in {"NOP", "EMPTY"} /\ i.rs = 0 /\ i.rt = 0 /\ i.rd = 0
  BY DEF NopIns, NoIns
<1>2. \A i \in {NopIns, NoIns} : WritedReg(i) = {} /\ ReadedReg(i) = {}
  BY <1>1 DEF WritedReg, ReadedReg, RType, IType, AluR, AluI, Branches
<1> QED
  BY <1>1, <1>2 DEF Dest, NopIns, NoIns

LEMMA NopHarmless ==
  ASSUME NEW x, NEW y, x \in {NopIns, NoIns} \/ y \in {NopIns, NoIns}
  PROVE  ~PairHazard(x, y)
<1>1. CASE x \in {NopIns, NoIns}
  <2>1. x.op \in {"NOP", "EMPTY"} /\ Dest(x) = {}
    BY <1>1, NopOps
  <2> QED
    BY <2>1 DEF PairHazard, Control, Branches, Jumps, Quits
<1>2. CASE y \in {NopIns, NoIns}
  <2>1. y.op \in {"NOP", "EMPTY"} /\ ReadedReg(y) = {}
    BY <1>2, NopOps
  <2> QED
    BY <2>1 DEF PairHazard, Control, Branches, Jumps, Quits, Links, MayTrap
<1> QED
  BY <1>1, <1>2

(* The instructions in MEM and in EX are compatible. *)
LEMMA Compatible == ASSUME Lively PROVE ~PairHazard(MemIns, ExIns)
<1>1. CASE vpipeline.MEM.at \in Text /\ vpipeline.EX.at \in Text
  <2>1. vpipeline.MEM.at = vpipeline.EX.at - 1
    BY <1>1, MarkersApart, TextIsVal DEF Lively, Trail, Trails
  <2>2. vpipeline.MEM.at + 1 = vpipeline.EX.at
    BY <1>1, <2>1, TextIsVal, SmallValues
  <2>3. ~PairHazard(prog[vpipeline.MEM.at], prog[vpipeline.MEM.at + 1])
    BY <1>1, <2>2 DEF Lively, InsInv, Clean
  <2> QED
    BY <1>1, <2>2, <2>3, InsOfCases DEF MemIns, ExIns
<1>2. CASE ~(vpipeline.MEM.at \in Text /\ vpipeline.EX.at \in Text)
  <2>1. MemIns \in {NopIns, NoIns} \/ ExIns \in {NopIns, NoIns}
    BY <1>2, InsOfCases DEF MemIns, ExIns
  <2> QED
    BY <2>1, NopHarmless
<1> QED
  BY <1>1, <1>2

(* Where the blocks are. *)
LEMMA Positions ==
  ASSUME Lively
  PROVE  /\ vpipeline.ID.at \in Val \cup {Bubble, Empty} /\ vpipeline.EX.at \in Val \cup {Bubble, Empty}
         /\ vpipeline.ID.at = Bubble => vpipeline.EX.at \in Val /\ ExIns.op \notin Control
                                        /\ ~Quits(ExIns) /\ AfterControl(vpipeline.EX.at)
         /\ vpipeline.EX.at = Bubble => vpipeline.ID.at \in Val
         /\ vpipeline.ID.at \in Val => NextFetch = reg_mips[PC] /\ NextFetch = vpipeline.ID.at + 1
         /\ vpipeline.ID.at \in Val /\ vpipeline.EX.at \in Val => vpipeline.EX.at + 1 = vpipeline.ID.at
         /\ vpipeline.ID.at = Empty => vpipeline.EX.at = Empty /\ NextFetch = TextStart
         /\ NextFetch \in Val /\ RegAfterEX[PC] = NextFetch
<1>1. /\ vpipeline.ID.at \in Val \cup {Bubble, Empty} /\ vpipeline.EX.at \in Val \cup {Bubble, Empty}
      /\ vpipeline.ID \in Block /\ vpipeline.EX \in Block
  BY DEF Lively, TypeOK, Block
<1>2. Trails(vpipeline, reg_mips[PC]) /\ Slots /\ Clean(prog) /\ reg_mips[PC] \in Int
  BY SmallValues, Indices DEF Lively, Trail, InsInv, TypeOK
<1>3. /\ NextFetch = RegAfterEX[PC] /\ NextFetch \in Val
      /\ NextFetch # reg_mips[PC] => vpipeline.ID.at = Bubble
  BY FetchPC DEF Lively, NextFetch
<1>4. ASSUME vpipeline.ID.at = Bubble
      PROVE  vpipeline.EX.at \in Val /\ ExIns.op \notin Control /\ ~Quits(ExIns)
  <2>1. AfterControl(vpipeline.EX.at)
    BY <1>2, <1>4 DEF Slots
  <2>2. vpipeline.EX.at \in Val /\ vpipeline.EX.at - 1 \in Text
    BY <2>1 DEF AfterControl
  <2>3. CASE vpipeline.EX.at \in Text
    <3>1. ExIns = prog[vpipeline.EX.at]
      BY <2>3, InsOfCases DEF ExIns
    <3>2. vpipeline.EX.at - 1 + 1 = vpipeline.EX.at
      BY <2>2, SmallValues
    <3>3. ~PairHazard(prog[vpipeline.EX.at - 1], prog[vpipeline.EX.at])
      BY <1>2, <2>2, <2>3, <3>2 DEF Clean
    <3> QED
      BY <2>1, <2>2, <3>1, <3>3 DEF PairHazard, AfterControl
  <2>4. CASE vpipeline.EX.at \notin Text
    <3>1. ExIns = NoIns
      BY <2>2, <2>4, InsOfCases, MarkersApart DEF ExIns
    <3> QED
      BY <2>2, <3>1, NopOps DEF Control, Branches, Jumps, Quits
  <2> QED
    BY <2>3, <2>4
<1>5. ASSUME vpipeline.EX.at = Bubble PROVE vpipeline.ID.at \in Val
  BY <1>1, <1>2, <1>4, <1>5, MarkersApart DEF Trails
<1>6. ASSUME vpipeline.ID.at \in Val PROVE NextFetch = reg_mips[PC] /\ NextFetch = vpipeline.ID.at + 1
  BY <1>2, <1>3, <1>6, MarkersApart DEF Trails
<1>7. ASSUME vpipeline.ID.at \in Val, vpipeline.EX.at \in Val PROVE vpipeline.EX.at + 1 = vpipeline.ID.at
  BY <1>2, <1>7, MarkersApart, SmallValues DEF Trails
<1>8. ASSUME vpipeline.ID.at = Empty PROVE vpipeline.EX.at = Empty /\ NextFetch = TextStart
  BY <1>2, <1>3, <1>8, MarkersApart DEF Trails
<1>9. vpipeline.ID.at = Bubble => AfterControl(vpipeline.EX.at)
  BY <1>2 DEF Slots
<1> QED
  BY <1>1, <1>3, <1>4, <1>5, <1>6, <1>7, <1>8, <1>9

(* Behind an exit in MEM come the next two words. *)
LEMMA ExitFollowed ==
  ASSUME Lively, ExitInMEM
  PROVE  /\ vpipeline.MEM.at \in Text /\ vpipeline.EX.at = vpipeline.MEM.at + 1
         /\ vpipeline.ID.at = vpipeline.MEM.at + 2 /\ NextFetch = vpipeline.MEM.at + 3
         /\ ~Links(ExIns) /\ MemIns.op = "SYSCALL"
<1>1. MemIns.op = "SYSCALL"
  BY DEF ExitInMEM, MemIns, Quits
<1>2. vpipeline.MEM.at \in Text /\ MemIns = prog[vpipeline.MEM.at]
  BY <1>1, InsOfCases, NopOps DEF MemIns
<1>3. vpipeline.MEM.at \in Int
  BY <1>2, TextIsVal, SmallValues
<1>4. Trails(vpipeline, reg_mips[PC]) /\ Slots
  BY DEF Lively, Trail, InsInv
<1>5. vpipeline.EX.at # Empty
  BY <1>2, <1>4, MarkersApart DEF Slots
<1>6. \A a : AfterControl(a) => a # vpipeline.MEM.at + 1
  <2> SUFFICES ASSUME NEW a, AfterControl(a), a = vpipeline.MEM.at + 1 PROVE FALSE
    OBVIOUS
  <2>1. a - 1 = vpipeline.MEM.at
    BY <1>3
  <2>2. prog[a - 1].op \in Control
    BY DEF AfterControl
  <2>3. MemIns.op \in Control
    BY <1>2, <2>1, <2>2, Zenon
  <2> QED
    BY <1>1, <2>3 DEF Control, Branches, Jumps
<1>7. vpipeline.EX.at # Bubble
  <2> SUFFICES ASSUME vpipeline.EX.at = Bubble PROVE FALSE
    OBVIOUS
  <2>1. AfterControl(vpipeline.MEM.at)
    BY <1>4 DEF Slots
  <2>2. vpipeline.MEM.at - 1 \in Text /\ prog[vpipeline.MEM.at - 1].op \in Control
    BY <2>1 DEF AfterControl
  <2>3. ~PairHazard(prog[vpipeline.MEM.at - 1], prog[vpipeline.MEM.at])
    <3>1. vpipeline.MEM.at - 1 + 1 = vpipeline.MEM.at
      BY <1>3
    <3> QED
      BY <1>2, <2>2, <3>1 DEF Lively, InsInv, Clean
  <2>4. Quits(prog[vpipeline.MEM.at])
    BY <1>2 DEF ExitInMEM, MemIns
  <2> QED
    BY <2>2, <2>3, <2>4 DEF PairHazard
<1>8. vpipeline.EX.at \in Val /\ vpipeline.EX.at = vpipeline.MEM.at + 1
  <2>1. vpipeline.EX.at \in Val
    BY <1>5, <1>7, Positions
  <2>2. vpipeline.MEM.at = vpipeline.EX.at - 1
    BY <1>2, <1>4, <2>1, MarkersApart DEF Trails
  <2> QED
    BY <2>1, <2>2, SmallValues
<1>9. vpipeline.ID.at \in Val
  BY <1>5, <1>6, <1>8, Positions
<1>10. vpipeline.ID.at = vpipeline.MEM.at + 2 /\ NextFetch = vpipeline.MEM.at + 3
  BY <1>3, <1>8, <1>9, Positions
<1>11. ~Links(ExIns)
  BY Compatible DEF PairHazard, ExitInMEM, MemIns
<1> QED
  BY <1>1, <1>2, <1>8, <1>10, <1>11

-----------------------------------------------------------------------------
(* A cycle, block by block. *)

LEMMA Moved ==
  ASSUME TypeOK, Advance
  PROVE  /\ vpipeline'.WB = MEMBlock(MemIns, memory, vpipeline.MEM)
         /\ Stall => /\ vpipeline'.MEM.at = Bubble
                     /\ vpipeline'.EX = EXBlock(ExIns, RegAfterMEM, vpipeline.EX)
         /\ ~Stall => /\ vpipeline'.MEM = EXBlock(ExIns, RegAfterMEM, vpipeline.EX)
                      /\ vpipeline'.EX = [vpipeline.ID EXCEPT !.tmp = 0]
         /\ ~OutOfText(NextPC) /\ Stall => vpipeline'.ID = vpipeline.ID
         /\ ~OutOfText(NextPC) /\ ~Stall =>
              vpipeline'.ID = [at |-> IF Flush THEN Bubble ELSE RegAfterEX[PC], tmp |-> 0, tmp2 |-> 0]
<1> DEFINE mem == MEMBlock(MemIns, memory, vpipeline.MEM)
           ex == EXBlock(ExIns, RegAfterMEM, vpipeline.EX)
           fetched == [at |-> IF Flush THEN Bubble ELSE RegAfterEX[PC], tmp |-> 0, tmp2 |-> 0]
<1>1. Shifted \in [ID : Block, EX : Block, MEM : Block, WB : Block]
  BY StageTypes
<1>2. /\ vpipeline'.WB = Shifted.WB /\ vpipeline'.MEM = Shifted.MEM /\ vpipeline'.EX = Shifted.EX
      /\ ~OutOfText(NextPC) => vpipeline' = Shifted
  BY <1>1 DEF Advance
<1>3. Shifted = IF Stall
                THEN [WB |-> mem, MEM |-> [mem EXCEPT !.at = Bubble, !.tmp = 0],
                      EX |-> ex, ID |-> vpipeline.ID]
                ELSE [WB |-> mem, MEM |-> ex,
                      EX |-> [vpipeline.ID EXCEPT !.tmp = 0], ID |-> fetched]
  BY DEF Shifted, MemIns, ExIns
<1>4. mem \in Block
  BY MEMBlockType, InsOfType DEF MemIns, TypeOK, Mem
<1>5. [mem EXCEPT !.at = Bubble, !.tmp = 0].at = Bubble
  BY <1>4 DEF Block
<1> HIDE DEF mem, ex, fetched
<1>6. Shifted.WB = mem /\ (Stall => Shifted.MEM.at = Bubble /\ Shifted.EX = ex /\ Shifted.ID = vpipeline.ID)
  BY <1>3, <1>5
<1>7. ~Stall => Shifted.MEM = ex /\ Shifted.EX = [vpipeline.ID EXCEPT !.tmp = 0] /\ Shifted.ID = fetched
  BY <1>3
<1> QED
  BY <1>2, <1>6, <1>7 DEF mem, ex, fetched

(* The same, instruction by instruction. *)
LEMMA MovedIns ==
  ASSUME TypeOK, Advance
  PROVE  /\ vpipeline'.WB.at = vpipeline.MEM.at /\ InsOf(vpipeline.WB)' = MemIns
         /\ Stall => vpipeline'.EX.at = vpipeline.EX.at /\ ExIns' = ExIns /\ MemIns' = NopIns
         /\ ~Stall => /\ vpipeline'.MEM.at = vpipeline.EX.at /\ MemIns' = ExIns
                      /\ vpipeline'.EX.at = vpipeline.ID.at /\ vpipeline'.EX.tmp2 = vpipeline.ID.tmp2
         /\ prog' = prog
         /\ memory' = DrainedMemory
         /\ reg_mips' = [RegAfterEX EXCEPT ![PC] = IF Quit THEN TextEnd + 4 ELSE NextPC]
<1>1. vpipeline.ID \in Block /\ vpipeline.EX \in Block /\ vpipeline.MEM \in Block
  BY DEF TypeOK
<1>2. vpipeline'.WB.at = vpipeline.MEM.at
  <2>1. vpipeline'.WB = MEMBlock(MemIns, memory, vpipeline.MEM)
    BY Moved
  <2> QED
    BY <1>1, <2>1 DEF MEMBlock, Block
<1>3. EXBlock(ExIns, RegAfterMEM, vpipeline.EX).at = vpipeline.EX.at
  BY <1>1 DEF EXBlock, Block
<1>4. prog' = prog
  BY DEF Advance
<1>5. InsOf(vpipeline.WB)' = MemIns
  BY <1>2, <1>4 DEF InsOf, MemIns
<1>6. ASSUME Stall PROVE vpipeline'.EX.at = vpipeline.EX.at /\ ExIns' = ExIns /\ MemIns' = NopIns
  <2>1. vpipeline'.EX.at = vpipeline.EX.at
    BY <1>3, <1>6, Moved
  <2>2. ExIns' = ExIns
    BY <1>4, <2>1 DEF InsOf, ExIns
  <2>3. MemIns' = NopIns
    BY <1>6, StallInsertsNop DEF MemIns
  <2> QED
    BY <2>1, <2>2, <2>3
<1>7. ASSUME ~Stall
      PROVE  /\ vpipeline'.MEM.at = vpipeline.EX.at /\ MemIns' = ExIns
             /\ vpipeline'.EX.at = vpipeline.ID.at /\ vpipeline'.EX.tmp2 = vpipeline.ID.tmp2
  <2>1. vpipeline'.MEM.at = vpipeline.EX.at
    BY <1>3, <1>7, Moved
  <2>2. MemIns' = ExIns
    BY <1>4, <2>1 DEF InsOf, ExIns, MemIns
  <2>3. vpipeline'.EX.at = vpipeline.ID.at /\ vpipeline'.EX.tmp2 = vpipeline.ID.tmp2
    BY <1>1, <1>7, Moved DEF Block
  <2> QED
    BY <2>1, <2>2, <2>3
<1> QED
  BY <1>2, <1>4, <1>5, <1>6, <1>7 DEF Advance, DrainedMemory, MemIns

-----------------------------------------------------------------------------
(* The registers from one cycle to the next. *)

LEMMA RegTypes ==
  ASSUME TypeOK
  PROVE  /\ reg_mips \in RegFile /\ RegAfterWB \in RegFile /\ RegAfterMEM \in RegFile
         /\ RegAfterEX \in RegFile /\ DrainedReg \in RegFile
         /\ MemIns \in AnyIns /\ ExIns \in AnyIns /\ InsOf(vpipeline.WB) \in AnyIns
         /\ MEMBlock(MemIns, memory, vpipeline.MEM) \in Block
         /\ vpipeline.EX \in Block /\ vpipeline.MEM \in Block /\ vpipeline.WB \in Block
<1>1. MemIns \in AnyIns /\ ExIns \in AnyIns /\ InsOf(vpipeline.WB) \in AnyIns
  BY InsOfType DEF MemIns, ExIns, TypeOK
<1>2. vpipeline.EX \in Block /\ vpipeline.MEM \in Block /\ vpipeline.WB \in Block
  BY DEF TypeOK
<1>3. RegAfterWB \in RegFile /\ RegAfterMEM \in RegFile /\ RegAfterEX \in RegFile
  BY StageTypes
<1>4. MEMBlock(MemIns, memory, vpipeline.MEM) \in Block
  BY <1>1, <1>2, MEMBlockType DEF TypeOK, Mem
<1>5. DrainedReg \in RegFile
  BY <1>1, <1>3, <1>4, WBRegType DEF DrainedReg
<1> QED
  BY <1>1, <1>2, <1>3, <1>4, <1>5 DEF TypeOK, RegFile

(* MEM changes PC alone, and EX the link register. *)
LEMMA StageRegs ==
  ASSUME TypeOK
  PROVE  /\ \A r \in ArchReg : RegAfterMEM[r] = RegAfterWB[r]
         /\ \A r \in ArchReg : ~(Links(ExIns) /\ r = LinkReg(ExIns)) => RegAfterEX[r] = RegAfterMEM[r]
         /\ Links(ExIns) => RegAfterEX[LinkReg(ExIns)] = RegAfterMEM[PC]
<1>1. \A v : \A r \in ArchReg : [RegAfterWB EXCEPT ![PC] = v][r] = RegAfterWB[r]
  BY RegTypes DEF ArchReg, RegFile
<1>2. \A r \in ArchReg : RegAfterMEM[r] = RegAfterWB[r]
  BY <1>1 DEF RegAfterMEM, MEMReg
<1>3. ExIns \in AnyIns /\ RegAfterMEM \in RegFile
  BY RegTypes
<1>4. CASE Links(ExIns)
  <2>1. LinkReg(ExIns) \in ArchReg
    BY <1>3, ArchIndices, Operands DEF LinkReg
  <2>2. PICK v : v = RegAfterMEM[PC]
    OBVIOUS
  <2>3. RegAfterEX = [RegAfterMEM EXCEPT ![LinkReg(ExIns)] = v]
    BY <1>4, <2>2 DEF Links, LinkReg, RegAfterEX, EXReg, ExIns
  <2>4. LinkReg(ExIns) \in RegIdx
    BY <2>1 DEF ArchReg
  <2>5. RegAfterEX[LinkReg(ExIns)] = v
    BY <1>3, <2>3, <2>4 DEF RegFile
  <2>6. \A r \in ArchReg : r # LinkReg(ExIns) => RegAfterEX[r] = RegAfterMEM[r]
    BY <1>3, <2>3 DEF ArchReg, RegFile
  <2> QED
    BY <1>2, <1>4, <2>2, <2>5, <2>6
<1>5. CASE ~Links(ExIns)
  BY <1>2, <1>5 DEF Links, RegAfterEX, EXReg, ExIns
<1> QED
  BY <1>4, <1>5

(* What the next MEM stage finds is what the instructions up to MEM leave,    *)
(* but for the register EX links.                                             *)
LEMMA NextRegs ==
  ASSUME Lively, Advance
  PROVE  /\ RegAfterWB' \in RegFile
         /\ \A r \in ArchReg : ~(Links(ExIns) /\ r = LinkReg(ExIns)) => RegAfterWB'[r] = DrainedReg[r]
         /\ Links(ExIns) => RegAfterWB'[LinkReg(ExIns)] = NextFetch
<1>1. TypeOK /\ reg_mips' \in RegFile /\ ~PairHazard(MemIns, ExIns)
  BY AdvanceTypeOK, Compatible DEF Lively, TypeOK, RegFile
<1>2. PICK b : b = MEMBlock(MemIns, memory, vpipeline.MEM)
  OBVIOUS
<1>3. b \in Block /\ RegAfterMEM \in RegFile /\ RegAfterEX \in RegFile /\ MemIns \in AnyIns /\ ExIns \in AnyIns
  BY <1>1, <1>2, RegTypes
<1>4. RegAfterWB' = WBReg(MemIns, reg_mips', b)
  BY <1>1, <1>2, Moved, MovedIns DEF RegAfterWB
<1>5. DrainedReg = WBReg(MemIns, RegAfterMEM, b)
  BY <1>2 DEF DrainedReg
<1>6. RegAfterWB' \in RegFile
  BY <1>1, <1>3, <1>4, WBRegType
<1>7. \A r \in ArchReg : reg_mips'[r] = RegAfterEX[r]
  <2>1. PICK v : v = IF Quit THEN TextEnd + 4 ELSE NextPC
    OBVIOUS
  <2>2. reg_mips' = [RegAfterEX EXCEPT ![PC] = v]
    BY <1>1, <2>1, MovedIns
  <2> QED
    BY <1>3, <2>2 DEF ArchReg, RegFile
<1>8. CASE Links(ExIns)
  <2>1. PICK q : q = LinkReg(ExIns)
    OBVIOUS
  <2>2. q \in Reg /\ q \in ArchReg
    BY <1>3, <2>1, ArchIndices, Operands DEF LinkReg
  <2>3. q \notin Dest(MemIns) /\ ~(MemIns.op = "SEB" /\ MemIns.rt = q)
    BY <1>1, <1>8, <2>1 DEF PairHazard
  <2> PICK S : S = {PC, q}
    OBVIOUS
  <2>4. \A r \in RegIdx \ S : reg_mips'[r] = RegAfterMEM[r]
    BY <1>1, <1>7, <1>8, <2>1, StageRegs DEF ArchReg
  <2>5. MemIns.op = "SEB" => MemIns.rt \notin S
    BY <1>3, <2>3, Operands, Indices
  <2>6. HI \notin S /\ LO \notin S
    BY <2>2, ArchIndices DEF HI, LO, PC
  <2>7. \A r \in RegIdx \ S : WBReg(MemIns, reg_mips', b)[r] = WBReg(MemIns, RegAfterMEM, b)[r]
    BY <1>1, <1>3, <2>4, <2>5, <2>6, WBSame
  <2>8. WBReg(MemIns, reg_mips', b)[q] = reg_mips'[q]
    BY <1>1, <1>3, <2>2, <2>3, NotWritten
  <2>9. reg_mips'[q] = NextFetch
    BY <1>1, <1>7, <1>8, <2>1, <2>2, StageRegs DEF NextFetch
  <2>10. \A r \in ArchReg : r # q => RegAfterWB'[r] = DrainedReg[r]
    BY <1>4, <1>5, <2>7 DEF ArchReg
  <2>11. RegAfterWB'[q] = NextFetch
    BY <1>4, <2>8, <2>9
  <2> QED
    BY <1>6, <1>8, <2>1, <2>10, <2>11
<1>9. CASE ~Links(ExIns)
  <2> PICK S : S = {PC}
    OBVIOUS
  <2>1. \A r \in RegIdx \ S : reg_mips'[r] = RegAfterMEM[r]
    BY <1>1, <1>7, <1>9, StageRegs DEF ArchReg
  <2>2. MemIns.op = "SEB" => MemIns.rt \notin S
    BY <1>3, Operands, Indices
  <2>3. HI \notin S /\ LO \notin S
    BY DEF HI, LO, PC
  <2>4. \A r \in RegIdx \ S : WBReg(MemIns, reg_mips', b)[r] = WBReg(MemIns, RegAfterMEM, b)[r]
    BY <1>1, <1>3, <2>1, <2>2, <2>3, WBSame
  <2> QED
    BY <1>4, <1>5, <1>6, <1>9, <2>4 DEF ArchReg
<1> QED
  BY <1>8, <1>9

(* An instruction that is not held back has found what those before it leave. *)
LEMMA NextFinds ==
  ASSUME Lively, Advance, ~Stall
  PROVE  /\ ~Links(ExIns) => Finds(ExIns, RegAfterMEM, RegAfterWB', DrainedReg)
         /\ \A r \in ReadedReg(ExIns) \cup {0} : RegAfterMEM[r] = DrainedReg[r]
<1>1. TypeOK /\ ~PairHazard(MemIns, ExIns)
  BY Compatible DEF Lively
<1>2. /\ RegAfterMEM \in RegFile /\ DrainedReg \in RegFile /\ MemIns \in AnyIns /\ ExIns \in AnyIns
  BY <1>1, RegTypes
<1>3. WritedReg(MemIns) \cap ReadedReg(ExIns) = {}
  BY DEF Stall, MemIns, ExIns
<1>4. Dest(MemIns) \cap (ReadedReg(ExIns) \cup {0}) = {}
  BY <1>1, <1>2, <1>3, OperandsReady
<1>5. ReadedReg(ExIns) \cup {0} \subseteq Reg /\ WritedReg(ExIns) \subseteq Reg
  BY <1>2, Operands, ArchIndices DEF ReadedReg, WritedReg
<1>6. \A r \in Reg \ Dest(MemIns) : RegAfterMEM[r] = DrainedReg[r]
  BY <1>2, NotWritten DEF DrainedReg
<1>7. \A r \in ReadedReg(ExIns) \cup {0} : RegAfterMEM[r] = DrainedReg[r]
  BY <1>4, <1>5, <1>6
<1>8. MayTrap(ExIns) => Dest(MemIns) \cap WritedReg(ExIns) = {}
  BY <1>1, <1>4 DEF PairHazard
<1>9. MayTrap(ExIns) => \A r \in WritedReg(ExIns) : RegAfterMEM[r] = DrainedReg[r]
  BY <1>5, <1>6, <1>8
<1> QED
  BY <1>2, <1>7, <1>9, NextRegs DEF Finds

-----------------------------------------------------------------------------
(* Where a jump or a taken branch leads. *)

LEMMA WrapSame == ASSUME NEW x \in Val PROVE Wrap(x) = x
<1> DEFINE n == 2 * HalfRange
<1>1. n \in Nat \ {0} /\ x + HalfRange \in 0 .. n - 1 /\ HalfRange \in Nat /\ x \in Int
  BY MipsAssumption DEF Val
<1>2. (x + HalfRange) % n = x + HalfRange
  BY <1>1, ModSame
<1> QED
  BY <1>1, <1>2 DEF Wrap

LEMMA WrapBack ==
  ASSUME NEW x \in Int, -2 * HalfRange <= x, x < 2 * HalfRange
  PROVE  Wrap(Wrap(x) - 1) = Wrap(x - 1)
<1> DEFINE n == 2 * HalfRange
           y == x + HalfRange
           r == y % n
<1>1. HalfRange \in Nat /\ n \in Nat \ {0} /\ HalfRange > 2 /\ y \in Int /\ -n < y /\ y < 2 * n
  BY MipsAssumption
<1>2. Wrap(x) = r - HalfRange /\ Wrap(x - 1) = ((y - 1) % n) - HalfRange
  BY <1>1 DEF Wrap
<1>3. r \in Int
  BY <1>1, ModRange
<1>4. Wrap(Wrap(x) - 1) = ((r - 1) % n) - HalfRange
  <2>1. Wrap(x) - 1 + HalfRange = r - 1
    BY <1>1, <1>2, <1>3
  <2> QED
    BY <2>1 DEF Wrap
<1>5. (r - 1) % n = (y - 1) % n
  <2>1. CASE y \in 0 .. n - 1
    BY <1>1, <2>1, ModSame
  <2>2. CASE y = n
    <3>1. r = 0 /\ (n - 1) % n = n - 1
      BY <1>1, <2>2, ModSame, ModAbove
    <3>2. (-1) % n = n - 1
      BY <1>1, ModBelow
    <3>3. r - 1 = -1 /\ y - 1 = n - 1
      BY <2>2, <3>1
    <3> QED
      BY <3>1, <3>2, <3>3
  <2>3. CASE y \in n + 1 .. 2 * n - 1
    <3>1. r = y - n
      BY <1>1, <2>3, ModAbove
    <3>2. (y - 1) % n = y - 1 - n
      BY <1>1, <2>3, ModAbove
    <3>3. (y - n - 1) % n = y - n - 1
      BY <1>1, <2>3, ModSame
    <3> QED
      BY <1>1, <3>1, <3>2, <3>3
  <2>4. CASE y \in -n + 1 .. -1
    <3>1. r = y + n
      BY <1>1, <2>4, ModBelow
    <3>2. (y - 1) % n = y - 1 + n
      BY <1>1, <2>4, ModBelow
    <3>3. (y + n - 1) % n = y + n - 1
      BY <1>1, <2>4, ModSame
    <3> QED
      BY <1>1, <3>1, <3>2, <3>3
  <2> QED
    BY <1>1, <2>1, <2>2, <2>3, <2>4
<1> QED
  BY <1>2, <1>4, <1>5

(* A branch that wraps round does not lead near the end of a text. *)
LEMMA WrapFar ==
  ASSUME NEW a \in Text, NEW v \in Val, Wrap(a + 1 + v) \in TooFar
  PROVE  a + 1 + v \in TooFar
<1> DEFINE n == 2 * HalfRange
           x == a + 1 + v
<1>1. /\ HalfRange \in Nat /\ n \in Nat \ {0} /\ a \in Nat /\ a < LibcEnd /\ LibcEnd + 4 < HalfRange
      /\ LibcEnd \in Nat /\ v \in Int /\ -HalfRange <= v /\ v < HalfRange /\ TextEnd \in Nat
  BY MipsAssumption DEF Text, Val
<1>2. CASE x < HalfRange
  <2>1. x \in Val
    BY <1>1, <1>2 DEF Val
  <2> QED
    BY <2>1, WrapSame
<1>3. CASE x >= HalfRange
  <2>1. PICK y : y = x + HalfRange
    OBVIOUS
  <2>2. y \in n .. 2 * n - 1 /\ x \in Int
    BY <1>1, <1>3, <2>1
  <2>3. y % n = y - n
    BY <1>1, <2>2, ModAbove
  <2>4. Wrap(x) = (y % n) - HalfRange
    BY <2>1 DEF Wrap
  <2>5. Wrap(x) = x - n /\ x - n < 0
    BY <1>1, <2>1, <2>2, <2>3, <2>4
  <2> QED
    BY <1>1, <2>5 DEF TooFar
<1> QED
  BY <1>1, <1>2, <1>3

(* The address that a jump or a taken branch in EX gives to the fetch of the  *)
(* cycle after.                                                               *)
LEMMA Redirected ==
  ASSUME Lively, Advance, ~Stall, Flush
  PROVE  /\ vpipeline.EX.at \in Text /\ ExIns = prog[vpipeline.EX.at] /\ ExIns.op \in Control
         /\ vpipeline.ID.at = vpipeline.EX.at + 1 /\ vpipeline.ID.at \in Val
         /\ ExIns.op \in {"J", "JAL"} => NextFetch' = ExIns.imm
         /\ ExIns.op \in {"JR", "JALR"} => NextFetch' = RegAfterWB'[ExIns.rs]
         /\ ExIns.op \in Branches => /\ Taken(ExIns, RegAfterMEM)
                                     /\ NextFetch' = Wrap(vpipeline.EX.at + 1 + ExIns.imm)
<1>1. ExIns.op \in Control /\ (ExIns.op \in Branches => Taken(ExIns, RegAfterMEM))
  BY DEF Flush, Flushes, Taken, Control, Branches, Jumps, ExIns
<1>2. vpipeline.EX.at \in Text /\ ExIns = prog[vpipeline.EX.at]
  <2>1. ExIns \notin {NopIns, NoIns}
    BY <1>1, NopOps DEF Control, Branches, Jumps
  <2> QED
    BY <2>1, InsOfCases DEF ExIns
<1>3. vpipeline.EX.at \in Val /\ vpipeline.EX.at \in Int
  BY <1>2, TextIsVal, SmallValues
<1>4. vpipeline.ID.at \in Val
  BY <1>1, <1>3, MarkersApart, Positions
<1>5. vpipeline.ID.at = vpipeline.EX.at + 1 /\ NextFetch = vpipeline.EX.at + 2
  BY <1>3, <1>4, Positions
<1>6. MemIns' = ExIns /\ vpipeline'.MEM = EXBlock(ExIns, RegAfterMEM, vpipeline.EX)
  BY Moved, MovedIns DEF Lively
<1>7. RegAfterMEM' = MEMReg(ExIns, RegAfterWB', EXBlock(ExIns, RegAfterMEM, vpipeline.EX))
  BY <1>6 DEF RegAfterMEM, MemIns
<1>8. RegAfterWB' \in RegFile /\ PC \in RegIdx
  BY NextRegs, Indices
<1>9. CASE ExIns.op \in {"J", "JAL"}
  BY <1>1, <1>2, <1>4, <1>5, <1>7, <1>8, <1>9 DEF MEMReg, NextFetch, Branches, RegFile
<1>10. CASE ExIns.op \in {"JR", "JALR"}
  BY <1>1, <1>2, <1>4, <1>5, <1>7, <1>8, <1>10 DEF MEMReg, NextFetch, Branches, RegFile
<1>11. CASE ExIns.op \in Branches
  <2>1. NextFetch' = Wrap(EXBlock(ExIns, RegAfterMEM, vpipeline.EX).tmp - 1)
    BY <1>7, <1>8, <1>11, BranchMEM DEF NextFetch
  <2>2. EXBlock(ExIns, RegAfterMEM, vpipeline.EX).tmp = EXTmp(ExIns, RegAfterMEM, vpipeline.EX)
    BY DEF EXBlock, Lively, TypeOK, Block
  <2>3. EXTmp(ExIns, RegAfterMEM, vpipeline.EX) = Wrap(NextFetch + ExIns.imm)
    BY <1>1, <1>11 DEF EXTmp, BranchTmp, Branches, NextFetch
  <2>4. ExIns.imm \in Val /\ ExIns.imm \in Int /\ NextFetch \in Val
    BY RegTypes, Operands, SmallValues, Positions DEF Lively
  <2>5. PICK x : x = NextFetch + ExIns.imm
    OBVIOUS
  <2>6. x \in Int /\ -2 * HalfRange <= x /\ x < 2 * HalfRange
    BY <2>4, <2>5, MipsAssumption DEF Val
  <2>7. x - 1 = vpipeline.EX.at + 1 + ExIns.imm
    BY <1>3, <1>5, <2>4, <2>5
  <2>8. Wrap(Wrap(x) - 1) = Wrap(x - 1)
    BY <2>6, WrapBack
  <2>9. NextFetch' = Wrap(vpipeline.EX.at + 1 + ExIns.imm)
    BY <2>1, <2>2, <2>3, <2>5, <2>7, <2>8
  <2> QED
    BY <1>1, <1>2, <1>4, <1>5, <1>11, <2>9 DEF Branches
<1> QED
  BY <1>1, <1>9, <1>10, <1>11 DEF Control, Jumps

-----------------------------------------------------------------------------
(* The invariant is kept. *)

LEMMA TooFarIsVal == TooFar \subseteq Val
  BY MipsAssumption DEF TooFar, Val

(* Where the next fetch is, when no jump is in MEM. *)
LEMMA NextPCIs ==
  ASSUME Lively, Advance, ~Quit
  PROVE  /\ reg_mips'[PC] = NextPC
         /\ NextPC = IF Stall THEN NextFetch ELSE Wrap(NextFetch + 1)
         /\ MemIns'.op \notin Control => NextFetch' = NextPC
<1>1. TypeOK /\ TypeOK'
  BY AdvanceTypeOK DEF Lively
<1>2. reg_mips'[PC] = NextPC
  BY <1>1, RegTypes, MovedIns, Indices DEF RegFile
<1>3. NextPC = IF Stall THEN NextFetch ELSE Wrap(NextFetch + 1)
  BY Positions DEF NextPC
<1>4. RegAfterWB'[PC] = NextPC
  <2>1. RegAfterWB' = WBReg(MemIns, reg_mips', vpipeline'.WB)
    BY <1>1, MovedIns DEF RegAfterWB
  <2>2. MemIns \in AnyIns /\ reg_mips' \in RegFile
    BY <1>1, RegTypes DEF TypeOK, RegFile
  <2> QED
    BY <1>2, <2>1, <2>2, WBKeepsPC
<1>5. MemIns'.op \notin Control => RegAfterMEM' = RegAfterWB'
  BY DEF RegAfterMEM, MemIns, MEMReg, Control, Jumps
<1> QED
  BY <1>2, <1>3, <1>4, <1>5 DEF NextFetch

LEMMA AdvanceSlots ==
  ASSUME Lively, Advance, ~OutOfText(NextPC), ~Quit, ReturnsNear'
  PROVE  Slots'
<1>1. TypeOK /\ Slots /\ Clean(prog) /\ TypeOK'
  BY AdvanceTypeOK DEF Lively, InsInv
<1>2. \A a : AfterControl(a)' <=> AfterControl(a)
  BY DEF AfterControl, Advance
<1>3. CASE Stall
  <2>1. ExIns \notin {NopIns, NoIns}
    BY <1>3, NopOps DEF Stall, ExIns
  <2>2. vpipeline.EX.at \in Text
    BY <2>1, InsOfCases DEF ExIns
  <2>3. vpipeline'.ID.at = vpipeline.ID.at /\ vpipeline'.EX.at = vpipeline.EX.at
    BY <1>1, <1>3, Moved, MovedIns
  <2>4. NextFetch' = NextFetch
    <3>1. MemIns' = NopIns
      BY <1>1, <1>3, MovedIns
    <3>2. MemIns'.op \notin Control
      BY <3>1, NopOps DEF Control, Branches, Jumps
    <3> QED
      BY <1>3, <3>2, NextPCIs
  <2>5. vpipeline'.ID.at = Bubble => AfterControl(vpipeline'.EX.at) /\ NextFetch' \notin TooFar
    BY <1>1, <2>3, <2>4 DEF Slots
  <2> QED
    BY <1>2, <2>2, <2>3, <2>5, MarkersApart DEF Slots, TooFar
<1>4. CASE ~Stall
  <2>1. /\ vpipeline'.ID.at = IF Flush THEN Bubble ELSE NextFetch
        /\ vpipeline'.EX.at = vpipeline.ID.at /\ vpipeline'.MEM.at = vpipeline.EX.at
    BY <1>1, <1>4, Moved, MovedIns, Positions
  <2>2. NextFetch \in Val /\ NextFetch # Bubble
    BY Positions, MarkersApart
  <2>3. ASSUME Flush PROVE AfterControl(vpipeline.ID.at) /\ NextFetch' \notin TooFar
    <3>1. /\ vpipeline.EX.at \in Text /\ ExIns = prog[vpipeline.EX.at] /\ ExIns.op \in Control
          /\ vpipeline.ID.at = vpipeline.EX.at + 1 /\ vpipeline.ID.at \in Val
      BY <1>4, <2>3, Redirected
    <3>2. AfterControl(vpipeline.ID.at)
      <4>1. vpipeline.ID.at - 1 = vpipeline.EX.at
        BY <3>1, TextIsVal, SmallValues
      <4> QED
        BY <3>1, <4>1 DEF AfterControl
    <3>3. ExIns.op \in Branches \cup {"J", "JAL"} => Target(vpipeline.EX.at, ExIns) \notin TooFar
      BY <1>1, <3>1 DEF Clean
    <3>4. CASE ExIns.op \in {"J", "JAL"}
      <4>1. NextFetch' = ExIns.imm
        BY <1>4, <2>3, <3>4, Redirected
      <4>2. Target(vpipeline.EX.at, ExIns) = ExIns.imm
        BY <3>4 DEF Target, Branches
      <4> QED
        BY <3>2, <3>3, <3>4, <4>1, <4>2
    <3>5. CASE ExIns.op \in {"JR", "JALR"}
      <4>1. MemIns' = ExIns
        BY <1>1, <1>4, MovedIns
      <4> QED
        BY <3>2, <3>5, <4>1 DEF ReturnsNear
    <3>6. CASE ExIns.op \in Branches
      <4>1. NextFetch' = Wrap(vpipeline.EX.at + 1 + ExIns.imm)
        BY <1>4, <2>3, <3>6, Redirected
      <4>2. Target(vpipeline.EX.at, ExIns) = vpipeline.EX.at + 1 + ExIns.imm
        BY <3>6 DEF Target
      <4>3. ExIns.imm \in Val
        BY <1>1, RegTypes, Operands
      <4> QED
        BY <3>1, <3>2, <3>3, <3>6, <4>1, <4>2, <4>3, WrapFar
    <3> QED
      BY <3>1, <3>4, <3>5, <3>6 DEF Control, Jumps
  <2>4. vpipeline'.ID.at = Bubble => AfterControl(vpipeline'.EX.at) /\ NextFetch' \notin TooFar
    BY <2>1, <2>2, <2>3
  <2>5. vpipeline'.EX.at = Bubble => AfterControl(vpipeline'.MEM.at) /\ vpipeline'.ID.at \notin TooFar
    <3> SUFFICES ASSUME vpipeline.ID.at = Bubble
                 PROVE  AfterControl(vpipeline.EX.at) /\ NextFetch \notin TooFar /\ Bubble \notin TooFar
      BY <2>1
    <3> QED
      BY <1>1, TooFarIsVal, MarkersApart DEF Slots
  <2>6. vpipeline'.EX.at = Empty => vpipeline'.MEM.at = Empty
    BY <2>1, Positions
  <2> QED
    BY <1>2, <2>4, <2>5, <2>6 DEF Slots
<1> QED
  BY <1>3, <1>4

LEMMA AdvanceExitLast ==
  ASSUME Lively, Advance
  PROVE  ExitLast'
<1> SUFFICES ASSUME ExitInWB'
             PROVE  /\ vpipeline'.MEM.at \in {Bubble, vpipeline'.WB.at + 1}
                    /\ vpipeline'.EX.at \in {vpipeline'.WB.at + 1, vpipeline'.WB.at + 2}
  BY DEF ExitLast
<1>1. TypeOK
  BY DEF Lively
<1>2. ExitInMEM
  <2>1. InsOf(vpipeline.WB)' = MemIns
    BY <1>1, MovedIns
  <2> QED
    BY <2>1 DEF ExitInWB, ExitInMEM, MemIns
<1>3. /\ vpipeline.EX.at = vpipeline.MEM.at + 1 /\ vpipeline.ID.at = vpipeline.MEM.at + 2
  BY <1>2, ExitFollowed
<1>4. vpipeline'.WB.at = vpipeline.MEM.at
  BY <1>1, MovedIns
<1>5. CASE Stall
  BY <1>1, <1>3, <1>4, <1>5, Moved, MovedIns
<1>6. CASE ~Stall
  BY <1>1, <1>3, <1>4, <1>6, MovedIns
<1> QED
  BY <1>5, <1>6

LEMMA AdvanceFresh ==
  ASSUME Lively, Advance, ~OutOfText(NextPC)
  PROVE  Fresh'
<1>1. TypeOK /\ Fresh /\ vpipeline.EX \in Block
  BY DEF Lively, InsInv, TypeOK
<1>2. ExIns.op # "MULT" => EXBlock(ExIns, RegAfterMEM, vpipeline.EX).tmp2 = vpipeline.EX.tmp2
  <2> SUFFICES ASSUME ExIns.op # "MULT"
               PROVE  EXBlock(ExIns, RegAfterMEM, vpipeline.EX).tmp2 = vpipeline.EX.tmp2
    OBVIOUS
  <2>1. EXBlock(ExIns, RegAfterMEM, vpipeline.EX)
          = [vpipeline.EX EXCEPT !.tmp = EXTmp(ExIns, RegAfterMEM, vpipeline.EX), !.tmp2 = @]
    BY DEF EXBlock
  <2> QED
    BY <1>1, <2>1 DEF Block
<1>3. CASE Stall
  <2>1. /\ vpipeline'.ID = vpipeline.ID /\ vpipeline'.EX.at = vpipeline.EX.at
        /\ ExIns' = ExIns /\ MemIns' = NopIns
        /\ vpipeline'.EX = EXBlock(ExIns, RegAfterMEM, vpipeline.EX)
    BY <1>1, <1>3, Moved, MovedIns
  <2>2. vpipeline'.EX.at \in Val /\ ExIns'.op # "MULT" => vpipeline'.EX.tmp2 = 0
    BY <1>1, <1>2, <2>1 DEF Fresh, ExIns
  <2>3. MemIns'.op # "LW"
    BY <2>1, NopOps
  <2> QED
    BY <1>1, <2>1, <2>2, <2>3 DEF Fresh, ExIns, MemIns
<1>4. CASE ~Stall
  <2>1. /\ vpipeline'.ID.tmp2 = 0 /\ vpipeline'.EX.at = vpipeline.ID.at
        /\ vpipeline'.EX.tmp2 = vpipeline.ID.tmp2 /\ MemIns' = ExIns
        /\ vpipeline'.MEM = EXBlock(ExIns, RegAfterMEM, vpipeline.EX)
    BY <1>1, <1>4, Moved, MovedIns
  <2>2. vpipeline'.EX.at \in Val => vpipeline'.EX.tmp2 = 0
    BY <1>1, <2>1 DEF Fresh
  <2>3. ExIns.op = "LW" => vpipeline.EX.at \in Val
    <3>1. ExIns.op = "LW" => vpipeline.EX.at \in Text
      BY InsOfCases, NopOps DEF ExIns
    <3> QED
      BY <3>1, TextIsVal
  <2>4. MemIns'.op = "LW" => vpipeline'.MEM.tmp2 = 0
    BY <1>1, <1>2, <2>1, <2>3 DEF Fresh, ExIns
  <2> QED
    BY <2>1, <2>2, <2>4 DEF Fresh, MemIns
<1> QED
  BY <1>3, <1>4

LEMMA AdvanceInsInv ==
  TypeOK /\ NoWrongPath /\ Trail /\ InsInv /\ Advance /\ ReturnsNear' => InsInv'
<1> SUFFICES ASSUME TypeOK, NoWrongPath, Trail, InsInv, Advance, ReturnsNear' PROVE InsInv'
  OBVIOUS
<1>1. Lively
  BY DEF Lively, Trail, Advance
<1>2. Clean(prog)'
  BY DEF InsInv, Advance, Clean
<1>3. ASSUME ~OutOfText(reg_mips'[PC]) PROVE Slots' /\ ExitLast' /\ Fresh'
  <2>1. reg_mips'[PC] = IF Quit THEN TextEnd + 4 ELSE NextPC
    BY RegTypes, MovedIns, Indices DEF RegFile
  <2>2. ~Quit /\ ~OutOfText(NextPC)
    BY <1>3, <2>1, PastTheEnd
  <2> QED
    BY <1>1, <2>2, AdvanceSlots, AdvanceExitLast, AdvanceFresh
<1> QED
  BY <1>2, <1>3 DEF InsInv

(* A pipeline with nothing in it. *)
EmptyBlocks ==
  /\ vpipeline.ID.at = Empty /\ vpipeline.EX.at = Empty
  /\ vpipeline.MEM.at = Empty /\ vpipeline.WB.at = Empty

LEMMA EmptyInv == EmptyBlocks => Slots /\ ExitLast /\ Fresh
<1> SUFFICES ASSUME EmptyBlocks PROVE Slots /\ ExitLast /\ Fresh
  OBVIOUS
<1>1. InsOf(vpipeline.MEM) = NoIns /\ InsOf(vpipeline.WB) = NoIns
  BY MarkersApart DEF InsOf, EmptyBlocks
<1> QED
  BY <1>1, NopOps, MarkersApart DEF EmptyBlocks, Slots, ExitLast, ExitInWB, Quits, Fresh

(* What happens between two cycles: the program is started again, or none of  *)
(* what Isa sees changes.                                                     *)
Restarts ==
  /\ OutOfText(reg_mips[PC])
  /\ reg_mips' = InitReg /\ EmptyBlocks'
  /\ UNCHANGED <<prog, memory>>

LEMMA BetweenCycles ==
  ASSUME RunAddr = {}, TypeOK, [Next]_vars
  PROVE  Advance \/ Restarts \/ UNCHANGED <<prog, reg_mips, memory, vpipeline>>
<1>1. ASSUME NEW m, Start(m, reg_mips[PC])
      PROVE  Restarts \/ UNCHANGED <<prog, reg_mips, memory, vpipeline>>
  <2>1. CASE OutOfText(reg_mips[PC])
    BY <1>1, <2>1 DEF Start, Restarts, Emptied, EmptyBlocks, TypeOK, Block
  <2>2. CASE ~OutOfText(reg_mips[PC])
    BY <1>1, <2>2, Indices DEF Start, TypeOK
  <2> QED
    BY <2>1, <2>2
<1>2. Command => (\E m : Start(m, reg_mips[PC]))
                 \/ (\E a \in BreakAddr : BreakAdd(a) \/ BreakDel(a))
  BY DEF Command, Run, Step, StepRefused
<1> QED
  BY <1>1, <1>2 DEF Next, Cycle, StepReturned, BreakAdd, BreakDel, vars

LEMMA NextInsInv ==
  ASSUME RunAddr = {}
  PROVE  TypeOK /\ NoWrongPath /\ Trail /\ InsInv /\ [Next]_vars /\ ReturnsNear' => InsInv'
<1> SUFFICES ASSUME TypeOK, NoWrongPath, Trail, InsInv, [Next]_vars, ReturnsNear' PROVE InsInv'
  OBVIOUS
<1>1. CASE Advance
  BY <1>1, AdvanceInsInv
<1>2. CASE Restarts
  <2>1. Clean(prog)'
    BY <1>2 DEF InsInv, Restarts, Clean
  <2>2. EmptyBlocks'
    BY <1>2 DEF Restarts
  <2>3. Slots' /\ ExitLast' /\ Fresh'
    BY <2>2, EmptyInv, PTL
  <2> QED
    BY <2>1, <2>3 DEF InsInv
<1>3. CASE UNCHANGED <<prog, reg_mips, memory, vpipeline>>
  <2>1. Clean(prog)'
    BY <1>3 DEF InsInv, Clean
  <2> QED
    BY <1>3, <2>1 DEF InsInv, Slots, ExitLast, Fresh, AfterControl, ExitInWB, InsOf, NextFetch,
       RegAfterMEM, RegAfterWB
<1> QED
  BY <1>1, <1>2, <1>3, BetweenCycles

-----------------------------------------------------------------------------
(* What Isa sees of a state. *)

LEMMA MapLive ==
  ~OutOfText(reg_mips[PC]) /\ ~ExitInWB => IsaReg = Arch(DrainedReg) /\ IsaMem = DrainedMemory
  BY DEF IsaReg, IsaMem, Arch, ArchReg, ArchState

LEMMA MapLeft ==
  OutOfText(reg_mips[PC]) => Over /\ IsaReg = Arch(reg_mips) /\ IsaMem = memory
  BY DEF IsaReg, IsaMem, Arch, ArchReg, ArchState, Over

LEMMA MapExit ==
  ~OutOfText(reg_mips[PC]) /\ ExitInWB => Over /\ IsaReg = Arch(RegAfterWB) /\ IsaMem = memory
  BY DEF IsaReg, IsaMem, Arch, ArchReg, ArchState, Over

(* The next two instructions, case by case. *)
SeesPc ==
  /\ IsaPc = IF Real(vpipeline.EX) THEN vpipeline.EX.at
             ELSE IF Real(vpipeline.ID) THEN vpipeline.ID.at ELSE NextFetch
  /\ IsaNpc = IF Real(vpipeline.EX) /\ Real(vpipeline.ID) THEN vpipeline.ID.at
              ELSE IF Real(vpipeline.EX) \/ Real(vpipeline.ID) THEN NextFetch
              ELSE Wrap(NextFetch + 1)

LEMMA MapPc == ~Over => SeesPc
<1> SUFFICES ASSUME ~Over PROVE SeesPc
  OBVIOUS
<1>1. IsaPc = Upcoming[1] /\ IsaNpc = Upcoming[2]
  BY DEF IsaPc, IsaNpc
<1>2. CASE Real(vpipeline.EX) /\ Real(vpipeline.ID)
  <2>1. Upcoming = <<vpipeline.EX.at, vpipeline.ID.at>>
    BY <1>2 DEF Upcoming
  <2> QED
    BY <1>1, <1>2, <2>1 DEF SeesPc
<1>3. CASE Real(vpipeline.EX) /\ ~Real(vpipeline.ID)
  <2>1. Upcoming = <<vpipeline.EX.at, NextFetch>>
    BY <1>3 DEF Upcoming
  <2> QED
    BY <1>1, <1>3, <2>1 DEF SeesPc
<1>4. CASE ~Real(vpipeline.EX) /\ Real(vpipeline.ID)
  <2>1. Upcoming = <<vpipeline.ID.at, NextFetch>>
    BY <1>4 DEF Upcoming
  <2> QED
    BY <1>1, <1>4, <2>1 DEF SeesPc
<1>5. CASE ~Real(vpipeline.EX) /\ ~Real(vpipeline.ID)
  <2>1. Upcoming = <<NextFetch, Wrap(NextFetch + 1)>>
    BY <1>5 DEF Upcoming
  <2> QED
    BY <1>1, <1>5, <2>1 DEF SeesPc
<1> QED
  BY <1>2, <1>3, <1>4, <1>5

(* A pipeline that starts is Isa that starts. *)
Started ==
  /\ ~Over /\ IsaReg = ISA!StartReg /\ IsaMem = memory
  /\ IsaPc = TextStart /\ IsaNpc = TextStart + 1

LEMMA StartsIsa == TypeOK /\ reg_mips = InitReg /\ EmptyBlocks => Started
<1> SUFFICES ASSUME TypeOK, reg_mips = InitReg, EmptyBlocks PROVE Started
  OBVIOUS
<1>1. MemIns = NoIns /\ InsOf(vpipeline.WB) = NoIns
  BY MarkersApart DEF MemIns, InsOf, EmptyBlocks
<1>2. reg_mips[PC] = TextStart
  BY Indices DEF InitReg
<1>3. ~OutOfText(reg_mips[PC]) /\ ~ExitInWB /\ ~ExitInMEM
  BY <1>1, <1>2, TextStartInside, NopOps DEF ExitInWB, ExitInMEM, MemIns, Quits
<1>4. /\ \A r, b : WBReg(NoIns, r, b) = r /\ MEMReg(NoIns, r, b) = r
      /\ \A r, m, b : MEMMemory(NoIns, r, m, b) = m
  BY NopOps DEF WBReg, MEMReg, MEMMemory, AluR, AluI, Branches
<1>5. RegAfterWB = reg_mips
  BY <1>1, <1>4 DEF RegAfterWB
<1>6. RegAfterMEM = reg_mips /\ DrainedMemory = memory
  BY <1>1, <1>4, <1>5 DEF RegAfterMEM, DrainedMemory, MemIns
<1>7. DrainedReg = reg_mips
  BY <1>1, <1>4, <1>6 DEF DrainedReg
<1>8. IsaReg = ISA!StartReg
  <2>1. IsaReg = Arch(InitReg)
    BY <1>3, <1>7, MapLive
  <2>2. \A r \in ArchReg : InitReg[r] = IF r = SP THEN StackTop ELSE 0
    BY DEF InitReg, ArchReg
  <2>3. Arch(InitReg) = [r \in ArchReg |-> IF r = SP THEN StackTop ELSE 0]
    BY <2>2 DEF Arch
  <2>4. ISA!StartReg = [r \in ArchReg |-> IF r = SP THEN StackTop ELSE 0]
    BY Zenon DEF ISA!StartReg, ISA!ArchReg, ISA!RegIdx, ISA!HI, ISA!LO, ISA!PC, ISA!SP,
       ArchReg, RegIdx, HI, LO, PC, SP
  <2> QED
    BY <2>1, <2>3, <2>4
<1>9. IsaMem = memory
  BY <1>3, <1>6, MapLive
<1>10. ~Over
  BY <1>3 DEF Over
<1>11. IsaPc = NextFetch /\ IsaNpc = Wrap(NextFetch + 1)
  BY <1>10, MapPc DEF SeesPc, EmptyBlocks, Real
<1>12. NextFetch = TextStart
  BY <1>2, <1>6 DEF NextFetch
<1>13. Wrap(TextStart + 1) = TextStart + 1
  <2>1. TextStart + 1 \in Val
    BY MipsAssumption DEF Val
  <2> QED
    BY <2>1, WrapSame
<1> QED
  BY <1>8, <1>9, <1>10, <1>11, <1>12, <1>13 DEF Started

LEMMA InitIsa == Init => ISA!Init
<1> SUFFICES ASSUME Init PROVE ISA!Init
  OBVIOUS
<1>1. TypeOK
  BY InitTypeOK
<1>2. Started
  BY <1>1, StartsIsa DEF Init, EmptyBlocks, EmptyBlock
<1>3. prog \in [ISA!Text -> ISA!Ins]
  <2>1. ISA!Ins = Ins
    BY Zenon DEF ISA!Ins, ISA!RType, ISA!IType, ISA!JType, ISA!AluR, ISA!AluI, ISA!Branches, ISA!Val,
       Ins, RType, IType, JType, AluR, AluI, Branches, Val
  <2> QED
    BY <1>1, <2>1, SameValues DEF TypeOK
<1>4. memory = DataInit
  BY DEF Init
<1>5. Over = FALSE
  BY <1>2 DEF Started, Over
<1> QED
  BY <1>2, <1>3, <1>4, <1>5, Zenon DEF Started, ISA!Init, IsaReg, IsaMem, IsaPc, IsaNpc

LEMMA RestartIs == TypeOK' /\ Restarts => ISA!Restart
<1> SUFFICES ASSUME TypeOK', Restarts PROVE ISA!Restart
  OBVIOUS
<1>1. Over = TRUE /\ IsaMem = memory
  BY MapLeft DEF Restarts, Over
<1>2. Started'
  <2>1. (reg_mips = InitReg)' /\ EmptyBlocks'
    BY DEF Restarts, InitReg
  <2> QED
    BY <2>1, StartsIsa, PTL
<1>3. IsaReg' = ISA!StartReg /\ IsaMem' = memory' /\ IsaPc' = TextStart /\ IsaNpc' = TextStart + 1
  BY <1>2 DEF Started
<1>4. Over' = FALSE
  BY <1>2 DEF Started, Over
<1>5. memory' = memory /\ prog' = prog
  BY DEF Restarts
<1> QED
  BY <1>1, <1>3, <1>4, <1>5, Zenon DEF ISA!Restart, IsaReg, IsaMem, IsaPc, IsaNpc

-----------------------------------------------------------------------------
(* A cycle that moves an instruction from EX to MEM executes it. *)

LEMMA Leaving ==
  ASSUME Lively, Advance, ~Stall
  PROVE  /\ DrainedReg' = Leaves(ExIns, RegAfterMEM, RegAfterWB', vpipeline.EX, DrainedMemory)
         /\ DrainedMemory' = MEMMemory(ExIns, RegAfterWB', DrainedMemory,
                                       EXBlock(ExIns, RegAfterMEM, vpipeline.EX))
<1>1. /\ MemIns' = ExIns /\ vpipeline'.MEM = EXBlock(ExIns, RegAfterMEM, vpipeline.EX)
      /\ memory' = DrainedMemory
  BY Moved, MovedIns DEF Lively
<1>2. DrainedMemory' = MEMMemory(ExIns, RegAfterWB', DrainedMemory,
                                 EXBlock(ExIns, RegAfterMEM, vpipeline.EX))
  BY <1>1 DEF DrainedMemory
<1>3. RegAfterMEM' = MEMReg(ExIns, RegAfterWB', EXBlock(ExIns, RegAfterMEM, vpipeline.EX))
  BY <1>1 DEF RegAfterMEM, MemIns
<1>4. DrainedReg' = WBReg(ExIns, RegAfterMEM',
                          MEMBlock(ExIns, DrainedMemory, EXBlock(ExIns, RegAfterMEM, vpipeline.EX)))
  BY <1>1 DEF DrainedReg
<1> QED
  BY <1>2, <1>3, <1>4, Zenon DEF Leaves

LEMMA RegsExecuted ==
  ASSUME Lively, Advance, ~Stall, vpipeline.EX.at \in Val
  PROVE  /\ Arch(DrainedReg') = ResultOn(ExIns, Arch(DrainedReg), DrainedMemory, vpipeline.EX.at)
         /\ DrainedMemory' = StoredOn(ExIns, Arch(DrainedReg), DrainedMemory)
<1>1. /\ TypeOK /\ ExIns \in AnyIns /\ vpipeline.EX \in Block /\ RegAfterWB' \in RegFile
      /\ DrainedReg \in RegFile /\ RegAfterMEM \in RegFile
  BY RegTypes, NextRegs DEF Lively
<1>2. DrainedMemory' = StoredOn(ExIns, Arch(DrainedReg), DrainedMemory)
  <2>1. ExIns.op = "SW" => Finds(ExIns, RegAfterMEM, RegAfterWB', DrainedReg)
    BY NextFinds DEF Links
  <2>2. MEMMemory(ExIns, RegAfterWB', DrainedMemory, EXBlock(ExIns, RegAfterMEM, vpipeline.EX))
          = StoredOn(ExIns, Arch(DrainedReg), DrainedMemory)
    BY <1>1, <2>1, ExecutedStore
  <2> QED
    BY <2>2, Leaving
<1>3. CASE Links(ExIns)
  <2>1. vpipeline.EX.at \in Text /\ ExIns = prog[vpipeline.EX.at]
    <3>1. ExIns \notin {NopIns, NoIns}
      BY <1>3, NopOps DEF Links
    <3> QED
      BY <3>1, InsOfCases DEF ExIns
  <2>2. LinkReg(ExIns) # 0
    BY <1>3, <2>1, ArchIndices DEF Links, LinkReg, Lively, InsInv, Clean
  <2>3. NextFetch = Wrap(vpipeline.EX.at + 2)
    <3>1. ExIns.op \in Control
      BY <1>3 DEF Links, Control, Jumps
    <3>2. vpipeline.ID.at \in Val /\ vpipeline.EX.at + 1 = vpipeline.ID.at
      BY <3>1, MarkersApart, Positions
    <3>3. NextFetch = vpipeline.EX.at + 2 /\ NextFetch \in Val
      BY <3>2, Positions, SmallValues
    <3> QED
      BY <3>3, WrapSame
  <2>4. \A r \in ArchReg \ {LinkReg(ExIns)} : RegAfterWB'[r] = DrainedReg[r]
    BY NextRegs
  <2>5. RegAfterWB'[LinkReg(ExIns)] = Wrap(vpipeline.EX.at + 2)
    BY <1>3, <2>3, NextRegs
  <2> QED
    BY <1>1, <1>2, <1>3, <2>2, <2>4, <2>5, Leaving, ExecutedLink
<1>4. CASE ~Links(ExIns)
  <2>1. Finds(ExIns, RegAfterMEM, RegAfterWB', DrainedReg)
    BY <1>4, NextFinds
  <2>2. ExIns.op # "MULT" => vpipeline.EX.tmp2 = 0
    BY DEF Lively, InsInv, Fresh, ExIns
  <2> QED
    BY <1>1, <1>2, <1>4, <2>1, <2>2, Leaving, Executed
<1> QED
  BY <1>3, <1>4

(* Isa reads a NOP where the pipeline reads a word that is no instruction. *)
LEMMA WordIs ==
  ASSUME vpipeline.EX.at \in Val
  PROVE  /\ \A r, m, p : ResultOn(Word(vpipeline.EX.at), r, m, p) = ResultOn(ExIns, r, m, p)
         /\ \A r, m : StoredOn(Word(vpipeline.EX.at), r, m) = StoredOn(ExIns, r, m)
         /\ \A r, p, n : SuccessorOn(Word(vpipeline.EX.at), r, p, n) = SuccessorOn(ExIns, r, p, n)
         /\ Quits(Word(vpipeline.EX.at)) <=> Quits(ExIns)
<1>1. CASE vpipeline.EX.at \in Text
  BY <1>1, InsOfCases DEF Word, ExIns
<1>2. CASE vpipeline.EX.at \notin Text
  <2>1. Word(vpipeline.EX.at) = NopIns /\ ExIns = NoIns
    BY <1>2, InsOfCases, MarkersApart DEF Word, ExIns
  <2>2. \A i \in {NopIns, NoIns} : \A r, m, p : ResultOn(i, r, m, p) = r
    BY NopOps DEF ResultOn
  <2>3. \A i \in {NopIns, NoIns} : \A r, m : StoredOn(i, r, m) = m
    BY NopOps DEF StoredOn
  <2>4. \A i \in {NopIns, NoIns} : \A r, p, n : SuccessorOn(i, r, p, n) = Wrap(n + 1)
    BY NopOps DEF SuccessorOn, Branches
  <2>5. \A i \in {NopIns, NoIns} : ~Quits(i)
    BY NopOps DEF Quits
  <2> QED
    BY <2>1, <2>2, <2>3, <2>4, <2>5
<1> QED
  BY <1>1, <1>2

LEMMA NearText == ASSUME NEW a \in Text, NEW k \in 0 .. 4 PROVE a + k \in Val /\ ~OutOfText(a + k)
<1>1. a + k \in 0 .. 2 * HalfRange - 1 /\ a + k \in Val
  BY MipsAssumption DEF Text, Val
<1>2. Unsigned(a + k) = a + k
  BY <1>1, MipsAssumption, ModSame DEF Unsigned
<1> QED
  BY <1>1, <1>2, MipsAssumption DEF OutOfText, Text

LEMMA TakenSame ==
  ASSUME Lively, Advance, ~Stall
  PROVE  Taken(ExIns, RegAfterMEM) <=> Taken(ExIns, Arch(DrainedReg))
<1>1. ExIns \in AnyIns
  BY RegTypes DEF Lively
<1>2. \A r \in ReadedReg(ExIns) \cup {0} : RegAfterMEM[r] = DrainedReg[r]
  BY NextFinds
<1>3. ExIns.rs \in ArchReg /\ ExIns.rt \in ArchReg
  BY <1>1, Operands, ArchIndices
<1>4. CASE ExIns.op \in Branches
  <2>1. ExIns.rs \in ReadedReg(ExIns) \cup {0}
    BY <1>1, <1>4, Operands DEF IType
  <2>2. ExIns.op \in {"BEQ", "BNE"} => ExIns.rt \in ReadedReg(ExIns) \cup {0}
    BY <1>1, Operands
  <2> QED
    BY <1>2, <1>3, <2>1, <2>2 DEF Taken, Arch
<1>5. CASE ExIns.op \notin Branches
  BY <1>5 DEF Taken, Branches
<1> QED
  BY <1>4, <1>5

(* Where Isa goes is where the pipeline fetches. *)
LEMMA PcExecuted ==
  ASSUME Lively, Advance, ~Over, ~Stall, vpipeline.EX.at \in Val, ~Quits(ExIns), ~OutOfText(NextPC)
  PROVE  /\ ~Over' /\ IsaPc' = IsaNpc
         /\ IsaNpc' = SuccessorOn(ExIns, Arch(DrainedReg), vpipeline.EX.at, IsaNpc)
<1>1. TypeOK /\ ~ExitInWB /\ ~ExitInMEM /\ ~Quit
  BY DEF Lively, Over, ExitInWB, Quit
<1>2. /\ reg_mips'[PC] = NextPC /\ NextPC = Wrap(NextFetch + 1)
      /\ MemIns'.op \notin Control => NextFetch' = NextPC
  BY <1>1, NextPCIs
<1>3. /\ InsOf(vpipeline.WB)' = MemIns /\ MemIns' = ExIns
      /\ vpipeline'.EX.at = vpipeline.ID.at
      /\ vpipeline'.ID.at = IF Flush THEN Bubble ELSE NextFetch
  BY <1>1, Moved, MovedIns, Positions
<1>4. ~Over'
  BY <1>1, <1>2, <1>3 DEF Over, ExitInWB, ExitInMEM, MemIns
<1>5. NextFetch \in Val /\ NextFetch \notin {Bubble, Empty} /\ vpipeline.EX.at \notin {Bubble, Empty}
  BY Positions, MarkersApart
<1>6. /\ IsaPc' = IF Real(vpipeline'.EX) THEN vpipeline'.EX.at
                  ELSE IF Real(vpipeline'.ID) THEN vpipeline'.ID.at ELSE NextFetch'
      /\ IsaNpc' = IF Real(vpipeline'.EX) /\ Real(vpipeline'.ID) THEN vpipeline'.ID.at
                   ELSE IF Real(vpipeline'.EX) \/ Real(vpipeline'.ID) THEN NextFetch'
                   ELSE Wrap(NextFetch' + 1)
  <2>1. (Real(vpipeline.EX)' <=> Real(vpipeline'.EX)) /\ (Real(vpipeline.ID)' <=> Real(vpipeline'.ID))
    BY DEF Real
  <2>2. SeesPc'
    BY <1>4, MapPc, PTL
  <2> QED
    BY <2>1, <2>2 DEF SeesPc
<1>7. Flush => ExIns.op \in Control
  BY DEF Flush, Flushes, Taken, Control, Branches, Jumps, ExIns
<1>8. CASE vpipeline.ID.at = Bubble
  <2>1. ExIns.op \notin Control
    BY <1>8, Positions
  <2>2. IsaNpc = NextFetch
    BY <1>5, <1>8, MapPc DEF SeesPc, Real
  <2>3. IsaPc' = NextFetch /\ IsaNpc' = Wrap(NextFetch + 1)
    BY <1>2, <1>3, <1>5, <1>6, <1>7, <1>8, <2>1 DEF Real
  <2>4. SuccessorOn(ExIns, Arch(DrainedReg), vpipeline.EX.at, IsaNpc) = Wrap(IsaNpc + 1)
    BY <2>1 DEF SuccessorOn, Control, Jumps
  <2> QED
    BY <1>4, <2>2, <2>3, <2>4
<1>9. CASE vpipeline.ID.at # Bubble
  <2>1. vpipeline.ID.at \in Val /\ vpipeline.ID.at \notin {Bubble, Empty}
    BY <1>5, <1>9, Positions, MarkersApart
  <2>2. IsaNpc = vpipeline.ID.at
    BY <1>5, <2>1, MapPc DEF SeesPc, Real
  <2>3. IsaPc' = IsaNpc
    BY <1>3, <1>6, <2>1, <2>2 DEF Real
  <2>4. CASE ~Flush
    <3>1. ExIns.op \notin Jumps /\ ~Taken(ExIns, Arch(DrainedReg))
      BY <2>4, TakenSame DEF Flush, Flushes, ExIns
    <3>2. SuccessorOn(ExIns, Arch(DrainedReg), vpipeline.EX.at, IsaNpc) = Wrap(IsaNpc + 1)
      BY <3>1 DEF SuccessorOn, Jumps
    <3>3. IsaNpc' = NextFetch
      BY <1>3, <1>5, <1>6, <2>1, <2>4 DEF Real
    <3>4. Wrap(IsaNpc + 1) = NextFetch
      BY <1>5, <2>1, <2>2, Positions, WrapSame
    <3> QED
      BY <1>4, <2>3, <3>2, <3>3, <3>4
  <2>5. CASE Flush
    <3>1. IsaNpc' = NextFetch'
      BY <1>3, <1>6, <2>1, <2>5 DEF Real
    <3>2. /\ ExIns.op \in Control /\ vpipeline.EX.at \in Text /\ ExIns = prog[vpipeline.EX.at]
          /\ ExIns.op \in {"J", "JAL"} => NextFetch' = ExIns.imm
          /\ ExIns.op \in {"JR", "JALR"} => NextFetch' = RegAfterWB'[ExIns.rs]
          /\ ExIns.op \in Branches => /\ Taken(ExIns, RegAfterMEM)
                                      /\ NextFetch' = Wrap(vpipeline.EX.at + 1 + ExIns.imm)
      BY <2>5, Redirected
    <3>3. CASE ExIns.op \in {"J", "JAL"}
      BY <1>4, <2>3, <3>1, <3>2, <3>3 DEF SuccessorOn
    <3>4. CASE ExIns.op \in {"JR", "JALR"}
      <4>1. ~(Links(ExIns) /\ ExIns.rs = LinkReg(ExIns))
        BY <3>2, <3>4 DEF Links, LinkReg, Lively, InsInv, Clean
      <4>2. ExIns.rs \in ArchReg
        BY <1>1, RegTypes, Operands, ArchIndices
      <4>3. RegAfterWB'[ExIns.rs] = DrainedReg[ExIns.rs]
        BY <4>1, <4>2, NextRegs
      <4>4. SuccessorOn(ExIns, Arch(DrainedReg), vpipeline.EX.at, IsaNpc) = DrainedReg[ExIns.rs]
        BY <3>4, <4>2 DEF SuccessorOn, Arch, Branches
      <4> QED
        BY <1>4, <2>3, <3>1, <3>2, <3>4, <4>3, <4>4
    <3>5. CASE ExIns.op \in Branches
      <4>1. Taken(ExIns, Arch(DrainedReg))
        BY <3>2, <3>5, TakenSame
      <4>2. SuccessorOn(ExIns, Arch(DrainedReg), vpipeline.EX.at, IsaNpc)
              = Wrap(vpipeline.EX.at + 1 + ExIns.imm)
        BY <3>5, <4>1 DEF SuccessorOn, Branches
      <4> QED
        BY <1>4, <2>3, <3>1, <3>2, <3>5, <4>2
    <3> QED
      BY <3>2, <3>3, <3>4, <3>5 DEF Control, Jumps
  <2> QED
    BY <2>4, <2>5
<1> QED
  BY <1>8, <1>9

(* An exit in EX is inside the text: the cycle that moves it does not end the *)
(* program.                                                                   *)
LEMMA ExitInEX ==
  ASSUME Lively, Quits(ExIns), vpipeline.EX.at \in Val
  PROVE  ~OutOfText(Wrap(NextFetch + 1))
<1>1. vpipeline.EX.at \in Text
  <2>1. ExIns \notin {NopIns, NoIns}
    BY NopOps DEF Quits
  <2> QED
    BY <2>1, InsOfCases DEF ExIns
<1>2. vpipeline.ID.at \in Val /\ NextFetch = vpipeline.EX.at + 2
  <2>1. vpipeline.ID.at \in Val
    BY MarkersApart, Positions
  <2> QED
    BY <2>1, Positions, SmallValues
<1>3. NextFetch + 1 = vpipeline.EX.at + 3
  BY <1>1, <1>2, TextIsVal, SmallValues
<1>4. vpipeline.EX.at + 3 \in Val /\ ~OutOfText(vpipeline.EX.at + 3)
  BY <1>1, NearText
<1> QED
  BY <1>3, <1>4, WrapSame

LEMMA StepExecute ==
  ASSUME Lively, Advance, ~Over, ~Stall, vpipeline.EX.at \in Val, Quits(ExIns) \/ ~OutOfText(NextPC)
  PROVE  ISA!Execute
<1>1. TypeOK /\ ~ExitInWB /\ ~ExitInMEM /\ ~Quit /\ ~OutOfText(reg_mips[PC])
  BY DEF Lively, Over, ExitInWB, Quit
<1>2. IsaReg = Arch(DrainedReg) /\ IsaMem = DrainedMemory
  BY <1>1, MapLive
<1>3. IsaPc = vpipeline.EX.at
  BY MapPc, MarkersApart DEF SeesPc, Real
<1>4. reg_mips'[PC] = NextPC /\ NextPC = Wrap(NextFetch + 1)
  BY <1>1, NextPCIs
<1>5. ~OutOfText(NextPC)
  BY <1>4, ExitInEX
<1>6. InsOf(vpipeline.WB)' = MemIns /\ MemIns' = ExIns /\ prog' = prog
  BY <1>1, MovedIns
<1>7. IsaReg' = Arch(DrainedReg') /\ IsaMem' = DrainedMemory'
  <2>1. ~OutOfText(reg_mips[PC])'
    BY <1>4, <1>5 DEF OutOfText, Unsigned
  <2>2. ~ExitInWB'
    BY <1>1, <1>6 DEF ExitInWB, ExitInMEM, MemIns
  <2>3. (IsaReg = Arch(DrainedReg))' /\ (IsaMem = DrainedMemory)'
    BY <2>1, <2>2, MapLive, PTL
  <2> QED
    BY <2>3 DEF Arch
<1>8. PICK i : i = Word(vpipeline.EX.at)
  OBVIOUS
<1>9. IsaReg' = ResultOn(i, IsaReg, IsaMem, IsaPc) /\ IsaMem' = StoredOn(i, IsaReg, IsaMem)
  BY <1>2, <1>3, <1>7, <1>8, RegsExecuted, WordIs
<1>10. Quits(i) <=> Quits(ExIns)
  BY <1>8, WordIs
<1>11. Quits(i) => Over'
  BY <1>6, <1>10 DEF Over, ExitInMEM, MemIns
<1>12. ~Quits(i) => ~Over' /\ IsaPc' = IsaNpc /\ IsaNpc' = SuccessorOn(i, IsaReg, IsaPc, IsaNpc)
  BY <1>2, <1>3, <1>5, <1>8, <1>10, PcExecuted, WordIs
<1> QED
  BY <1>3, <1>6, <1>8, <1>9, <1>11, <1>12, ExecuteIs

LEMMA StalledNoLink == ASSUME Lively, Stall PROVE ~Links(ExIns)
<1>1. ~PairHazard(MemIns, ExIns)
  BY Compatible
<1>2. WritedReg(MemIns) \cap ReadedReg(ExIns) # {}
  BY DEF Stall, MemIns, ExIns
<1>3. ExIns.op # "JALR"
  BY <1>1, <1>2 DEF PairHazard, Dest
<1>4. ExIns.op # "JAL"
  BY <1>2 DEF ReadedReg, RType, IType, AluR, AluI, Branches
<1> QED
  BY <1>3, <1>4 DEF Links

(* A cycle that moves none does not show. *)
LEMMA StepStall ==
  ASSUME Lively, Advance, ~Over, Stall, ~OutOfText(NextPC)
  PROVE  UNCHANGED ISA!vars
<1>1. TypeOK /\ ~ExitInWB /\ ~ExitInMEM /\ ~Quit /\ ~OutOfText(reg_mips[PC])
  BY DEF Lively, Over, ExitInWB, Quit
<1>2. IsaReg = Arch(DrainedReg) /\ IsaMem = DrainedMemory
  BY <1>1, MapLive
<1>3. /\ InsOf(vpipeline.WB)' = MemIns /\ MemIns' = NopIns /\ prog' = prog /\ memory' = DrainedMemory
      /\ vpipeline'.EX.at = vpipeline.EX.at /\ vpipeline'.ID.at = vpipeline.ID.at
  BY <1>1, Moved, MovedIns
<1>4. reg_mips'[PC] = NextPC
  BY <1>1, NextPCIs
<1>5. NextFetch' = NextFetch
  <2>1. MemIns'.op \notin Control
    BY <1>3, NopOps DEF Control, Branches, Jumps
  <2> QED
    BY <1>1, <2>1, NextPCIs
<1>6. ~Over' /\ ~OutOfText(reg_mips[PC])' /\ ~ExitInWB'
  <2>1. ~OutOfText(reg_mips[PC])'
    BY <1>4 DEF OutOfText, Unsigned
  <2>2. ~ExitInWB'
    BY <1>1, <1>3 DEF ExitInWB, ExitInMEM, MemIns
  <2>3. ~ExitInMEM'
    BY <1>3, NopOps DEF ExitInMEM, MemIns, Quits
  <2> QED
    BY <2>1, <2>2, <2>3 DEF Over
<1>7. IsaReg' = Arch(DrainedReg') /\ IsaMem' = DrainedMemory'
  <2>1. (IsaReg = Arch(DrainedReg))' /\ (IsaMem = DrainedMemory)'
    BY <1>6, MapLive, PTL
  <2> QED
    BY <2>1 DEF Arch
<1>8. DrainedReg' = RegAfterWB' /\ DrainedMemory' = memory'
  <2>1. /\ \A r, b : WBReg(NopIns, r, b) = r /\ MEMReg(NopIns, r, b) = r
        /\ \A r, m, b : MEMMemory(NopIns, r, m, b) = m
    BY NopOps DEF WBReg, MEMReg, MEMMemory, AluR, AluI, Branches
  <2>2. RegAfterMEM' = RegAfterWB'
    BY <1>3, <2>1 DEF RegAfterMEM, MemIns
  <2> QED
    BY <1>3, <2>1, <2>2 DEF DrainedReg, DrainedMemory
<1>9. ~Links(ExIns)
  BY StalledNoLink
<1>10. Arch(RegAfterWB') = Arch(DrainedReg)
  BY <1>9, NextRegs DEF Arch
<1>11. IsaPc' = IsaPc /\ IsaNpc' = IsaNpc
  <2>1. (Real(vpipeline.EX)' <=> Real(vpipeline.EX)) /\ (Real(vpipeline.ID)' <=> Real(vpipeline.ID))
    BY <1>3 DEF Real
  <2>2. SeesPc /\ SeesPc'
    BY <1>6, MapPc, PTL
  <2> QED
    BY <1>3, <1>5, <2>1, <2>2 DEF SeesPc
<1> QED
  BY <1>2, <1>3, <1>6, <1>7, <1>8, <1>10, <1>11, StutterIs DEF Over

LEMMA StepSkip ==
  ASSUME Lively, Advance, ~Over, ~Stall, vpipeline.EX.at \notin Val, ~OutOfText(NextPC)
  PROVE  UNCHANGED ISA!vars
<1>1. TypeOK /\ ~ExitInWB /\ ~ExitInMEM /\ ~Quit /\ ~OutOfText(reg_mips[PC])
  BY DEF Lively, Over, ExitInWB, Quit
<1>2. IsaReg = Arch(DrainedReg) /\ IsaMem = DrainedMemory
  BY <1>1, MapLive
<1>3. ExIns \in {NopIns, NoIns} /\ vpipeline.EX.at \in {Bubble, Empty}
  BY Positions, InsOfCases, TextIsVal DEF ExIns
<1>4. ExIns.op \in {"NOP", "EMPTY"}
  BY <1>3, NopOps
<1>5. ~Flush /\ ~Links(ExIns) /\ ExIns.op \notin Control /\ ~Quits(ExIns)
  BY <1>4 DEF Flush, Flushes, Taken, Links, Control, Branches, Jumps, Quits, ExIns
<1>6. /\ InsOf(vpipeline.WB)' = MemIns /\ MemIns' = ExIns /\ prog' = prog
      /\ vpipeline'.EX.at = vpipeline.ID.at /\ vpipeline'.ID.at = NextFetch
  BY <1>1, <1>5, Moved, MovedIns, Positions
<1>7. /\ reg_mips'[PC] = NextPC /\ NextPC = Wrap(NextFetch + 1) /\ NextFetch' = NextPC
  BY <1>1, <1>5, <1>6, NextPCIs
<1>8. ~Over' /\ ~OutOfText(reg_mips[PC])' /\ ~ExitInWB'
  <2>1. ~OutOfText(reg_mips[PC])'
    BY <1>7 DEF OutOfText, Unsigned
  <2>2. ~ExitInWB'
    BY <1>1, <1>6 DEF ExitInWB, ExitInMEM, MemIns
  <2>3. ~ExitInMEM'
    BY <1>5, <1>6 DEF ExitInMEM, MemIns
  <2> QED
    BY <2>1, <2>2, <2>3 DEF Over
<1>9. IsaReg' = Arch(DrainedReg') /\ IsaMem' = DrainedMemory'
  <2>1. (IsaReg = Arch(DrainedReg))' /\ (IsaMem = DrainedMemory)'
    BY <1>8, MapLive, PTL
  <2> QED
    BY <2>1 DEF Arch
<1>10. Arch(DrainedReg') = Arch(DrainedReg) /\ DrainedMemory' = DrainedMemory
  <2>1. /\ ExIns \in AnyIns /\ DrainedReg \in RegFile /\ RegAfterWB' \in RegFile
        /\ \A r \in ArchReg : RegAfterWB'[r] = DrainedReg[r]
    BY <1>1, <1>5, RegTypes, NextRegs
  <2>2. Arch(Leaves(ExIns, RegAfterMEM, RegAfterWB', vpipeline.EX, DrainedMemory)) = Arch(DrainedReg)
    BY <1>4, <2>1, ExecutedPlain
  <2>3. \A r, m, b : MEMMemory(ExIns, r, m, b) = m
    BY <1>4 DEF MEMMemory
  <2> QED
    BY <2>2, <2>3, Leaving
<1>11. IsaPc' = IsaPc /\ IsaNpc' = IsaNpc
  <2>1. (Real(vpipeline.EX)' <=> Real(vpipeline'.EX)) /\ (Real(vpipeline.ID)' <=> Real(vpipeline'.ID))
    BY DEF Real
  <2>2. SeesPc /\ SeesPc'
    BY <1>8, MapPc, PTL
  <2>3. Real(vpipeline'.ID) /\ ~Real(vpipeline.EX)
    BY <1>3, <1>6, Positions, MarkersApart DEF Real
  <2>4. Real(vpipeline'.EX) <=> Real(vpipeline.ID)
    BY <1>6 DEF Real
  <2> QED
    BY <1>6, <1>7, <2>1, <2>2, <2>3, <2>4 DEF SeesPc
<1> QED
  BY <1>2, <1>6, <1>8, <1>9, <1>10, <1>11, StutterIs DEF Over

-----------------------------------------------------------------------------
(* A cycle that leaves the text ends the program. *)

LEMMA LastWords ==
  ASSUME NEW a \in Val, ~OutOfText(a), OutOfText(Wrap(a + 1))
  PROVE  a \in {TextEnd + 3, LibcEnd + 3}
<1> DEFINE n == 2 * HalfRange
<1>1. n \in Nat \ {0} /\ HalfRange \in Nat /\ a \in -HalfRange .. HalfRange - 1 /\ LibcEnd + 4 < HalfRange
      /\ LibcEnd \in Nat
  BY MipsAssumption DEF Val
<1>2. a >= 0
  <2> SUFFICES ASSUME a < 0 PROVE FALSE
    BY <1>1
  <2>1. a \in -n .. -1
    BY <1>1
  <2>2. Unsigned(a) = a + n
    BY <1>1, <2>1, ModBelow DEF Unsigned
  <2> QED
    BY <1>1, <2>2 DEF OutOfText
<1>3. a \in 0 .. n - 1
  BY <1>1, <1>2
<1>4. Unsigned(a) = a
  BY <1>1, <1>3, ModSame DEF Unsigned
<1>5. a <= LibcEnd + 3
  BY <1>1, <1>4 DEF OutOfText
<1>6. a + 1 \in Val /\ a + 1 \in 0 .. n - 1
  BY <1>1, <1>2, <1>5 DEF Val
<1>7. Wrap(a + 1) = a + 1
  BY <1>6, WrapSame
<1>8. Unsigned(a + 1) = a + 1
  <2>1. PICK b : b = a + 1
    OBVIOUS
  <2>2. b % n = b
    BY <1>1, <1>6, <2>1, ModSame
  <2> QED
    BY <2>1, <2>2 DEF Unsigned
<1> QED
  BY <1>1, <1>4, <1>7, <1>8, MipsAssumption DEF OutOfText

LEMMA OutsideText ==
  ASSUME NEW a \in Val, OutOfText(a) \/ OutOfText(Wrap(a + 1))
  PROVE  a \notin Text /\ OutsideAt(a)
<1>1. a \notin Text
  <2> SUFFICES ASSUME a \in Text PROVE FALSE
    OBVIOUS
  <2>1. \A k \in 0 .. 4 : a + k \in Val /\ ~OutOfText(a + k)
    BY NearText
  <2>2. a + 1 \in Val /\ ~OutOfText(a + 1)
    BY <2>1
  <2>3. \A k : k = 0 => a + k = a
    BY SmallValues
  <2>4. ~OutOfText(a)
    BY <2>1, <2>3
  <2> QED
    BY <2>2, <2>4, WrapSame
<1> QED
  BY <1>1 DEF OutsideAt

(* Then the instruction in MEM writes no register, that in EX does not link,  *)
(* and Isa has come to the end too.                                           *)
LEMMA LeavingText ==
  ASSUME Lively, ~Over, OutOfText(IF Stall THEN NextFetch ELSE Wrap(NextFetch + 1))
  PROVE  /\ MemIns.op \in Control \cup {"NOP", "EMPTY"} /\ ~Links(ExIns)
         /\ IsaNpc \notin Text /\ (IsaPc \notin Text \/ OutsideAt(IsaNpc))
<1>1. SeesPc /\ NextFetch \in Val
  BY MapPc, Positions
<1>2. Trails(vpipeline, reg_mips[PC]) /\ Slots
  BY DEF Lively, Trail, InsInv
<1>3. vpipeline.MEM.at \notin Text => MemIns.op \in {"NOP", "EMPTY"}
  BY InsOfCases, NopOps DEF MemIns
<1>4. CASE vpipeline.ID.at = Bubble
  <2>1. /\ vpipeline.EX.at \in Val /\ ExIns.op \notin Control
        /\ vpipeline.EX.at - 1 \in Text /\ prog[vpipeline.EX.at - 1].op \in Control
    BY <1>4, Positions DEF AfterControl
  <2>2. ~Links(ExIns)
    BY <2>1 DEF Links, Control, Jumps
  <2>3. vpipeline.MEM.at \in Text => MemIns.op \in Control
    BY <1>2, <2>1, MarkersApart, InsOfCases DEF Trails, MemIns
  <2>4. IsaNpc = NextFetch
    BY <1>1, <1>4, <2>1, MarkersApart DEF SeesPc, Real
  <2>5. NextFetch \notin Text /\ OutsideAt(NextFetch)
    BY <1>1, OutsideText
  <2> QED
    BY <1>3, <2>2, <2>3, <2>4, <2>5
<1>5. CASE vpipeline.ID.at = Empty
  <2>1. NextFetch = TextStart /\ TextStart \in Text
    BY <1>5, Positions, MipsAssumption DEF Text
  <2> QED
    BY <1>1, <2>1, OutsideText
<1>6. CASE vpipeline.ID.at \in Val
  <2>1. NextFetch = reg_mips[PC] /\ NextFetch = vpipeline.ID.at + 1 /\ ~OutOfText(NextFetch)
    BY <1>6, Positions DEF Lively
  <2>2. NextFetch \in {TextEnd + 3, LibcEnd + 3}
    BY <1>1, <2>1, LastWords
  <2>3. vpipeline.ID.at \in {TextEnd + 2, LibcEnd + 2} /\ vpipeline.ID.at \in Int
    <3>1. vpipeline.ID.at \in Int
      BY <1>6, SmallValues
    <3>2. vpipeline.ID.at + 1 \in {TextEnd + 3, LibcEnd + 3}
      BY <2>1, <2>2
    <3> QED
      BY <3>1, <3>2, MipsAssumption
  <2>4. vpipeline.EX.at # Bubble
    BY <1>2, <2>3 DEF Slots, TooFar
  <2>5. vpipeline.EX.at # Empty
    <3>1. TextStart \notin {TextEnd + 2, LibcEnd + 2}
      BY MipsAssumption
    <3> QED
      BY <1>2, <1>6, <2>3, <3>1 DEF Trails
  <2>6. vpipeline.EX.at \in Val /\ vpipeline.EX.at + 1 = vpipeline.ID.at /\ vpipeline.EX.at \in Int
    BY <1>6, <2>4, <2>5, Positions, SmallValues
  <2>7. vpipeline.EX.at \in {TextEnd + 1, LibcEnd + 1}
    BY <2>3, <2>6, MipsAssumption
  <2>8. \A k \in 0 .. 2 : TextEnd + k \notin Text /\ LibcEnd + k \notin Text
    BY MipsAssumption DEF Text
  <2>9. vpipeline.EX.at \notin Text /\ vpipeline.ID.at \notin Text
    BY <2>3, <2>7, <2>8
  <2>10. vpipeline.MEM.at \notin Text
    <3>1. vpipeline.EX.at - 1 \in {TextEnd + 0, LibcEnd + 0}
      BY <2>7, MipsAssumption
    <3>2. vpipeline.EX.at - 1 \notin Text
      BY <2>8, <3>1
    <3> QED
      BY <1>2, <2>6, <3>2, MarkersApart DEF Trails
  <2>11. ~Links(ExIns)
    BY <2>9, InsOfCases, NopOps DEF Links, ExIns
  <2>12. IsaPc = vpipeline.EX.at /\ IsaNpc = vpipeline.ID.at
    BY <1>1, <1>6, <2>6, MarkersApart DEF SeesPc, Real
  <2> QED
    BY <1>3, <2>9, <2>10, <2>11, <2>12
<1> QED
  BY <1>4, <1>5, <1>6, Positions

LEMMA RegsKept ==
  ASSUME TypeOK, Advance, ~Links(ExIns)
  PROVE  Arch(reg_mips') = Arch(RegAfterWB)
<1>1. reg_mips' = [RegAfterEX EXCEPT ![PC] = IF Quit THEN TextEnd + 4 ELSE NextPC]
  BY MovedIns
<1>2. \A v : \A r \in ArchReg : [RegAfterEX EXCEPT ![PC] = v][r] = RegAfterEX[r]
  BY RegTypes DEF ArchReg, RegFile
<1>3. \A r \in ArchReg : reg_mips'[r] = RegAfterEX[r]
  BY <1>1, <1>2
<1>4. \A r \in ArchReg : RegAfterEX[r] = RegAfterWB[r]
  BY StageRegs
<1> QED
  BY <1>3, <1>4 DEF Arch

LEMMA StepHalt ==
  ASSUME Lively, Advance, ~Over, OutOfText(NextPC)
  PROVE  ISA!Halt
<1>1. TypeOK /\ ~ExitInWB /\ ~Quit /\ ~OutOfText(reg_mips[PC])
  BY DEF Lively, Over, ExitInWB, Quit
<1>2. IsaReg = Arch(DrainedReg) /\ IsaMem = DrainedMemory
  BY <1>1, MapLive
<1>3. reg_mips'[PC] = NextPC /\ NextPC = IF Stall THEN NextFetch ELSE Wrap(NextFetch + 1)
  BY <1>1, NextPCIs
<1>4. /\ MemIns.op \in Control \cup {"NOP", "EMPTY"} /\ ~Links(ExIns)
      /\ IsaNpc \notin Text /\ (IsaPc \notin Text \/ OutsideAt(IsaNpc))
  BY <1>3, LeavingText
<1>5. Over' /\ IsaReg' = Arch(reg_mips') /\ IsaMem' = memory'
  <2>1. OutOfText(reg_mips[PC])'
    BY <1>3 DEF OutOfText, Unsigned
  <2>2. Over' /\ (IsaReg = Arch(reg_mips))' /\ (IsaMem = memory)'
    BY <2>1, MapLeft, PTL
  <2> QED
    BY <2>2 DEF Arch
<1>6. memory' = DrainedMemory /\ prog' = prog
  BY <1>1, MovedIns
<1>7. Arch(DrainedReg) = Arch(RegAfterWB)
  <2>1. \A r, b : WBReg(MemIns, r, b) = r
    BY <1>4 DEF WBReg, AluR, AluI, Control, Branches, Jumps
  <2>2. DrainedReg = RegAfterMEM
    BY <2>1 DEF DrainedReg
  <2>3. \A r \in ArchReg : DrainedReg[r] = RegAfterWB[r]
    BY <1>1, <2>2, StageRegs
  <2> QED
    BY <2>3 DEF Arch
<1>8. IsaReg' = IsaReg
  BY <1>1, <1>2, <1>4, <1>5, <1>7, RegsKept
<1> QED
  BY <1>2, <1>4, <1>5, <1>6, <1>8, HaltIs

-----------------------------------------------------------------------------
(* After an exit nothing shows. *)

LEMMA StepAfterExit ==
  ASSUME Lively, Advance, ExitInMEM, ~ExitInWB
  PROVE  UNCHANGED ISA!vars
<1>1. TypeOK /\ ~Quit /\ ~OutOfText(reg_mips[PC])
  BY DEF Lively, ExitInWB, Quit
<1>2. /\ vpipeline.MEM.at \in Text /\ NextFetch = vpipeline.MEM.at + 3
      /\ ~Links(ExIns) /\ MemIns.op = "SYSCALL"
  BY ExitFollowed
<1>3. reg_mips'[PC] = NextPC /\ NextPC = IF Stall THEN NextFetch ELSE Wrap(NextFetch + 1)
  BY <1>1, NextPCIs
<1>4. ~OutOfText(NextPC)
  <2>1. vpipeline.MEM.at + 3 \in Val /\ ~OutOfText(vpipeline.MEM.at + 3)
    BY <1>2, NearText
  <2>2. vpipeline.MEM.at + 4 \in Val /\ ~OutOfText(vpipeline.MEM.at + 4)
    BY <1>2, NearText
  <2>3. NextFetch + 1 = vpipeline.MEM.at + 4
    BY <1>2, TextIsVal, SmallValues
  <2> QED
    BY <1>2, <1>3, <2>1, <2>2, <2>3, WrapSame
<1>5. ~OutOfText(reg_mips[PC])' /\ ExitInWB'
  <2>1. InsOf(vpipeline.WB)' = MemIns
    BY <1>1, MovedIns
  <2>2. ExitInWB'
    BY <2>1 DEF ExitInWB, ExitInMEM, MemIns
  <2> QED
    BY <1>3, <1>4, <2>2 DEF OutOfText, Unsigned
<1>6. IsaReg = Arch(DrainedReg) /\ IsaMem = DrainedMemory
  BY <1>1, MapLive
<1>7. Over' /\ IsaReg' = Arch(RegAfterWB') /\ IsaMem' = memory'
  <2>1. Over' /\ (IsaReg = Arch(RegAfterWB))' /\ (IsaMem = memory)'
    BY <1>5, MapExit, PTL
  <2> QED
    BY <2>1 DEF Arch
<1>8. Arch(RegAfterWB') = Arch(DrainedReg)
  BY <1>2, NextRegs DEF Arch
<1>9. memory' = DrainedMemory /\ prog' = prog
  BY <1>1, MovedIns
<1>10. Over
  BY DEF Over
<1>11. IsaPc = 0 /\ IsaNpc = 0 /\ IsaPc' = 0 /\ IsaNpc' = 0
  BY <1>7, <1>10 DEF IsaPc, IsaNpc
<1> QED
  BY <1>6, <1>7, <1>8, <1>9, <1>10, <1>11, StutterIs DEF Over

LEMMA StepQuit ==
  ASSUME Lively, Advance, ExitInWB
  PROVE  UNCHANGED ISA!vars
<1>1. TypeOK /\ Quit /\ ~OutOfText(reg_mips[PC]) /\ Clean(prog)
  BY DEF Lively, InsInv, ExitInWB, Quit
<1>2. vpipeline.WB.at \in Text /\ Quits(prog[vpipeline.WB.at]) /\ vpipeline.WB.at \in Int
  <2>1. InsOf(vpipeline.WB) \notin {NopIns, NoIns}
    BY NopOps DEF ExitInWB, Quits
  <2>2. vpipeline.WB.at \in Text /\ InsOf(vpipeline.WB) = prog[vpipeline.WB.at]
    BY <2>1, InsOfCases
  <2> QED
    BY <2>2, TextIsVal, SmallValues DEF ExitInWB
<1>3. /\ vpipeline.MEM.at \in {Bubble, vpipeline.WB.at + 1}
      /\ vpipeline.EX.at \in {vpipeline.WB.at + 1, vpipeline.WB.at + 2}
  BY DEF Lively, InsInv, ExitLast
<1>4. vpipeline.WB.at + 1 \in Text =>
        /\ ~Links(prog[vpipeline.WB.at + 1]) /\ prog[vpipeline.WB.at + 1].op # "SW"
  <2>1. vpipeline.WB.at + 1 \in Text =>
          ~PairHazard(prog[vpipeline.WB.at], prog[vpipeline.WB.at + 1])
    BY <1>1, <1>2 DEF Clean
  <2> QED
    BY <1>2, <2>1 DEF PairHazard
<1>5. vpipeline.WB.at + 2 \in Text => ~Links(prog[vpipeline.WB.at + 2])
  BY <1>1, <1>2 DEF Clean
<1>6. ~Links(ExIns)
  <2>1. CASE vpipeline.EX.at \in Text
    <3>1. ExIns = prog[vpipeline.EX.at]
      BY <2>1, InsOfCases DEF ExIns
    <3> QED
      BY <1>3, <1>4, <1>5, <2>1, <3>1
  <2>2. CASE vpipeline.EX.at \notin Text
    BY <2>2, InsOfCases, NopOps DEF Links, ExIns
  <2> QED
    BY <2>1, <2>2
<1>7. MemIns.op # "SW"
  <2>1. CASE vpipeline.MEM.at \in Text
    <3>1. MemIns = prog[vpipeline.MEM.at]
      BY <2>1, InsOfCases DEF MemIns
    <3> QED
      BY <1>3, <1>4, <2>1, <3>1, MarkersApart
  <2>2. CASE vpipeline.MEM.at \notin Text
    BY <2>2, InsOfCases, NopOps DEF MemIns
  <2> QED
    BY <2>1, <2>2
<1>8. memory' = memory /\ prog' = prog
  BY <1>1, <1>7, MovedIns DEF DrainedMemory, MEMMemory
<1>9. Over /\ IsaReg = Arch(RegAfterWB) /\ IsaMem = memory
  BY <1>1, MapExit
<1>10. Over' /\ IsaReg' = Arch(reg_mips') /\ IsaMem' = memory'
  <2>1. reg_mips'[PC] = TextEnd + 4
    BY <1>1, RegTypes, MovedIns, Indices DEF RegFile
  <2>2. OutOfText(reg_mips[PC])'
    BY <2>1, PastTheEnd DEF OutOfText, Unsigned
  <2>3. Over' /\ (IsaReg = Arch(reg_mips))' /\ (IsaMem = memory)'
    BY <2>2, MapLeft, PTL
  <2> QED
    BY <2>3 DEF Arch
<1>11. Arch(reg_mips') = Arch(RegAfterWB)
  BY <1>1, <1>6, RegsKept
<1>12. IsaPc = 0 /\ IsaNpc = 0 /\ IsaPc' = 0 /\ IsaNpc' = 0
  BY <1>9, <1>10 DEF IsaPc, IsaNpc
<1> QED
  BY <1>8, <1>9, <1>10, <1>11, <1>12, StutterIs DEF Over

-----------------------------------------------------------------------------
(* Every step is a step of Isa or does not show. *)

LEMMA AdvanceIsa ==
  ASSUME Lively, Advance PROVE [ISA!Next]_(ISA!vars)
<1>1. CASE ExitInWB
  BY <1>1, StepQuit
<1>2. CASE ExitInMEM /\ ~ExitInWB
  BY <1>2, StepAfterExit
<1>3. CASE ~ExitInMEM /\ ~ExitInWB
  <2>1. ~Over
    BY <1>3 DEF Over, Lively
  <2>2. CASE ~Stall /\ vpipeline.EX.at \in Val /\ (Quits(ExIns) \/ ~OutOfText(NextPC))
    BY <2>1, <2>2, StepExecute DEF ISA!Next
  <2>3. CASE Stall /\ ~OutOfText(NextPC)
    BY <2>1, <2>3, StepStall
  <2>4. CASE ~Stall /\ vpipeline.EX.at \notin Val /\ ~OutOfText(NextPC)
    BY <2>1, <2>4, StepSkip
  <2>5. CASE OutOfText(NextPC)
    BY <2>1, <2>5, StepHalt DEF ISA!Next
  <2> QED
    BY <2>2, <2>3, <2>4, <2>5
<1> QED
  BY <1>1, <1>2, <1>3

LEMMA NextIsa ==
  ASSUME RunAddr = {}
  PROVE  TypeOK /\ TypeOK' /\ NoWrongPath /\ Trail /\ InsInv /\ [Next]_vars => [ISA!Next]_(ISA!vars)
<1> SUFFICES ASSUME TypeOK, TypeOK', NoWrongPath, Trail, InsInv, [Next]_vars
             PROVE  [ISA!Next]_(ISA!vars)
  OBVIOUS
<1>1. CASE Advance
  <2>1. Lively
    BY <1>1 DEF Lively, Trail, Advance
  <2> QED
    BY <1>1, <2>1, AdvanceIsa
<1>2. CASE Restarts
  BY <1>2, RestartIs DEF ISA!Next
<1>3. CASE UNCHANGED <<prog, reg_mips, memory, vpipeline>>
  <2>1. UNCHANGED ISA!vars
    BY <1>3 DEF ISA!vars, ArchState, Over, ExitInWB, ExitInMEM, InsOf, DrainedReg, DrainedMemory, MemIns,
       RegAfterWB, RegAfterMEM, Upcoming, NextFetch, Real
  <2> QED
    BY <2>1
<1> QED
  BY <1>1, <1>2, <1>3, BetweenCycles

(* The pipeline implements Isa (the whole of pipeline.c:181-333 and           *)
(* execute.c): whatever the clean program, its values, the layout of the text *)
(* and the commands, every behaviour in which no register jump leads two      *)
(* words before the end of the program is one of a machine without stages,    *)
(* as long as run is given no address.                                        *)
THEOREM PipelineImplementsIsa ==
  ASSUME RunAddr = {}, \A p \in Programs : Clean(p)
  PROVE  Spec /\ []ReturnsNear => ImplementsIsa
<1>1. Init => InsInv
  <2> SUFFICES ASSUME Init PROVE InsInv
    OBVIOUS
  <2>1. EmptyBlocks
    BY DEF Init, EmptyBlocks, EmptyBlock
  <2>2. Clean(prog)
    BY DEF Init
  <2> QED
    BY <2>1, <2>2, EmptyInv DEF InsInv
<1>2. TypeOK /\ NoWrongPath /\ Trail /\ InsInv /\ [Next]_vars /\ ReturnsNear' => InsInv'
  BY NextInsInv
<1>3. TypeOK /\ TypeOK' /\ NoWrongPath /\ Trail /\ InsInv /\ [Next]_vars => [ISA!Next]_(ISA!vars)
  BY NextIsa
<1>4. Init => ISA!Init
  BY InitIsa
<1> QED
  BY <1>1, <1>2, <1>3, <1>4, InvTrail, PTL DEF Spec, ImplementsIsa, ISA!Spec
=============================================================================
