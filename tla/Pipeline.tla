------------------------------ MODULE Pipeline ------------------------------
(***************************************************************************)
(* The five-stage pipeline (pipeline.c, pipeiter) and the commands that    *)
(* drive it (user_int.c: run, step, step into, break), once a program is   *)
(* loaded.  One action Advance is one call of pipeiter that goes through a *)
(* clock cycle; a command sets mode, and decrypt's "while (flag > 0)" loop *)
(* is the repetition of cycles until mode is "stop" again.                 *)
(*                                                                         *)
(* A block holds the ADDRESS its instruction was fetched from where the    *)
(* code holds the instruction word: the program does not change while it   *)
(* runs, so the word is that of the address.  The IF block is not state:   *)
(* fetch overwrites it at every cycle before it is used.                   *)
(***************************************************************************)
EXTENDS Mips

CONSTANTS
  Programs,     (* what may be loaded: functions from Text to Ins           *)
  DataInit,     (* contents of the writable segments after load             *)
  Empty,        (* a block whose instruction word is -1                     *)
  Bubble,       (* a block filled by addNOP                                 *)
  StepModes,    (* the step commands the user gives                         *)
  BreakAddr,    (* the addresses the user sets breakpoints on               *)
  RunAddr       (* the addresses the user gives to run                      *)

ASSUME PipelineAssumption ==
  /\ Programs \subseteq [Text -> Ins]
  /\ DataInit \in [DataAddr -> Val]
  /\ Empty \notin Val /\ Bubble \notin Val /\ Empty # Bubble
  /\ StepModes \subseteq {"step", "stepinto"}
  /\ BreakAddr \subseteq Text
  /\ RunAddr \subseteq Val

VARIABLES
  prog,         (* the loaded program                                       *)
  reg_mips,     (* registers, with HI, LO and PC                            *)
  memory,       (* the writable segments                                    *)
  vpipeline,    (* blocks ID, EX, MEM and WB                                *)
  breaklist,    (* the breakpoints                                          *)
  return_addr,  (* where a step over a call waits                           *)
  mode          (* decrypt's flag: "stop" when the prompt is back           *)

vars == <<prog, reg_mips, memory, vpipeline, breaklist, return_addr, mode>>

Block == [at : Val \cup {Empty, Bubble}, tmp : Val, tmp2 : Val]
Modes == {"stop", "running", "step", "stepinto", "step_return"}

TypeOK ==
  /\ prog \in [Text -> Ins]
  /\ reg_mips \in [RegIdx -> Val]
  /\ memory \in [DataAddr -> Val]
  /\ vpipeline \in [ID : Block, EX : Block, MEM : Block, WB : Block]
  /\ breaklist \subseteq BreakAddr
  /\ return_addr \in Val
  /\ mode \in Modes

Real(b) == b.at \notin {Empty, Bubble}   \* its instruction was fetched

(* The instruction word of a block: getInstr yields -1 outside the text. *)
InsOf(b) == CASE b.at = Bubble -> NopIns
              [] b.at \in Text -> prog[b.at]
              [] OTHER -> NoIns

-----------------------------------------------------------------------------
(* initprog: the blocks keep their tmp and tmp2. *)

InitReg == [r \in RegIdx |-> IF r = PC THEN TextStart
                             ELSE IF r = SP THEN StackTop ELSE 0]

Emptied(p) == [ID |-> [p.ID EXCEPT !.at = Empty], EX |-> [p.EX EXCEPT !.at = Empty],
               MEM |-> [p.MEM EXCEPT !.at = Empty], WB |-> [p.WB EXCEPT !.at = Empty]]

EmptyBlock == [at |-> Empty, tmp |-> 0, tmp2 |-> 0]

Init ==
  /\ prog \in Programs
  /\ reg_mips = InitReg
  /\ memory = DataInit
  /\ vpipeline = [ID |-> EmptyBlock, EX |-> EmptyBlock,
                  MEM |-> EmptyBlock, WB |-> EmptyBlock]
  /\ breaklist = {}
  /\ return_addr = 0
  /\ mode = "stop"

-----------------------------------------------------------------------------
(* One clock cycle.  The stages execute one after the other, WB first, each *)
(* on the registers and the memory the previous one left.                   *)

RegAfterWB  == WBReg(InsOf(vpipeline.WB), reg_mips, vpipeline.WB)
RegAfterMEM == MEMReg(InsOf(vpipeline.MEM), RegAfterWB, vpipeline.MEM)
RegAfterEX  == EXReg(InsOf(vpipeline.EX), RegAfterMEM)

Stall == WritedReg(InsOf(vpipeline.MEM)) \cap ReadedReg(InsOf(vpipeline.EX)) # {}
Flush == Flushes(InsOf(vpipeline.EX), RegAfterMEM)
Quit  == Quits(InsOf(vpipeline.WB))

(* Mutant: a stall does not take the increment back. *)
NextPCNotHeld == Wrap(RegAfterEX[PC] + 1)

(* PC after the fetch; a stall takes the increment back. *)
NextPC == IF Stall THEN RegAfterEX[PC] ELSE Wrap(RegAfterEX[PC] + 1)

(* Mutant: addNOP is forgotten when EX is held. *)
ShiftedNoNop ==
  LET mem == MEMBlock(InsOf(vpipeline.MEM), memory, vpipeline.MEM)
      ex  == EXBlock(InsOf(vpipeline.EX), RegAfterMEM, vpipeline.EX)
  IN IF Stall
     THEN [WB |-> mem, MEM |-> mem, EX |-> ex, ID |-> vpipeline.ID]
     ELSE [WB |-> mem, MEM |-> ex, EX |-> [vpipeline.ID EXCEPT !.tmp = 0],
           ID |-> [at |-> IF Flush THEN Bubble ELSE RegAfterEX[PC],
                   tmp |-> 0, tmp2 |-> 0]]

(* The blocks at the end of the cycle.  A flushed fetch becomes a NOP, and  *)
(* a stall sends a NOP to MEM and holds EX and ID.                          *)
Shifted ==
  LET mem     == MEMBlock(InsOf(vpipeline.MEM), memory, vpipeline.MEM)
      ex      == EXBlock(InsOf(vpipeline.EX), RegAfterMEM, vpipeline.EX)
      fetched == [at |-> IF Flush THEN Bubble ELSE RegAfterEX[PC],
                  tmp |-> 0, tmp2 |-> 0]
  IN IF Stall
     THEN [WB |-> mem, MEM |-> [mem EXCEPT !.at = Bubble, !.tmp = 0],
           EX |-> ex, ID |-> vpipeline.ID]
     ELSE [WB |-> mem, MEM |-> ex,
           EX |-> [vpipeline.ID EXCEPT !.tmp = 0], ID |-> fetched]

(* A step that finds a call in MEM turns into step_return; any other step   *)
(* lasts one cycle.                                                         *)
StepsOver == mode = "step" /\ InsOf(vpipeline.MEM).op \in {"JAL", "JALR"}
NextMode == CASE StepsOver -> "step_return"
              [] mode \in {"step", "stepinto"} /\ ~StepsOver -> "stop"
              [] OTHER -> mode

(* Mutant: the return point is passed rather than reached. *)
ReturnedPast == mode = "step_return" /\ reg_mips[PC] >= Wrap(return_addr + 1)

(* The return point of a stepped-over call has been fetched. *)
Returned == mode = "step_return" /\ reg_mips[PC] = Wrap(return_addr + 1)

(* Mutant: the end of the text is noticed one instruction early. *)
AtEndEarly(a) == a \in {TextEnd + 3, LibcEnd + 3}

AtEnd(a) == a \in {TextEnd + 4, LibcEnd + 4}

StepReturned ==
  /\ Returned
  /\ mode' = "stop"
  /\ UNCHANGED <<prog, reg_mips, memory, vpipeline, breaklist, return_addr>>

Advance ==
  /\ mode # "stop"
  /\ ~Returned
  /\ return_addr' = IF StepsOver THEN Wrap(reg_mips[PC] - 1) ELSE return_addr
  /\ memory' = MEMMemory(InsOf(vpipeline.MEM), RegAfterWB, memory, vpipeline.MEM)
  /\ reg_mips' = [RegAfterEX EXCEPT ![PC] = IF Quit THEN TextEnd + 4 ELSE NextPC]
  /\ vpipeline' = IF OutOfText(NextPC) THEN [Shifted EXCEPT !.ID.at = Empty]
                  ELSE Shifted
  /\ mode' = IF \/ Quit
                \/ AtEnd(NextPC)
                \/ OutOfText(NextPC)
                \/ NextPC \in breaklist
                \/ InsOf(vpipeline.WB).op = "BREAK"
             THEN "stop" ELSE NextMode
  /\ UNCHANGED <<prog, breaklist>>

Cycle == StepReturned \/ Advance

-----------------------------------------------------------------------------
(* The commands.  Each starts with PC at the address given, if any, and     *)
(* starts the program again when PC has left the text.                      *)

Start(m, pc) ==
  /\ mode = "stop"
  /\ mode' = m
  /\ IF OutOfText(pc)
     THEN reg_mips' = InitReg /\ vpipeline' = Emptied(vpipeline)
     ELSE reg_mips' = [reg_mips EXCEPT ![PC] = pc] /\ UNCHANGED vpipeline
  /\ UNCHANGED <<prog, memory, breaklist, return_addr>>

Run == Start("running", reg_mips[PC])
Step(m) == Start(m, reg_mips[PC])
RunFrom(a) == Start("running", a)

(* step looks at its argument after it has started the program again. *)
StepRefused == Start("stop", reg_mips[PC])

(* run takes its address before it complains of a second argument. *)
RunRefused(a) ==
  /\ mode = "stop"
  /\ reg_mips' = [reg_mips EXCEPT ![PC] = a]
  /\ UNCHANGED <<prog, memory, vpipeline, breaklist, return_addr, mode>>

BreakAdd(a) ==
  /\ mode = "stop"
  /\ a \notin breaklist
  /\ breaklist' = breaklist \cup {a}
  /\ UNCHANGED <<prog, reg_mips, memory, vpipeline, return_addr, mode>>

BreakDel(a) ==
  /\ mode = "stop"
  /\ a \in breaklist
  /\ breaklist' = breaklist \ {a}
  /\ UNCHANGED <<prog, reg_mips, memory, vpipeline, return_addr, mode>>

Command ==
  \/ Run
  \/ \E m \in StepModes : Step(m)
  \/ StepRefused
  \/ \E a \in RunAddr : RunFrom(a) \/ RunRefused(a)
  \/ \E a \in BreakAddr : BreakAdd(a) \/ BreakDel(a)

Next == Cycle \/ Command

Spec == Init /\ [][Next]_vars

(* decrypt's loop does not stop calling pipeiter while the flag is up; the  *)
(* user owes no command.                                                    *)
FairSpec == Spec /\ WF_vars(Cycle)
-----------------------------------------------------------------------------
(* PROPERTIES *)

(* When a jump or a taken branch in MEM is about to redirect PC, the block    *)
(* behind its delay slot carries no instruction: one fetched on the wrong     *)
(* path is never decoded (the flush of pipeline.c:289-294, the two PC values  *)
(* a branch computes in execute.c:157-271).  Once PC has left the text the    *)
(* pipeline is not used again.                                                *)
NoWrongPath ==
  /\ ~OutOfText(reg_mips[PC])
  /\ RegAfterMEM[PC] # RegAfterWB[PC]
  => ~Real(vpipeline.ID)

(* A stalled cycle is followed by one that is not: the NOP it leaves in MEM   *)
(* (pipeline.c:297) frees the instruction waiting in EX, so stalls never      *)
(* chain into a pipeline that turns without moving.                           *)
StallOnce == [][Advance /\ Stall => ~Stall']_vars

(* When the program ends by running past its last instruction, that           *)
(* instruction has left WB: nothing of the text is unfinished in the pipeline *)
(* (the "+16" of pipeline.c:320 is as long as the pipeline is deep).  A jump  *)
(* to the last two of those words is another matter: its flushed fetch is     *)
(* then still in EX or MEM, and its delay slot never reaches WB.              *)
DrainedAtEnd ==
  [][ /\ Advance /\ AtEnd(NextPC) /\ ~Quit
      /\ Bubble \notin {vpipeline'.EX.at, vpipeline'.MEM.at}
      => \A b \in {vpipeline'.ID, vpipeline'.EX, vpipeline'.MEM, vpipeline'.WB} :
           b.at \notin Text ]_vars

(* A command gives the prompt back, stalls, jumps and calls included.         *)
(* True of programs that do not loop.                                         *)
CommandEnds == mode # "stop" ~> mode = "stop"
=============================================================================
