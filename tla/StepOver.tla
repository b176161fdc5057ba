------------------------------ MODULE StepOver ------------------------------
(***************************************************************************)
(* Pipeline with the depth of procedure calls, a history variable: pipeiter *)
(* itself only compares PC with the address after the call.  A call counts  *)
(* when its jump is made in MEM, and so does the return by JR $31.          *)
(***************************************************************************)
EXTENDS Pipeline

VARIABLES
  depth,        (* procedures entered and not left                         *)
  callDepth,    (* depth at the call that the last step went over          *)
  moved         (* a run has moved PC away from where the pipeline fetches *)

stepvars == <<prog, reg_mips, memory, vpipeline, breaklist, return_addr, mode,
              depth, callDepth, moved>>

StepInit == Init /\ depth = 0 /\ callDepth = 0 /\ moved = FALSE

Enters == InsOf(vpipeline.MEM).op \in {"JAL", "JALR"}
Leaves == InsOf(vpipeline.MEM).op = "JR" /\ InsOf(vpipeline.MEM).rs = RA

DepthAdvance ==
  /\ Advance
  /\ depth' = CASE Enters -> depth + 1
                [] Leaves -> depth - 1
                [] OTHER -> depth
  /\ callDepth' = IF StepsOver THEN depth ELSE callDepth
  /\ UNCHANGED moved

DepthReturned == StepReturned /\ UNCHANGED <<depth, callDepth, moved>>

(* A command that starts the program again forgets the calls; run with an    *)
(* address, refused or not, leaves in the pipeline what is fetched already.  *)
Restarts ==
  /\ mode' # "stop" \/ (StepRefused /\ OutOfText(reg_mips[PC]))
  /\ reg_mips' = InitReg /\ vpipeline' = Emptied(vpipeline)

DepthCommand ==
  /\ Command
  /\ depth' = IF Restarts THEN 0 ELSE depth
  /\ moved' = (~Restarts /\ (moved \/ reg_mips'[PC] # reg_mips[PC]))
  /\ UNCHANGED callDepth

StepNext == DepthAdvance \/ DepthReturned \/ DepthCommand

StepSpec == StepInit /\ [][StepNext]_stepvars

-----------------------------------------------------------------------------

(* PROPERTIES *)

(* A step over a call gives the prompt back only when the whole procedure has *)
(* been executed: no call made since is still running (pipeline.c:218; help   *)
(* says of step "execute whole procedure").  True when no procedure calls     *)
(* itself (an inner call of a recursive procedure returns to the same address) *)
(* and as long as run is given no address: the return address is that of PC.  *)
WholeProcedure == [][DepthReturned /\ ~moved => depth = callDepth]_stepvars
=============================================================================
