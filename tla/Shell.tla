------------------------------- MODULE Shell --------------------------------
(***************************************************************************)
(* The loop of main (main.c): lines are read from the script or from the    *)
(* user until one is not blank, decrypted, and what decrypt returns decides *)
(* whether the program goes on.  debug and resume move between the script   *)
(* and the user.  The commands themselves are module Commands.              *)
(***************************************************************************)
EXTENDS Commands

CONSTANTS
  Scripts,      (* [text, newline]: the lines of a file, and whether the     *)
                (* last one ends with a newline; NoScript for no argument    *)
  NoScript,
  Typed,        (* what the user may type: lines, <<>> when blank            *)
  MaxTyped      (* bound: lines the user types                               *)

ASSUME ShellAssumption ==
  /\ NoScript \notin Scripts
  /\ \A s \in Scripts : s.text \in Seq(Seq(STRING))

VARIABLES
  script,       (* the script given to the program                          *)
  place,        (* lines of it read so far                                  *)
  feof,         (* its end-of-file indicator                                *)
  phase,        (* "read", "decrypt", "after", or how the program ended     *)
  input,        (* the line read                                            *)
  typed,        (* lines the user has typed                                 *)
  failed        (* history: a line of the script was refused                *)

loop == <<script, place, feof, phase, input, typed, failed>>
svars == <<cvars, loop>>

Ended == {"exit 0", "exit 1", "crash"}
Lasts == script # NoScript /\ place = Len(script.text)

(* No argument is the interactive mode; a script that cannot be opened, or   *)
(* more than one argument, ends the program at once.                         *)
Shell_Init ==
  /\ Memory_Init /\ reg \in [0 .. 34 -> {0}] /\ clocktime = 0 /\ verbose = 0
  /\ shown = {} /\ res = 0 /\ settled = <<>>
  /\ script \in Scripts \cup {NoScript}
  /\ scriptmode = IF script = NoScript THEN 0 ELSE 1
  /\ place = 0 /\ feof = FALSE /\ phase = "read" /\ input = <<>>
  /\ typed = 0 /\ failed = FALSE

-----------------------------------------------------------------------------
(* A blank line, or a comment, is read over.  Only the last line can leave   *)
(* the end-of-file indicator set, and only when no newline ends it.          *)
Taken(l) ==
  /\ input' = l
  /\ phase' = IF l = <<>> THEN "read" ELSE "decrypt"

GetFromScript ==
  /\ phase = "read" /\ scriptmode = 1 /\ ~Lasts
  /\ place' = place + 1
  /\ feof' = (place' = Len(script.text) /\ ~script.newline)
  /\ Taken(script.text[place'])
  /\ UNCHANGED <<cvars, script, typed, failed>>

(* fgets finds nothing to read: the mode changes, and the user is asked.     *)
EndOfScript ==
  /\ phase = "read" /\ scriptmode = 1 /\ Lasts
  /\ scriptmode' = 0 /\ feof' = TRUE
  /\ UNCHANGED <<mvars, reg, clocktime, verbose, shown, res, settled,
                 script, place, phase, input, typed, failed>>

GetFromUser ==
  /\ phase = "read" /\ scriptmode = 0 /\ typed < MaxTyped
  /\ typed' = typed + 1
  /\ \E l \in Typed : Taken(l)
  /\ UNCHANGED <<cvars, script, place, feof, failed>>

DecryptInput ==
  /\ phase = "decrypt"
  /\ Decrypt(input)
  /\ phase' = "after"
  /\ failed' = (failed \/ (scriptmode' = 1 /\ res' \notin {0, 2}))
  /\ UNCHANGED <<script, place, feof, input, typed>>

(* Mutant: the end of the file is tested before the result. *)
OutcomeEofFirst ==
  IF res = 2 \/ (scriptmode = 1 /\ feof) THEN "exit 0"
  ELSE IF scriptmode = 1 /\ res # 0 THEN "exit 1"
  ELSE "read"

(* Mutant: only a failing read shows the end of the file. *)
OutcomeNoEof ==
  IF res = 2 THEN "exit 0"
  ELSE IF scriptmode # 1 THEN "read"
  ELSE IF script = NoScript THEN "crash"
  ELSE IF res # 0 THEN "exit 1"
  ELSE "read"

(* feof is asked of the script even when there is none. *)
Outcome ==
  IF res = 2 THEN "exit 0"
  ELSE IF scriptmode # 1 THEN "read"
  ELSE IF script = NoScript THEN "crash"
  ELSE IF res # 0 THEN "exit 1"
  ELSE IF feof THEN "exit 0"
  ELSE "read"

After ==
  /\ phase = "after"
  /\ phase' = Outcome
  /\ UNCHANGED <<cvars, script, place, feof, input, typed, failed>>

Step == GetFromScript \/ EndOfScript \/ DecryptInput \/ After
Shell_Next == Step \/ GetFromUser

(* The program goes on by itself; nobody makes the user type. *)
Shell_Spec == Shell_Init /\ [][Shell_Next]_svars /\ WF_svars(Step)

-----------------------------------------------------------------------------
(* PROPERTIES *)

(* The status a test harness reads (Tests/simpleUnitTest.sh): 1 exactly when   *)
(* a line of the script was refused, whatever was typed between debug and      *)
(* resume (main.c:117-132).                                                    *)
StatusTells ==
  /\ phase = "exit 1" => failed
  /\ phase = "exit 0" => ~failed

(* The script is at its end, or nobody will read the rest of it. *)
Closed == script # NoScript /\ ~(\E k \in DOMAIN script.text : script.text[k] = <<"debug">>)
OnItsOwn ==
  \/ \E k \in DOMAIN script.text : script.text[k] = <<"exit">>
  \/ ~script.newline /\ script.text # <<>> /\ script.text[Len(script.text)] # <<>>

(* A script without debug that has an exit, or whose last line is a command no *)
(* newline ends, ends the program; nothing is asked of the user (main.c:134).  *)
ScriptEnds == Closed /\ OnItsOwn => <>(phase \in Ended /\ typed = 0)

(* "mode fichier, fin de fichier => sortie propre du programme" (main.c:135):  *)
(* with a script that never asks for debug, the user is never asked.           *)
EndOfFileEnds == Closed => scriptmode = 1

(* "No open script, use ./EXENAME SCRIPTNAME to run with a script" (main.c:92) *)
(* is what resume says when there is no script to resume.                      *)
ResumeSurvives == phase # "crash"
=============================================================================
