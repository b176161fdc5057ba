-------------------------------- MODULE Gui ---------------------------------
(***************************************************************************)
(* The window (affichage.c): a loop that waits for one event, runs the       *)
(* command it stands for, draws, and leaves when it is told to or when exit  *)
(* was typed.  The window command may be typed in the window's own console,  *)
(* which runs a second loop inside the first.  The emulator is a number that *)
(* every command that does something increments.                             *)
(***************************************************************************)
EXTENDS Integers, Sequences

CONSTANTS
  Entries,      (* lines the console may hold, of those below                *)
  MaxMachine,   (* bound: commands that do something                         *)
  MaxOpen,      (* bound: windows opened                                     *)
  Outside       (* result of a window that is not closed yet                 *)

(* "step" stands for every line that is accepted, "bad" for one refused. *)
AllLines == {"", "step", "bad", "exit", "window"}
GuiAssumption == Entries \subseteq AllLines /\ {MaxMachine, MaxOpen} \subseteq Nat

VARIABLES
  emulator,     (* the emulator: commands done                               *)
  loaded,       (* a program is in memory                                    *)
  video,        (* SDL is initialised                                        *)
  windows,      (* the activations of affichage, the innermost last          *)
  result,       (* what the window command returned to main                  *)
  opened,       (* windows opened so far                                     *)
  crashed,
  pressed       (* history: a button ran a command since the last redraw     *)

gvars == <<emulator, loaded, video, windows, result, opened, crashed, pressed>>

(* The local variables of affichage.  laid is the size of the last layout,    *)
(* each dimension above its minimum or not; typed the result of the last line. *)
NewWindow ==
  [place |-> "loop", boucle |-> 1, layout |-> 0, res |-> 0, shown |-> -1, console |-> "",
   event |-> "none", size |-> <<TRUE, TRUE>>, laid |-> <<TRUE, TRUE>>]

Depth == Len(windows)
Top == windows[Depth]
In(p) == Depth > 0 /\ Top.place = p /\ ~crashed
Becomes(w) == windows' = [windows EXCEPT ![Depth] = w]

Gui_Init ==
  /\ emulator = 0 /\ loaded \in BOOLEAN /\ video = FALSE /\ windows = <<>>
  /\ result = 0 /\ opened = 0 /\ crashed = FALSE /\ pressed = FALSE

-----------------------------------------------------------------------------
(* The window command, from main: SDL may refuse. *)
Open ==
  /\ Depth = 0 /\ result # 2 /\ opened < MaxOpen
  /\ opened' = opened + 1
  /\ \/ windows' = <<NewWindow>> /\ video' = TRUE /\ result' = Outside
     \/ UNCHANGED <<windows, video>> /\ result' = -1
  /\ UNCHANGED <<emulator, loaded, crashed, pressed>>

(* Items are placed anew at the first turn and after a resize. *)
LayOut ==
  /\ In("loop") /\ Top.boucle = 1
  /\ IF Top.layout = 0
     THEN /\ Becomes([Top EXCEPT !.layout = 1, !.laid = Top.size, !.shown = emulator,
                                 !.place = "wait"])
          /\ pressed' = FALSE
     ELSE Becomes([Top EXCEPT !.place = "wait"]) /\ UNCHANGED pressed
  /\ UNCHANGED <<emulator, loaded, video, result, opened, crashed>>

(* run, step and step into, from a key or a button, need a program. *)
Command ==
  IF loaded THEN emulator < MaxMachine /\ emulator' = emulator + 1 ELSE UNCHANGED emulator

Handled(w) == Becomes([w EXCEPT !.place = "draw"])

QuitEvent ==
  /\ In("wait") /\ video
  /\ Handled([Top EXCEPT !.boucle = 0, !.event = "quit"])
  /\ UNCHANGED <<emulator, loaded, video, result, opened, crashed, pressed>>

(* Mutant: the panels keep what they showed. *)
FunctionKeyNoRedraw ==
  /\ In("wait") /\ video
  /\ Command
  /\ Handled([Top EXCEPT !.event = "key"])
  /\ UNCHANGED <<loaded, video, result, opened, crashed, pressed>>

(* F1, F2 and F3: what decrypt returns is dropped. *)
FunctionKey ==
  /\ In("wait") /\ video
  /\ Command
  /\ Handled([Top EXCEPT !.event = "key", !.shown = emulator'])
  /\ pressed' = FALSE
  /\ UNCHANGED <<loaded, video, result, opened, crashed>>

(* The line of the console is decrypted, a blank one is not; redraw follows.  *)
Enter ==
  /\ In("wait") /\ video
  /\ IF Top.console = "step" THEN emulator < MaxMachine /\ emulator' = emulator + 1
     ELSE UNCHANGED emulator
  /\ Handled([Top EXCEPT !.event = "key", !.console = "", !.shown = emulator',
                         !.res = CASE Top.console = "" -> @
                                   [] Top.console = "step" -> 0
                                   [] Top.console = "exit" -> 2
                                   [] OTHER -> -1])
  /\ pressed' = FALSE
  /\ UNCHANGED <<loaded, video, result, opened, crashed>>

(* window, typed in the window: the loop waits for the one it starts. *)
EnterWindow ==
  /\ In("wait") /\ video /\ Top.console = "window" /\ opened < MaxOpen
  /\ windows' = Append([windows EXCEPT ![Depth] =
                          [Top EXCEPT !.event = "key", !.console = "", !.place = "inner"]],
                       NewWindow)
  /\ opened' = opened + 1
  /\ UNCHANGED <<emulator, loaded, video, result, crashed, pressed>>

(* The new size is kept in any case, and used if either dimension allows it. *)
Resize ==
  /\ In("wait") /\ video
  /\ \E s \in BOOLEAN \X BOOLEAN :
       Handled([Top EXCEPT !.event = "resize", !.size = s,
                           !.layout = IF s[1] \/ s[2] THEN 0 ELSE @])
  /\ UNCHANGED <<emulator, loaded, video, result, opened, crashed, pressed>>

(* A motion with the button held, and any other key. *)
OtherEvent ==
  /\ In("wait") /\ video
  /\ \E e \in {"motion", "letter"} : Handled([Top EXCEPT !.event = e])
  /\ UNCHANGED <<emulator, loaded, video, result, opened, crashed, pressed>>

(* SDL_WaitEvent fails: the last event is still there. *)
NoEvent ==
  /\ In("wait") /\ ~video
  /\ Handled(Top)
  /\ UNCHANGED <<emulator, loaded, video, result, opened, crashed, pressed>>

-----------------------------------------------------------------------------
(* Mutant: exit is looked for only after an event that was no command. *)
TurnedSkip(w) ==
  [w EXCEPT !.place = IF w.boucle = 0 \/ (w.res = 2 /\ w.event # "key") THEN "end" ELSE "loop"]

Turned(w) == [w EXCEPT !.place = IF w.res = 2 \/ w.boucle = 0 THEN "end" ELSE "loop"]

(* Drawing: Button runs its command, the console takes the letter.  Then      *)
(* exit leaves, or the loop turns.                                            *)
Draw ==
  /\ In("draw")
  /\ \/ /\ Top.event = "motion" /\ Command
        /\ Becomes(Turned(Top)) /\ pressed' = (pressed \/ loaded)
     \/ /\ Top.event = "letter"
        /\ \E l \in Entries : Becomes(Turned([Top EXCEPT !.console = l]))
        /\ UNCHANGED <<emulator, pressed>>
     \/ /\ Becomes(Turned(Top)) /\ UNCHANGED <<emulator, pressed>>
  /\ UNCHANGED <<loaded, video, result, opened, crashed>>

(* Without SDL the surface is gone: to draw may stop the program. *)
DrawNowhere ==
  /\ In("draw") /\ ~video
  /\ crashed' = TRUE
  /\ UNCHANGED <<emulator, loaded, video, windows, result, opened, pressed>>

(* The result of an inner window is that of the line typed in the outer one.  *)
Close ==
  /\ In("end")
  /\ video' = FALSE
  /\ IF Depth = 1
     THEN windows' = <<>> /\ result' = Top.res /\ UNCHANGED pressed
     ELSE /\ windows' = [SubSeq(windows, 1, Depth - 1) EXCEPT ![Depth - 1] =
                           [@ EXCEPT !.res = Top.res, !.shown = emulator, !.place = "draw"]]
          /\ pressed' = FALSE /\ UNCHANGED result
  /\ UNCHANGED <<emulator, loaded, opened, crashed>>

Loop == LayOut \/ NoEvent \/ Draw \/ Close
Event == QuitEvent \/ FunctionKey \/ Enter \/ EnterWindow \/ Resize \/ OtherEvent
Gui_Next == Open \/ Loop \/ Event \/ DrawNowhere

(* The loop turns by itself; no event need ever come. *)
Gui_Spec == Gui_Init /\ [][Gui_Next]_gvars /\ WF_gvars(Loop)

-----------------------------------------------------------------------------
(* PROPERTIES *)

(* The panels show the emulator as it is whenever the window waits, unless a   *)
(* button ran a command since they were written (affichage.c:169-181, 539).    *)
PanelsFollow == In("wait") /\ ~pressed => Top.shown = emulator

(* exit typed in a window, or in one inside it, closes every window and is     *)
(* what the window command returns to main (affichage.c:425, user_int.c:809).  *)
ExitLeaves ==
  \A d \in 1 .. MaxOpen :
    (Depth >= d /\ windows[d].res = 2) ~> (crashed \/ (Depth = 0 /\ result = 2))

(* "Mise a jour de l'affichage" (affichage.c:170): the panels show the emulator *)
(* as it is, whatever ran the command.                                          *)
PanelsFresh == In("wait") => Top.shown = emulator

(* "Taille minimale" (affichage.c:302): no layout is made for a window smaller  *)
(* than the minimum.                                                            *)
MinimumSize == Depth > 0 => Top.laid = <<TRUE, TRUE>>

(* "window, open graphic interface" (user_int.c:821): a window that is open can *)
(* be drawn.                                                                    *)
Drawable == Depth > 0 => video
=============================================================================
