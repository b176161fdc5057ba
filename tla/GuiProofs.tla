----------------------------- MODULE GuiProofs ------------------------------
(***************************************************************************)
(* The panels of the windows, for every number of windows open in one       *)
(* another and every sequence of events.  The invariant is about the        *)
(* innermost window alone: one behind it is drawn again when it comes back. *)
(***************************************************************************)
EXTENDS Gui, SequenceTheorems, TLAPS

Pairs == BOOLEAN \X BOOLEAN
Events == {"none", "quit", "key", "resize", "motion", "letter"}
Places == {"loop", "wait", "draw", "inner", "end"}
Window ==
  [place : Places, boucle : 0 .. 1, layout : 0 .. 1, res : Int, shown : Int, console : AllLines,
   event : Events,
   size : Pairs, laid : Pairs]

TypeOK == emulator \in Nat /\ windows \in Seq(Window)

(* A window that needs no new layout shows the emulator as it is, unless a    *)
(* button was pressed; and none waits before its layout is made.              *)
Fits(w, m, p) == /\ w.place = "wait" => w.layout = 1
                 /\ w.layout = 1 /\ ~p => w.shown = m
Written == Depth > 0 => Fits(Top, emulator, pressed)

(* The handlers change some fields and the place. *)
LEMMA Laid ==
  ASSUME NEW w \in Window, NEW p \in Places, NEW n \in 0 .. 1, NEW k \in Int
  PROVE  [w EXCEPT !.layout = n, !.laid = w.size, !.shown = k, !.place = p] \in Window
  BY DEF Window

LEMMA Quitted ==
  ASSUME NEW w \in Window, NEW p \in Places, NEW n \in 0 .. 1, NEW e \in Events
  PROVE  [[w EXCEPT !.boucle = n, !.event = e] EXCEPT !.place = p] \in Window
  BY DEF Window

LEMMA KeyTyped ==
  ASSUME NEW w \in Window, NEW p \in Places, NEW k \in Int, NEW e \in Events
  PROVE  [[w EXCEPT !.event = e, !.shown = k] EXCEPT !.place = p] \in Window
  BY DEF Window

LEMMA Entered ==
  ASSUME NEW w \in Window, NEW p \in Places, NEW k \in Int, NEW m \in Int, NEW e \in Events,
         NEW l \in AllLines
  PROVE  [[w EXCEPT !.event = e, !.console = l, !.shown = k, !.res = m] EXCEPT !.place = p] \in Window
  BY DEF Window

LEMMA TopIsWindow == ASSUME TypeOK, Depth > 0 PROVE Depth \in 1 .. Len(windows) /\ Top \in Window
  BY DEF TypeOK, Depth, Top

LEMMA PairIs == <<TRUE, TRUE>> \in Pairs
  BY DEF Pairs

LEMMA NewIsWindow == NewWindow \in Window /\ \A m, p : Fits(NewWindow, m, p)
  BY PairIs DEF NewWindow, Window, Places, Events, AllLines, Fits

LEMMA Becoming ==
  ASSUME TypeOK, Depth > 0, NEW w \in Window, Becomes(w)
  PROVE  windows' \in Seq(Window) /\ Depth' = Depth /\ Top' = w
<1>1. Depth \in 1 .. Len(windows)
  BY TopIsWindow
<1> QED
  BY <1>1, ExceptSeq DEF Becomes, Depth, Top, TypeOK

LEMMA OneWindow ==
  ASSUME TypeOK, Depth > 0, emulator' \in Nat, NEW w \in Window, Becomes(w), Fits(w, emulator', pressed')
  PROVE  TypeOK' /\ Written'
  BY Becoming DEF TypeOK, Written

LEMMA GuiStep ==
  ASSUME GuiAssumption, TypeOK, Written, Gui_Next
  PROVE  TypeOK' /\ Written'
<1> USE DEF Fits
<1>t. ASSUME NEW p, In(p) PROVE Depth > 0 /\ Top \in Window /\ Top.place = p
  BY <1>t, TopIsWindow DEF In
<1>n. "wait" \in Places /\ "draw" \in Places /\ "quit" \in Events /\ "key" \in Events
      /\ 0 \in 0 .. 1 /\ 1 \in 0 .. 1
  BY DEF Places, Events
<1>0. "" \in AllLines
  BY DEF AllLines
<1>m. emulator \in Int
  BY DEF TypeOK
<1>1. CASE Open
  <2>1. <<NewWindow>> \in Seq(Window) /\ Len(<<NewWindow>>) = 1 /\ <<NewWindow>>[1] = NewWindow
    BY NewIsWindow
  <2>2. CASE windows' = <<NewWindow>>
    <3>1. emulator' = emulator /\ Depth' = 1 /\ Top' = NewWindow
      BY <1>1, <2>1, <2>2 DEF Open, Depth, Top
    <3>2. windows' \in Seq(Window)
      BY <2>1, <2>2
    <3> QED
      BY <3>1, <3>2, NewIsWindow DEF TypeOK, Written
  <2>3. CASE UNCHANGED windows
    BY <1>1, <2>3 DEF Open, TypeOK, Written, Depth, Top
  <2> QED
    BY <1>1, <2>2, <2>3 DEF Open
<1>2. CASE LayOut
  <2>1. Depth > 0 /\ Top \in Window
    BY <1>2, <1>t DEF LayOut
  <2>2. CASE Top.layout = 0
    <3> DEFINE w == [Top EXCEPT !.layout = 1, !.laid = Top.size, !.shown = emulator, !.place = "wait"]
    <3>1. Becomes(w) /\ pressed' = FALSE /\ emulator' = emulator
      BY <1>2, <2>2 DEF LayOut
    <3>2. w \in Window
      BY <1>m, <1>n, <2>1, Laid, Zenon
    <3>3. Fits(w, emulator, FALSE)
      BY <2>1 DEF Window
    <3> HIDE DEF w
    <3> QED
      BY <2>1, <3>1, <3>2, <3>3, OneWindow DEF TypeOK
  <2>3. CASE Top.layout = 1
    <3> DEFINE w == [Top EXCEPT !.place = "wait"]
    <3>1. Becomes(w) /\ UNCHANGED <<pressed, emulator>>
      BY <1>2, <2>3 DEF LayOut
    <3>2. w \in Window
      BY <2>1 DEF Window, Places, Events
    <3>3. Fits(w, emulator, pressed)
      BY <2>1, <2>3 DEF Written, Window
    <3> HIDE DEF w
    <3> QED
      BY <2>1, <3>1, <3>2, <3>3, OneWindow DEF TypeOK
  <2>4. Top.layout \in 0 .. 1
    BY <2>1 DEF Window
  <2> QED
    BY <2>2, <2>3, <2>4
<1>c. Command => emulator' \in Nat
  BY DEF Command, TypeOK
<1>3. CASE QuitEvent
  <2> DEFINE w == [[Top EXCEPT !.boucle = 0, !.event = "quit"] EXCEPT !.place = "draw"]
  <2>1. Depth > 0 /\ Top \in Window
    BY <1>3, <1>t DEF QuitEvent
  <2>2. Becomes(w)
    BY <1>3 DEF QuitEvent, Handled
  <2>3. w \in Window
    BY <1>n, <2>1, Quitted, Zenon
  <2>4. Fits(w, emulator, pressed)
    BY <2>1 DEF Written, Window
  <2> HIDE DEF w
  <2> QED
    BY <1>3, <2>1, <2>2, <2>3, <2>4, OneWindow DEF TypeOK, QuitEvent
<1>4. CASE FunctionKey
  <2> DEFINE w == [[Top EXCEPT !.event = "key", !.shown = emulator'] EXCEPT !.place = "draw"]
  <2>1. Depth > 0 /\ Top \in Window /\ emulator' \in Nat
    BY <1>4, <1>t, <1>c DEF FunctionKey
  <2>a. emulator' \in Int
    BY <2>1
  <2>2. Becomes(w)
    BY <1>4 DEF FunctionKey, Handled
  <2>3. w \in Window
    BY <1>n, <2>1, <2>a, KeyTyped, Zenon
  <2>4. Fits(w, emulator', FALSE)
    BY <2>1 DEF Window
  <2> HIDE DEF w
  <2> QED
    BY <1>4, <2>1, <2>2, <2>3, <2>4, OneWindow DEF FunctionKey
<1>5. CASE Enter
  <2> DEFINE r == CASE Top.console = "" -> Top.res
                    [] Top.console = "step" -> 0
                    [] Top.console = "exit" -> 2
                    [] OTHER -> -1
             w == [[Top EXCEPT !.event = "key", !.console = "", !.shown = emulator', !.res = r]
                     EXCEPT !.place = "draw"]
  <2>1. Depth > 0 /\ Top \in Window /\ emulator' \in Nat
    BY <1>5, <1>t DEF Enter, TypeOK
  <2>a. emulator' \in Int
    BY <2>1
  <2>6. Top.res \in Int
    BY <2>1 DEF Window
  <2>7. r \in {Top.res, 0, 2, -1}
    BY Zenon
  <2> HIDE DEF r
  <2>2. r \in Int
    BY <2>6, <2>7
  <2> USE DEF r
  <2>3. Becomes(w)
    BY <1>5, <2>1 DEF Enter, Handled
  <2> HIDE DEF r
  <2>4. w \in Window
    BY <1>n, <1>0, <2>1, <2>2, <2>a, Entered, Zenon
  <2>5. Fits(w, emulator', FALSE)
    BY <2>1 DEF Window
  <2> HIDE DEF w
  <2> QED
    BY <1>5, <2>1, <2>3, <2>4, <2>5, OneWindow DEF Enter
<1>6. CASE EnterWindow
  <2> DEFINE w == [Top EXCEPT !.event = "key", !.console = "", !.place = "inner"]
             ws == [windows EXCEPT ![Depth] = w]
  <2>1. Depth > 0 /\ Depth \in 1 .. Len(windows) /\ Top \in Window
    BY <1>6, <1>t, TopIsWindow DEF EnterWindow
  <2>2. w \in Window
    BY <2>1 DEF Window, Places, Events, AllLines
  <2>3. ws \in Seq(Window)
    BY <2>1, <2>2, ExceptSeq DEF TypeOK
  <2>4. windows' = Append(ws, NewWindow)
    BY <1>6 DEF EnterWindow
  <2> HIDE DEF w, ws
  <2>5. windows' \in Seq(Window) /\ Top' = NewWindow
    BY <2>3, <2>4, NewIsWindow, AppendProperties DEF Top, Depth
  <2> QED
    BY <1>6, <2>5, NewIsWindow DEF EnterWindow, TypeOK, Written
<1>7. CASE Resize
  <2>1. Depth > 0 /\ Top \in Window
    BY <1>7, <1>t DEF Resize
  <2>2. PICK s \in BOOLEAN \X BOOLEAN :
          Handled([Top EXCEPT !.event = "resize", !.size = s,
                              !.layout = IF s[1] \/ s[2] THEN 0 ELSE @])
    BY <1>7 DEF Resize
  <2> DEFINE w == [[Top EXCEPT !.event = "resize", !.size = s,
                               !.layout = IF s[1] \/ s[2] THEN 0 ELSE @] EXCEPT !.place = "draw"]
  <2>3. Becomes(w)
    BY <2>1, <2>2 DEF Handled
  <2>4. s \in Pairs
    BY DEF Pairs
  <2>5. (IF s[1] \/ s[2] THEN 0 ELSE Top.layout) \in 0 .. 1
    BY <2>1 DEF Window
  <2>6. w \in Window
    BY <2>1, <2>4, <2>5 DEF Window, Places, Events
  <2>7. Fits(w, emulator, pressed)
    BY <2>1 DEF Written, Window
  <2> HIDE DEF w
  <2> QED
    BY <1>7, <2>1, <2>3, <2>6, <2>7, OneWindow DEF Resize, TypeOK
<1>8. CASE OtherEvent
  <2>1. Depth > 0 /\ Top \in Window
    BY <1>8, <1>t DEF OtherEvent
  <2>2. PICK e \in {"motion", "letter"} : Handled([Top EXCEPT !.event = e])
    BY <1>8 DEF OtherEvent
  <2> DEFINE w == [[Top EXCEPT !.event = e] EXCEPT !.place = "draw"]
  <2>3. Becomes(w)
    BY <2>1, <2>2 DEF Handled
  <2>4. w \in Window /\ Fits(w, emulator, pressed)
    BY <2>1 DEF Written, Window, Places, Events, AllLines
  <2> QED
    BY <1>8, <2>1, <2>3, <2>4, OneWindow DEF OtherEvent, TypeOK
<1>9. CASE NoEvent
  <2> DEFINE w == [Top EXCEPT !.place = "draw"]
  <2>1. Depth > 0 /\ Top \in Window
    BY <1>9, <1>t DEF NoEvent
  <2>2. w \in Window /\ Fits(w, emulator, pressed) /\ Becomes(w)
    BY <1>9, <2>1 DEF NoEvent, Written, Handled, Window, Places, Events, AllLines
  <2> QED
    BY <1>9, <2>1, <2>2, OneWindow DEF TypeOK, NoEvent
<1>d. ASSUME NEW w \in Window PROVE Turned(w) \in Window /\ Turned(w).place # "wait"
                                    /\ Turned(w).layout = w.layout /\ Turned(w).shown = w.shown
  BY DEF Turned, Window, Places, Events, AllLines
<1>10. CASE Draw
  <2>1. Depth > 0 /\ Top \in Window
    BY <1>10, <1>t DEF Draw
  <2>2. CASE Command /\ Becomes(Turned(Top)) /\ pressed' = (pressed \/ loaded)
    <3>1. emulator' \in Nat /\ (~pressed' => emulator' = emulator /\ ~pressed)
      BY <1>c, <2>2 DEF Command
    <3>2. Fits(Turned(Top), emulator', pressed')
      BY <1>d, <2>1, <3>1 DEF Written
    <3> QED
      BY <1>d, <2>1, <2>2, <3>1, <3>2, OneWindow
  <2>3. CASE (\E l \in Entries : Becomes(Turned([Top EXCEPT !.console = l]))) /\ UNCHANGED <<emulator, pressed>>
    <3>1. PICK l \in Entries : Becomes(Turned([Top EXCEPT !.console = l]))
      BY <2>3
    <3> DEFINE w == [Top EXCEPT !.console = l]
    <3>2. w \in Window /\ Fits(w, emulator, pressed)
      BY <2>1 DEF Written, GuiAssumption, Window, Places, Events, AllLines
    <3>3. Becomes(Turned(w))
      BY <3>1
    <3> HIDE DEF w
    <3>4. Fits(Turned(w), emulator', pressed') /\ Turned(w) \in Window
      BY <1>d, <2>3, <3>2
    <3> QED
      BY <2>1, <2>3, <3>3, <3>4, OneWindow DEF TypeOK
  <2>4. CASE Becomes(Turned(Top)) /\ UNCHANGED <<emulator, pressed>>
    <3>1. Fits(Turned(Top), emulator', pressed')
      BY <1>d, <2>1, <2>4 DEF Written
    <3> QED
      BY <1>d, <2>1, <2>4, <3>1, OneWindow DEF TypeOK
  <2> QED
    BY <1>10, <2>2, <2>3, <2>4 DEF Draw
<1>11. CASE Close
  <2>1. Depth > 0 /\ Top \in Window /\ Depth \in Nat /\ emulator' = emulator
    BY <1>11, <1>t DEF Close, Depth, TypeOK
  <2>2. CASE Depth = 1
    <3>1. windows' = <<>>
      BY <1>11, <2>2 DEF Close
    <3> QED
      BY <2>1, <3>1 DEF TypeOK, Written, Depth
  <2>3. CASE Depth # 1
    <3> DEFINE s == SubSeq(windows, 1, Depth - 1)
               n == Depth - 1
    <3>0. n \in 1 .. Depth
      BY <2>1, <2>3
    <3>1. n \in 1 .. Len(windows)
      BY <3>0 DEF Depth
    <3>2. s \in Seq(Window) /\ Len(s) = n
      BY <2>1, <3>1, SubSeqProperties DEF TypeOK
    <3>3. n \in 1 .. Len(s) /\ s[n] \in Window
      BY <3>1, <3>2
    <3>4. windows' = [s EXCEPT ![n] = [s[n] EXCEPT !.res = Top.res, !.shown = emulator, !.place = "draw"]]
          /\ pressed' = FALSE
      BY <1>11, <2>3 DEF Close
    <3> DEFINE w == [s[n] EXCEPT !.res = Top.res, !.shown = emulator, !.place = "draw"]
    <3> DEFINE u == s[n]
    <3> HIDE DEF u
    <3>5. w = [u EXCEPT !.res = Top.res, !.shown = emulator, !.place = "draw"] /\ u \in Window
      BY <3>3 DEF u
    <3>8. Top.res \in Int /\ emulator \in Int
      BY <2>1 DEF Window, TypeOK
    <3> HIDE DEF w, s
    <3>9. w \in Window
      BY <3>5, <3>8 DEF Window, Places, Events
    <3>10. Fits(w, emulator, FALSE)
      BY <3>5 DEF Window
    <3> USE DEF w
    <3>6. windows' = [s EXCEPT ![n] = w]
      BY <3>4
    <3> HIDE DEF w, s, n
    <3>7. windows' \in Seq(Window) /\ Len(windows') = n /\ windows'[n] = w
      BY <3>2, <3>3, <3>9, <3>6, ExceptSeq
    <3> QED
      BY <2>1, <3>4, <3>10, <3>7 DEF TypeOK, Written, Depth, Top
  <2> QED
    BY <2>2, <2>3
<1>12. CASE DrawNowhere
  BY <1>12 DEF DrawNowhere, TypeOK, Written, Depth, Top
<1> QED
  BY <1>1, <1>2, <1>3, <1>4, <1>5, <1>6, <1>7, <1>8, <1>9, <1>10, <1>11, <1>12 DEF Gui_Next, Loop, Event

(* PanelsFollow, for every bound on the commands and on the windows: while a *)
(* window waits for an event, after anything but a button, its panels show   *)
(* the emulator as the last command left it.                                 *)
THEOREM PanelsRight ==
  ASSUME GuiAssumption
  PROVE  Gui_Spec => []PanelsFollow
<1>1. Gui_Init => TypeOK /\ Written
  BY DEF Gui_Init, TypeOK, Written, Depth
<1>2. TypeOK /\ Written /\ [Gui_Next]_gvars => TypeOK' /\ Written'
  <2>1. TypeOK /\ Written /\ UNCHANGED gvars => TypeOK' /\ Written'
    BY DEF TypeOK, Written, Depth, Top, gvars
  <2> QED
    BY <2>1, GuiStep
<1>3. TypeOK /\ Written => PanelsFollow
  BY DEF Written, PanelsFollow, Fits, In
<1> QED
  BY <1>1, <1>2, <1>3, PTL DEF Gui_Spec
=============================================================================
