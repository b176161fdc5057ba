------------------------------ MODULE Commands ------------------------------
(***************************************************************************)
(* decrypt (user_int.c): the commands that look at the machine or change it *)
(* without running it.  load is in Loader, run and step in Pipeline, break  *)
(* in Pipeline, BreakList and Symbols.  A line is the sequence of its words; *)
(* what the lexer makes of a word is in Lex.  The memory is module Memory's. *)
(***************************************************************************)
EXTENDS Memory

CONSTANTS
  Lines,        (* the lines given to decrypt                               *)
  Lex           (* what_type, strtol and isReg of the words that have one   *)

VARIABLES
  reg,          (* reg_mips                                                 *)
  clocktime, verbose, scriptmode,
  shown,        (* what the last command displayed                          *)
  res,          (* what decrypt returned                                    *)
  settled       (* history: the last set that was accepted, <<>> for none   *)

machine == <<memory, reg, clocktime, verbose, scriptmode>>
cvars == <<mvars, reg, clocktime, verbose, scriptmode, shown, res, settled>>

(* getCommand; the other names are those of modules Loader, Pipeline and Gui. *)
CommandNames ==
  {"exit", "disp", "disasm", "set", "assert", "debug", "resume", "clock", "verbose", "help"}
ElsewhereNames == {"load", "run", "step", "break", "window"}

(* isReg gives a number of a register, or -1. *)
ASSUME CommandsAssumption ==
  /\ \A w \in Lines : w \in Seq(STRING) /\ Len(w) > 0 /\ w[1] \notin ElsewhereNames
  /\ \A s \in DOMAIN Lex : Lex[s].value \in Int /\ Lex[s].reg \in -1 .. 34

Kind(w) == IF w \in DOMAIN Lex THEN Lex[w].type ELSE -1
Reg(w) == IF w \in DOMAIN Lex THEN Lex[w].reg ELSE -1
IsInt(w) == Kind(w) > 1
IsHexa(w) == Kind(w) = 2
IsDecimal(w) == Kind(w) = 3
Starts(w, a, b) == Len(w) >= 2 /\ w[1] = a /\ w[2] = b

(* strtol gives a long, kept in an int32_t or in a uint32_t. *)
Int32(w) == Signed(Lex[w].value % WordRange)
Uint32(w) == Address(Lex[w].value)

Commands_Init ==
  /\ Memory_Init
  /\ reg \in [0 .. 34 -> {0}]
  /\ clocktime = 0 /\ verbose = 0 /\ scriptmode = 0
  /\ shown = {} /\ res = 0 /\ settled = <<>>

Returns(n) == res' = n
Settings == <<clocktime, verbose, scriptmode>>
Shows(s) == shown' = s
Quiet == Shows({})
NoCall == UNCHANGED mvars

Refusal ==
  /\ Returns(-1) /\ Quiet
  /\ UNCHANGED <<machine, value, code, settled>>

-----------------------------------------------------------------------------
(* set *)

SetRegOk(w) == Starts(w, "set", "reg") /\ Len(w) = 4 /\ Reg(w[3]) >= 1 /\ IsInt(w[4])

(* Mutant: the value is stored before the words that follow it are counted. *)
SetRegEarly(w) ==
  /\ Starts(w, "set", "reg") /\ Len(w) >= 4 /\ Reg(w[3]) >= 1 /\ IsInt(w[4])
  /\ reg' = [reg EXCEPT ![Reg(w[3])] = Int32(w[4])]
  /\ Returns(IF Len(w) = 4 THEN 0 ELSE -1) /\ Quiet /\ settled' = w
  /\ NoCall /\ UNCHANGED Settings

SetReg(w) ==
  /\ SetRegOk(w)
  /\ reg' = [reg EXCEPT ![Reg(w[3])] = Int32(w[4])]
  /\ Returns(0) /\ Quiet /\ settled' = w
  /\ NoCall /\ UNCHANGED Settings

SetMemOk(w) ==
  /\ Starts(w, "set", "mem") /\ Len(w) = 5 /\ w[3] \in {"byte", "word"}
  /\ IsHexa(w[4]) /\ IsInt(w[5])

(* Mutant: memWrite is called with the type of a word. *)
SetByteAsWord(w) ==
  LET a == Uint32(w[4]) IN
  \/ WriteWord(a, Int32(w[5]))
  \/ ~WordOk(a) /\ Failed

SetByte(w) ==
  LET a == Uint32(w[4]) IN
  \/ WriteByte(a, Int32(w[5]))
  \/ ~ByteOk(a) /\ Failed

SetWord(w) ==
  LET a == Uint32(w[4]) IN
  \/ WriteWord(a, Int32(w[5]))
  \/ ~WordOk(a) /\ Failed

SetMem(w) ==
  /\ SetMemOk(w)
  /\ IF w[3] = "byte" THEN SetByte(w) ELSE SetWord(w)
  /\ Returns(code') /\ Quiet
  /\ settled' = IF code' = 0 THEN w ELSE settled
  /\ UNCHANGED <<reg, Settings>>

-----------------------------------------------------------------------------
(* assert *)

AssertRegOk(w) == Starts(w, "assert", "reg") /\ Len(w) = 4 /\ Reg(w[3]) >= 0 /\ IsInt(w[4])

AssertReg(w) ==
  /\ AssertRegOk(w)
  /\ Returns(IF reg[Reg(w[3])] = Int32(w[4]) THEN 0 ELSE 1)
  /\ Quiet /\ NoCall /\ UNCHANGED <<reg, Settings, settled>>

AssertMemOk(w, size) ==
  Starts(w, "assert", size) /\ Len(w) = 4 /\ IsHexa(w[3]) /\ IsInt(w[4])

(* value is value2, read by memRead; it is compared with an int32_t. *)
Compared(w) == Returns(IF code' = 0 /\ value' = Int32(w[4]) THEN 0 ELSE -1)

AssertWord(w) ==
  /\ AssertMemOk(w, "word")
  /\ LET a == Uint32(w[3]) IN ReadWord(a) \/ (~WordOk(a) /\ Failed)
  /\ Compared(w) /\ Quiet /\ UNCHANGED <<reg, Settings, settled>>

AssertByte(w) ==
  /\ AssertMemOk(w, "byte")
  /\ LET a == Uint32(w[3]) IN ReadByte(a) \/ (~ByteOk(a) /\ Failed)
  /\ Compared(w) /\ Quiet /\ UNCHANGED <<reg, Settings, settled>>

-----------------------------------------------------------------------------
(* disp and disasm *)

Displays(n, s) ==
  /\ Returns(n) /\ Shows(s)
  /\ NoCall /\ UNCHANGED <<reg, Settings, settled>>

(* The size of the plage "from : to" or "from + size" at word k, or -1.      *)
PlageSize(w, k) ==
  IF Len(w) < k + 2 \/ ~IsInt(w[k]) THEN -1
  ELSE CASE w[k + 1] = ":" /\ IsInt(w[k + 2]) ->
              Signed((Uint32(w[k + 2]) - Uint32(w[k])) % WordRange)
         [] w[k + 1] = "+" /\ IsDecimal(w[k + 2]) /\ Lex[w[k + 2]].digit ->
              Uint32(w[k + 2])
         [] OTHER -> -1

Plage(w, k) == <<"plage", Uint32(w[k]), PlageSize(w, k)>>

(* Only one plage is read.  dispmemPlage shows nothing without a memory, and *)
(* its code is dropped.                                                      *)
DispPlage(w) ==
  /\ Starts(w, "disp", "mem") /\ PlageSize(w, 3) >= 0
  /\ Displays(0, IF memory = <<>> THEN {} ELSE {Plage(w, 3)})

DispTable(w) ==
  /\ Starts(w, "disp", "mem") /\ Len(w) >= 3 /\ w[3] \in {"map", "symtab", "libsymtab"}
  /\ memory # <<>>
  /\ Displays(0, {<<w[3]>>})

(* Words that are no register are skipped. *)
DispReg(w) ==
  /\ Starts(w, "disp", "reg")
  /\ Displays(0, {"reg"} \X UNION { IF w[k] = "all" THEN 0 .. 34
                                    ELSE {Reg(w[k])} \ {-1} : k \in 3 .. Len(w) })

DispTime(w) ==
  /\ Len(w) = 2 /\ w[1] = "disp" /\ w[2] \in {"clockcycle", "totalexectime", "exectime"}
  /\ Displays(0, {<<w[2]>>})

(* disasm's own result is that of module Disasm. *)
DisasmPlage(w) ==
  /\ Len(w) >= 2 /\ w[1] = "disasm" /\ PlageSize(w, 2) >= 0 /\ memory # <<>>
  /\ \E n \in {0, -1} : Displays(n, {Plage(w, 2)})

-----------------------------------------------------------------------------
(* The settings, and the commands of the loop itself. *)

Setting(w, name) == Len(w) = 2 /\ w[1] = name /\ IsDecimal(w[2])

Clock(w) ==
  /\ Setting(w, "clock") /\ Int32(w[2]) >= 0
  /\ clocktime' = Int32(w[2])
  /\ Returns(0) /\ Quiet /\ NoCall /\ UNCHANGED <<reg, verbose, scriptmode, settled>>

Verb(w) ==
  /\ Setting(w, "verbose") /\ Int32(w[2]) \in 0 .. 5
  /\ verbose' = Int32(w[2])
  /\ Returns(0) /\ Quiet /\ NoCall /\ UNCHANGED <<reg, clocktime, scriptmode, settled>>

Debug(w) ==
  /\ w[1] = "debug" /\ scriptmode' = 0
  /\ Returns(0) /\ Quiet /\ NoCall /\ UNCHANGED <<reg, clocktime, verbose, settled>>

Resume(w) ==
  /\ w[1] = "resume" /\ scriptmode' = 1
  /\ Returns(0) /\ Quiet /\ NoCall /\ UNCHANGED <<reg, clocktime, verbose, settled>>

Help(w) == w = <<"help">> /\ Displays(0, {<<"help">>})

Exit(w) == w[1] = "exit" /\ Displays(2, {})

-----------------------------------------------------------------------------
Unknown(w) == w[1] \notin CommandNames /\ Refusal

(* The lines none of the operations above takes: too few words or too many, *)
(* or a word that is not what its place asks for.                            *)
Refused(w) ==
  /\ w[1] \in CommandNames
  /\ ~SetRegOk(w) /\ ~SetMemOk(w) /\ ~AssertRegOk(w)
  /\ ~AssertMemOk(w, "word") /\ ~AssertMemOk(w, "byte")
  /\ ~(Starts(w, "disp", "mem") /\ PlageSize(w, 3) >= 0)
  /\ ~(Starts(w, "disp", "mem") /\ Len(w) >= 3 /\ w[3] \in {"map", "symtab", "libsymtab"}
       /\ memory # <<>>)
  /\ ~Starts(w, "disp", "reg")
  /\ ~(Len(w) = 2 /\ w[1] = "disp" /\ w[2] \in {"clockcycle", "totalexectime", "exectime"})
  /\ ~(Len(w) >= 2 /\ w[1] = "disasm" /\ PlageSize(w, 2) >= 0 /\ memory # <<>>)
  /\ ~(Setting(w, "clock") /\ Int32(w[2]) >= 0)
  /\ ~(Setting(w, "verbose") /\ Int32(w[2]) \in 0 .. 5)
  /\ w[1] \notin {"debug", "resume", "exit"} /\ w # <<"help">>
  /\ Refusal

Decrypt(w) ==
  \/ SetReg(w) \/ SetMem(w)
  \/ AssertReg(w) \/ AssertWord(w) \/ AssertByte(w)
  \/ DispPlage(w) \/ DispTable(w) \/ DispReg(w) \/ DispTime(w)
  \/ DisasmPlage(w)
  \/ Clock(w) \/ Verb(w) \/ Debug(w) \/ Resume(w) \/ Help(w) \/ Exit(w)
  \/ Unknown(w) \/ Refused(w)

Commands_Next == \E w \in Lines : Decrypt(w)

Commands_Spec == Commands_Init /\ [][Commands_Next]_cvars

-----------------------------------------------------------------------------
(* PROPERTIES *)

(* A command that reports an error has changed neither the machine nor the     *)
(* settings, whatever the place of the word that is refused (user_int.c:270).  *)
RefusalsKeep == [][res' \notin {0, 2} => UNCHANGED machine]_cvars

(* The arguments of an accepted set, as assert takes them. *)
AsAssert(w) == <<"assert">> \o (IF w[2] = "mem" THEN SubSeq(w, 3, Len(w)) ELSE Tail(w))

(* A byte is stored without what does not fit in it; assert compares all of    *)
(* what it is given with what memRead reads, from 0 (user_int.c:511-518).      *)
Confirmed(w) == w[2] = "mem" /\ w[3] = "byte" => Int32(w[5]) \in Byte

(* Until the next set, whatever lines come in between, an assert of what an    *)
(* accepted set was given succeeds when it is a register, a word, or a byte    *)
(* from 0 to its greatest value, and fails for any other number set as a byte  *)
(* (user_int.c:270, 413-518).                                                  *)
SetThenAssert ==
  [][settled # <<>> /\ Decrypt(AsAssert(settled)) => (res' = 0 <=> Confirmed(settled))]_cvars

(* "Value is correct" (user_int.c:519): assert finds whatever set was given.   *)
EverySetAsserted ==
  [][settled # <<>> /\ Decrypt(AsAssert(settled)) => res' = 0]_cvars

(* "disp mem <plage>+" (user_int.c:68): every plage of a disp mem that         *)
(* succeeds is displayed.                                                      *)
EveryPlage ==
  [][\A w \in Lines : DispPlage(w) /\ memory # <<>> =>
       \A k \in { j \in 3 .. Len(w) - 2 : j % 3 = 0 } :
         PlageSize(w, k) >= 0 => Plage(w, k) \in shown']_cvars
=============================================================================
