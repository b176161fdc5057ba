----------------------------- MODULE LexerProofs -----------------------------
(***************************************************************************)
(* What is read of a line: what_type over every text of any length, and the *)
(* names of the registers, whatever numbers stand in them.  The automaton    *)
(* of what_type knows which of the three forms its text has; that is its     *)
(* invariant.                                                               *)
(***************************************************************************)
EXTENDS Lexer, Registers, SequenceTheorems, TLAPS

OctalDigits == {"0", "1", "7"}
Hex(t) == /\ Len(t) >= 2 /\ t[1] = "0" /\ t[2] = "x"
          /\ \A k \in 3 .. Len(t) : t[k] \in Digits \cup Letters
Dec(t) == /\ Len(t) >= 1 /\ t[1] # "0" /\ t[1] \in Digits \cup {"-"}
          /\ \A k \in 2 .. Len(t) : t[k] \in Digits
Oct(t) == /\ Len(t) >= 2 /\ t[1] = "0"
          /\ \A k \in 2 .. Len(t) : t[k] \in OctalDigits

(* The automaton knows what it has read. *)
Recognised(S, t) ==
  /\ S \in -1 .. 4
  /\ S = 0 <=> t = <<>>
  /\ S = 1 <=> t = <<"0">>
  /\ S = 2 <=> Hex(t)
  /\ S = 3 <=> Dec(t)
  /\ S = 4 <=> Oct(t)

LEMMA Values ==
  \A c : /\ c \in DOMAIN DigitValue /\ DigitValue[c] < 8 <=> c \in OctalDigits
         /\ c \in DOMAIN DigitValue /\ DigitValue[c] < 10 <=> c \in Digits
         /\ c \in DOMAIN DigitValue /\ DigitValue[c] < 16 <=> c \in Digits \cup Letters
<1> SUFFICES ASSUME NEW c
             PROVE /\ c \in DOMAIN DigitValue /\ DigitValue[c] < 8 <=> c \in OctalDigits
                   /\ c \in DOMAIN DigitValue /\ DigitValue[c] < 10 <=> c \in Digits
                   /\ c \in DOMAIN DigitValue /\ DigitValue[c] < 16 <=> c \in Digits \cup Letters
  OBVIOUS
<1>1. DOMAIN DigitValue = {"0", "1", "7", "8", "9", "a", "f"}
  BY DEF DigitValue, Digits, Letters
<1>2. /\ DigitValue["0"] = 0 /\ DigitValue["1"] = 1 /\ DigitValue["7"] = 7 /\ DigitValue["8"] = 8
      /\ DigitValue["9"] = 9 /\ DigitValue["a"] = 10 /\ DigitValue["f"] = 15
  BY DEF DigitValue, Digits, Letters
<1> QED
  BY <1>1, <1>2 DEF OctalDigits, Digits, Letters

LEMMA Longer ==
  ASSUME NEW t \in Seq(Alphabet), NEW c \in Alphabet
  PROVE  /\ Append(t, c) \in Seq(Alphabet) /\ Len(Append(t, c)) = Len(t) + 1
         /\ \A k \in 1 .. Len(t) : Append(t, c)[k] = t[k]
         /\ Append(t, c)[Len(t) + 1] = c
         /\ Append(t, c) # <<>> /\ (Append(t, c) = <<"0">> <=> t = <<>> /\ c = "0")
         /\ Len(t) \in Nat /\ (Len(t) = 0 <=> t = <<>>)
         /\ (t = <<"0">> <=> Len(t) = 1 /\ t[1] = "0")
<1>0. Len(t) \in Nat
  OBVIOUS
<1> PICK u : u = Append(t, c)
  OBVIOUS
<1>1. u \in Seq(Alphabet) /\ Len(u) = Len(t) + 1 /\ (\A k \in 1 .. Len(t) : u[k] = t[k]) /\ u[Len(t) + 1] = c
  BY AppendProperties
<1>2. \A s \in Seq(Alphabet) : (Len(s) = 0 <=> s = <<>>) /\ (s = <<"0">> => Len(s) = 1 /\ s[1] = "0")
  BY EmptySeq
<1>3. \A s \in Seq(Alphabet) : Len(s) = 1 /\ s[1] = "0" => s = <<"0">>
  <2> SUFFICES ASSUME NEW s \in Seq(Alphabet), Len(s) = 1, s[1] = "0" PROVE s = <<"0">>
    OBVIOUS
  <2>1. s \in [1 .. 1 -> Alphabet]
    BY LenProperties
  <2> QED
    BY <2>1
<1>4. u = <<"0">> <=> t = <<>> /\ c = "0"
  <2>1. Len(u) = 1 <=> t = <<>>
    BY <1>0, <1>1, <1>2
  <2>2. Len(t) = 0 => u[1] = c
    BY <1>1
  <2> QED
    BY <1>0, <1>1, <1>2, <1>3, <2>1, <2>2
<1>5. u # <<>>
  BY <1>0, <1>1, <1>2
<1> QED
  BY <1>0, <1>1, <1>2, <1>3, <1>4, <1>5

LEMMA HexNext ==
  ASSUME NEW t \in Seq(Alphabet), NEW c \in Alphabet
  PROVE  Hex(Append(t, c)) <=> \/ Hex(t) /\ c \in Digits \cup Letters
                               \/ t = <<"0">> /\ c = "x"
<1> PICK u : u = Append(t, c)
  OBVIOUS
<1>1. /\ Len(u) = Len(t) + 1 /\ (\A k \in 1 .. Len(t) : u[k] = t[k]) /\ u[Len(t) + 1] = c
      /\ Len(t) \in Nat /\ (Len(t) = 0 <=> t = <<>>) /\ (t = <<"0">> <=> Len(t) = 1 /\ t[1] = "0")
  BY Longer
<1> HIDE DEF Digits, Letters
<1>2. CASE Len(t) < 2
  BY <1>1, <1>2 DEF Hex
<1>3. CASE Len(t) >= 2
  <2>1. u[1] = t[1] /\ u[2] = t[2]
    BY <1>1, <1>3
  <2>2. (\A k \in 3 .. Len(u) : u[k] \in Digits \cup Letters)
          <=> (\A k \in 3 .. Len(t) : t[k] \in Digits \cup Letters) /\ c \in Digits \cup Letters
    BY <1>1, <1>3
  <2> QED
    BY <1>1, <1>3, <2>1, <2>2 DEF Hex
<1> QED
  BY <1>1, <1>2, <1>3

LEMMA DecNext ==
  ASSUME NEW t \in Seq(Alphabet), NEW c \in Alphabet
  PROVE  Dec(Append(t, c)) <=> \/ Dec(t) /\ c \in Digits
                               \/ t = <<>> /\ c # "0" /\ c \in Digits \cup {"-"}
<1> PICK u : u = Append(t, c)
  OBVIOUS
<1>1. /\ Len(u) = Len(t) + 1 /\ (\A k \in 1 .. Len(t) : u[k] = t[k]) /\ u[Len(t) + 1] = c
      /\ Len(t) \in Nat /\ (Len(t) = 0 <=> t = <<>>)
  BY Longer
<1>2. CASE Len(t) = 0
  BY <1>1, <1>2 DEF Dec
<1>3. CASE Len(t) >= 1
  <2>1. u[1] = t[1]
    BY <1>1, <1>3
  <2>2. (\A k \in 2 .. Len(u) : u[k] \in Digits) <=> (\A k \in 2 .. Len(t) : t[k] \in Digits) /\ c \in Digits
    BY <1>1, <1>3
  <2> QED
    BY <1>1, <1>3, <2>1, <2>2 DEF Dec
<1> QED
  BY <1>1, <1>2, <1>3

LEMMA OctNext ==
  ASSUME NEW t \in Seq(Alphabet), NEW c \in Alphabet
  PROVE  Oct(Append(t, c)) <=> (Oct(t) \/ t = <<"0">>) /\ c \in OctalDigits
<1> PICK u : u = Append(t, c)
  OBVIOUS
<1>1. /\ Len(u) = Len(t) + 1 /\ (\A k \in 1 .. Len(t) : u[k] = t[k]) /\ u[Len(t) + 1] = c
      /\ Len(t) \in Nat /\ (Len(t) = 0 <=> t = <<>>) /\ (t = <<"0">> <=> Len(t) = 1 /\ t[1] = "0")
  BY Longer
<1>2. CASE Len(t) = 0
  BY <1>1, <1>2 DEF Oct
<1>4. CASE Len(t) = 1
  <2>1. u[1] = t[1] /\ u[2] = c /\ Len(u) = 2
    BY <1>1, <1>4
  <2>2. Oct(u) <=> t[1] = "0" /\ c \in OctalDigits
    BY <2>1 DEF Oct
  <2> QED
    BY <1>1, <1>4, <2>2 DEF Oct
<1>3. CASE Len(t) >= 2
  <2>1. u[1] = t[1]
    BY <1>1, <1>3
  <2>2. (\A k \in 2 .. Len(u) : u[k] \in OctalDigits)
          <=> (\A k \in 2 .. Len(t) : t[k] \in OctalDigits) /\ c \in OctalDigits
    BY <1>1, <1>3
  <2> QED
    BY <1>1, <1>3, <2>1, <2>2 DEF Oct
<1>0. Len(t) \in Nat
  OBVIOUS
<1>6. \A n \in Nat : n = 0 \/ n = 1 \/ n >= 2
  OBVIOUS
<1>5. Len(t) = 0 \/ Len(t) = 1 \/ Len(t) >= 2
  BY <1>0, <1>6, Zenon
<1> QED
  BY <1>2, <1>3, <1>4, <1>5, Zenon

LEMMA StepRecognises ==
  ASSUME NEW t \in Seq(Alphabet), NEW c \in Alphabet, NEW S, Recognised(S, t)
  PROVE  Recognised(IF S = -1 THEN -1 ELSE Advance(S, c), Append(t, c))
<1> DEFINE R == IF S = -1 THEN -1 ELSE Advance(S, c)
<1>1. S \in -1 .. 4
  BY DEF Recognised
<1>2. c \in DOMAIN DigitValue /\ DigitValue[c] < 8 <=> c \in OctalDigits
  BY Values
<1>3. OctalDigits \subseteq Digits /\ "0" \in OctalDigits /\ "-" \notin Digits \cup Letters
      /\ "x" \notin Digits \cup Letters
  BY DEF OctalDigits, Digits, Letters
<1>4. c \in Digits /\ DigitValue[c] < 8 <=> c \in OctalDigits
  BY <1>2, <1>3, Values
<1>5. /\ R \in -1 .. 4 /\ R # 0
      /\ R = 1 <=> S = 0 /\ c = "0"
      /\ R = 2 <=> (S = 1 /\ c = "x") \/ (S = 2 /\ c \in Digits \cup Letters)
      /\ R = 3 <=> (S = 0 /\ c # "0" /\ c \in Digits \cup {"-"}) \/ (S = 3 /\ c \in Digits)
      /\ R = 4 <=> (S = 1 \/ S = 4) /\ c \in OctalDigits
  <2>1. CASE S = 0
    BY <1>3, <2>1 DEF Advance
  <2>2. CASE S = 1
    BY <1>3, <1>4, <2>2 DEF Advance
  <2>3. CASE S = 2
    BY <2>3 DEF Advance
  <2>4. CASE S = 3
    BY <2>4 DEF Advance
  <2>5. CASE S = 4
    BY <1>4, <2>5 DEF Advance
  <2>6. CASE S = -1
    BY <2>6
  <2> QED
    BY <1>1, <2>1, <2>2, <2>3, <2>4, <2>5, <2>6
<1> HIDE DEF R
<1>6. Append(t, c) # <<>> /\ (Append(t, c) = <<"0">> <=> t = <<>> /\ c = "0")
  BY Longer
<1>7. Recognised(R, Append(t, c))
  BY <1>5, <1>6, HexNext, DecNext, OctNext DEF Recognised
<1> QED
  BY <1>7 DEF R

TextInv == text \in Seq(Alphabet) /\ Recognised(type, text)

LEMMA RestAll ==
  ASSUME NEW t \in Seq(Alphabet), NEW n \in Nat, NEW b \in {8, 10, 16}, NEW D,
         \A c : c \in DOMAIN DigitValue /\ DigitValue[c] < b <=> c \in D
  PROVE  /\ All(t, b) <=> \A k \in 1 .. Len(t) : t[k] \in D
         /\ t # <<>> => (All(Tail(t), b) <=> \A k \in 2 .. Len(t) : t[k] \in D)
         /\ Len(t) >= 2 => (All(SubSeq(t, 3, Len(t)), b) <=> \A k \in 3 .. Len(t) : t[k] \in D)
<1>1. Len(t) \in Nat /\ DOMAIN t = 1 .. Len(t)
  BY LenProperties
<1>2. All(t, b) <=> \A k \in 1 .. Len(t) : t[k] \in D
  BY <1>1 DEF All
<1>3. ASSUME t # <<>> PROVE All(Tail(t), b) <=> \A k \in 2 .. Len(t) : t[k] \in D
  <2>1. PICK u : u = Tail(t)
    OBVIOUS
  <2>2. Len(t) >= 1 /\ DOMAIN u = 1 .. Len(t) - 1 /\ \A k \in 1 .. Len(t) - 1 : u[k] = t[k + 1]
    BY <1>1, <1>3, <2>1, HeadTailProperties, LenProperties
  <2>3. All(u, b) <=> \A k \in 1 .. Len(t) - 1 : t[k + 1] \in D
    BY <2>2 DEF All
  <2>4. ASSUME \A k \in 1 .. Len(t) - 1 : t[k + 1] \in D, NEW k \in 2 .. Len(t) PROVE t[k] \in D
    <3>1. k - 1 \in 1 .. Len(t) - 1 /\ (k - 1) + 1 = k
      BY <1>1
    <3> QED
      BY <2>4, <3>1
  <2>5. ASSUME \A k \in 2 .. Len(t) : t[k] \in D, NEW k \in 1 .. Len(t) - 1 PROVE t[k + 1] \in D
    BY <1>1, <2>5
  <2> QED
    BY <2>1, <2>3, <2>4, <2>5
<1>4. ASSUME Len(t) >= 2 PROVE All(SubSeq(t, 3, Len(t)), b) <=> \A k \in 3 .. Len(t) : t[k] \in D
  <2>1. PICK u : u = SubSeq(t, 3, Len(t))
    OBVIOUS
  <2>2. DOMAIN u = 1 .. Len(t) - 2 /\ \A k \in 1 .. Len(t) - 2 : u[k] = t[k + 2]
    BY <1>1, <1>4, <2>1
  <2>3. All(u, b) <=> \A k \in 1 .. Len(t) - 2 : t[k + 2] \in D
    BY <2>2 DEF All
  <2>4. ASSUME \A k \in 1 .. Len(t) - 2 : t[k + 2] \in D, NEW k \in 3 .. Len(t) PROVE t[k] \in D
    <3>1. k - 2 \in 1 .. Len(t) - 2 /\ (k - 2) + 2 = k
      BY <1>1
    <3> QED
      BY <2>4, <3>1
  <2>5. ASSUME \A k \in 3 .. Len(t) : t[k] \in D, NEW k \in 1 .. Len(t) - 2 PROVE t[k + 2] \in D
    BY <1>1, <2>5
  <2> QED
    BY <2>1, <2>3, <2>4, <2>5
<1> QED
  BY <1>2, <1>3, <1>4

LEMMA Reads == ASSUME TextInv PROVE Grammar
<1> SUFFICES ASSUME text # <<>> PROVE
      /\ InHexa <=> Len(text) >= 2 /\ SubSeq(text, 1, 2) = <<"0", "x">>
                   /\ All(SubSeq(text, 3, Len(text)), 16)
      /\ InDecimal <=> \/ text[1] = "-" /\ All(Tail(text), 10)
                       \/ text[1] # "0" /\ All(text, 10)
                       \/ text = <<"0">>
      /\ InOctal <=> Len(text) >= 2 /\ text[1] = "0" /\ All(text, 8)
  BY DEF Grammar
<1>1. text \in Seq(Alphabet) /\ Len(text) \in Nat /\ Len(text) >= 1
  BY LenProperties, EmptySeq DEF TextInv
<1>2. "0" \in OctalDigits /\ "-" \notin Digits /\ "0" # "-"
  BY DEF OctalDigits, Digits
<1>3. InHexa <=> Len(text) >= 2 /\ SubSeq(text, 1, 2) = <<"0", "x">> /\ All(SubSeq(text, 3, Len(text)), 16)
  <2>1. Len(text) >= 2 => (SubSeq(text, 1, 2) = <<"0", "x">> <=> text[1] = "0" /\ text[2] = "x")
    <3> SUFFICES ASSUME Len(text) >= 2
                 PROVE  SubSeq(text, 1, 2) = <<"0", "x">> <=> text[1] = "0" /\ text[2] = "x"
      OBVIOUS
    <3>1. PICK u : u = SubSeq(text, 1, 2)
      OBVIOUS
    <3>2. u \in Seq(Alphabet) /\ Len(u) = 2 /\ u[1] = text[1] /\ u[2] = text[2]
      BY <1>1, <3>1, SubSeqProperties
    <3>3. u \in [1 .. 2 -> Alphabet]
      BY <3>2, LenProperties
    <3>4. u = <<text[1], text[2]>>
      BY <3>2, <3>3
    <3> QED
      <4>1. CASE u = <<"0", "x">>
        <5>1. <<"0", "x">>[1] = "0" /\ <<"0", "x">>[2] = "x"
          OBVIOUS
        <5> QED
          BY <3>1, <3>2, <4>1, <5>1, Zenon
      <4>2. CASE text[1] = "0" /\ text[2] = "x"
        BY <3>1, <3>4, <4>2, Zenon
      <4> QED
        BY <3>1, <4>1, <4>2, Zenon
  <2>2. InHexa <=> Hex(text)
    BY DEF InHexa, WhatType, TextInv, Recognised
  <2>3. Len(text) >= 2 => (All(SubSeq(text, 3, Len(text)), 16)
                             <=> \A k \in 3 .. Len(text) : text[k] \in Digits \cup Letters)
    BY <1>1, RestAll, Values
  <2> QED
    BY <2>1, <2>2, <2>3 DEF Hex
<1>4. InDecimal <=> \/ text[1] = "-" /\ All(Tail(text), 10)
                    \/ text[1] # "0" /\ All(text, 10)
                    \/ text = <<"0">>
  <2>1. InDecimal <=> Dec(text) \/ text = <<"0">>
    BY DEF InDecimal, WhatType, TextInv, Recognised
  <2>2. All(Tail(text), 10) <=> \A k \in 2 .. Len(text) : text[k] \in Digits
    BY <1>1, RestAll, Values
  <2>3. All(text, 10) <=> text[1] \in Digits /\ \A k \in 2 .. Len(text) : text[k] \in Digits
    <3>1. All(text, 10) <=> \A k \in 1 .. Len(text) : text[k] \in Digits
      BY <1>1, RestAll, Values
    <3> QED
      BY <1>1, <3>1
  <2> QED
    BY <1>1, <1>2, <2>1, <2>2, <2>3 DEF Dec
<1>5. InOctal <=> Len(text) >= 2 /\ text[1] = "0" /\ All(text, 8)
  <2>1. InOctal <=> Oct(text)
    BY DEF InOctal, WhatType, TextInv, Recognised
  <2>2. All(text, 8) <=> text[1] \in OctalDigits /\ \A k \in 2 .. Len(text) : text[k] \in OctalDigits
    <3>1. All(text, 8) <=> \A k \in 1 .. Len(text) : text[k] \in OctalDigits
      BY <1>1, RestAll, Values
    <3> QED
      BY <1>1, <3>1
  <2> QED
    BY <1>2, <2>1, <2>2 DEF Oct
<1> QED
  BY <1>3, <1>4, <1>5

(* Grammar, for every text of the characters of the alphabet: what_type takes *)
(* the hexadecimal, decimal and octal numbers and nothing else.              *)
THEOREM GrammarRight == Lexer_Spec => []Grammar
<1>1. Lexer_Init => TextInv
  BY EmptySeq DEF Lexer_Init, TextInv, Recognised, Hex, Dec, Oct
<1>2. TextInv /\ [Lexer_Next]_lvars => TextInv'
  <2> SUFFICES ASSUME TextInv, [Lexer_Next]_lvars PROVE TextInv'
    OBVIOUS
  <2>1. CASE Lexer_Next
    <3>1. PICK c \in Alphabet : Char(c)
      BY <2>1 DEF Lexer_Next
    <3> QED
      BY <3>1, StepRecognises, Longer DEF Char, TextInv
  <2>2. CASE UNCHANGED lvars
    BY <2>2 DEF lvars, TextInv
  <2> QED
    BY <2>1, <2>2
<1> QED
  BY <1>1, <1>2, Reads, PTL DEF Lexer_Spec

-----------------------------------------------------------------------------
(* The registers. *)

(* isReg gives a register or -1. *)
LEMMA IsRegRange ==
  ASSUME RegistersAssumption, NEW n \in Names
  PROVE  isReg(n) \in -1 .. 34
<1>1. n.number \in Numbers \cup {-1} /\ n.sign \in BOOLEAN
  BY DEF Names
<1>2. \A r \in DOMAIN ReadTable : ReadTable[r] \in 0 .. 34
  BY DEF ReadTable
<1> QED
  BY <1>1, <1>2 DEF isReg, NBREG, RegistersAssumption

(* The two tables agree: what parseReg writes for a register, isReg compares  *)
(* with the name of that register.                                           *)
LEMMA TablesAgree ==
  ASSUME NEW k \in 0 .. 34
  PROVE  WriteTable[k + 1] \in DOMAIN ReadTable /\ ReadTable[WriteTable[k + 1]] = k
  BY DEF ReadTable, WriteTable

(* The name parseReg gives a register is one isReg takes for it. *)
LEMMA ParsedBack == ASSUME NEW k \in 0 .. 34 PROVE isReg(parseReg(k)) = k
<1>1. parseReg(k).sign = FALSE /\ parseReg(k).number = -1 /\ parseReg(k).rest = WriteTable[k + 1]
  BY DEF parseReg
<1> QED
  BY <1>1, TablesAgree DEF isReg

RegInv == index \in -1 .. 34

(* RoundTrip, for every number and every rest a name may have: the name under *)
(* which disp reg shows a register is read as that register, that is, the     *)
(* tables of isReg and of parseReg agree on all 35 (fonctions.c:250-354,      *)
(* 363-470).                                                                 *)
THEOREM NamesReadBack ==
  ASSUME RegistersAssumption
  PROVE  Registers_Spec => []RoundTrip
<1>1. Registers_Init => RegInv
  BY DEF Registers_Init, RegInv
<1>2. RegInv /\ [Registers_Next]_rvars => RegInv'
  BY IsRegRange DEF RegInv, Registers_Next, Lookup, rvars
<1>3. RegInv => RoundTrip
  BY ParsedBack DEF RegInv, RoundTrip
<1> QED
  BY <1>1, <1>2, <1>3, PTL DEF Registers_Spec
=============================================================================
