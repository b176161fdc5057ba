------------------------------- MODULE Lexer --------------------------------
(***************************************************************************)
(* How a line becomes words and a word a number (fonctions.c): main passes   *)
(* the line twice through string_standardise, strtok cuts it at the spaces,  *)
(* what_type tells the base of a number and strtol(word, NULL, 0) its value. *)
(* The variable is a text of any characters of Alphabet.                     *)
(***************************************************************************)
EXTENDS Integers, SequencesExt

CONSTANTS
  Alphabet,     (* the characters a text is made of                         *)
  MaxText       (* bound: length of a text                                  *)

VARIABLES text, type

lvars == <<text, type>>

Blanks == {" ", "tab"}
Digits == {"0", "1", "7", "8", "9"}
Letters == {"a", "f"}
DigitValue == [c \in Digits \cup Letters |->
                 CASE c = "0" -> 0 [] c = "1" -> 1 [] c = "7" -> 7 [] c = "8" -> 8
                   [] c = "9" -> 9 [] c = "a" -> 10 [] c = "f" -> 15]

-----------------------------------------------------------------------------
(* string_standardise *)

(* Spaces, not tabs, at the beginning are dropped. *)
Stripped(s) ==
  LET first == { k \in 1 .. Len(s) : s[k] # " " }
  IN IF first = {} THEN <<>>
     ELSE SubSeq(s, CHOOSE k \in first : \A j \in first : k <= j, Len(s))

Opened(o, s) == [o EXCEPT !.out = @ \o s, !.minus = FALSE]

(* One character: out is what is written before the first '\0', minus that   *)
(* the blanks after a '-' are being dropped.                                  *)
Rewrite(o, c) ==
  IF o.over \/ (o.minus /\ c \in Blanks) THEN o
  ELSE
  CASE c \in {":", "+", "~"} -> Opened(o, <<" ", c, " ">>)
    [] c = "-" -> [Opened(o, <<" ", c>>) EXCEPT !.minus = TRUE]
    [] c \in {"#", "nl"} -> [o EXCEPT !.over = TRUE]
    [] c \in Blanks -> Opened(o, <<" ">>)
    [] OTHER -> Opened(o, <<c>>)

Standardised(s) ==
  FoldLeft(LAMBDA o, c : Rewrite(o, c),
           [out |-> <<>>, minus |-> FALSE, over |-> FALSE], Stripped(s)).out

(* Mutant: one pass. *)
NormalisedOnce(s) == Standardised(s)

Normalised(s) == Standardised(Standardised(s))

(* strtok: the words are what lies between the spaces. *)
Words(s) ==
  FoldLeft(LAMBDA ws, c :
             CASE c = " " -> Append(ws, <<>>)
               [] OTHER -> [ws EXCEPT ![Len(ws)] = Append(@, c)],
           << <<>> >>, s)
NextWords(s) == SelectSeq(Words(s), LAMBDA w : w # <<>>)

-----------------------------------------------------------------------------
(* what_type: INIT 0, DECIMAL_ZERO 1, HEXA 2, DECIMAL 3, OCTAL 4, -1 refused *)

(* Mutant: an octal number takes any digit. *)
AdvanceOctalAny(S, c) ==
  CASE S = 0 /\ c = "-" -> 3
    [] S = 0 /\ c \in Digits -> IF c = "0" THEN 1 ELSE 3
    [] S = 1 /\ c = "x" -> 2
    [] S = 1 /\ c \in Digits -> 4
    [] S = 2 /\ c \in Digits \cup Letters -> 2
    [] S = 3 /\ c \in Digits -> 3
    [] S = 4 /\ c \in Digits -> 4
    [] OTHER -> -1

Advance(S, c) ==
  CASE S = 0 /\ c = "-" -> 3
    [] S = 0 /\ c \in Digits -> IF c = "0" THEN 1 ELSE 3
    [] S = 1 /\ c = "x" -> 2
    [] S = 1 /\ c \in Digits /\ DigitValue[c] < 8 -> 4
    [] S = 2 /\ c \in Digits \cup Letters -> 2
    [] S = 3 /\ c \in Digits -> 3
    [] S = 4 /\ c \in Digits /\ DigitValue[c] < 8 -> 4
    [] OTHER -> -1

(* The type is that of the text read so far; -1 is for ever. *)
WhatType == IF type = 1 THEN 3 ELSE type
InHexa == WhatType = 2
InDecimal == WhatType = 3
InOctal == WhatType = 4

(* strtol, as the C library defines it: a sign, the prefix of the base, and   *)
(* digits up to the first character that is none of that base.               *)
Value(w, base) ==
  LET ok(c) == c \in DOMAIN DigitValue /\ DigitValue[c] < base
      upTo == { k \in 0 .. Len(w) : \A j \in 1 .. k : ok(w[j]) }
      digits == SubSeq(w, 1, CHOOSE k \in upTo : \A j \in upTo : j <= k)
  IN FoldLeft(LAMBDA n, c : n * base + DigitValue[c], 0, digits)

Unsigned(w) == IF w # <<>> /\ w[1] = "-" THEN Tail(w) ELSE w
Positive(w) ==
  IF Len(w) >= 2 /\ w[1] = "0" /\ w[2] = "x" THEN Value(SubSeq(w, 3, Len(w)), 16)
  ELSE IF Len(w) >= 1 /\ w[1] = "0" THEN Value(w, 8)
  ELSE Value(w, 10)
Strtol(w) == IF w = Unsigned(w) THEN Positive(w) ELSE - Positive(Unsigned(w))

-----------------------------------------------------------------------------
Lexer_Init == text = <<>> /\ type = 0

Char(c) ==
  /\ Len(text) < MaxText
  /\ text' = Append(text, c)
  /\ type' = IF type = -1 THEN -1 ELSE Advance(type, c)

Lexer_Next == \E c \in Alphabet : Char(c)

Lexer_Spec == Lexer_Init /\ [][Lexer_Next]_lvars

-----------------------------------------------------------------------------
(* PROPERTIES *)

(* main decrypts a line once it is not blank (main.c:96): what two passes      *)
(* leave is then empty or has a first word, without tabs, comment or newline,  *)
(* and a third pass would change no word.                                      *)
LineReady ==
  LET n == Normalised(text) IN
  /\ n # <<>> => NextWords(n) # <<>>
  /\ \A k \in DOMAIN n : n[k] \notin {"tab", "#", "nl"}
  /\ NextWords(Standardised(n)) = NextWords(n)

(* The numbers are 0x and hexadecimal digits, a sign and decimal digits,      *)
(* decimal digits that do not begin with 0, 0 alone, and 0 with octal digits:  *)
(* each is given its base and nothing else is given one (fonctions.c:71-116).  *)
All(w, base) == \A k \in DOMAIN w : w[k] \in DOMAIN DigitValue /\ DigitValue[w[k]] < base
Grammar ==
  text # <<>> =>
    /\ InHexa <=> Len(text) >= 2 /\ SubSeq(text, 1, 2) = <<"0", "x">>
                   /\ All(SubSeq(text, 3, Len(text)), 16)
    /\ InDecimal <=> \/ text[1] = "-" /\ All(Tail(text), 10)
                     \/ text[1] # "0" /\ All(text, 10)
                     \/ text = <<"0">>
    /\ InOctal <=> Len(text) >= 2 /\ text[1] = "0" /\ All(text, 8)

Body(w) == CASE type = 2 -> SubSeq(w, 3, Len(w))
             [] type = 3 -> Unsigned(w)
             [] OTHER -> w
BaseOf == CASE type = 2 -> 16 [] type \in {1, 3} -> 10 [] type = 4 -> 8

(* "Test si une chaine de caractere est numerique" (fonctions.c:71): a number  *)
(* has a digit.                                                                *)
HasDigit == WhatType > 1 => Body(text) # <<>>

(* "... et renvoie sa base" (fonctions.c:71): the value given to a number is   *)
(* the one it has in that base.                                                *)
ValueInBase ==
  WhatType > 1 /\ Body(text) # <<>> =>
    Strtol(text) = (IF text[1] = "-" THEN -1 ELSE 1) * Value(Body(text), BaseOf)
=============================================================================
