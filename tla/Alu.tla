-------------------------------- MODULE Alu --------------------------------
(***************************************************************************)
(* The instructions of execute.c that module Mips leaves out, each taken    *)
(* through EX, MEM and WB: logic, shifts, LUI, bytes, DIV and SEB.  A word  *)
(* is Word values, an immediate Imm, a byte Byte (2^32, 2^16, 2^8 in the    *)
(* program); registers hold signed words, memory unsigned bytes.            *)
(***************************************************************************)
EXTENDS Integers, Bitwise

CONSTANTS
  Word, Imm, Byte,
  Shifts,       (* the values of sa                                         *)
  Mapped,       (* the addresses of a segment                               *)
  Ops           (* the instructions of a run                                *)

AluAssumption ==
  /\ Byte \in Nat /\ Imm \in Nat /\ Word = Imm * Imm /\ Byte > 1 /\ Byte < Imm
  /\ Shifts \subseteq Nat

Signed(n, range) == LET u == n % range IN IF u < range \div 2 THEN u ELSE u - range
Bits(v) == v % Word
SignedWord(v) == Signed(v, Word)
Value == -(Word \div 2) .. (Word \div 2) - 1
Immediate == -(Imm \div 2) .. (Imm \div 2) - 1

VARIABLES
  op, x, y, imm, sa,    (* the instruction, the values of rs and rt         *)
  stage,                (* the stage to run next, "done" or "stopped"       *)
  tmp, tmp2,            (* its block                                        *)
  hi, lo, result,       (* HI, LO and the destination                       *)
  content               (* the bytes of memory                              *)

operands == <<op, x, y, imm, sa>>
vars == <<operands, stage, tmp, tmp2, hi, lo, result, content>>

RegisterOps == {"AND", "OR", "XOR", "DIV", "SEB"}
ShiftOps == {"SLL", "SRL", "SRA"}

(* Operands an instruction does not have are 0; a block keeps what the      *)
(* instruction before left in it.                                           *)
Init ==
  /\ op \in Ops
  /\ x \in IF op \in ShiftOps \cup {"LUI"} THEN {0} ELSE Value
  /\ y \in IF op \in RegisterOps \cup ShiftOps \cup {"SB"} THEN Value ELSE {0}
  /\ imm \in IF op \in RegisterOps \cup ShiftOps THEN {0} ELSE Immediate
  /\ sa \in IF op \in ShiftOps THEN Shifts ELSE {0}
  /\ stage = "EX" /\ tmp = 0 /\ tmp2 \in {0, 1} /\ hi = 1 /\ lo = 2 /\ result = 0
  /\ content \in [Mapped -> IF op \in {"LB", "LBU"} THEN 0 .. Byte - 1 ELSE {1}]

(* C's division: towards zero, the rest with the sign of the dividend. *)
Abs(n) == IF n < 0 THEN -n ELSE n
(* Mutant: the quotient goes down. *)
QuotientFloor == (IF y < 0 THEN -x ELSE x) \div Abs(y)

Quotient == IF (x < 0) = (y < 0) THEN Abs(x) \div Abs(y) ELSE -(Abs(x) \div Abs(y))

(* Mutant: the shift of an unsigned. *)
ShiftRightLogical(v, n) == Bits(v) \div 2^n

(* >> of an int32_t keeps the sign. *)
ShiftRight(v, n) == v \div 2^n

(* The immediate is a signed field: the cast to uint32_t extends its sign.  *)
EXTmp ==
  CASE op = "AND" -> SignedWord(Bits(x) & Bits(y))
    [] op = "OR" -> SignedWord(Bits(x) | Bits(y))
    [] op = "XOR" -> SignedWord(Bits(x) ^^ Bits(y))
    [] op = "ANDI" -> SignedWord(Bits(imm) & Bits(x))
    [] op = "ORI" -> SignedWord(Bits(imm) | Bits(x))
    [] op = "SLL" -> SignedWord(Bits(y) * 2^sa)
    [] op \in {"SRL", "SRA"} -> ShiftRight(y, sa)
    [] op \in {"LB", "LBU", "SB"} -> SignedWord(x + imm)
    [] op = "DIV" -> IF y = 0 THEN lo ELSE Quotient
    [] OTHER -> tmp

(* The smallest integer divided by -1 raises SIGFPE in the emulator. *)
Stops == op = "DIV" /\ y = -1 /\ x = -(Word \div 2)

EX ==
  /\ stage = "EX"
  /\ \/ /\ Stops
        /\ stage' = "stopped"
        /\ UNCHANGED <<tmp, tmp2>>
     \/ /\ ~Stops
        /\ stage' = "MEM"
        /\ tmp' = EXTmp
        /\ tmp2' = IF op # "DIV" THEN tmp2 ELSE IF y = 0 THEN hi ELSE x - Quotient * y
  /\ UNCHANGED <<operands, hi, lo, result, content>>

(* Mutant: a byte is stored with the bits above it. *)
MEMWide ==
  /\ stage = "MEM"
  /\ stage' = "WB"
  /\ tmp2' = IF op \in {"LB", "LBU"} /\ Bits(tmp) \in Mapped THEN content[Bits(tmp)] ELSE tmp2
  /\ content' = IF op = "SB" /\ Bits(tmp) \in Mapped
                THEN [content EXCEPT ![Bits(tmp)] = Bits(y)] ELSE content
  /\ UNCHANGED <<operands, tmp, hi, lo, result>>

(* A read outside memory keeps tmp2, a write does nothing.                  *)
MEM ==
  /\ stage = "MEM"
  /\ stage' = "WB"
  /\ tmp2' = IF op \in {"LB", "LBU"} /\ Bits(tmp) \in Mapped THEN content[Bits(tmp)] ELSE tmp2
  /\ content' = IF op = "SB" /\ Bits(tmp) \in Mapped
                THEN [content EXCEPT ![Bits(tmp)] = y % Byte] ELSE content
  /\ UNCHANGED <<operands, tmp, hi, lo, result>>

(* sign_extend takes an int16_t: a byte, which is unsigned, stays positive. *)
WBResult ==
  CASE op = "LB" -> Signed(tmp2, Imm)
    [] op = "LBU" -> tmp2
    [] op = "LUI" -> SignedWord(imm * Imm)
    [] op = "SEB" -> Bits(y) % Byte
    [] op \in {"SB", "DIV"} -> result
    [] OTHER -> tmp

WB ==
  /\ stage = "WB"
  /\ stage' = "done"
  /\ result' = WBResult
  /\ lo' = IF op = "DIV" THEN tmp ELSE lo
  /\ hi' = IF op = "DIV" THEN tmp2 ELSE hi
  /\ UNCHANGED <<operands, tmp, tmp2, content>>

Next == EX \/ MEM \/ WB

Spec == Init /\ [][Next]_vars

-----------------------------------------------------------------------------
(* Bit k of a word. *)
BitOf(v, k) == (Bits(v) \div 2^k) % 2
Positions == {k \in 0 .. 30 : 2^k < Word}
Last == CHOOSE k \in Positions : k + 1 \notin Positions

(* SRA and the logical operations do to each bit what the manual says of    *)
(* it, LUI leaves the low half clear, and a shift left drops what leaves    *)
(* the word (execute.c).                                                    *)
BitsRight ==
  stage = "done" => \A k \in Positions :
    LET r == BitOf(result, k) IN
    /\ op = "AND" => r = BitOf(x, k) * BitOf(y, k)
    /\ op = "OR" => r = (IF BitOf(x, k) + BitOf(y, k) > 0 THEN 1 ELSE 0)
    /\ op = "XOR" => r = (BitOf(x, k) + BitOf(y, k)) % 2
    /\ op = "SLL" => r = (IF k < sa THEN 0 ELSE BitOf(y, k - sa))
    /\ op = "SRA" => r = (IF k + sa > Last THEN BitOf(y, Last) ELSE BitOf(y, k + sa))
    /\ op = "LUI" => r = (IF 2^k < Imm THEN 0 ELSE BitOf(imm, k - (Last + 1) \div 2))

(* DIV leaves a quotient and a rest that give the dividend back, the rest   *)
(* smaller than the divisor and of the sign of the dividend; by zero it     *)
(* leaves HI and LO as they were (execute.c:302).                           *)
DivisionRight ==
  stage = "done" /\ op = "DIV" =>
    IF y = 0 THEN hi = 1 /\ lo = 2
    ELSE /\ lo * y + hi = x /\ Abs(hi) < Abs(y)
         /\ hi # 0 => (hi < 0) = (x < 0)

(* LBU gives the byte at rs plus the signed immediate, SB changes that byte *)
(* alone, to the low bits of rt (execute.c).                                *)
BytesRight ==
  stage = "done" =>
    LET a == (x + imm) % Word IN
    /\ op = "LBU" /\ a \in Mapped => result = content[a]
    /\ op = "SB" => \A b \in Mapped : content[b] = IF b = a THEN y % Byte ELSE 1

(* execute.c:139, 534: the cast of the immediate is there to extend it with *)
(* zeros.                                                                   *)
ImmediateZeroExtended ==
  stage = "done" =>
    /\ op = "ANDI" => result = SignedWord(Bits(x) & (imm % Imm))
    /\ op = "ORI" => result = SignedWord(Bits(x) | (imm % Imm))

(* execute.c:405: LB puts the byte with its sign extended.                  *)
ByteSignExtended ==
  stage = "done" /\ op = "LB" /\ Bits(x + imm) \in Mapped =>
    result = Signed(content[Bits(x + imm)], Byte)

(* "SIGN EXTEND" (execute.c:596): SEB puts the low byte of rt with its sign  *)
(* extended.                                                                *)
SebSignExtended == stage = "done" /\ op = "SEB" => result = Signed(y, Byte)
=============================================================================
