------------------------------- MODULE Memory -------------------------------
(***************************************************************************)
(* The virtual memory: a table of segments (mem.c, mem.h) read and written  *)
(* by memRead and memWrite (emul.c), a byte or a word at a time.  Addresses *)
(* are unsigned and wrap round at Space, 2^32 in the program; a byte has    *)
(* ByteRange values, 256 in the program, and a word is four bytes.          *)
(***************************************************************************)
EXTENDS Integers, Sequences

CONSTANTS
  Space,        (* number of addresses                                      *)
  ByteRange,    (* number of values of a byte                               *)
  Layouts,      (* tables of segments [start, size] a load makes            *)
  Values,       (* the values written                                       *)
  Addrs         (* the addresses used                                       *)

(* The segments of a table are apart, as Loader's Disjoint has them. *)
ASSUME MemoryAssumption ==
  /\ Space \in Nat \ {0} /\ ByteRange \in Nat /\ ByteRange > 1
  /\ Addrs \subseteq 0 .. Space - 1
  /\ Values \subseteq Int
  /\ \A l \in Layouts :
       /\ l \in Seq([start : 0 .. Space - 1, size : Nat])
       /\ \A i \in DOMAIN l : l[i].start + l[i].size <= Space - 1
       /\ \A i, j \in DOMAIN l :
            i # j => \/ l[i].start + l[i].size <= l[j].start
                     \/ l[j].start + l[j].size <= l[i].start

VARIABLES
  memory,       (* the segments, each with its start, size and content      *)
  value,        (* the variable of the caller that memRead fills            *)
  code          (* what the last call returned                              *)

mvars == <<memory, value, code>>

Byte == 0 .. ByteRange - 1
WordRange == ByteRange * ByteRange * ByteRange * ByteRange

Memory_Init ==
  /\ \E l \in Layouts :
       memory = [i \in DOMAIN l |-> [start |-> l[i].start, size |-> l[i].size,
                                     content |-> [o \in 0 .. l[i].size - 1 |-> 0]]]
  /\ value = 0 /\ code = 0

Address(a) == a % Space          \* uint32_t arithmetic
Signed(n) == IF n < WordRange \div 2 THEN n ELSE n - WordRange

Holds(s, a) == a >= s.start /\ a - s.start < s.size

(* The first segment that holds a, 0 when none does. *)
GetSeg(a) ==
  IF \E i \in DOMAIN memory : Holds(memory[i], a)
  THEN CHOOSE i \in DOMAIN memory :
         /\ Holds(memory[i], a)
         /\ \A j \in 1 .. i - 1 : ~Holds(memory[j], a)
  ELSE 0

ByteOk(a) == GetSeg(a) # 0

(* Mutant: the test of the last byte of a word is forgotten. *)
WordOkFirst(a) == GetSeg(a) # 0

(* The last byte of a word is compared with the end of the segment; both    *)
(* sums wrap round.                                                         *)
WordOk(a) ==
  /\ GetSeg(a) # 0
  /\ LET s == memory[GetSeg(a)] IN Address(a + 3) < Address(s.start + s.size)

Offset(a) == a - memory[GetSeg(a)].start

(* struct_word: b1, the most significant byte, comes first in memory.       *)
WordBytes(c, o) == ((c[o] * ByteRange + c[o + 1]) * ByteRange + c[o + 2]) * ByteRange + c[o + 3]

BytesOf(v) ==
  LET u == v % WordRange
  IN <<u \div (ByteRange * ByteRange * ByteRange),
       (u \div (ByteRange * ByteRange)) % ByteRange,
       (u \div ByteRange) % ByteRange,
       u % ByteRange>>

-----------------------------------------------------------------------------
Failed == code' = -1 /\ UNCHANGED <<memory, value>>

ReadByte(a) ==
  /\ ByteOk(a)
  /\ value' = memory[GetSeg(a)].content[Offset(a)]
  /\ code' = 0 /\ UNCHANGED memory

(* Bytes past the segment's content are whatever the host memory holds. *)
ReadWord(a) ==
  /\ WordOk(a)
  /\ LET c == memory[GetSeg(a)].content
         o == Offset(a)
     IN \E beyond \in [ (o .. o + 3) \ DOMAIN c -> Byte ] :
          value' = Signed(WordBytes([x \in o .. o + 3 |->
                                       IF x \in DOMAIN c THEN c[x] ELSE beyond[x]], o))
  /\ code' = 0 /\ UNCHANGED memory

WriteByte(a, v) ==
  /\ ByteOk(a)
  /\ memory' = [memory EXCEPT ![GetSeg(a)].content[Offset(a)] = v % ByteRange]
  /\ code' = 0 /\ UNCHANGED value

WriteWord(a, v) ==
  /\ WordOk(a)
  /\ LET o == Offset(a)
     IN memory' = [memory EXCEPT ![GetSeg(a)].content =
                     [x \in DOMAIN @ |-> IF x \in o .. o + 3 THEN BytesOf(v)[x - o + 1]
                                         ELSE @[x]]]
  /\ code' = 0 /\ UNCHANGED value

Access(a) ==
  \/ ReadByte(a) \/ ReadWord(a)
  \/ \E v \in Values : WriteByte(a, v) \/ WriteWord(a, v)
  \/ ~ByteOk(a) /\ Failed
  \/ ~WordOk(a) /\ Failed

Memory_Next == \E a \in Addrs : Access(a)

Memory_Spec == Memory_Init /\ [][Memory_Next]_mvars

-----------------------------------------------------------------------------
(* PROPERTIES *)

(* The bytes and words of the segments behave as one store of bytes: what is   *)
(* read back is what was written, no other byte moves, a word is in one        *)
(* segment or the access fails and changes nothing (emul.c:323-389).  Segments *)
(* may touch; they do not overlap.                                             *)
Store == INSTANCE ByteStore WITH
  regions <- { { memory[i].start + o : o \in 0 .. memory[i].size - 1 } : i \in DOMAIN memory },
  store <- [a \in { b \in 0 .. Space - 1 : GetSeg(b) # 0 } |->
              memory[GetSeg(a)].content[Offset(a)]]
ImplementsStore == Store!Spec

(* A word access that succeeds stays in the content of its segment.  That is   *)
(* what "Out of memory map" (user_int.c:309) reports otherwise; the test of    *)
(* the last byte wraps round in the last two bytes of [vsyscall].              *)
WordInSegment ==
  \A a \in Addrs : WordOk(a) => Offset(a) + 3 \in DOMAIN memory[GetSeg(a)].content
=============================================================================
