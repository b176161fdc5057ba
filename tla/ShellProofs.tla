----------------------------- MODULE ShellProofs ------------------------------
(***************************************************************************)
(* Proofs about what a command finds and leaves: the memory, then the       *)
(* commands and the loop of main, which stand on it.                        *)
(***************************************************************************)
EXTENDS Shell, SequenceTheorems, TLAPS

-----------------------------------------------------------------------------
(***************************************************************************)
(* The memory, for every table of segments, every width of a byte and every *)
(* number of addresses.                                                     *)
(***************************************************************************)

-----------------------------------------------------------------------------
(* Division by a number that is not known. *)

LEMMA DivRange ==
  ASSUME NEW x \in Int, NEW n \in Nat \ {0}
  PROVE  /\ x \div n \in Int /\ x % n \in 0 .. n - 1
         /\ x = n * (x \div n) + (x % n)
  OBVIOUS

LEMMA MulGrows ==
  ASSUME NEW n \in Nat \ {0}, NEW k \in Int
  PROVE  (k >= 1 => n * k >= n) /\ (k <= -1 => n * k <= -n)
  OBVIOUS

LEMMA Distributes ==
  ASSUME NEW a \in Int, NEW b \in Int, NEW c \in Int
  PROVE  a * (b - c) = a * b - a * c /\ (a * b) * c = a * (b * c) /\ a * b \in Int
  OBVIOUS

(* q and r are the quotient and the rest of x by n. *)
Divides(n, x, q, r) ==
  n \in Nat \ {0} /\ x \in Int /\ q \in Int /\ r \in 0 .. n - 1 /\ x = n * q + r

LEMMA Division ==
  ASSUME NEW x \in Int, NEW n \in Nat \ {0} PROVE Divides(n, x, x \div n, x % n)
  BY DivRange DEF Divides

LEMMA QuotientUnique ==
  ASSUME NEW n, NEW x, NEW q, NEW r, Divides(n, x, q, r)
  PROVE  x \div n = q /\ x % n = r
<1> n \in Nat \ {0} /\ x \in Int /\ q \in Int /\ r \in 0 .. n - 1 /\ x = n * q + r
  BY DEF Divides
<1>2. PICK k \in Int : k = x \div n
  BY DivRange
<1>3. PICK s \in 0 .. n - 1 : s = x % n
  BY DivRange
<1>4. x = n * k + s
  BY <1>2, <1>3, DivRange
<1>5. n * (k - q) = r - s
  BY <1>4, Distributes
<1>6. k = q
  <2>1. k - q \in Int
    OBVIOUS
  <2>2. r - s > -n /\ r - s < n
    OBVIOUS
  <2>3. ~(k - q >= 1) /\ ~(k - q <= -1)
    BY <1>5, <2>1, <2>2, MulGrows
  <2> QED
    BY <2>3
<1> QED
  BY <1>2, <1>3, <1>4, <1>6

LEMMA ModShift ==
  ASSUME NEW n \in Nat \ {0}, NEW x \in Int, NEW k \in Int
  PROVE  (x - n * k) % n = x % n
<1>1. PICK q, r : Divides(n, x, q, r) /\ r = x % n
  BY Division
<1>2. q \in Int /\ r \in 0 .. n - 1 /\ x = n * q + r
  BY <1>1 DEF Divides
<1>3. Divides(n, x - n * k, q - k, r)
  <2>1. n * (q - k) = n * q - n * k
    BY <1>2, Distributes
  <2>2. n * q \in Int /\ n * k \in Int
    BY <1>2, Distributes
  <2> QED
    BY <1>2, <2>1, <2>2 DEF Divides
<1> QED
  BY <1>1, <1>3, QuotientUnique

(* The last digits of x have the same quotient as x, in their own range. *)
LEMMA LastDigits ==
  ASSUME NEW m \in Nat \ {0}, NEW n \in Nat \ {0}, NEW x, NEW q, NEW u, NEW d, NEW r,
         Divides(m * n, x, q, u), Divides(m, x, d, r)
  PROVE  Divides(m, u, d - n * q, r) /\ d - n * q \in 0 .. n - 1
<1> /\ q \in Int /\ d \in Int /\ r \in 0 .. m - 1 /\ u \in 0 .. (m * n) - 1
    /\ m * d + r = (m * n) * q + u
  BY DEF Divides
<1>1. n * q \in Int /\ m * d \in Int /\ m * n \in Int
  BY Distributes
<1>2. PICK e \in Int : e = d - n * q
  BY <1>1
<1>3. u = m * e + r
  <2>1. (m * n) * q = m * (n * q) /\ m * (n * q) \in Int
    BY <1>1, Distributes
  <2>2. m * e = m * d - m * (n * q)
    BY <1>1, <1>2, Distributes
  <2> QED
    BY <1>1, <2>1, <2>2
<1>4. e >= 0
  <2>1. e <= -1 => m * e <= -m
    BY MulGrows
  <2> QED
    BY <1>1, <1>3, <2>1
<1>5. e < n
  <2>1. m * (e - n) = m * e - m * n /\ e - n \in Int
    BY Distributes
  <2>2. m * (e - n) <= -1
    BY <1>1, <1>3, <2>1, Distributes
  <2>3. e - n >= 1 => m * (e - n) >= m
    BY <2>1, MulGrows
  <2>4. e - n = 0 => m * (e - n) = 0
    OBVIOUS
  <2> QED
    BY <2>1, <2>2, <2>3, <2>4
<1> QED
  BY <1>2, <1>3, <1>4, <1>5 DEF Divides

LEMMA DigitOfMod ==
  ASSUME NEW m \in Nat \ {0}, NEW n \in Nat \ {0}, NEW x \in Int
  PROVE  (x % (m * n)) \div m = (x \div m) % n
<1>1. m * n \in Nat \ {0}
  BY MulGrows
<1>2. PICK q, u : Divides(m * n, x, q, u) /\ u = x % (m * n)
  BY <1>1, Division
<1>3. PICK d, r : Divides(m, x, d, r) /\ d = x \div m
  BY Division
<1>4. Divides(m, u, d - n * q, r) /\ d - n * q \in 0 .. n - 1
  BY <1>2, <1>3, LastDigits
<1>5. u \div m = d - n * q
  BY <1>4, QuotientUnique
<1>6. d \in Int /\ q \in Int
  BY <1>2, <1>3 DEF Divides
<1>7. (d - n * q) % n = d % n
  BY <1>6, ModShift
<1>8. (d - n * q) % n = d - n * q
  <2>1. PICK e \in 0 .. n - 1 : e = d - n * q
    BY <1>4
  <2> QED
    BY <2>1
<1> QED
  BY <1>2, <1>3, <1>5, <1>7, <1>8

LEMMA ModOfMod ==
  ASSUME NEW m \in Nat \ {0}, NEW n \in Nat \ {0}, NEW x \in Int
  PROVE  (x % (m * n)) % m = x % m
<1>1. m * n \in Nat \ {0}
  BY MulGrows
<1>2. PICK q, u : Divides(m * n, x, q, u) /\ u = x % (m * n)
  BY <1>1, Division
<1>3. q \in Int /\ x = (m * n) * q + u /\ u \in Int
  BY <1>2 DEF Divides
<1>4. PICK k \in Int : k = n * q
  BY <1>3, Distributes
<1>5. u = x - m * k
  BY <1>3, <1>4, Distributes
<1>6. (x - m * k) % m = x % m
  BY ModShift
<1> QED
  BY <1>2, <1>5, <1>6

LEMMA DivOfDiv ==
  ASSUME NEW m \in Nat \ {0}, NEW n \in Nat \ {0}, NEW x \in Int
  PROVE  (x \div m) \div n = x \div (m * n)
<1>1. PICK d, r : Divides(m, x, d, r) /\ d = x \div m
  BY Division
<1>2. d \in Int /\ r \in 0 .. m - 1 /\ x = m * d + r
  BY <1>1 DEF Divides
<1>3. PICK e, s : Divides(n, d, e, s) /\ e = d \div n
  BY <1>2, Division
<1>4. e \in Int /\ s \in 0 .. n - 1 /\ d = n * e + s
  BY <1>3 DEF Divides
<1>5. Divides(m * n, x, e, m * s + r)
  <2>1. m * d = m * (n * e) + m * s
    <3>1. n * e \in Int /\ n * e = d - s
      BY <1>4, Distributes
    <3> QED
      BY <1>2, <1>4, <3>1, Distributes
  <2>2. m * (n * e) = (m * n) * e /\ (m * n) * e \in Int /\ m * s \in Int
    BY <1>4, Distributes
  <2>3. x = (m * n) * e + (m * s + r)
    BY <1>2, <2>1, <2>2
  <2>4. m * s >= 0 /\ m * s <= m * n - m
    <3>1. m * (n - s) = m * n - m * s /\ n - s \in Int /\ n - s >= 1
      BY <1>4, Distributes
    <3>2. m * (n - s) >= m
      BY <3>1, MulGrows
    <3>3. s >= 1 => m * s >= m
      BY <1>4, MulGrows
    <3>4. s = 0 => m * s = 0
      OBVIOUS
    <3> QED
      BY <1>4, <2>2, <3>1, <3>2, <3>3, <3>4
  <2>5. m * n \in Nat \ {0}
    BY MulGrows
  <2> QED
    BY <1>2, <1>4, <2>2, <2>3, <2>4, <2>5 DEF Divides
<1> QED
  BY <1>1, <1>3, <1>5, QuotientUnique

-----------------------------------------------------------------------------
(* The bytes of a word. *)

B2 == ByteRange * ByteRange
B3 == ByteRange * ByteRange * ByteRange

LEMMA Powers ==
  /\ ByteRange \in Nat \ {0} /\ B2 \in Nat \ {0} /\ B3 \in Nat \ {0} /\ WordRange \in Nat \ {0}
  /\ B3 = B2 * ByteRange /\ B3 = ByteRange * B2
  /\ WordRange = B3 * ByteRange /\ WordRange = B2 * B2 /\ WordRange = ByteRange * B3
<1>1. ByteRange \in Nat \ {0}
  BY MemoryAssumption
<1>2. B2 \in Nat \ {0}
  BY <1>1, MulGrows DEF B2
<1>3. B3 = B2 * ByteRange /\ B3 = ByteRange * B2 /\ B3 \in Nat \ {0}
  BY <1>1, <1>2, MulGrows, Distributes DEF B2, B3
<1>4. WordRange = B3 * ByteRange /\ WordRange = ByteRange * B3 /\ WordRange \in Nat \ {0}
  BY <1>1, <1>3, MulGrows DEF B3, WordRange
<1>5. WordRange = B2 * B2
  BY <1>1, <1>2, <1>3, <1>4, Distributes DEF B2
<1> QED
  BY <1>1, <1>2, <1>3, <1>4, <1>5

(* struct_word: the bytes of a value are its digits, each in the width of a   *)
(* byte, whatever the sign.                                                   *)
LEMMA BytesOfDigits ==
  ASSUME NEW v \in Int
  PROVE  BytesOf(v) = <<(v \div B3) % ByteRange, (v \div B2) % ByteRange,
                        (v \div ByteRange) % ByteRange, v % ByteRange>>
<1> DEFINE u == v % WordRange
<1>1. u \div B3 = (v \div B3) % ByteRange
  BY Powers, DigitOfMod
<1>2. (u \div B2) % ByteRange = (v \div B2) % ByteRange
  <2>1. u \div B2 = (v \div B2) % B2
    BY Powers, DigitOfMod
  <2>2. v \div B2 \in Int
    BY Powers, DivRange
  <2>3. ((v \div B2) % (ByteRange * ByteRange)) % ByteRange = (v \div B2) % ByteRange
    BY <2>2, Powers, ModOfMod
  <2> QED
    BY <2>1, <2>3 DEF B2
<1>3. (u \div ByteRange) % ByteRange = (v \div ByteRange) % ByteRange
  <2>1. u \div ByteRange = (v \div ByteRange) % B3
    BY Powers, DigitOfMod
  <2>2. v \div ByteRange \in Int
    BY Powers, DivRange
  <2>3. ((v \div ByteRange) % (ByteRange * B2)) % ByteRange = (v \div ByteRange) % ByteRange
    BY <2>2, Powers, ModOfMod
  <2> QED
    BY <2>1, <2>3, Powers
<1>4. u % ByteRange = v % ByteRange
  <2>1. (v % (ByteRange * B3)) % ByteRange = v % ByteRange
    BY Powers, ModOfMod
  <2> QED
    BY <2>1, Powers
<1>5. BytesOf(v) = <<u \div B3, (u \div B2) % ByteRange, (u \div ByteRange) % ByteRange,
                     u % ByteRange>>
  BY DEF BytesOf, B2, B3
<1> QED
  BY <1>1, <1>2, <1>3, <1>4, <1>5

LEMMA BytesOfType == ASSUME NEW v \in Int PROVE BytesOf(v) \in [1 .. 4 -> Byte]
<1>1. \A x \in Int : x % ByteRange \in Byte
  BY Powers, DivRange DEF Byte
<1>2. v \div B3 \in Int /\ v \div B2 \in Int /\ v \div ByteRange \in Int
  BY Powers, DivRange
<1> QED
  BY <1>1, <1>2, BytesOfDigits

(* Written and read back: the digits put together are the value again.        *)
LEMMA BytesJoined ==
  ASSUME NEW v \in Int, NEW c, NEW o \in Int,
         \A k \in 0 .. 3 : c[o + k] = BytesOf(v)[k + 1]
  PROVE  WordBytes(c, o) = v % WordRange
<1> DEFINE u == v % WordRange
<1>1. u \in Int
  BY Powers, DivRange
<1>2. u = ByteRange * (u \div ByteRange) + (u % ByteRange)
  BY <1>1, Powers, DivRange
<1>3. u \div ByteRange = ByteRange * (u \div B2) + ((u \div ByteRange) % ByteRange)
  <2>1. (u \div ByteRange) \div ByteRange = u \div B2
    BY <1>1, Powers, DivOfDiv DEF B2
  <2>2. u \div ByteRange \in Int
    BY <1>1, Powers, DivRange
  <2> QED
    BY <2>1, <2>2, Powers, DivRange
<1>4. u \div B2 = ByteRange * (u \div B3) + ((u \div B2) % ByteRange)
  <2>1. (u \div B2) \div ByteRange = u \div B3
    <3>1. (u \div B2) \div ByteRange = u \div (B2 * ByteRange)
      BY <1>1, Powers, DivOfDiv
    <3> QED
      BY <3>1, Powers
  <2>2. u \div B2 \in Int
    BY <1>1, Powers, DivRange
  <2> QED
    BY <2>1, <2>2, Powers, DivRange
<1>5. BytesOf(v) = <<u \div B3, (u \div B2) % ByteRange, (u \div ByteRange) % ByteRange,
                     u % ByteRange>>
  BY DEF BytesOf, B2, B3
<1>6. /\ c[o] = u \div B3 /\ c[o + 1] = (u \div B2) % ByteRange
      /\ c[o + 2] = (u \div ByteRange) % ByteRange /\ c[o + 3] = u % ByteRange
  <2>1. c[o + 0] = BytesOf(v)[1] /\ c[o + 1] = BytesOf(v)[2]
        /\ c[o + 2] = BytesOf(v)[3] /\ c[o + 3] = BytesOf(v)[4]
    OBVIOUS
  <2> QED
    BY <2>1, <1>5
<1>7. /\ u \div B3 \in Int /\ u \div B2 \in Int /\ u \div ByteRange \in Int
  BY <1>1, Powers, DivRange
<1>8. \A x \in Int : ByteRange * x = x * ByteRange
  BY Powers
<1>9. c[o] * ByteRange + c[o + 1] = u \div B2
  BY <1>4, <1>6, <1>7, <1>8
<1>10. (u \div B2) * ByteRange + c[o + 2] = u \div ByteRange
  BY <1>3, <1>6, <1>7, <1>8
<1>11. (u \div ByteRange) * ByteRange + c[o + 3] = u
  BY <1>2, <1>6, <1>7, <1>8
<1> QED
  BY <1>9, <1>10, <1>11 DEF WordBytes

-----------------------------------------------------------------------------
(* The table of segments: each has all its bytes, and they are apart. *)

Segment == [start : 0 .. Space - 1, size : Nat, content : UNION {[0 .. n - 1 -> Byte] : n \in Nat}]

Apart(s, t) == s.start + s.size <= t.start \/ t.start + t.size <= s.start

Laid ==
  /\ \E n \in Nat : memory \in [1 .. n -> Segment]
  /\ \A i \in DOMAIN memory :
       /\ memory[i].content \in [0 .. memory[i].size - 1 -> Byte]
       /\ memory[i].start + memory[i].size <= Space - 1
  /\ \A i, j \in DOMAIN memory : i # j => Apart(memory[i], memory[j])

TypeOK == Laid /\ value \in Int /\ code \in {0, -1}

(* An access moves no segment. *)
SameTable ==
  /\ DOMAIN memory' = DOMAIN memory
  /\ \A i \in DOMAIN memory :
       memory'[i].start = memory[i].start /\ memory'[i].size = memory[i].size

LEMMA ByteZero == 0 \in Byte /\ Byte \subseteq Int
  BY Powers DEF Byte

LEMMA InitTypeOK == Memory_Init => TypeOK
<1> SUFFICES ASSUME Memory_Init PROVE TypeOK
  OBVIOUS
<1>1. PICK l \in Layouts :
        memory = [i \in DOMAIN l |-> [start |-> l[i].start, size |-> l[i].size,
                                      content |-> [o \in 0 .. l[i].size - 1 |-> 0]]]
  BY DEF Memory_Init
<1>2. /\ l \in Seq([start : 0 .. Space - 1, size : Nat])
      /\ \A i \in DOMAIN l : l[i].start + l[i].size <= Space - 1
      /\ \A i, j \in DOMAIN l : i # j => Apart(l[i], l[j])
  BY MemoryAssumption DEF Apart
<1>3. PICK n \in Nat : DOMAIN l = 1 .. n
  BY <1>2
<1>4. \A i \in 1 .. n : l[i].start \in 0 .. Space - 1 /\ l[i].size \in Nat
  <2>1. \A i \in DOMAIN l : l[i] \in [start : 0 .. Space - 1, size : Nat]
    <3>1. \A S, q : q \in Seq(S) => \A i \in DOMAIN q : q[i] \in S
      OBVIOUS
    <3> QED
      BY <1>2, <3>1
  <2> QED
    BY <1>3, <2>1
<1>5. \A i \in 1 .. n : /\ memory[i].start = l[i].start /\ memory[i].size = l[i].size
                        /\ memory[i].content = [o \in 0 .. l[i].size - 1 |-> 0]
  BY <1>1, <1>3
<1>6. \A i \in 1 .. n : [o \in 0 .. l[i].size - 1 |-> 0] \in [0 .. l[i].size - 1 -> Byte]
  BY ByteZero
<1>7. memory \in [1 .. n -> Segment]
  BY <1>1, <1>3, <1>4, <1>6 DEF Segment
<1>8. DOMAIN memory = 1 .. n
  BY <1>7
<1>9. \A i \in DOMAIN memory :
        /\ memory[i].content \in [0 .. memory[i].size - 1 -> Byte]
        /\ memory[i].start + memory[i].size <= Space - 1
  BY <1>2, <1>3, <1>5, <1>6, <1>8
<1>10. \A i, j \in DOMAIN memory : i # j => Apart(memory[i], memory[j])
  BY <1>2, <1>3, <1>5, <1>8 DEF Apart
<1> QED
  BY <1>7, <1>9, <1>10 DEF Memory_Init, TypeOK, Laid

(* Each address is in one segment at most, which GetSeg finds. *)
Finds(a) ==
  /\ \A i \in DOMAIN memory : Holds(memory[i], a) => GetSeg(a) = i
  /\ GetSeg(a) # 0 => GetSeg(a) \in DOMAIN memory /\ Holds(memory[GetSeg(a)], a)
  /\ 0 \notin DOMAIN memory

LEMMA GetSegFinds == Laid => \A a \in Int : Finds(a)
<1> SUFFICES ASSUME Laid, NEW a \in Int PROVE Finds(a)
  OBVIOUS
<1>1. PICK n \in Nat : memory \in [1 .. n -> Segment]
  BY DEF Laid
<1>2. \A i \in DOMAIN memory : memory[i].start \in Int /\ memory[i].size \in Int
  BY <1>1 DEF Segment
<1>3. ASSUME NEW i \in DOMAIN memory, NEW j \in DOMAIN memory,
             Holds(memory[i], a), Holds(memory[j], a)
      PROVE  i = j
  <2>1. i # j => Apart(memory[i], memory[j])
    BY DEF Laid
  <2> QED
    BY <1>2, <1>3, <2>1 DEF Apart, Holds
<1>4. ASSUME NEW i \in DOMAIN memory, Holds(memory[i], a) PROVE GetSeg(a) = i
  <2>1. \A j \in 1 .. i - 1 : j \in DOMAIN memory /\ j # i
    BY <1>1
  <2>2. \A j \in 1 .. i - 1 : ~Holds(memory[j], a)
    BY <1>3, <1>4, <2>1
  <2> DEFINE P(k) == Holds(memory[k], a) /\ \A j \in 1 .. k - 1 : ~Holds(memory[j], a)
  <2>3. GetSeg(a) = CHOOSE k \in DOMAIN memory : P(k)
    BY <1>4, Zenon DEF GetSeg
  <2>4. \A k \in DOMAIN memory : P(k) => k = i
    BY <1>3, <1>4
  <2>5. P(i)
    BY <1>4, <2>2
  <2> HIDE DEF P
  <2>6. GetSeg(a) \in DOMAIN memory /\ P(GetSeg(a))
    BY <1>4, <2>3, <2>5, Zenon
  <2> QED
    BY <2>4, <2>6
<1>5. GetSeg(a) # 0 => \E i \in DOMAIN memory : Holds(memory[i], a)
  BY Zenon DEF GetSeg
<1> QED
  BY <1>1, <1>4, <1>5 DEF Finds

NoneHolds(a) == GetSeg(a) = 0 <=> \A i \in DOMAIN memory : ~Holds(memory[i], a)

LEMMA GetSegNone == Laid => \A a \in Int : NoneHolds(a)
<1> SUFFICES ASSUME Laid, NEW a \in Int
             PROVE  GetSeg(a) = 0 <=> \A i \in DOMAIN memory : ~Holds(memory[i], a)
  BY DEF NoneHolds
<1>1. (\A i \in DOMAIN memory : ~Holds(memory[i], a)) => GetSeg(a) = 0
  BY Zenon DEF GetSeg
<1> QED
  BY <1>1, GetSegFinds DEF Finds

LEMMA GetSegFindsNext == Laid' => \A a \in Int : Finds(a)'
<1>1. (Laid => \A a \in Int : Finds(a))'
  BY GetSegFinds, PTL
<1> QED
  BY <1>1

LEMMA GetSegNoneNext == Laid' => \A a \in Int : NoneHolds(a)'
<1>1. (Laid => \A a \in Int : NoneHolds(a))'
  BY GetSegNone, PTL
<1> QED
  BY <1>1

LEMMA SameSegments ==
  ASSUME Laid, Laid', SameTable, NEW a \in Int
  PROVE  GetSeg(a)' = GetSeg(a)
<1>1. Finds(a)'
  BY GetSegFindsNext
<1>2. \A i \in DOMAIN memory : Holds(memory[i], a)' <=> Holds(memory[i], a)
  BY DEF SameTable, Holds
<1>3. CASE GetSeg(a) = 0
  <2>1. \A i \in DOMAIN memory' : ~Holds(memory[i], a)'
    BY <1>2, <1>3, GetSegNone DEF SameTable, NoneHolds
  <2> QED
    BY <1>3, <2>1, GetSegNoneNext DEF NoneHolds
<1>4. CASE GetSeg(a) # 0
  <2>1. GetSeg(a) \in DOMAIN memory /\ Holds(memory[GetSeg(a)], a)
    BY <1>4, GetSegFinds DEF Finds
  <2>2. PICK i \in DOMAIN memory : i = GetSeg(a) /\ Holds(memory[i], a)
    BY <2>1
  <2>3. i \in DOMAIN memory' /\ Holds(memory[i], a)'
    BY <1>2, <2>2 DEF SameTable
  <2> QED
    BY <1>1, <2>2, <2>3 DEF Finds
<1> QED
  BY <1>3, <1>4

(* The segment of an address that has one. *)
LEMMA Inside ==
  ASSUME Laid, NEW a \in Int, NEW k, k = GetSeg(a), k # 0
  PROVE  /\ k \in DOMAIN memory /\ memory[k] \in Segment
         /\ memory[k].start \in Int /\ memory[k].size \in Int /\ memory[k].start >= 0
         /\ memory[k].start <= a /\ a < memory[k].start + memory[k].size
         /\ memory[k].start + memory[k].size <= Space - 1
         /\ Offset(a) = a - memory[k].start /\ Offset(a) \in 0 .. memory[k].size - 1
         /\ memory[k].content \in [0 .. memory[k].size - 1 -> Byte]
<1>1. k \in DOMAIN memory /\ Holds(memory[k], a)
  BY GetSegFinds DEF Finds
<1>2. memory[k] \in Segment
  BY <1>1 DEF Laid
<1>3. Space \in Nat
  BY MemoryAssumption
<1>4. memory[k].start \in 0 .. Space - 1 /\ memory[k].size \in Nat
  BY <1>2 DEF Segment
<1>5. memory[k].content \in [0 .. memory[k].size - 1 -> Byte]
      /\ memory[k].start + memory[k].size <= Space - 1
  BY <1>1 DEF Laid
<1> QED
  BY <1>1, <1>2, <1>3, <1>4, <1>5 DEF Holds, Offset

(* The last two bytes below the top, from which a word wraps round.           *)
Top == {Space - 3, Space - 2}

LEMMA AddressOf ==
  ASSUME NEW x \in Int, x >= 0
  PROVE  /\ x < Space => Address(x) = x
         /\ Space <= x /\ x < Space + Space => Address(x) = x - Space
<1>1. Space \in Nat
  BY MemoryAssumption
<1> QED
  BY <1>1 DEF Address

(* Elsewhere the test of the last byte says that the word is in its segment.  *)
LEMMA WordOkInside ==
  ASSUME Laid, NEW a \in 0 .. Space - 1, a \notin Top
  PROVE  WordOk(a) <=> /\ GetSeg(a) # 0
                       /\ a + 3 < memory[GetSeg(a)].start + memory[GetSeg(a)].size
<1> DEFINE k == GetSeg(a)
           s == memory[k]
<1> HIDE DEF k
<1>1. CASE k = 0
  BY <1>1 DEF WordOk, k
<1>2. CASE k # 0
  <2>1. /\ s.start \in Int /\ s.size \in Int /\ s.start >= 0 /\ s.start <= a
        /\ a < s.start + s.size /\ s.start + s.size <= Space - 1
    BY <1>2, Inside DEF k
  <2>2. Space \in Nat
    BY MemoryAssumption
  <2>3. a + 3 < Space
    BY <2>1, <2>2 DEF Top
  <2>4. Address(a + 3) = a + 3 /\ Address(s.start + s.size) = s.start + s.size
    BY <2>1, <2>2, <2>3, AddressOf
  <2> QED
    BY <1>2, <2>4 DEF WordOk, k
<1> QED
  BY <1>1, <1>2 DEF k

(* The four bytes of such a word are in one segment. *)
LEMMA WordSegment ==
  ASSUME Laid, NEW a \in 0 .. Space - 1, a \notin Top, WordOk(a), NEW b \in a .. a + 3
  PROVE  GetSeg(b) = GetSeg(a) /\ Offset(b) = Offset(a) + (b - a)
<1>1. PICK k : k = GetSeg(a) /\ k # 0
  BY DEF WordOk
<1>2. /\ k \in DOMAIN memory /\ memory[k].start \in Int /\ memory[k].size \in Int
      /\ memory[k].start <= a /\ Offset(a) = a - memory[k].start
  BY <1>1, Inside
<1>3. a + 3 < memory[k].start + memory[k].size
  BY <1>1, WordOkInside
<1>4. Holds(memory[k], b)
  BY <1>2, <1>3 DEF Holds
<1>5. GetSeg(b) = k
  BY <1>2, <1>4, GetSegFinds DEF Finds
<1> QED
  BY <1>1, <1>2, <1>5 DEF Offset

-----------------------------------------------------------------------------
(* What a write does to one segment. *)

Patched(k, c) ==
  /\ k \in DOMAIN memory
  /\ c \in [0 .. memory[k].size - 1 -> Byte]
  /\ memory' = [memory EXCEPT ![k].content = c]

LEMMA PatchedTable ==
  ASSUME Laid, NEW k, NEW c, Patched(k, c)
  PROVE  /\ Laid' /\ SameTable
         /\ \A i \in DOMAIN memory :
              memory'[i].content = IF i = k THEN c ELSE memory[i].content
<1>1. PICK n \in Nat : memory \in [1 .. n -> Segment]
  BY DEF Laid
<1>2. k \in 1 .. n /\ memory[k] \in Segment
  BY <1>1 DEF Patched
<1>3. [memory[k] EXCEPT !.content = c] \in Segment
  BY <1>2 DEF Patched, Segment
<1>4. memory' = [memory EXCEPT ![k] = [memory[k] EXCEPT !.content = c]]
  BY <1>1, <1>2 DEF Patched
<1>5. memory' \in [1 .. n -> Segment]
  BY <1>1, <1>2, <1>3, <1>4
<1>6. \A i \in 1 .. n : /\ memory'[i].start = memory[i].start
                        /\ memory'[i].size = memory[i].size
                        /\ memory'[i].content = IF i = k THEN c ELSE memory[i].content
  BY <1>1, <1>2, <1>4 DEF Segment
<1>7. DOMAIN memory = 1 .. n /\ DOMAIN memory' = 1 .. n
  BY <1>1, <1>5
<1>8. SameTable
  BY <1>6, <1>7 DEF SameTable
<1>9. Laid'
  <2>1. \A i \in 1 .. n : /\ memory'[i].content \in [0 .. memory'[i].size - 1 -> Byte]
                          /\ memory'[i].start + memory'[i].size <= Space - 1
    BY <1>6, <1>7 DEF Laid, Patched
  <2>2. \A i, j \in 1 .. n : i # j => Apart(memory'[i], memory'[j])
    BY <1>6, <1>7 DEF Laid, Apart
  <2> QED
    BY <1>5, <1>7, <2>1, <2>2 DEF Laid
<1> QED
  BY <1>6, <1>7, <1>8, <1>9

LEMMA WriteBytePatches ==
  ASSUME Laid, NEW a \in Int, NEW v \in Int, WriteByte(a, v)
  PROVE  LET k == GetSeg(a) IN
         Patched(k, [memory[k].content EXCEPT ![Offset(a)] = v % ByteRange])
<1>1. PICK k : k = GetSeg(a) /\ k # 0
  BY DEF WriteByte, ByteOk
<1>2. /\ k \in DOMAIN memory /\ memory[k] \in Segment
      /\ memory[k].content \in [0 .. memory[k].size - 1 -> Byte]
  BY <1>1, Inside
<1>3. v % ByteRange \in Byte
  BY Powers, DivRange DEF Byte
<1>4. memory' = [memory EXCEPT ![k].content = [memory[k].content EXCEPT ![Offset(a)] = v % ByteRange]]
  <2>1. memory' = [memory EXCEPT ![k].content[Offset(a)] = v % ByteRange]
    BY <1>1 DEF WriteByte
  <2> QED
    BY <2>1
<1> QED
  BY <1>1, <1>2, <1>3, <1>4 DEF Patched

WordWritten(c, o, v) ==
  [x \in DOMAIN c |-> IF x \in o .. o + 3 THEN BytesOf(v)[x - o + 1] ELSE c[x]]

LEMMA WriteWordPatches ==
  ASSUME Laid, NEW a \in Int, NEW v \in Int, WriteWord(a, v)
  PROVE  LET k == GetSeg(a) IN Patched(k, WordWritten(memory[k].content, Offset(a), v))
<1>1. PICK k : k = GetSeg(a) /\ k # 0
  BY DEF WriteWord, WordOk
<1>2. /\ k \in DOMAIN memory /\ memory[k] \in Segment /\ Offset(a) \in Int
      /\ memory[k].content \in [0 .. memory[k].size - 1 -> Byte] /\ memory[k].size \in Int
  BY <1>1, Inside
<1>3. \A x \in Int : x \in Offset(a) .. Offset(a) + 3 => BytesOf(v)[x - Offset(a) + 1] \in Byte
  BY <1>2, BytesOfType
<1>4. WordWritten(memory[k].content, Offset(a), v) \in [0 .. memory[k].size - 1 -> Byte]
  BY <1>2, <1>3 DEF WordWritten
<1>5. memory' = [memory EXCEPT ![k].content = WordWritten(memory[k].content, Offset(a), v)]
  BY <1>1, <1>2 DEF WriteWord, WordWritten
<1> QED
  BY <1>1, <1>2, <1>4, <1>5 DEF Patched

-----------------------------------------------------------------------------
(* Type correctness. *)

LEMMA ReadWordValue ==
  ASSUME Laid, NEW a \in 0 .. Space - 1, a \notin Top, ReadWord(a)
  PROVE  value' = Signed(WordBytes(memory[GetSeg(a)].content, Offset(a)))
<1>1. PICK k : k = GetSeg(a) /\ k # 0
  BY DEF ReadWord, WordOk
<1> DEFINE c == memory[k].content
           o == Offset(a)
<1>2. /\ c \in [0 .. memory[k].size - 1 -> Byte] /\ o \in Int /\ o >= 0
      /\ o = a - memory[k].start /\ memory[k].start \in Int /\ memory[k].size \in Int
  BY <1>1, Inside
<1>3. a + 3 < memory[k].start + memory[k].size
  BY <1>1, WordOkInside DEF ReadWord
<1>4. o .. o + 3 \subseteq DOMAIN c
  <2>1. PICK m \in Int, n \in Int : m = o /\ n = memory[k].size
    BY <1>2
  <2>2. DOMAIN c = 0 .. n - 1
    BY <1>2, <2>1
  <2>3. m >= 0 /\ m + 3 < n
    BY <1>2, <1>3, <2>1
  <2>4. m .. m + 3 \subseteq 0 .. n - 1
    BY <2>1, <2>3
  <2> HIDE DEF c, o
  <2> QED
    BY <2>1, <2>2, <2>4
<1>5. PICK beyond : value' = Signed(WordBytes([x \in o .. o + 3 |->
                                       IF x \in DOMAIN c THEN c[x] ELSE beyond[x]], o))
  BY <1>1 DEF ReadWord
<1>6. [x \in o .. o + 3 |-> IF x \in DOMAIN c THEN c[x] ELSE beyond[x]]
      = [x \in o .. o + 3 |-> c[x]]
  BY <1>4
<1>7. PICK f : f = [x \in o .. o + 3 |-> c[x]]
  OBVIOUS
<1>8. f[o] = c[o] /\ f[o + 1] = c[o + 1] /\ f[o + 2] = c[o + 2] /\ f[o + 3] = c[o + 3]
  <2>1. PICK m \in Int : m = o
    BY <1>2
  <2>2. m \in m .. m + 3 /\ m + 1 \in m .. m + 3 /\ m + 2 \in m .. m + 3 /\ m + 3 \in m .. m + 3
    OBVIOUS
  <2>3. f = [x \in m .. m + 3 |-> c[x]]
    BY <1>7, <2>1
  <2> HIDE DEF c, o
  <2> QED
    BY <2>1, <2>2, <2>3
<1>9. WordBytes(f, o) = WordBytes(c, o)
  BY <1>8 DEF WordBytes
<1> QED
  BY <1>1, <1>5, <1>6, <1>7, <1>9

LEMMA SignedType == ASSUME NEW n \in Int PROVE Signed(n) \in Int
<1>1. WordRange \in Int /\ WordRange \div 2 \in Int
  BY Powers
<1> QED
  BY <1>1 DEF Signed

LEMMA WordType ==
  ASSUME NEW f, NEW o, f[o] \in Int, f[o + 1] \in Int, f[o + 2] \in Int, f[o + 3] \in Int
  PROVE  WordBytes(f, o) \in Int
<1>1. ByteRange \in Int
  BY Powers
<1>2. f[o] * ByteRange + f[o + 1] \in Int
  BY <1>1, Distributes
<1>3. (f[o] * ByteRange + f[o + 1]) * ByteRange + f[o + 2] \in Int
  BY <1>1, <1>2, Distributes
<1> QED
  BY <1>1, <1>3, Distributes DEF WordBytes

LEMMA ReadWordType ==
  ASSUME Laid, NEW a \in Int, ReadWord(a)
  PROVE  value' \in Int
<1>1. PICK k : k = GetSeg(a) /\ k # 0
  BY DEF ReadWord, WordOk
<1>2. PICK o \in Int : o = Offset(a)
  BY <1>1, Inside
<1>3. PICK c : c = memory[k].content /\ \A x \in DOMAIN c : c[x] \in Int
  BY <1>1, Inside, ByteZero
<1>4. PICK beyond \in [ (o .. o + 3) \ DOMAIN c -> Byte ] :
        value' = Signed(WordBytes([x \in o .. o + 3 |->
                                     IF x \in DOMAIN c THEN c[x] ELSE beyond[x]], o))
  BY <1>1, <1>2, <1>3 DEF ReadWord
<1>5. PICK f : f = [x \in o .. o + 3 |-> IF x \in DOMAIN c THEN c[x] ELSE beyond[x]]
  OBVIOUS
<1>6. \A x \in o .. o + 3 : f[x] \in Int
  BY <1>3, <1>4, <1>5, ByteZero
<1>7. WordBytes(f, o) \in Int
  BY <1>2, <1>6, WordType
<1> QED
  BY <1>4, <1>5, <1>7, SignedType

LEMMA AccessType == TypeOK /\ [Memory_Next]_mvars => TypeOK'
<1> SUFFICES ASSUME TypeOK, [Memory_Next]_mvars PROVE TypeOK'
  OBVIOUS
<1> Laid /\ value \in Int /\ code \in {0, -1}
  BY DEF TypeOK
<1>1. ASSUME memory' = memory PROVE Laid'
  BY <1>1 DEF Laid
<1>2. CASE UNCHANGED mvars
  BY <1>1, <1>2 DEF mvars, TypeOK
<1>3. ASSUME NEW a \in Addrs, Access(a) PROVE TypeOK'
  <2>1. a \in Int
    BY MemoryAssumption
  <2>2. CASE ReadByte(a)
    <3>1. memory[GetSeg(a)].content[Offset(a)] \in Int
      <4>1. PICK k : k = GetSeg(a) /\ k # 0
        BY <2>2 DEF ReadByte, ByteOk
      <4> QED
        BY <2>1, <4>1, Inside, ByteZero
    <3> QED
      BY <1>1, <2>2, <3>1 DEF ReadByte, TypeOK
  <2>3. CASE ReadWord(a)
    <3>1. value' \in Int
      BY <2>1, <2>3, ReadWordType
    <3> QED
      BY <1>1, <2>3, <3>1 DEF ReadWord, TypeOK
  <2>4. ASSUME NEW v \in Values, WriteByte(a, v) PROVE TypeOK'
    <3>1. v \in Int
      BY MemoryAssumption
    <3>2. Laid'
      BY <2>1, <2>4, <3>1, WriteBytePatches, PatchedTable
    <3> QED
      BY <2>4, <3>2 DEF WriteByte, TypeOK
  <2>5. ASSUME NEW v \in Values, WriteWord(a, v) PROVE TypeOK'
    <3>1. v \in Int
      BY MemoryAssumption
    <3>2. Laid'
      BY <2>1, <2>5, <3>1, WriteWordPatches, PatchedTable
    <3> QED
      BY <2>5, <3>2 DEF WriteWord, TypeOK
  <2>6. CASE Failed
    BY <1>1, <2>6 DEF Failed, TypeOK
  <2> QED
    BY <1>3, <2>2, <2>3, <2>4, <2>5, <2>6 DEF Access
<1> QED
  BY <1>2, <1>3 DEF Memory_Next

(* The segments of a load stay where they are and keep all their bytes, each  *)
(* in the width of a byte, whatever memWrite is asked to write and wherever   *)
(* (emul.c:359-389): a write past the end of a segment would break Laid.      *)
THEOREM MemoryTyped == Memory_Spec => []TypeOK
<1> QED
  BY InitTypeOK, AccessType, PTL DEF Memory_Spec

-----------------------------------------------------------------------------
(* The refinement: the byte at each mapped address. *)

Mapped == { b \in 0 .. Space - 1 : GetSeg(b) # 0 }
StoreOf == [a \in Mapped |-> memory[GetSeg(a)].content[Offset(a)]]
Regions == { { memory[i].start + o : o \in 0 .. memory[i].size - 1 } : i \in DOMAIN memory }

LEMMA SameMapping ==
  ASSUME Laid, Laid', SameTable
  PROVE  /\ Mapped' = Mapped /\ Regions' = Regions
         /\ \A b \in Mapped : GetSeg(b)' = GetSeg(b) /\ Offset(b)' = Offset(b)
<1>1. \A b \in Int : GetSeg(b)' = GetSeg(b)
  BY SameSegments
<1>2. Mapped' = Mapped
  BY <1>1 DEF Mapped
<1>3. Regions' = Regions
  BY DEF Regions, SameTable
<1>4. ASSUME NEW b \in Mapped PROVE Offset(b)' = Offset(b)
  <2>1. PICK k : k = GetSeg(b) /\ k # 0 /\ b \in Int
    BY <1>4 DEF Mapped
  <2>2. k \in DOMAIN memory
    BY <2>1, Inside
  <2>3. GetSeg(b)' = k
    BY <1>1, <2>1
  <2> QED
    BY <2>1, <2>2, <2>3 DEF Offset, SameTable
<1> QED
  BY <1>1, <1>2, <1>3, <1>4 DEF Mapped

(* A write changes the bytes of its segment and no other. *)
LEMMA PatchedStore ==
  ASSUME Laid, NEW k, NEW c, Patched(k, c)
  PROVE  /\ Regions' = Regions
         /\ StoreOf' = [b \in Mapped |-> IF GetSeg(b) = k THEN c[Offset(b)] ELSE StoreOf[b]]
<1>1. /\ Laid' /\ SameTable
      /\ \A i \in DOMAIN memory : memory'[i].content = IF i = k THEN c ELSE memory[i].content
  BY PatchedTable
<1>2. /\ Mapped' = Mapped /\ Regions' = Regions
      /\ \A b \in Mapped : GetSeg(b)' = GetSeg(b) /\ Offset(b)' = Offset(b)
  BY <1>1, SameMapping
<1>3. ASSUME NEW b \in Mapped
      PROVE  memory'[GetSeg(b)].content[Offset(b)]
             = IF GetSeg(b) = k THEN c[Offset(b)] ELSE StoreOf[b]
  <2>1. GetSeg(b) \in DOMAIN memory
    BY <1>3, Inside DEF Mapped
  <2> QED
    BY <1>1, <1>3, <2>1 DEF StoreOf
<1>4. StoreOf' = [b \in Mapped |-> memory'[GetSeg(b)].content[Offset(b)]]
  BY <1>2 DEF StoreOf
<1> QED
  BY <1>2, <1>3, <1>4

LEMMA WordIsWord ==
  ASSUME Laid, NEW a \in 0 .. Space - 1, a \notin Top
  PROVE  WordOk(a) <=> \E r \in Regions : a .. a + 3 \subseteq r
<1>1. ASSUME WordOk(a) PROVE \E r \in Regions : a .. a + 3 \subseteq r
  <2>1. PICK k : k = GetSeg(a) /\ k # 0
    BY <1>1 DEF WordOk
  <2>2. /\ k \in DOMAIN memory /\ memory[k].start \in Int /\ memory[k].size \in Int
        /\ memory[k].start <= a
    BY <2>1, Inside
  <2>3. a + 3 < memory[k].start + memory[k].size
    BY <1>1, <2>1, WordOkInside
  <2>4. \A x \in a .. a + 3 : x - memory[k].start \in 0 .. memory[k].size - 1
                              /\ x = memory[k].start + (x - memory[k].start)
    BY <2>2, <2>3
  <2>5. a .. a + 3 \subseteq { memory[k].start + o : o \in 0 .. memory[k].size - 1 }
    BY <2>4
  <2> QED
    BY <2>2, <2>5 DEF Regions
<1>2. ASSUME NEW i \in DOMAIN memory,
             a .. a + 3 \subseteq { memory[i].start + o : o \in 0 .. memory[i].size - 1 }
      PROVE  WordOk(a)
  <2>1. memory[i].start \in Int /\ memory[i].size \in Int
    BY DEF Laid, Segment
  <2>2. /\ a \in { memory[i].start + o : o \in 0 .. memory[i].size - 1 }
        /\ a + 3 \in { memory[i].start + o : o \in 0 .. memory[i].size - 1 }
    BY <1>2
  <2>3. memory[i].start <= a /\ a + 3 < memory[i].start + memory[i].size
    BY <2>1, <2>2
  <2>4. GetSeg(a) = i /\ i # 0
    BY <2>1, <2>3, GetSegFinds DEF Finds, Holds
  <2> QED
    BY <2>3, <2>4, WordOkInside
<1> QED
  BY <1>1, <1>2 DEF Regions

(* GetSeg on a table that is given. *)
SegOf(m, a) ==
  IF \E i \in DOMAIN m : Holds(m[i], a)
  THEN CHOOSE i \in DOMAIN m : Holds(m[i], a) /\ \A j \in 1 .. i - 1 : ~Holds(m[j], a)
  ELSE 0

LEMMA MemoryKept ==
  ASSUME memory' = memory
  PROVE  /\ Regions' = Regions /\ Mapped' = Mapped /\ StoreOf' = StoreOf
         /\ \A a : GetSeg(a)' = GetSeg(a) /\ Offset(a)' = Offset(a) /\ (WordOk(a)' <=> WordOk(a))
<1>1. Regions' = Regions
  BY DEF Regions
<1>2. ASSUME NEW a PROVE GetSeg(a)' = GetSeg(a)
  <2>1. GetSeg(a) = SegOf(memory, a)
    BY Zenon DEF GetSeg, SegOf
  <2>2. GetSeg(a)' = SegOf(memory', a)
    BY Zenon DEF GetSeg, SegOf, Holds
  <2> QED
    BY <2>1, <2>2
<1>3. \A a : Offset(a)' = Offset(a) /\ (WordOk(a)' <=> WordOk(a))
  BY <1>2 DEF Offset, WordOk
<1>4. Mapped' = Mapped
  BY <1>2 DEF Mapped
<1>5. StoreOf' = StoreOf
  BY <1>2, <1>3, <1>4 DEF StoreOf
<1> QED
  BY <1>1, <1>2, <1>3, <1>4, <1>5

LEMMA ByteIsMapped == ASSUME NEW a \in Addrs PROVE ByteOk(a) <=> a \in Mapped
  BY MemoryAssumption DEF ByteOk, Mapped

LEMMA ReadByteMaps ==
  ASSUME NEW a \in Addrs, ReadByte(a) \/ (~ByteOk(a) /\ Failed)
  PROVE  Store!ReadByte(a)
<1>1. Regions' = Regions /\ StoreOf' = StoreOf
  BY MemoryKept DEF ReadByte, Failed
<1>2. ReadByte(a) => a \in Mapped /\ value' = StoreOf[a] /\ code' = 0
  BY ByteIsMapped DEF ReadByte, StoreOf
<1>3. ~ByteOk(a) /\ Failed => a \notin Mapped /\ value' = value /\ code' = -1
  BY ByteIsMapped DEF Failed
<1>4. DOMAIN StoreOf = Mapped
  BY DEF StoreOf
<1>5. /\ code' = IF a \in DOMAIN StoreOf THEN 0 ELSE -1
      /\ value' = IF a \in DOMAIN StoreOf THEN StoreOf[a] ELSE value
      /\ UNCHANGED <<Regions, StoreOf>>
  BY <1>1, <1>2, <1>3, <1>4
<1> QED
  BY <1>5 DEF Regions, StoreOf, Mapped, Store!ReadByte, Store!Read, Store!IsByte

LEMMA OffsetsApart ==
  ASSUME Laid, NEW a \in Mapped, NEW b \in Mapped, GetSeg(b) = GetSeg(a)
  PROVE  /\ Offset(b) - Offset(a) = b - a /\ Offset(a) \in Int /\ Offset(b) \in Int
         /\ a \in Int /\ b \in Int
<1>1. a \in Int /\ b \in Int /\ GetSeg(a) # 0
  BY DEF Mapped
<1>2. PICK k : k = GetSeg(a) /\ k # 0
  BY <1>1
<1>3. /\ memory[k].start \in Int /\ Offset(a) = a - memory[k].start
      /\ Offset(b) = b - memory[k].start
  BY <1>1, <1>2, Inside
<1> QED
  BY <1>1, <1>3

(* A byte written is the only one that changes. *)
LEMMA ByteStored ==
  ASSUME Laid, NEW a \in 0 .. Space - 1, NEW v \in Int, WriteByte(a, v)
  PROVE  /\ Regions' = Regions /\ a \in Mapped
         /\ StoreOf' = [b \in Mapped |-> IF b \in {a} THEN v % ByteRange ELSE StoreOf[b]]
<1>1. PICK k : k = GetSeg(a) /\ k # 0
  BY DEF WriteByte, ByteOk
<1>2. a \in Mapped /\ a \in Int
  BY <1>1 DEF Mapped
<1>3. PICK o \in Int : o = Offset(a)
  BY <1>2, OffsetsApart
<1>4. PICK c : c = memory[k].content /\ o \in DOMAIN c
  BY <1>1, <1>2, <1>3, Inside
<1>5. PICK byte : byte = v % ByteRange
  OBVIOUS
<1>6. Patched(k, [c EXCEPT ![o] = byte])
  BY <1>1, <1>2, <1>3, <1>4, <1>5, WriteBytePatches
<1>7. /\ Regions' = Regions
      /\ StoreOf' = [b \in Mapped |-> IF GetSeg(b) = k THEN [c EXCEPT ![o] = byte][Offset(b)]
                                      ELSE StoreOf[b]]
  BY <1>6, PatchedStore
<1>8. ASSUME NEW b \in Mapped
      PROVE  (IF GetSeg(b) = k THEN [c EXCEPT ![o] = byte][Offset(b)] ELSE StoreOf[b])
             = IF b \in {a} THEN byte ELSE StoreOf[b]
  <2>1. CASE GetSeg(b) = k
    <3>1. Offset(b) - o = b - a /\ Offset(b) \in Int /\ b \in Int
      BY <1>1, <1>2, <1>3, <2>1, OffsetsApart
    <3>2. Offset(b) = o <=> b = a
      BY <1>2, <3>1
    <3>3. StoreOf[b] = c[Offset(b)]
      BY <1>4, <2>1 DEF StoreOf
    <3>4. Offset(b) \in DOMAIN c
      BY <1>1, <1>4, <2>1, <3>1, Inside
    <3> QED
      BY <1>4, <2>1, <3>2, <3>3, <3>4
  <2>2. CASE GetSeg(b) # k
    BY <1>1, <2>2
  <2> QED
    BY <2>1, <2>2
<1> QED
  BY <1>2, <1>5, <1>7, <1>8

LEMMA WriteByteMaps ==
  ASSUME Laid, NEW a \in Addrs, NEW v \in Values,
         WriteByte(a, v) \/ (~ByteOk(a) /\ Failed)
  PROVE  Store!WriteByte(a, v)
<1> DEFINE bytes == [x \in {a} |-> v % ByteRange]
<1>1. v \in Int /\ a \in 0 .. Space - 1
  BY MemoryAssumption
<1>2. DOMAIN StoreOf = Mapped
  BY DEF StoreOf
<1>3. CASE WriteByte(a, v)
  <2>1. /\ Regions' = Regions /\ a \in Mapped
        /\ StoreOf' = [b \in Mapped |-> IF b \in {a} THEN v % ByteRange ELSE StoreOf[b]]
    BY <1>1, <1>3, ByteStored
  <2>2. [b \in Mapped |-> IF b \in {a} THEN v % ByteRange ELSE StoreOf[b]]
        = [b \in Mapped |-> IF b \in DOMAIN bytes THEN bytes[b] ELSE StoreOf[b]]
    OBVIOUS
  <2>3. code' = 0 /\ value' = value
    BY <1>3 DEF WriteByte
  <2> HIDE DEF bytes
  <2>4. /\ code' = IF a \in DOMAIN StoreOf THEN 0 ELSE -1
        /\ StoreOf' = IF a \in DOMAIN StoreOf
                      THEN [b \in DOMAIN StoreOf |->
                              IF b \in DOMAIN bytes THEN bytes[b] ELSE StoreOf[b]]
                      ELSE StoreOf
        /\ UNCHANGED <<Regions, value>>
    BY <1>2, <2>1, <2>2, <2>3
  <2> QED
    BY <2>4 DEF bytes, Regions, StoreOf, Mapped, Store!WriteByte, Store!Write, Store!IsByte
<1>4. CASE ~ByteOk(a) /\ Failed
  <2>1. Regions' = Regions /\ StoreOf' = StoreOf /\ code' = -1 /\ value' = value
    BY <1>4, MemoryKept DEF Failed
  <2>2. a \notin DOMAIN StoreOf
    BY <1>2, <1>4, ByteIsMapped
  <2> HIDE DEF bytes
  <2>3. /\ code' = IF a \in DOMAIN StoreOf THEN 0 ELSE -1
        /\ StoreOf' = IF a \in DOMAIN StoreOf
                      THEN [b \in DOMAIN StoreOf |->
                              IF b \in DOMAIN bytes THEN bytes[b] ELSE StoreOf[b]]
                      ELSE StoreOf
        /\ UNCHANGED <<Regions, value>>
    BY <2>1, <2>2
  <2> QED
    BY <2>3 DEF bytes, Regions, StoreOf, Mapped, Store!WriteByte, Store!Write, Store!IsByte
<1> QED
  BY <1>3, <1>4

(* The value of a word, most significant byte first. *)
LEMMA Weights ==
  /\ Store!Weight(0) = B3 /\ Store!Weight(1) = B2
  /\ Store!Weight(2) = ByteRange /\ Store!Weight(3) = 1
  BY DEF Store!Weight, B3, B2

LEMMA Weighed ==
  ASSUME NEW b0 \in Int, NEW b1 \in Int, NEW b2 \in Int, NEW b3 \in Int
  PROVE  ((b0 * ByteRange + b1) * ByteRange + b2) * ByteRange + b3
         = b0 * B3 + b1 * B2 + b2 * ByteRange + b3
<1>1. ByteRange \in Int /\ B2 \in Int /\ B3 \in Int
  BY Powers
<1>2. \A x, y, z \in Int : (x + y) * z = x * z + y * z /\ x * z \in Int
  OBVIOUS
<1>3. (b0 * ByteRange + b1) * ByteRange = b0 * B2 + b1 * ByteRange
  BY <1>1, <1>2, Distributes DEF B2
<1>4. ((b0 * ByteRange + b1) * ByteRange + b2) * ByteRange
      = (b0 * B2) * ByteRange + (b1 * ByteRange) * ByteRange + b2 * ByteRange
  BY <1>1, <1>2, <1>3
<1>5. (b0 * B2) * ByteRange = b0 * B3 /\ (b1 * ByteRange) * ByteRange = b1 * B2
  BY <1>1, Powers, Distributes DEF B2
<1> QED
  BY <1>4, <1>5

LEMMA WordOfStore ==
  ASSUME Laid, NEW a \in 0 .. Space - 1, a \notin Top, WordOk(a)
  PROVE  Signed(WordBytes(memory[GetSeg(a)].content, Offset(a))) = Store!WordAt(a)
<1>1. PICK k : k = GetSeg(a) /\ k # 0
  BY DEF WordOk
<1>2. PICK c : c = memory[k].content
  OBVIOUS
<1>3. PICK o \in Int : o = Offset(a)
  BY <1>1, Inside
<1>4. a \in a .. a + 3 /\ a + 1 \in a .. a + 3 /\ a + 2 \in a .. a + 3 /\ a + 3 \in a .. a + 3
  OBVIOUS
<1>5. a + 3 \in 0 .. Space - 1 /\ Space \in Int
  <2>1. /\ Space \in Int /\ memory[k].start \in Int /\ memory[k].size \in Int
        /\ memory[k].start + memory[k].size <= Space - 1
    BY <1>1, Inside, MemoryAssumption
  <2>2. a + 3 < memory[k].start + memory[k].size
    BY <1>1, WordOkInside
  <2> QED
    BY <2>1, <2>2
<1>6. ASSUME NEW b \in a .. a + 3 PROVE StoreOf[b] = c[o + (b - a)] /\ StoreOf[b] \in Int
  <2>1. b \in 0 .. Space - 1
    BY <1>5
  <2>2. GetSeg(b) = k /\ Offset(b) = o + (b - a)
    BY <1>1, <1>3, WordSegment
  <2>3. StoreOf[b] = c[Offset(b)]
    BY <1>1, <1>2, <2>1, <2>2 DEF StoreOf, Mapped
  <2>4. c[Offset(b)] \in Int
    <3>1. b \in Int /\ k = GetSeg(b)
      BY <1>5, <2>1, <2>2
    <3>2. Offset(b) \in DOMAIN c /\ c \in [DOMAIN c -> Byte]
      BY <1>1, <1>2, <3>1, Inside
    <3> QED
      BY <3>2, ByteZero
  <2> QED
    BY <2>2, <2>3, <2>4
<1>7. /\ StoreOf[a] = c[o] /\ StoreOf[a + 1] = c[o + 1]
      /\ StoreOf[a + 2] = c[o + 2] /\ StoreOf[a + 3] = c[o + 3]
  <2>1. a - a = 0 /\ (a + 1) - a = 1 /\ (a + 2) - a = 2 /\ (a + 3) - a = 3 /\ o + 0 = o
    OBVIOUS
  <2> QED
    BY <1>4, <1>6, <2>1
<1>8. c[o] \in Int /\ c[o + 1] \in Int /\ c[o + 2] \in Int /\ c[o + 3] \in Int
  BY <1>4, <1>6, <1>7
<1>9. WordBytes(c, o) = c[o] * B3 + c[o + 1] * B2 + c[o + 2] * ByteRange + c[o + 3]
  BY <1>8, Weighed DEF WordBytes
<1>10. WordBytes(c, o) = StoreOf[a] * Store!Weight(0) + StoreOf[a + 1] * Store!Weight(1)
                         + StoreOf[a + 2] * Store!Weight(2) + StoreOf[a + 3]
  BY <1>7, <1>9, Weights
<1>11. Signed(WordBytes(c, o))
       = Store!Signed(StoreOf[a] * Store!Weight(0) + StoreOf[a + 1] * Store!Weight(1)
                      + StoreOf[a + 2] * Store!Weight(2) + StoreOf[a + 3])
  BY <1>10 DEF Signed, WordRange, Store!Signed, Store!WordRange
<1> QED
  BY <1>1, <1>2, <1>3, <1>11 DEF Store!WordAt, StoreOf, Mapped

LEMMA ReadWordMaps ==
  ASSUME Laid, NEW a \in Addrs, a \notin Top, ReadWord(a) \/ (~WordOk(a) /\ Failed)
  PROVE  Store!ReadWord(a)
<1>1. a \in 0 .. Space - 1
  BY MemoryAssumption
<1>2. Regions' = Regions /\ StoreOf' = StoreOf
  BY MemoryKept DEF ReadWord, Failed
<1>3. ReadWord(a) => WordOk(a) /\ value' = Store!WordAt(a) /\ code' = 0
  <2>1. ReadWord(a) => WordOk(a) /\ code' = 0
    BY DEF ReadWord
  <2> QED
    BY <1>1, <2>1, ReadWordValue, WordOfStore
<1>4. ~WordOk(a) /\ Failed => value' = value /\ code' = -1
  BY DEF Failed
<1>5. WordOk(a) <=> \E r \in Regions : a .. a + 3 \subseteq r
  BY <1>1, WordIsWord
<1>6. WordOk(a) <=> Store!IsWord(a)
  BY <1>5 DEF Regions, Store!IsWord, Store!Span
<1>7. /\ code' = IF Store!IsWord(a) THEN 0 ELSE -1
      /\ value' = IF Store!IsWord(a) THEN Store!WordAt(a) ELSE value
      /\ UNCHANGED <<Regions, StoreOf>>
  BY <1>2, <1>3, <1>4, <1>6
<1> QED
  BY <1>7 DEF Regions, StoreOf, Mapped, Store!ReadWord, Store!Read

(* The bytes of a word written are the only ones that change. *)
LEMMA WordStored ==
  ASSUME Laid, NEW a \in 0 .. Space - 1, a \notin Top, NEW v \in Int, WriteWord(a, v)
  PROVE  /\ Regions' = Regions
         /\ StoreOf' = [b \in Mapped |-> IF b \in a .. a + 3
                                         THEN (v \div Store!Weight(b - a)) % ByteRange
                                         ELSE StoreOf[b]]
<1>1. PICK k : k = GetSeg(a) /\ k # 0
  BY DEF WriteWord, WordOk
<1>2. a \in Mapped
  BY <1>1 DEF Mapped
<1>3. PICK o \in Int : o = Offset(a)
  BY <1>1, Inside
<1>4. PICK c : c = memory[k].content
  OBVIOUS
<1>5. Patched(k, WordWritten(c, o, v))
  BY <1>1, <1>3, <1>4, WriteWordPatches
<1>6. /\ Regions' = Regions
      /\ StoreOf' = [b \in Mapped |-> IF GetSeg(b) = k THEN WordWritten(c, o, v)[Offset(b)]
                                      ELSE StoreOf[b]]
  BY <1>5, PatchedStore
<1>7. \A i \in 0 .. 3 : BytesOf(v)[i + 1] = (v \div Store!Weight(i)) % ByteRange
  <2>1. v \div 1 = v
    OBVIOUS
  <2>2. PICK d0, d1, d2, d3 :
          /\ d0 = (v \div B3) % ByteRange /\ d1 = (v \div B2) % ByteRange
          /\ d2 = (v \div ByteRange) % ByteRange /\ d3 = v % ByteRange
    OBVIOUS
  <2>3. BytesOf(v) = <<d0, d1, d2, d3>>
    BY <2>2, BytesOfDigits
  <2>4. /\ (v \div Store!Weight(0)) % ByteRange = d0 /\ (v \div Store!Weight(1)) % ByteRange = d1
        /\ (v \div Store!Weight(2)) % ByteRange = d2 /\ (v \div Store!Weight(3)) % ByteRange = d3
    BY <2>1, <2>2, Weights
  <2>5. \A i \in 0 .. 3 : i = 0 \/ i = 1 \/ i = 2 \/ i = 3
    OBVIOUS
  <2>6. BytesOf(v)[1] = d0 /\ BytesOf(v)[2] = d1 /\ BytesOf(v)[3] = d2 /\ BytesOf(v)[4] = d3
    BY <2>3
  <2> QED
    BY <2>4, <2>5, <2>6
<1>8. ASSUME NEW b \in Mapped
      PROVE  (IF GetSeg(b) = k THEN WordWritten(c, o, v)[Offset(b)] ELSE StoreOf[b])
             = IF b \in a .. a + 3 THEN (v \div Store!Weight(b - a)) % ByteRange
               ELSE StoreOf[b]
  <2>1. CASE GetSeg(b) = k
    <3>1. Offset(b) - o = b - a /\ Offset(b) \in Int /\ b \in Int
      BY <1>1, <1>2, <1>3, <2>1, OffsetsApart
    <3>2. Offset(b) \in o .. o + 3 <=> b \in a .. a + 3
      BY <3>1
    <3>3. Offset(b) \in DOMAIN c /\ StoreOf[b] = c[Offset(b)]
      BY <1>1, <1>4, <2>1, <3>1, Inside DEF StoreOf
    <3>4. WordWritten(c, o, v)[Offset(b)]
          = IF Offset(b) \in o .. o + 3 THEN BytesOf(v)[Offset(b) - o + 1] ELSE c[Offset(b)]
      BY <3>3 DEF WordWritten
    <3>5. b \in a .. a + 3 => b - a \in 0 .. 3
      BY <3>1
    <3> QED
      BY <1>7, <2>1, <3>1, <3>2, <3>3, <3>4, <3>5
  <2>2. CASE GetSeg(b) # k
    <3>1. b \notin a .. a + 3
      BY <1>1, <2>2, WordSegment DEF WriteWord
    <3> QED
      BY <2>2, <3>1
  <2> QED
    BY <2>1, <2>2
<1> QED
  BY <1>6, <1>8

LEMMA WriteWordMaps ==
  ASSUME Laid, NEW a \in Addrs, a \notin Top, NEW v \in Values,
         WriteWord(a, v) \/ (~WordOk(a) /\ Failed)
  PROVE  Store!WriteWord(a, v)
<1>1. a \in 0 .. Space - 1 /\ v \in Int
  BY MemoryAssumption
<1> DEFINE bytes == [x \in a .. a + 3 |-> (v \div Store!Weight(x - a)) % ByteRange]
<1>2. DOMAIN StoreOf = Mapped
  BY DEF StoreOf
<1>3. WordOk(a) <=> \E r \in Regions : a .. a + 3 \subseteq r
  BY <1>1, WordIsWord
<1>4. WordOk(a) <=> Store!IsWord(a)
  BY <1>3 DEF Regions, Store!IsWord, Store!Span
<1>5. CASE WriteWord(a, v)
  <2>1. /\ Regions' = Regions
        /\ StoreOf' = [b \in Mapped |-> IF b \in a .. a + 3
                                        THEN (v \div Store!Weight(b - a)) % ByteRange
                                        ELSE StoreOf[b]]
    BY <1>1, <1>5, WordStored
  <2>2. DOMAIN bytes = a .. a + 3
        /\ \A b \in a .. a + 3 : bytes[b] = (v \div Store!Weight(b - a)) % ByteRange
    OBVIOUS
  <2> HIDE DEF bytes
  <2>3. StoreOf' = [b \in Mapped |-> IF b \in DOMAIN bytes THEN bytes[b] ELSE StoreOf[b]]
    BY <2>1, <2>2
  <2>4. WordOk(a) /\ code' = 0 /\ value' = value
    BY <1>5 DEF WriteWord
  <2>5. /\ code' = IF Store!IsWord(a) THEN 0 ELSE -1
        /\ StoreOf' = IF Store!IsWord(a)
                      THEN [b \in DOMAIN StoreOf |->
                              IF b \in DOMAIN bytes THEN bytes[b] ELSE StoreOf[b]]
                      ELSE StoreOf
        /\ UNCHANGED <<Regions, value>>
    BY <1>2, <1>4, <2>1, <2>3, <2>4
  <2> QED
    BY <2>5 DEF bytes, Regions, StoreOf, Mapped, Store!WriteWord, Store!Write, Store!Span
<1>6. CASE ~WordOk(a) /\ Failed
  <2>1. Regions' = Regions /\ StoreOf' = StoreOf /\ code' = -1 /\ value' = value
    BY <1>6, MemoryKept DEF Failed
  <2> HIDE DEF bytes
  <2>2. /\ code' = IF Store!IsWord(a) THEN 0 ELSE -1
        /\ StoreOf' = IF Store!IsWord(a)
                      THEN [b \in DOMAIN StoreOf |->
                              IF b \in DOMAIN bytes THEN bytes[b] ELSE StoreOf[b]]
                      ELSE StoreOf
        /\ UNCHANGED <<Regions, value>>
    BY <1>4, <1>6, <2>1
  <2> QED
    BY <2>2 DEF bytes, Regions, StoreOf, Mapped, Store!WriteWord, Store!Write, Store!Span
<1> QED
  BY <1>5, <1>6

LEMMA StartsAsStore == Memory_Init => Store!Init
<1> SUFFICES ASSUME Memory_Init PROVE Store!Init
  OBVIOUS
<1>1. Laid
  BY InitTypeOK DEF TypeOK
<1>2. UNION Regions = Mapped
  <2>1. ASSUME NEW b \in Mapped PROVE b \in UNION Regions
    <3>1. PICK k : k = GetSeg(b) /\ k # 0 /\ b \in Int
      BY <2>1 DEF Mapped
    <3>2. /\ k \in DOMAIN memory /\ Offset(b) = b - memory[k].start /\ memory[k].start \in Int
          /\ Offset(b) \in 0 .. memory[k].size - 1
      BY <1>1, <3>1, Inside
    <3>3. b = memory[k].start + Offset(b)
      BY <3>1, <3>2
    <3>4. b \in { memory[k].start + o : o \in 0 .. memory[k].size - 1 }
      BY <3>2, <3>3
    <3> QED
      BY <3>2, <3>4 DEF Regions
  <2>2. ASSUME NEW i \in DOMAIN memory, NEW o \in 0 .. memory[i].size - 1
        PROVE  memory[i].start + o \in Mapped
    <3>1. /\ memory[i].start \in Int /\ memory[i].size \in Int /\ memory[i].start >= 0
          /\ memory[i].start + memory[i].size <= Space - 1
      <4>1. memory[i] \in Segment /\ memory[i].start + memory[i].size <= Space - 1
        BY <1>1 DEF Laid
      <4>2. Space \in Int
        BY MemoryAssumption
      <4> QED
        BY <4>1, <4>2 DEF Segment
    <3>2. PICK b \in Int : b = memory[i].start + o
      BY <3>1
    <3>3. Holds(memory[i], b) /\ b \in 0 .. Space - 1
      <4>1. Space \in Int
        BY MemoryAssumption
      <4> QED
        BY <3>1, <3>2, <4>1 DEF Holds
    <3>4. GetSeg(b) = i /\ i # 0
      BY <1>1, <3>3, GetSegFinds DEF Finds
    <3> QED
      BY <3>2, <3>3, <3>4 DEF Mapped
  <2> QED
    BY <2>1, <2>2 DEF Regions
<1>3. \A b \in Mapped : StoreOf[b] \in 0 .. ByteRange - 1
  <2>1. ASSUME NEW b \in Mapped PROVE StoreOf[b] \in Byte
    <3>1. PICK k : k = GetSeg(b) /\ k # 0 /\ b \in Int
      BY <2>1 DEF Mapped
    <3> QED
      BY <1>1, <3>1, Inside DEF StoreOf
  <2> QED
    BY <2>1 DEF Byte
<1>4. /\ UNION Regions = DOMAIN StoreOf
      /\ \A b \in DOMAIN StoreOf : StoreOf[b] \in 0 .. ByteRange - 1
      /\ value = 0 /\ code = 0
  BY <1>2, <1>3 DEF StoreOf, Memory_Init
<1> QED
  BY <1>4 DEF Regions, StoreOf, Mapped, Store!Init

LEMMA MapsToStore ==
  Addrs \cap Top = {} /\ TypeOK /\ [Memory_Next]_mvars => [Store!Next]_Store!bvars
<1> SUFFICES ASSUME Addrs \cap Top = {}, TypeOK, [Memory_Next]_mvars
             PROVE  [Store!Next]_Store!bvars
  OBVIOUS
<1>1. Laid
  BY DEF TypeOK
<1>2. CASE UNCHANGED mvars
  <2>1. Regions' = Regions /\ StoreOf' = StoreOf /\ value' = value /\ code' = code
    BY <1>2, MemoryKept DEF mvars
  <2> QED
    BY <2>1 DEF Regions, StoreOf, Mapped, Store!bvars
<1>3. ASSUME NEW a \in Addrs, Access(a) PROVE Store!Next
  <2>1. a \notin Top
    OBVIOUS
  <2>2. CASE ReadByte(a) \/ (~ByteOk(a) /\ Failed)
    BY <2>2, ReadByteMaps DEF Store!Next
  <2>3. CASE ReadWord(a) \/ (~WordOk(a) /\ Failed)
    BY <1>1, <2>1, <2>3, ReadWordMaps DEF Store!Next
  <2>4. ASSUME NEW v \in Values, WriteByte(a, v) PROVE Store!Next
    BY <1>1, <2>4, WriteByteMaps DEF Store!Next
  <2>5. ASSUME NEW v \in Values, WriteWord(a, v) PROVE Store!Next
    BY <1>1, <2>1, <2>5, WriteWordMaps DEF Store!Next
  <2> QED
    BY <1>3, <2>2, <2>3, <2>4, <2>5 DEF Access
<1> QED
  BY <1>2, <1>3 DEF Memory_Next

(* The segments behave as one store of bytes (ByteStore): what memRead gives  *)
(* is what memWrite last put at each address, most significant byte first; no *)
(* other byte moves; an access no segment holds whole fails and changes       *)
(* nothing (emul.c:323-389).  So for every table Loader makes, every width of *)
(* a byte and every value.  The addresses whose word wraps round the top of   *)
(* memory are left out: there the test of emul.c:341 lets the word through.   *)
THEOREM StoreImplemented ==
  ASSUME Addrs \cap Top = {}
  PROVE  Memory_Spec => ImplementsStore
<1>1. TypeOK /\ [Memory_Next]_mvars => [Store!Next]_Store!bvars
  BY MapsToStore
<1> QED
  BY <1>1, MemoryTyped, StartsAsStore, PTL DEF Memory_Spec, ImplementsStore, Store!Spec

-----------------------------------------------------------------------------
(***************************************************************************)
(* Proofs about the commands and the loop of main, for every script, every  *)
(* line the user types and every memory.                                    *)
(***************************************************************************)

-----------------------------------------------------------------------------
(* What a script's user is told. *)

(* A refused line ends the program before anything else is read. *)
RefusedNow == scriptmode = 1 /\ res \notin {0, 2}

Told ==
  /\ failed => phase \in {"exit 1", "crash"} \/ (phase = "after" /\ RefusedNow)
  /\ phase = "exit 1" => failed
  /\ phase = "after" /\ RefusedNow => failed

LEMMA ToldStep == Told /\ [Shell_Next]_svars => Told'
<1> SUFFICES ASSUME Told, [Shell_Next]_svars PROVE Told'
  OBVIOUS
<1>1. CASE UNCHANGED svars
  BY <1>1 DEF Told, RefusedNow, svars, cvars, loop
<1>2. CASE GetFromScript
  BY <1>2 DEF GetFromScript, Taken, Told, RefusedNow, cvars
<1>3. CASE EndOfScript
  BY <1>3 DEF EndOfScript, Told, RefusedNow
<1>4. CASE GetFromUser
  BY <1>4 DEF GetFromUser, Taken, Told, RefusedNow, cvars
<1>5. CASE DecryptInput
  BY <1>5 DEF DecryptInput, Told, RefusedNow
<1>6. CASE After
  <2>1. phase = "after" /\ phase' = Outcome /\ failed' = failed
    BY <1>6 DEF After
  <2>2. RefusedNow => Outcome \in {"exit 1", "crash"}
    BY DEF RefusedNow, Outcome
  <2>3. ~RefusedNow => Outcome \in {"exit 0", "crash", "read"}
    BY DEF RefusedNow, Outcome
  <2>4. failed <=> RefusedNow
    BY <2>1 DEF Told
  <2> QED
    BY <2>1, <2>2, <2>3, <2>4 DEF Told
<1> QED
  BY <1>1, <1>2, <1>3, <1>4, <1>5, <1>6 DEF Shell_Next, Step

(* The exit status is 1 exactly when a line of the script was refused, for    *)
(* every script and whatever is typed between debug and resume                *)
(* (main.c:117-132): the test of the result comes before the one of the end   *)
(* of the file, and nothing is read in between.                               *)
THEOREM StatusRight == Shell_Spec => []StatusTells
<1>1. Shell_Init => Told
  BY DEF Shell_Init, Told
<1>2. Told => StatusTells
  BY DEF Told, StatusTells
<1> QED
  BY <1>1, <1>2, ToldStep, PTL DEF Shell_Spec

-----------------------------------------------------------------------------
(* What a refused command leaves. *)

LEMMA DecryptKeeps ==
  ASSUME NEW w, Decrypt(w), res' \notin {0, 2}
  PROVE  UNCHANGED machine
<1> USE DEF machine, Settings, NoCall, mvars, Returns
<1>1. CASE SetReg(w)
  BY <1>1 DEF SetReg
<1>2. CASE SetMem(w)
  <2>1. code' # 0
    BY <1>2 DEF SetMem
  <2>2. Failed
    BY <1>2, <2>1 DEF SetMem, SetByte, SetWord, WriteByte, WriteWord
  <2> QED
    BY <1>2, <2>2 DEF SetMem, Failed
<1>3. CASE AssertReg(w)
  BY <1>3 DEF AssertReg
<1>4. CASE AssertWord(w)
  BY <1>4 DEF AssertWord, ReadWord, Failed
<1>5. CASE AssertByte(w)
  BY <1>5 DEF AssertByte, ReadByte, Failed
<1>6. CASE DispPlage(w)
  BY <1>6 DEF DispPlage, Displays
<1>7. CASE DispTable(w)
  BY <1>7 DEF DispTable, Displays
<1>8. CASE DispReg(w)
  BY <1>8 DEF DispReg, Displays
<1>9. CASE DispTime(w)
  BY <1>9 DEF DispTime, Displays
<1>10. CASE DisasmPlage(w)
  BY <1>10 DEF DisasmPlage, Displays
<1>11. CASE Clock(w) \/ Verb(w) \/ Debug(w) \/ Resume(w)
  BY <1>11 DEF Clock, Verb, Debug, Resume
<1>12. CASE Help(w) \/ Exit(w)
  BY <1>12 DEF Help, Exit, Displays
<1>13. CASE Unknown(w) \/ Refused(w)
  BY <1>13 DEF Unknown, Refused, Refusal
<1> QED
  BY <1>1, <1>2, <1>3, <1>4, <1>5, <1>6, <1>7, <1>8, <1>9, <1>10, <1>11, <1>12, <1>13 DEF Decrypt

(* The loop goes on in a script only when the last line was accepted, so the  *)
(* change of mode at its end is not charged to a refused line.                *)
GoesOn == phase \in {"read", "decrypt"} /\ scriptmode = 1 => res = 0

LEMMA GoesOnStep == GoesOn /\ [Shell_Next]_svars => GoesOn'
<1> SUFFICES ASSUME GoesOn, [Shell_Next]_svars PROVE GoesOn'
  OBVIOUS
<1>1. CASE UNCHANGED svars
  BY <1>1 DEF GoesOn, svars, cvars, loop
<1>2. CASE GetFromScript
  BY <1>2 DEF GetFromScript, Taken, GoesOn, cvars
<1>3. CASE EndOfScript
  BY <1>3 DEF EndOfScript, GoesOn
<1>4. CASE GetFromUser
  BY <1>4 DEF GetFromUser, Taken, GoesOn, cvars
<1>5. CASE DecryptInput
  BY <1>5 DEF DecryptInput, GoesOn
<1>6. CASE After
  BY <1>6 DEF After, Outcome, GoesOn, cvars
<1> QED
  BY <1>1, <1>2, <1>3, <1>4, <1>5, <1>6 DEF Shell_Next, Step

LEMMA ShellKeeps ==
  GoesOn /\ [Shell_Next]_svars => [res' \notin {0, 2} => UNCHANGED machine]_cvars
<1> SUFFICES ASSUME GoesOn, [Shell_Next]_svars, res' \notin {0, 2}
             PROVE  UNCHANGED machine \/ UNCHANGED cvars
  OBVIOUS
<1>1. CASE UNCHANGED svars
  BY <1>1 DEF svars
<1>2. CASE GetFromScript \/ GetFromUser \/ After
  BY <1>2 DEF GetFromScript, GetFromUser, After
<1>3. CASE EndOfScript
  BY <1>3 DEF EndOfScript, GoesOn
<1>4. CASE DecryptInput
  BY <1>4, DecryptKeeps DEF DecryptInput
<1> QED
  BY <1>1, <1>2, <1>3, <1>4 DEF Shell_Next, Step

(* A command that reports an error has changed neither registers, memory nor  *)
(* settings, whichever of its words is refused and in whichever order they    *)
(* are looked at (user_int.c:270): for a command on its own, and in the loop  *)
(* of main between any other lines.                                           *)
THEOREM RefusalsLeave == Commands_Spec \/ Shell_Spec => RefusalsKeep
<1>1. [Commands_Next]_cvars => [res' \notin {0, 2} => UNCHANGED machine]_cvars
  BY DecryptKeeps DEF Commands_Next
<1>2. Shell_Init => GoesOn
  BY DEF Shell_Init, GoesOn
<1>3. Commands_Spec => RefusalsKeep
  BY <1>1, PTL DEF Commands_Spec, RefusalsKeep
<1>4. Shell_Spec => RefusalsKeep
  BY <1>2, GoesOnStep, ShellKeeps, PTL DEF Shell_Spec, RefusalsKeep
<1> QED
  BY <1>3, <1>4

-----------------------------------------------------------------------------
(* What set was given, assert finds. *)

(* A line, other than one that sets a word so high that it wraps round the    *)
(* top of the addresses.                                                     *)
Fit(w) ==
  /\ w \in Seq(STRING)
  /\ SetMemOk(w) /\ w[3] = "word" => Uint32(w[4]) \notin Top

WordValue(a) == Signed(WordBytes(memory[GetSeg(a)].content, Offset(a)))

(* The register or the word holds what set was given, the byte what of it     *)
(* fits in a byte.                                                           *)
Kept(w) ==
  \/ SetRegOk(w) /\ reg[Reg(w[3])] = Int32(w[4])
  \/ /\ SetMemOk(w) /\ w[3] = "byte"
     /\ Uint32(w[4]) \in Mapped /\ StoreOf[Uint32(w[4])] = Int32(w[5]) % ByteRange
  \/ /\ SetMemOk(w) /\ w[3] = "word" /\ Uint32(w[4]) \notin Top
     /\ WordOk(Uint32(w[4])) /\ WordValue(Uint32(w[4])) = Int32(w[5])

Settled ==
  /\ Laid
  /\ DOMAIN reg = 0 .. 34
  /\ settled # <<>> => settled \in Seq(STRING) /\ Kept(settled)

LEMMA Numbers ==
  ASSUME NEW s, IsInt(s) \/ IsHexa(s)
  PROVE  /\ Int32(s) \in Int /\ Uint32(s) \in 0 .. Space - 1
         /\ Signed(Int32(s) % WordRange) = Int32(s)
<1>1. s \in DOMAIN Lex
  BY DEF IsInt, IsHexa, Kind
<1>2. PICK v \in Int : v = Lex[s].value
  BY <1>1, CommandsAssumption
<1>3. PICK n \in Int : n = v % WordRange
  BY Powers
<1>4. Int32(s) = Signed(n) /\ Signed(n) \in Int
  BY <1>2, <1>3, SignedType DEF Int32
<1>5. Uint32(s) \in 0 .. Space - 1
  BY <1>2, MemoryAssumption DEF Uint32, Address
<1>6. Signed(n) % WordRange = n
  <2>1. n % WordRange = n /\ WordRange \in Nat \ {0}
    BY <1>2, <1>3, Powers
  <2>2. n - WordRange * 1 = n - WordRange
    BY <2>1
  <2>3. (n - WordRange * 1) % WordRange = n % WordRange
    BY <2>1, ModShift
  <2> QED
    BY <2>1, <2>2, <2>3 DEF Signed
<1> QED
  BY <1>4, <1>5, <1>6

LEMMA RegisterNumber ==
  ASSUME NEW s PROVE Reg(s) \in Int /\ Reg(s) <= 34 /\ (Reg(s) >= 1 => Reg(s) >= 0)
<1>1. PICK n \in -1 .. 34 : n = Reg(s)
  BY CommandsAssumption DEF Reg
<1> QED
  BY <1>1

LEMMA MemoryStands ==
  ASSUME memory' = memory, reg' = reg, Settled, settled' = settled
  PROVE  Settled'
<1>1. Laid' /\ Mapped' = Mapped /\ StoreOf' = StoreOf
  <2>1. Laid'
    BY DEF Settled, Laid
  <2>2. Mapped' = Mapped /\ StoreOf' = StoreOf
    BY MemoryKept
  <2> QED
    BY <2>1, <2>2
<1>2. \A a : (WordOk(a)' <=> WordOk(a)) /\ WordValue(a)' = WordValue(a)
  BY MemoryKept DEF WordValue
<1>3. Kept(settled) => Kept(settled)'
  BY <1>1, <1>2 DEF Kept
<1> QED
  BY <1>1, <1>3 DEF Settled

LEMMA RegisterSet == ASSUME NEW w, Fit(w), Settled, SetReg(w) PROVE Settled'
<1>1. w \in Seq(STRING) /\ w # <<>>
  BY DEF Fit, SetReg, SetRegOk
<1>2. Laid'
  BY DEF SetReg, NoCall, mvars, Settled, Laid
<1>3. Reg(w[3]) \in 1 .. 34
  BY RegisterNumber DEF SetReg, SetRegOk
<1>4. DOMAIN reg' = 0 .. 34 /\ reg'[Reg(w[3])] = Int32(w[4])
  BY <1>3 DEF SetReg, Settled
<1>5. Kept(w)'
  BY <1>4 DEF Kept, SetReg
<1> QED
  BY <1>1, <1>2, <1>4, <1>5 DEF SetReg, Settled

LEMMA ByteSet ==
  ASSUME NEW w, Fit(w), Settled, SetMem(w), w[3] = "byte", code' = 0
  PROVE  Laid' /\ Kept(w)'
<1>1. PICK a \in 0 .. Space - 1 : a = Uint32(w[4])
  BY Numbers DEF SetMem, SetMemOk
<1>2. PICK v \in Int : v = Int32(w[5])
  BY Numbers DEF SetMem, SetMemOk
<1>3. WriteByte(a, v)
  BY <1>1, <1>2 DEF SetMem, SetByte, Failed
<1>4. Laid
  BY DEF Settled
<1>5. Laid'
  <2>1. a \in Int
    BY MemoryAssumption
  <2> QED
    BY <1>3, <1>4, <2>1, WriteBytePatches, PatchedTable
<1>6. /\ a \in Mapped
      /\ StoreOf' = [b \in Mapped |-> IF b \in {a} THEN v % ByteRange ELSE StoreOf[b]]
  BY <1>3, <1>4, ByteStored
<1>7. Mapped' = Mapped
  <2>1. DOMAIN StoreOf' = Mapped'
    BY DEF StoreOf
  <2> QED
    BY <1>6, <2>1
<1>8. StoreOf'[a] = v % ByteRange
  BY <1>6
<1> QED
  BY <1>1, <1>2, <1>5, <1>6, <1>7, <1>8 DEF Kept, SetMem

LEMMA WordSet ==
  ASSUME NEW w, Fit(w), Settled, SetMem(w), w[3] = "word", code' = 0
  PROVE  Laid' /\ Kept(w)'
<1>1. PICK a \in 0 .. Space - 1 : a = Uint32(w[4]) /\ a \notin Top
  BY Numbers DEF SetMem, SetMemOk, Fit
<1>2. PICK v \in Int : v = Int32(w[5]) /\ Signed(v % WordRange) = v
  BY Numbers DEF SetMem, SetMemOk
<1>3. WriteWord(a, v)
  BY <1>1, <1>2 DEF SetMem, SetWord, Failed
<1>4. Laid
  BY DEF Settled
<1>5. PICK k : k = GetSeg(a) /\ k # 0
  BY <1>3 DEF WriteWord, WordOk
<1>6. PICK o \in Int : o = Offset(a)
  BY <1>4, <1>5, Inside
<1>7. PICK c : c = memory[k].content
  OBVIOUS
<1>8. Patched(k, WordWritten(c, o, v))
  BY <1>3, <1>4, <1>5, <1>6, <1>7, WriteWordPatches
<1>9. Laid' /\ SameTable /\ k \in DOMAIN memory /\ memory'[k].content = WordWritten(c, o, v)
  BY <1>4, <1>8, PatchedTable DEF Patched
<1>10. GetSeg(a)' = k /\ Offset(a)' = o
  <2>1. GetSeg(a)' = k
    BY <1>4, <1>5, <1>9, SameSegments
  <2> QED
    BY <1>5, <1>6, <1>9, <2>1 DEF Offset, SameTable
<1>11. o .. o + 3 \subseteq DOMAIN c
  <2>1. /\ memory[k].start \in Int /\ memory[k].size \in Int /\ o = a - memory[k].start
        /\ o \in 0 .. memory[k].size - 1 /\ DOMAIN c = 0 .. memory[k].size - 1
    BY <1>4, <1>5, <1>6, <1>7, Inside
  <2>2. a + 3 < memory[k].start + memory[k].size
    BY <1>1, <1>3, <1>4, <1>5, WordOkInside DEF WriteWord
  <2> QED
    BY <2>1, <2>2
<1>12. WordBytes(WordWritten(c, o, v), o) = v % WordRange
  <2>1. ASSUME NEW i \in 0 .. 3 PROVE WordWritten(c, o, v)[o + i] = BytesOf(v)[i + 1]
    <3>1. o + i \in o .. o + 3 /\ (o + i) - o + 1 = i + 1
      OBVIOUS
    <3> QED
      BY <1>11, <3>1 DEF WordWritten
  <2> QED
    BY <2>1, BytesJoined
<1>13. WordValue(a)' = v
  BY <1>2, <1>9, <1>10, <1>12 DEF WordValue, Signed
<1>14. WordOk(a)'
  BY <1>3, <1>5, <1>9, <1>10 DEF WriteWord, WordOk, SameTable
<1> QED
  BY <1>1, <1>2, <1>9, <1>13, <1>14 DEF Kept, SetMem

LEMMA DecryptSettles == ASSUME NEW w, Fit(w), Settled, Decrypt(w) PROVE Settled'
<1> USE DEF Settings, NoCall, mvars
<1>1. CASE SetReg(w)
  BY <1>1, RegisterSet
<1>2. CASE SetMem(w)
  <2>1. CASE code' = 0
    <3>1. w[3] = "byte" \/ w[3] = "word"
      BY <1>2 DEF SetMem, SetMemOk
    <3>2. Laid' /\ Kept(w)'
      BY <1>2, <2>1, <3>1, ByteSet, WordSet
    <3>3. w \in Seq(STRING) /\ settled' = w /\ reg' = reg
      BY <1>2, <2>1 DEF SetMem, Fit
    <3> QED
      BY <3>2, <3>3 DEF Settled
  <2>2. CASE code' # 0
    <3>1. Failed
      BY <1>2, <2>2 DEF SetMem, SetByte, SetWord, WriteByte, WriteWord
    <3> QED
      BY <1>2, <2>2, <3>1, MemoryStands DEF SetMem, Failed
  <2> QED
    BY <2>1, <2>2
<1>3. CASE AssertReg(w)
  BY <1>3, MemoryStands DEF AssertReg
<1>4. CASE AssertWord(w)
  BY <1>4, MemoryStands DEF AssertWord, ReadWord, Failed
<1>5. CASE AssertByte(w)
  BY <1>5, MemoryStands DEF AssertByte, ReadByte, Failed
<1>6. CASE DispPlage(w) \/ DispTable(w) \/ DispReg(w) \/ DispTime(w)
  BY <1>6, MemoryStands DEF DispPlage, DispTable, DispReg, DispTime, Displays
<1>7. CASE DisasmPlage(w)
  BY <1>7, MemoryStands DEF DisasmPlage, Displays
<1>8. CASE Clock(w) \/ Verb(w) \/ Debug(w) \/ Resume(w)
  BY <1>8, MemoryStands DEF Clock, Verb, Debug, Resume
<1>9. CASE Help(w) \/ Exit(w)
  BY <1>9, MemoryStands DEF Help, Exit, Displays
<1>10. CASE Unknown(w) \/ Refused(w)
  BY <1>10, MemoryStands DEF Unknown, Refused, Refusal, machine
<1> QED
  BY <1>1, <1>2, <1>3, <1>4, <1>5, <1>6, <1>7, <1>8, <1>9, <1>10 DEF Decrypt

(* The line AsAssert makes of a set is the assert of the same kind. *)
LEMMA Prefixed ==
  ASSUME NEW S, NEW q \in Seq(S), Len(q) = 3, NEW e
  PROVE  LET l == <<e>> \o q IN
         l[1] = e /\ l[2] = q[1] /\ l[3] = q[2] /\ l[4] = q[3] /\ Len(l) = 4
<1> DEFINE T == S \cup {e}
<1>1. <<e>> \in Seq(T) /\ Len(<<e>>) = 1 /\ <<e>>[1] = e
  OBVIOUS
<1>2. PICK p \in Seq(T) : p = <<e>> /\ Len(p) = 1 /\ p[1] = e
  BY <1>1
<1>3. q \in Seq(T)
  OBVIOUS
<1> HIDE DEF T
<1>4. /\ Len(p \o q) = Len(p) + Len(q)
      /\ \A i \in 1 .. Len(p) + Len(q) : (p \o q)[i] = IF i <= Len(p) THEN p[i] ELSE q[i - Len(p)]
  BY <1>3, ConcatProperties
<1> QED
  BY <1>2, <1>4

LEMMA RegisterAssert ==
  ASSUME NEW w, w \in Seq(STRING), SetRegOk(w)
  PROVE  LET l == AsAssert(w) IN
         l[1] = "assert" /\ l[2] = "reg" /\ l[3] = w[3] /\ l[4] = w[4] /\ Len(l) = 4
<1>1. Len(w) = 4 /\ w[2] = "reg"
  BY DEF SetRegOk, Starts
<1>2. w # <<>>
  BY <1>1
<1>3. /\ Tail(w) \in Seq(STRING) /\ Len(Tail(w)) = 3
      /\ Tail(w)[1] = w[2] /\ Tail(w)[2] = w[3] /\ Tail(w)[3] = w[4]
  BY <1>1, <1>2, HeadTailProperties
<1>4. AsAssert(w) = <<"assert">> \o Tail(w)
  BY <1>1 DEF AsAssert
<1>5. \A q : q \in Seq(STRING) /\ Len(q) = 3 =>
             LET l == <<"assert">> \o q IN
             l[1] = "assert" /\ l[2] = q[1] /\ l[3] = q[2] /\ l[4] = q[3] /\ Len(l) = 4
  BY Prefixed
<1> QED
  BY <1>1, <1>3, <1>4, <1>5

LEMMA MemoryAssert ==
  ASSUME NEW w, w \in Seq(STRING), SetMemOk(w)
  PROVE  LET l == AsAssert(w) IN
         l[1] = "assert" /\ l[2] = w[3] /\ l[3] = w[4] /\ l[4] = w[5] /\ Len(l) = 4
<1>1. Len(w) = 5 /\ w[2] = "mem"
  BY DEF SetMemOk, Starts
<1>2. \A i \in 3 .. 5 : w[i] \in STRING
  <2>1. \A S, q : q \in Seq(S) => \A i \in DOMAIN q : q[i] \in S
    OBVIOUS
  <2>2. DOMAIN w = 1 .. 5
    BY <1>1
  <2> QED
    BY <2>1, <2>2
<1>3. /\ SubSeq(w, 3, 5) \in Seq(STRING)
      /\ Len(SubSeq(w, 3, 5)) = IF 3 <= 5 THEN 5 - 3 + 1 ELSE 0
      /\ \A i \in 1 .. 5 - 3 + 1 : SubSeq(w, 3, 5)[i] = w[3 + i - 1]
  BY <1>2, SubSeqProperties
<1>4. /\ Len(SubSeq(w, 3, 5)) = 3 /\ SubSeq(w, 3, 5)[1] = w[3]
      /\ SubSeq(w, 3, 5)[2] = w[4] /\ SubSeq(w, 3, 5)[3] = w[5]
  BY <1>3
<1>5. AsAssert(w) = <<"assert">> \o SubSeq(w, 3, 5)
  BY <1>1 DEF AsAssert
<1> QED
  BY <1>3, <1>4, <1>5, Prefixed

LEMMA OnlyAsserts ==
  ASSUME NEW w, w[1] = "assert", Decrypt(w),
         AssertRegOk(w) \/ AssertMemOk(w, "byte") \/ AssertMemOk(w, "word")
  PROVE  AssertReg(w) \/ AssertByte(w) \/ AssertWord(w)
  BY DEF Decrypt, SetReg, SetRegOk, SetMem, SetMemOk, DispPlage, DispTable, DispReg, DispTime,
         DisasmPlage, Clock, Verb, Setting, Debug, Resume, Help, Exit, Unknown, Refused,
         CommandNames, Starts

LEMMA SettledAsserts ==
  ASSUME Settled, settled # <<>>, Decrypt(AsAssert(settled))
  PROVE  res' = 0 <=> Confirmed(settled)
<1> DEFINE w == settled
           l == AsAssert(w)
<1>1. Laid /\ DOMAIN reg = 0 .. 34 /\ w \in Seq(STRING) /\ Kept(w)
  BY DEF Settled
<1>2. CASE SetRegOk(w) /\ reg[Reg(w[3])] = Int32(w[4])
  <2>1. PICK r, s : r = w[3] /\ s = w[4]
    OBVIOUS
  <2>3. l[1] = "assert" /\ l[2] = "reg" /\ l[3] = r /\ l[4] = s /\ Len(l) = 4
    BY <1>1, <1>2, <2>1, RegisterAssert
  <2> HIDE DEF l
  <2>4. AssertRegOk(l)
    <3>1. Reg(r) >= 0
      <4>1. Reg(r) >= 1
        BY <1>2, <2>1 DEF SetRegOk
      <4> QED
        BY <4>1, RegisterNumber
    <3>2. IsInt(s)
      BY <1>2, <2>1 DEF SetRegOk
    <3>3. Starts(l, "assert", "reg")
      BY <2>3 DEF Starts
    <3> QED
      BY <2>3, <3>1, <3>2, <3>3 DEF AssertRegOk
  <2>5. ~AssertMemOk(l, "byte") /\ ~AssertMemOk(l, "word")
    BY <2>3 DEF AssertMemOk, Starts
  <2>6. AssertReg(l)
    BY <2>3, <2>4, <2>5, OnlyAsserts DEF l, AssertByte, AssertWord
  <2>7. Confirmed(w)
    BY <1>2 DEF Confirmed, SetRegOk, Starts
  <2> QED
    BY <1>2, <2>1, <2>3, <2>6, <2>7 DEF AssertReg, Returns
<1>3. CASE /\ SetMemOk(w) /\ w[3] = "byte"
           /\ Uint32(w[4]) \in Mapped /\ StoreOf[Uint32(w[4])] = Int32(w[5]) % ByteRange
  <2>1. PICK r, s : r = w[4] /\ s = w[5]
    OBVIOUS
  <2>3. l[1] = "assert" /\ l[2] = "byte" /\ l[3] = r /\ l[4] = s /\ Len(l) = 4
    BY <1>1, <1>3, <2>1, MemoryAssert
  <2> HIDE DEF l
  <2>4. AssertMemOk(l, "byte")
    BY <1>3, <2>1, <2>3 DEF SetMemOk, AssertMemOk, Starts
  <2>5. ~AssertRegOk(l) /\ ~AssertMemOk(l, "word")
    BY <2>3 DEF AssertRegOk, AssertMemOk, Starts
  <2>6. AssertByte(l)
    BY <2>3, <2>4, <2>5, OnlyAsserts DEF l, AssertReg, AssertWord
  <2>7. ReadByte(Uint32(r))
    BY <1>3, <2>1, <2>3, <2>6 DEF AssertByte, ByteOk, Mapped
  <2>8. code' = 0 /\ value' = Int32(s) % ByteRange
    BY <1>3, <2>1, <2>7 DEF ReadByte, StoreOf
  <2>9. res' = 0 <=> value' = Int32(s)
    BY <2>3, <2>6, <2>8 DEF AssertByte, Compared, Returns
  <2>10. PICK v \in Int : v = Int32(s)
    BY <1>3, <2>1, Numbers DEF SetMemOk
  <2>11. v % ByteRange = v <=> v \in Byte
    BY <2>10, MemoryAssumption DEF Byte
  <2>12. Confirmed(w) <=> v \in Byte
    BY <1>3, <2>1, <2>10 DEF Confirmed, SetMemOk, Starts
  <2> QED
    BY <2>8, <2>9, <2>10, <2>11, <2>12
<1>4. CASE /\ SetMemOk(w) /\ w[3] = "word" /\ Uint32(w[4]) \notin Top
           /\ WordOk(Uint32(w[4])) /\ WordValue(Uint32(w[4])) = Int32(w[5])
  <2>1. PICK r, s : r = w[4] /\ s = w[5]
    OBVIOUS
  <2>3. l[1] = "assert" /\ l[2] = "word" /\ l[3] = r /\ l[4] = s /\ Len(l) = 4
    BY <1>1, <1>4, <2>1, MemoryAssert
  <2> HIDE DEF l
  <2>4. AssertMemOk(l, "word")
    BY <1>4, <2>1, <2>3 DEF SetMemOk, AssertMemOk, Starts
  <2>5. ~AssertRegOk(l) /\ ~AssertMemOk(l, "byte")
    BY <2>3 DEF AssertRegOk, AssertMemOk, Starts
  <2>6. AssertWord(l)
    BY <2>3, <2>4, <2>5, OnlyAsserts DEF l, AssertReg, AssertByte
  <2>7. ReadWord(Uint32(r))
    BY <1>4, <2>1, <2>3, <2>6 DEF AssertWord
  <2>8. Uint32(r) \in 0 .. Space - 1
    BY <1>4, <2>1, Numbers DEF SetMemOk
  <2>9. value' = WordValue(Uint32(r))
    BY <1>1, <1>4, <2>1, <2>7, <2>8, ReadWordValue DEF WordValue
  <2>10. code' = 0 /\ value' = Int32(s)
    BY <1>4, <2>1, <2>7, <2>9 DEF ReadWord
  <2>11. Confirmed(w)
    BY <1>4 DEF Confirmed
  <2> QED
    BY <2>3, <2>6, <2>10, <2>11 DEF AssertWord, Compared, Returns
<1> QED
  BY <1>1, <1>2, <1>3, <1>4 DEF Kept

(* Between a set that was accepted and the next one, whatever other lines     *)
(* come in between, an assert of the same register or address and the same    *)
(* value succeeds exactly when the value is one the place can hold: always    *)
(* for a register or a word, for a byte when it is not truncated              *)
(* (user_int.c:270, 413-518).  For every memory, register and value; Fit      *)
(* leaves out a word at the two addresses where it wraps round the top.       *)
THEOREM SetIsAsserted ==
  ASSUME \A w \in Lines : Fit(w)
  PROVE  Commands_Spec => SetThenAssert
<1>1. Commands_Init => Settled
  BY InitTypeOK DEF Commands_Init, Settled, TypeOK
<1>2. Settled /\ [Commands_Next]_cvars => Settled'
  <2> SUFFICES ASSUME Settled, [Commands_Next]_cvars PROVE Settled'
    OBVIOUS
  <2>1. CASE UNCHANGED cvars
    BY <2>1, MemoryStands DEF cvars, mvars
  <2>2. CASE Commands_Next
    BY <2>2, DecryptSettles DEF Commands_Next
  <2> QED
    BY <2>1, <2>2
<1>3. Settled => [settled # <<>> /\ Decrypt(AsAssert(settled)) => (res' = 0 <=> Confirmed(settled))]_cvars
  BY SettledAsserts
<1> QED
  BY <1>1, <1>2, <1>3, PTL DEF Commands_Spec, SetThenAssert

(* Main reads no script it has not been given, and decrypts a line it has read. *)
Reading ==
  /\ script \in Scripts \cup {NoScript}
  /\ script # NoScript => place \in 0 .. Len(script.text)
  /\ phase = "read" /\ scriptmode = 1 => script # NoScript
  /\ phase = "decrypt" => Fit(input)

FitLines ==
  /\ \A s \in Scripts : \A k \in DOMAIN s.text : Fit(s.text[k])
  /\ \A l \in Typed : Fit(l)

LEMMA ReadingStep == FitLines /\ Reading /\ [Shell_Next]_svars => Reading'
<1> SUFFICES ASSUME FitLines, Reading, [Shell_Next]_svars PROVE Reading'
  OBVIOUS
<1>1. CASE UNCHANGED svars
  BY <1>1 DEF Reading, svars, cvars, loop
<1>2. CASE GetFromScript
  <2>1. script \in Scripts
    BY <1>2 DEF GetFromScript, Reading
  <2>2. PICK n \in Nat : Len(script.text) = n /\ DOMAIN script.text = 1 .. n
    BY <2>1, ShellAssumption
  <2>3. place \in 0 .. n /\ place # n
    BY <1>2, <2>1, <2>2, ShellAssumption DEF GetFromScript, Lasts, Reading
  <2>4. place' = place + 1 /\ place' \in 1 .. n
    BY <1>2, <2>3 DEF GetFromScript
  <2>5. Fit(script.text[place'])
    BY <2>1, <2>2, <2>4 DEF FitLines
  <2>6. script' = script /\ scriptmode' = scriptmode /\ input' = script.text[place']
    BY <1>2 DEF GetFromScript, Taken, cvars
  <2>7. phase' = "read" \/ phase' = "decrypt"
    BY <1>2 DEF GetFromScript, Taken
  <2> QED
    BY <2>1, <2>2, <2>4, <2>5, <2>6, <2>7, ShellAssumption DEF Reading
<1>3. CASE EndOfScript
  BY <1>3 DEF EndOfScript, Reading
<1>4. CASE GetFromUser
  <2>1. Fit(input')
    BY <1>4 DEF GetFromUser, Taken, FitLines
  <2> QED
    BY <1>4, <2>1 DEF GetFromUser, cvars, Reading
<1>5. CASE DecryptInput
  BY <1>5 DEF DecryptInput, Reading
<1>6. CASE After
  BY <1>6 DEF After, Outcome, cvars, Reading
<1> QED
  BY <1>1, <1>2, <1>3, <1>4, <1>5, <1>6 DEF Shell_Next, Step

LEMMA ShellSettles == Reading /\ Settled /\ [Shell_Next]_svars => Settled'
<1> SUFFICES ASSUME Reading, Settled, [Shell_Next]_svars PROVE Settled'
  OBVIOUS
<1>1. CASE UNCHANGED svars
  BY <1>1, MemoryStands DEF svars, cvars, mvars
<1>2. CASE GetFromScript \/ GetFromUser \/ After
  BY <1>2, MemoryStands DEF GetFromScript, GetFromUser, After, cvars, mvars
<1>3. CASE EndOfScript
  BY <1>3, MemoryStands DEF EndOfScript, mvars
<1>4. CASE DecryptInput
  <2>1. Fit(input) /\ Decrypt(input)
    BY <1>4 DEF DecryptInput, Reading
  <2> QED
    BY <2>1, DecryptSettles
<1> QED
  BY <1>1, <1>2, <1>3, <1>4 DEF Shell_Next, Step

(* The same in the loop of main, for the lines of a script and of the user:   *)
(* neither debug, resume nor the end of the script undoes what was set.       *)
THEOREM SetIsAssertedInLoop == ASSUME FitLines PROVE Shell_Spec => SetThenAssert
<1>1. Shell_Init => Settled /\ Reading
  <2> SUFFICES ASSUME Shell_Init PROVE Settled /\ Reading
    OBVIOUS
  <2>1. Settled
    BY InitTypeOK DEF Shell_Init, Settled, TypeOK
  <2>2. Reading
    <3>1. script # NoScript => 0 \in 0 .. Len(script.text)
      <4>1. script \in Scripts => script.text \in Seq(Seq(STRING))
        BY ShellAssumption
      <4>2. \A S, q : q \in Seq(S) => 0 \in 0 .. Len(q)
        OBVIOUS
      <4> QED
        BY <4>1, <4>2 DEF Shell_Init
    <3> QED
      BY <3>1 DEF Shell_Init, Reading
  <2> QED
    BY <2>1, <2>2
<1>2. Reading /\ [Shell_Next]_svars => Reading'
  BY ReadingStep
<1>3. Settled => [settled # <<>> /\ Decrypt(AsAssert(settled)) => (res' = 0 <=> Confirmed(settled))]_cvars
  BY SettledAsserts
<1> QED
  BY <1>1, <1>2, <1>3, ShellSettles, PTL DEF Shell_Spec, SetThenAssert
=============================================================================
