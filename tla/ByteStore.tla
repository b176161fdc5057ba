----------------------------- MODULE ByteStore ------------------------------
(***************************************************************************)
(* What the emulated memory promises: bytes at the addresses of the mapped  *)
(* regions, words of four bytes inside one region, most significant first.  *)
(***************************************************************************)
EXTENDS Integers

CONSTANTS
  ByteRange,    (* values of a byte: 0 .. ByteRange - 1                     *)
  Values,       (* the values written                                       *)
  Addrs         (* the addresses used                                       *)

VARIABLES
  regions,      (* the mapped regions, sets of addresses                    *)
  store,        (* the byte at each mapped address                          *)
  value,        (* the variable that reads store into                       *)
  code          (* 0, or -1 when the address is not mapped                  *)

bvars == <<regions, store, value, code>>

WordRange == ByteRange * ByteRange * ByteRange * ByteRange
Signed(n) == IF n < WordRange \div 2 THEN n ELSE n - WordRange

Span(a) == a .. a + 3
IsWord(a) == \E r \in regions : Span(a) \subseteq r
IsByte(a) == a \in DOMAIN store

Weight(i) == CASE i = 0 -> ByteRange * ByteRange * ByteRange
               [] i = 1 -> ByteRange * ByteRange
               [] i = 2 -> ByteRange
               [] i = 3 -> 1

WordAt(a) ==
  Signed(store[a] * Weight(0) + store[a + 1] * Weight(1)
         + store[a + 2] * Weight(2) + store[a + 3])

Init ==
  /\ UNION regions = DOMAIN store
  /\ \A a \in DOMAIN store : store[a] \in 0 .. ByteRange - 1
  /\ value = 0 /\ code = 0

Read(ok, v) ==
  /\ code' = IF ok THEN 0 ELSE -1
  /\ value' = IF ok THEN v ELSE value
  /\ UNCHANGED <<regions, store>>

Write(ok, bytes) ==
  /\ code' = IF ok THEN 0 ELSE -1
  /\ store' = IF ok THEN [a \in DOMAIN store |->
                            IF a \in DOMAIN bytes THEN bytes[a] ELSE store[a]]
              ELSE store
  /\ UNCHANGED <<regions, value>>

ReadByte(a) == Read(IsByte(a), store[a])
ReadWord(a) == Read(IsWord(a), WordAt(a))
WriteByte(a, v) == Write(IsByte(a), [x \in {a} |-> v % ByteRange])
WriteWord(a, v) ==
  Write(IsWord(a), [x \in Span(a) |-> (v \div Weight(x - a)) % ByteRange])

Next == \E a \in Addrs :
  \/ ReadByte(a) \/ ReadWord(a)
  \/ \E v \in Values : WriteByte(a, v) \/ WriteWord(a, v)

Spec == Init /\ [][Next]_bvars
=============================================================================
