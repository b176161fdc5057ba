--------------------------- MODULE BreakListProofs --------------------------
(***************************************************************************)
(* The linked lists of liste.c behave as sets, whatever the cells that       *)
(* calloc returns and the order of the commands.  What a heap holds is told   *)
(* by the sequence of the cells from the first on; that the program's walk    *)
(* along a list finds that sequence is shown by induction on its length, from *)
(* the fact that a set of numbers has a least one.                            *)
(***************************************************************************)
EXTENDS BreakList, WellFoundedInduction, FiniteSetTheorems, SequenceTheorems, TLAPS

(* The cells reached from p, in order: each points to the next, the last to   *)
(* nothing.                                                                   *)
Listed(h, p, s) ==
  /\ s \in Seq(Cell)
  /\ \A i \in 1 .. Len(s) : s[i] \in DOMAIN h
  /\ \A i \in 1 .. Len(s) - 1 : h[s[i]].suiv = s[i + 1]
  /\ s # <<>> => p = s[1] /\ h[s[Len(s)]].suiv = Nil
  /\ s = <<>> => p \notin DOMAIN h

Heap(h) == DOMAIN h \subseteq Cell /\ h \in [DOMAIN h -> [val : Addr, suiv : Pointer]]

(* Every walk comes to an end. *)
Ends(h) == \A q \in DOMAIN h : \E s : Listed(h, q, s)

-----------------------------------------------------------------------------
(* The least number of a set. *)

LEMMA Below == IsWellFoundedOn({ss \in Nat \X Nat : ss[1] < ss[2]}, Nat)
BY NatLessThanWellFounded, Zenon DEF OpToRel

LEMMA Least ==
  ASSUME NEW T, T \subseteq Nat, T # {}
  PROVE  \E n \in T : \A m \in T : n <= m
<1> DEFINE R == {ss \in Nat \X Nat : ss[1] < ss[2]}
<1>1. IsWellFoundedOn(R, Nat)
  BY Below
<1>2. \A x, y \in Nat : y < x => <<y, x>> \in R
  OBVIOUS
<1> HIDE DEF R
<1>3. PICK x \in T : \A y \in T : ~(<<y, x>> \in R)
  BY <1>1, WFMin
<1>4. \A y \in T : ~(y < x)
  BY <1>2, <1>3
<1> QED
  BY <1>3, <1>4

-----------------------------------------------------------------------------
(* Walking along a list. *)

LEMMA NilIsNone == ASSUME NEW h, Heap(h) PROVE Nil \notin DOMAIN h /\ DOMAIN h \subseteq Pointer
BY BreakListAssumption DEF Heap, Pointer

LEMMA ListedOnce ==
  ASSUME NEW h, Heap(h), NEW q, NEW u, NEW v, Listed(h, q, u), Listed(h, q, v)
  PROVE  u = v
<1>1. u \in Seq(Cell) /\ v \in Seq(Cell) /\ Len(u) \in Nat /\ Len(v) \in Nat
  BY DEF Listed
<1>2. u = <<>> <=> v = <<>>
  <2>1. \A s : Listed(h, q, s) /\ s # <<>> => q \in DOMAIN h
    <3> SUFFICES ASSUME NEW s, Listed(h, q, s), s # <<>> PROVE q \in DOMAIN h
      OBVIOUS
    <3>1. s \in Seq(Cell) /\ Len(s) \in Nat /\ Len(s) # 0
      BY DEF Listed
    <3>2. 1 \in 1 .. Len(s)
      BY <3>1
    <3> QED
      BY <3>2 DEF Listed
  <2>2. \A s : Listed(h, q, s) /\ s = <<>> => q \notin DOMAIN h
    BY DEF Listed
  <2> QED
    BY <2>1, <2>2
<1>3. ASSUME NEW n \in 1 .. Len(u), n <= Len(v) PROVE u[n] = v[n]
  <2> DEFINE T == {i \in 1 .. Len(u) : i <= Len(v) /\ u[i] # v[i]}
  <2>1. SUFFICES ASSUME T # {} PROVE FALSE
    BY <1>3
  <2>2. T \subseteq Nat
    BY <1>1
  <2>3. PICK i \in T : \A j \in T : i <= j
    BY <2>1, <2>2, Least
  <2>4. i # 1
    <3>1. u # <<>> /\ v # <<>>
      BY <1>1, <2>3
    <3> QED
      BY <2>3, <3>1 DEF Listed
  <2>5. /\ i - 1 \in 1 .. Len(u) /\ i - 1 \in 1 .. Len(u) - 1
        /\ i - 1 \in 1 .. Len(v) - 1 /\ i - 1 <= Len(v) /\ (i - 1) + 1 = i /\ ~(i <= i - 1)
    BY <1>1, <2>3, <2>4
  <2>6. u[i - 1] = v[i - 1]
    BY <2>3, <2>5
  <2>7. h[u[i - 1]].suiv = u[i] /\ h[v[i - 1]].suiv = v[i]
    BY <2>5 DEF Listed
  <2> QED
    BY <2>3, <2>6, <2>7
<1>4. ASSUME NEW s, NEW t, Listed(h, q, s), Listed(h, q, t), s # <<>>, Len(s) < Len(t),
             \A n \in 1 .. Len(s) : s[n] = t[n]
      PROVE  FALSE
  <2>1. s \in Seq(Cell) /\ t \in Seq(Cell) /\ Len(s) \in Nat /\ Len(t) \in Nat /\ Len(s) # 0
    BY <1>4 DEF Listed
  <2>2. Len(s) \in 1 .. Len(s) /\ Len(s) \in 1 .. Len(t) - 1 /\ Len(s) + 1 \in 1 .. Len(t)
    BY <1>4, <2>1
  <2>3. h[s[Len(s)]].suiv = Nil
    BY <1>4 DEF Listed
  <2>4. h[t[Len(s)]].suiv = t[Len(s) + 1] /\ t[Len(s) + 1] \in DOMAIN h
    BY <1>4, <2>2 DEF Listed
  <2> QED
    BY <1>4, <2>2, <2>3, <2>4, NilIsNone
<1>5. CASE u = <<>>
  BY <1>2, <1>5
<1>6. CASE u # <<>>
  <2>1. v # <<>>
    BY <1>2, <1>6
  <2>2. ~(Len(u) < Len(v))
    <3>1. Len(u) < Len(v) => \A n \in 1 .. Len(u) : u[n] = v[n]
      BY <1>1, <1>3
    <3> QED
      BY <1>4, <1>6, <3>1
  <2>3. ~(Len(v) < Len(u))
    <3>1. Len(v) < Len(u) => \A n \in 1 .. Len(v) : v[n] = u[n]
      BY <1>1, <1>3
    <3> QED
      BY <1>4, <2>1, <3>1
  <2>4. Len(u) = Len(v)
    BY <1>1, <2>2, <2>3
  <2>5. \A n \in 1 .. Len(u) : u[n] = v[n]
    BY <1>1, <1>3, <2>4
  <2> QED
    BY <1>1, <2>4, <2>5, SeqEqual
<1> QED
  BY <1>5, <1>6

(* The list from any of its cells on. *)
LEMMA Suffix ==
  ASSUME NEW h, NEW q, NEW u, Listed(h, q, u), NEW k \in 1 .. Len(u)
  PROVE  /\ Listed(h, u[k], SubSeq(u, k, Len(u)))
         /\ Len(SubSeq(u, k, Len(u))) = Len(u) - k + 1
<1>1. u \in Seq(Cell) /\ Len(u) \in Nat
  BY DEF Listed
<1>2. PICK n \in Nat : n = Len(u)
  BY <1>1
<1> DEFINE t == SubSeq(u, k, n)
<1>3. /\ t \in Seq(Cell) /\ Len(t) = n - k + 1
      /\ \A i \in 1 .. n - k + 1 : t[i] = u[k + i - 1]
  BY <1>1, <1>2, SubSeqProperties
<1> HIDE DEF t
<1>4. /\ \A i \in 1 .. n - k + 1 : k + i - 1 \in 1 .. n
      /\ \A i \in 1 .. n - k : k + i - 1 \in 1 .. n - 1 /\ k + (i + 1) - 1 = (k + i - 1) + 1
                               /\ i \in 1 .. n - k + 1 /\ i + 1 \in 1 .. n - k + 1
      /\ n - k + 1 \in 1 .. n - k + 1 /\ k + (n - k + 1) - 1 = n /\ (n - k + 1) - 1 = n - k
      /\ 1 \in 1 .. n - k + 1 /\ k + 1 - 1 = k
  BY <1>2
<1>5. \A i \in 1 .. Len(t) : t[i] \in DOMAIN h
  BY <1>2, <1>3, <1>4 DEF Listed
<1>6. \A i \in 1 .. Len(t) - 1 : h[t[i]].suiv = t[i + 1]
  BY <1>2, <1>3, <1>4 DEF Listed
<1>7. t # <<>> /\ u # <<>>
  BY <1>1, <1>2, <1>3
<1>8. t[1] = u[k] /\ t[Len(t)] = u[n]
  BY <1>3, <1>4
<1>9. Listed(h, u[k], t)
  BY <1>2, <1>3, <1>5, <1>6, <1>7, <1>8 DEF Listed
<1> QED
  BY <1>2, <1>3, <1>9 DEF t

LEMMA CellsOnce ==
  ASSUME NEW h, Heap(h), NEW q, NEW u, Listed(h, q, u), NEW i \in 1 .. Len(u), NEW j \in 1 .. Len(u),
         u[i] = u[j]
  PROVE  i = j
<1>1. Len(u) \in Nat
  BY DEF Listed
<1>2. SubSeq(u, i, Len(u)) = SubSeq(u, j, Len(u))
  BY Suffix, ListedOnce
<1>3. Len(u) - i + 1 = Len(u) - j + 1
  BY <1>2, Suffix
<1> QED
  BY <1>1, <1>3

(* The cell after the first. *)
LEMMA Rest ==
  ASSUME NEW h, Heap(h), NEW q, NEW u, Listed(h, q, u), u # <<>>
  PROVE  /\ Listed(h, h[q].suiv, Tail(u)) /\ u = <<q>> \o Tail(u)
         /\ q \in DOMAIN h /\ Len(u) \in Nat /\ Len(u) # 0 /\ Len(Tail(u)) = Len(u) - 1
<1>1. u \in Seq(Cell) /\ Len(u) \in Nat /\ Len(u) # 0 /\ 1 \in 1 .. Len(u)
  BY DEF Listed
<1>2. q = u[1] /\ q \in DOMAIN h
  BY <1>1 DEF Listed
<1>3. u = <<q>> \o Tail(u) /\ Tail(u) \in Seq(Cell) /\ Len(Tail(u)) = Len(u) - 1
  <2>1. \A S : \A s \in Seq(S) : s # <<>> => /\ s = <<s[1]>> \o Tail(s) /\ Tail(s) \in Seq(S)
                                             /\ Len(Tail(s)) = Len(s) - 1
    OBVIOUS
  <2> QED
    BY <1>1, <1>2, <2>1
<1>4. Tail(u) = SubSeq(u, 2, Len(u))
  BY <1>1
<1>5. CASE Len(u) = 1
  <2>1. Tail(u) = <<>>
    <3>1. PICK t \in Seq(Cell) : t = Tail(u) /\ Len(t) = Len(u) - 1
      BY <1>3, Zenon
    <3>2. t = <<>>
      BY <1>5, <3>1, EmptySeq
    <3> QED
      BY <3>1, <3>2, Zenon
  <2>2. h[q].suiv = Nil
    BY <1>2, <1>5 DEF Listed
  <2>3. Listed(h, Nil, <<>>)
    BY NilIsNone DEF Listed
  <2> QED
    BY <1>1, <1>2, <1>3, <2>1, <2>2, <2>3
<1>6. CASE Len(u) # 1
  <2>1. 2 \in 1 .. Len(u) /\ 1 \in 1 .. Len(u) - 1
    <3>1. PICK n \in Nat : n = Len(u)
      BY <1>1
    <3>2. n # 0 /\ n # 1
      BY <1>1, <1>6, <3>1
    <3> QED
      BY <3>1, <3>2
  <2>2. h[q].suiv = u[2]
    BY <1>2, <2>1 DEF Listed
  <2>3. Listed(h, u[2], SubSeq(u, 2, Len(u)))
    BY <2>1, Suffix
  <2> QED
    BY <1>1, <1>2, <1>3, <1>4, <2>2, <2>3
<1> QED
  BY <1>5, <1>6

(* A list whose last cell points to nothing, and a cell before it. *)
LEMMA Cons ==
  ASSUME NEW h, Heap(h), NEW q \in DOMAIN h, NEW v, Listed(h, h[q].suiv, v),
         v = <<>> => h[q].suiv = Nil
  PROVE  Listed(h, q, <<q>> \o v)
<1>1. v \in Seq(Cell) /\ Len(v) \in Nat /\ q \in Cell
  BY DEF Listed, Heap
<1>2. PICK n \in Nat : n = Len(v)
  BY <1>1
<1>3. PICK u \in Seq(Cell) : /\ u = <<q>> \o v /\ Len(u) = n + 1 /\ u[1] = q
                            /\ \A i \in 2 .. n + 1 : u[i] = v[i - 1]
  <2>1. <<q>> \in Seq(Cell) /\ Len(<<q>>) = 1 /\ <<q>>[1] = q
    BY <1>1
  <2>2. /\ <<q>> \o v \in Seq(Cell) /\ Len(<<q>> \o v) = Len(<<q>>) + Len(v)
        /\ \A i \in 1 .. Len(<<q>>) + Len(v) :
             (<<q>> \o v)[i] = IF i <= Len(<<q>>) THEN <<q>>[i] ELSE v[i - Len(<<q>>)]
    BY <1>1, <2>1, ConcatProperties, Zenon
  <2> DEFINE w == <<q>> \o v
  <2> HIDE DEF w
  <2>3. w \in Seq(Cell) /\ Len(w) = n + 1 /\ w[1] = q /\ \A i \in 2 .. n + 1 : w[i] = v[i - 1]
    <3>1. /\ w \in Seq(Cell) /\ Len(w) = 1 + n
          /\ \A i \in 1 .. 1 + n : w[i] = IF i <= 1 THEN q ELSE v[i - 1]
      <4>1. \A i \in 1 .. 1 + n : i <= 1 => i = 1
        BY <1>2
      <4> QED
        BY <1>2, <2>1, <2>2, <4>1 DEF w
    <3> QED
      BY <1>2, <3>1
  <2>4. w = <<q>> \o v
    BY DEF w
  <2> QED
    BY <2>3, <2>4, Zenon
<1>4. \A i \in 1 .. n + 1 : u[i] \in DOMAIN h
  <2>1. \A i \in 1 .. n + 1 : i = 1 \/ (i \in 2 .. n + 1 /\ i - 1 \in 1 .. n)
    BY <1>2
  <2>2. \A i \in 1 .. n : v[i] \in DOMAIN h
    BY <1>2 DEF Listed
  <2> QED
    BY <1>3, <2>1, <2>2
<1>5. CASE n = 0
  <2>1. v = <<>>
    BY <1>1, <1>2, <1>5, EmptySeq
  <2>2. h[u[1]].suiv = Nil /\ Len(u) = 1 /\ u # <<>>
    BY <1>3, <1>5, <2>1
  <2>3. 1 .. Len(u) - 1 = {}
    BY <2>2
  <2> QED
    BY <1>3, <1>4, <2>2, <2>3 DEF Listed
<1>6. CASE n # 0
  <2>1. v # <<>>
    BY <1>2, <1>6
  <2>2. h[q].suiv = v[1] /\ h[v[n]].suiv = Nil
    BY <1>2, <2>1 DEF Listed
  <2>3. \A i \in 1 .. n - 1 : h[v[i]].suiv = v[i + 1]
    BY <1>2 DEF Listed
  <2>4. u[n + 1] = v[n] /\ u[2] = v[1] /\ u # <<>>
    <3>1. n + 1 \in 2 .. n + 1 /\ (n + 1) - 1 = n /\ 2 \in 2 .. n + 1
      BY <1>2, <1>6
    <3> QED
      BY <1>3, <3>1
  <2>5. ASSUME NEW i \in 1 .. n PROVE h[u[i]].suiv = u[i + 1]
    <3>1. CASE i = 1
      BY <1>3, <2>2, <2>4, <3>1
    <3>2. CASE i # 1
      <4>1. i - 1 \in 1 .. n - 1 /\ i \in 2 .. n + 1 /\ i + 1 \in 2 .. n + 1 /\ (i + 1) - 1 = i /\ (i - 1) + 1 = i
        BY <1>2, <3>2
      <4>2. u[i] = v[i - 1] /\ u[i + 1] = v[i]
        BY <1>3, <4>1
      <4> QED
        BY <2>3, <4>1, <4>2
    <3> QED
      BY <3>1, <3>2
  <2>6. Len(u) - 1 = n /\ u[Len(u)] = v[n]
    BY <1>2, <1>3, <2>4
  <2> QED
    BY <1>3, <1>4, <2>2, <2>4, <2>5, <2>6 DEF Listed
<1> QED
  BY <1>5, <1>6

-----------------------------------------------------------------------------
(* The walk of the program finds that sequence. *)

Followed(f, h) ==
  f = [q \in Pointer |-> IF q \notin DOMAIN h THEN <<>> ELSE <<q>> \o f[h[q].suiv]]

LEMMA ChainFollows == ASSUME NEW h, NEW p PROVE Chain(h, p) = (CHOOSE f : Followed(f, h))[p]
BY Zenon DEF Chain, Followed

LEMMA WalkExists == ASSUME NEW h, Heap(h), Ends(h) PROVE \E f : Followed(f, h)
<1> DEFINE f == [q \in Pointer |-> CHOOSE s : Listed(h, q, s)]
<1>1. \A q \in Pointer : \E s : Listed(h, q, s)
  <2> SUFFICES ASSUME NEW q \in Pointer PROVE \E s : Listed(h, q, s)
    OBVIOUS
  <2>1. CASE q \in DOMAIN h
    BY <2>1 DEF Ends
  <2>2. CASE q \notin DOMAIN h
    <3>1. Listed(h, q, <<>>)
      BY <2>2 DEF Listed
    <3> QED
      BY <3>1
  <2> QED
    BY <2>1, <2>2
<1>2. \A q \in Pointer : Listed(h, q, f[q])
  BY <1>1, Zenon
<1>3. ASSUME NEW q \in Pointer
      PROVE  f[q] = IF q \notin DOMAIN h THEN <<>> ELSE <<q>> \o f[h[q].suiv]
  <2>1. Listed(h, q, f[q])
    BY <1>2
  <2> HIDE DEF f
  <2>2. CASE q \notin DOMAIN h
    <3>1. Listed(h, q, <<>>)
      BY <2>2 DEF Listed
    <3> QED
      BY <2>1, <2>2, <3>1, ListedOnce
  <2>3. CASE q \in DOMAIN h
    <3>1. f[q] # <<>>
      BY <2>1, <2>3 DEF Listed
    <3>2. Listed(h, h[q].suiv, Tail(f[q])) /\ f[q] = <<q>> \o Tail(f[q])
      BY <2>1, <3>1, Rest
    <3>3. h[q].suiv \in Pointer
      BY <2>3 DEF Heap
    <3>4. Listed(h, h[q].suiv, f[h[q].suiv])
      BY <1>2, <3>3
    <3>5. f[h[q].suiv] = Tail(f[q])
      BY <3>2, <3>4, ListedOnce
    <3> QED
      BY <2>3, <3>2, <3>5
  <2> QED
    BY <2>2, <2>3
<1>4. f = [q \in Pointer |-> f[q]]
  <2> DEFINE e(q) == CHOOSE s : Listed(h, q, s)
  <2>1. f = [q \in Pointer |-> e(q)]
    BY Zenon
  <2> HIDE DEF e, f
  <2> QED
    BY <2>1
<1> HIDE DEF f
<1>5. f = [q \in Pointer |-> IF q \notin DOMAIN h THEN <<>> ELSE <<q>> \o f[h[q].suiv]]
  BY <1>3, <1>4
<1> QED
  BY <1>5 DEF Followed

LEMMA WalkListed ==
  ASSUME NEW h, Heap(h), NEW f, Followed(f, h), NEW q \in Pointer, NEW u, Listed(h, q, u)
  PROVE  f[q] = u
<1> DEFINE T == {n \in Nat : \E p \in Pointer : \E s : Listed(h, p, s) /\ Len(s) = n /\ f[p] # s}
<1>1. Len(u) \in Nat
  BY DEF Listed
<1>2. SUFFICES ASSUME T # {} PROVE FALSE
  BY <1>1
<1>3. T \subseteq Nat
  OBVIOUS
<1>4. PICK n \in T : \A m \in T : n <= m
  BY <1>2, <1>3, Least
<1>5. PICK p, s : p \in Pointer /\ Listed(h, p, s) /\ Len(s) = n /\ f[p] # s
  BY <1>4
<1>6. f[p] = IF p \notin DOMAIN h THEN <<>> ELSE <<p>> \o f[h[p].suiv]
  BY <1>5 DEF Followed
<1>7. s # <<>>
  <2>1. s = <<>> => p \notin DOMAIN h
    BY <1>5 DEF Listed
  <2> QED
    BY <1>5, <1>6, <2>1
<1>8. /\ Listed(h, h[p].suiv, Tail(s)) /\ s = <<p>> \o Tail(s)
      /\ p \in DOMAIN h /\ Len(s) # 0 /\ Len(Tail(s)) = Len(s) - 1
  BY <1>5, <1>7, Rest
<1>9. n - 1 \in Nat /\ ~(n <= n - 1)
  BY <1>3, <1>5, <1>8
<1>10. h[p].suiv \in Pointer
  BY <1>8 DEF Heap
<1>11. n - 1 \notin T
  BY <1>4, <1>9
<1>12. f[h[p].suiv] = Tail(s)
  BY <1>5, <1>8, <1>9, <1>10, <1>11
<1> QED
  BY <1>5, <1>6, <1>8, <1>12

LEMMA ChainIs ==
  ASSUME NEW h, Heap(h), Ends(h), NEW q \in Pointer, NEW u, Listed(h, q, u)
  PROVE  Chain(h, q) = u
<1>1. PICK f : f = CHOOSE g : Followed(g, h)
  BY Zenon
<1>2. Followed(f, h)
  <2>1. \E g : Followed(g, h)
    BY WalkExists
  <2> QED
    BY <1>1, <2>1, Zenon
<1>3. Chain(h, q) = f[q]
  BY <1>1, ChainFollows, Zenon
<1> QED
  BY <1>2, <1>3, WalkListed

-----------------------------------------------------------------------------
(* A heap that holds one list and nothing else. *)

Whole(h, p, s) ==
  /\ Heap(h) /\ p \in Pointer /\ Listed(h, p, s)
  /\ \A c \in DOMAIN h : \E i \in 1 .. Len(s) : s[i] = c

Sorted(h, s) == \A i \in 1 .. Len(s) - 1 : h[s[i]].val < h[s[i + 1]].val

LEMMA WholeEnds ==
  ASSUME NEW h, NEW p, NEW s, Whole(h, p, s)
  PROVE  /\ Ends(h) /\ Chain(h, p) = s
         /\ s \in Seq(Cell) /\ Len(s) \in Nat
         /\ DOMAIN h = {s[i] : i \in 1 .. Len(s)}
         /\ \A i, j \in 1 .. Len(s) : s[i] = s[j] => i = j
<1>1. Heap(h) /\ p \in Pointer /\ Listed(h, p, s)
  BY DEF Whole
<1>2. Ends(h)
  <2> SUFFICES ASSUME NEW q \in DOMAIN h PROVE \E u : Listed(h, q, u)
    BY DEF Ends
  <2>1. PICK i \in 1 .. Len(s) : s[i] = q
    BY DEF Whole
  <2> QED
    BY <1>1, <2>1, Suffix
<1>3. Chain(h, p) = s
  BY <1>1, <1>2, ChainIs
<1>4. s \in Seq(Cell) /\ Len(s) \in Nat
  BY <1>1 DEF Listed
<1>5. DOMAIN h = {s[i] : i \in 1 .. Len(s)}
  <2>1. \A i \in 1 .. Len(s) : s[i] \in DOMAIN h
    BY <1>1 DEF Listed
  <2> QED
    BY <2>1 DEF Whole
<1>6. \A i, j \in 1 .. Len(s) : s[i] = s[j] => i = j
  BY <1>1, CellsOnce
<1> QED
  BY <1>2, <1>3, <1>4, <1>5, <1>6

LEMMA HeldIs ==
  ASSUME NEW h, NEW p, NEW s, Whole(h, p, s)
  PROVE  Held(h, p) = {h[c].val : c \in DOMAIN h}
<1>1. /\ Chain(h, p) = s /\ s \in Seq(Cell)
      /\ DOMAIN h = {s[i] : i \in 1 .. Len(s)}
  BY WholeEnds
<1>2. DOMAIN s = 1 .. Len(s)
  BY <1>1
<1> QED
  BY <1>1, <1>2 DEF Held

(* Where insert stops. *)
LEMMA PlaceRight ==
  ASSUME NEW h, NEW p, NEW s, Whole(h, p, s), NEW e \in Addr, NEW k, k = Place(h, s, e)
  PROVE  /\ k \in 0 .. Len(s)
         /\ k = 0 => s = <<>> \/ e < h[s[1]].val
         /\ k # 0 => /\ s # <<>> /\ ~(e < h[s[1]].val)
                     /\ k < Len(s) => ~(e > h[s[k + 1]].val)
                     /\ \A i \in 2 .. k : e > h[s[i]].val
<1>1. s \in Seq(Cell) /\ Len(s) \in Nat
  BY WholeEnds
<1>2. CASE s = <<>> \/ e < h[s[1]].val
  <2>1. k = 0
    BY <1>2, Zenon DEF Place
  <2> QED
    BY <1>1, <1>2, <2>1
<1>3. CASE ~(s = <<>> \/ e < h[s[1]].val)
  <2> DEFINE Stop(m) == m < Len(s) => ~(e > h[s[m + 1]].val)
             T == {m \in 1 .. Len(s) : Stop(m)}
  <2>1. PICK n \in Nat : n = Len(s) /\ n # 0
    BY <1>1, <1>3, EmptySeq
  <2>2. Len(s) \in T
    BY <2>1
  <2>3. T \subseteq Nat
    BY <2>1
  <2>4. PICK m \in T : \A j \in T : m <= j
    BY <2>2, <2>3, Least
  <2>5. ASSUME NEW i \in 2 .. m PROVE e > h[s[i]].val
    <3>1. i - 1 \in 1 .. Len(s) /\ ~(m <= i - 1) /\ (i - 1) + 1 = i
      BY <2>1, <2>4
    <3>2. ~Stop(i - 1)
      BY <2>4, <3>1
    <3> QED
      BY <3>1, <3>2
  <2> DEFINE P(j) == /\ \A i \in 2 .. j : e > h[s[i]].val
                     /\ j < Len(s) => ~(e > h[s[j + 1]].val)
  <2>6. k = CHOOSE j \in 1 .. Len(s) : P(j)
    BY <1>3, Zenon DEF Place
  <2>9. m \in 1 .. Len(s) /\ P(m)
    BY <2>4, <2>5
  <2>10. k \in 1 .. Len(s) /\ P(k)
    <3> HIDE DEF P
    <3> QED
      BY <2>6, <2>9, Zenon
  <2>7. /\ k \in 1 .. Len(s) /\ \A i \in 2 .. k : e > h[s[i]].val
        /\ k < Len(s) => ~(e > h[s[k + 1]].val)
    BY <2>10
  <2>8. k \in 0 .. Len(s) /\ k # 0
    BY <2>1, <2>7
  <2> QED
    BY <1>3, <2>7, <2>8
<1> QED
  BY <1>2, <1>3

(* The cells after insert in k-th place of n: the new one, c, and the one that *)
(* points to it.                                                             *)
Inserted(h, s, k, n, e, c, g, f) ==
  /\ DOMAIN g = DOMAIN h \cup {c} /\ g = [d \in DOMAIN h \cup {c} |-> g[d]]
  /\ g[c] = [val |-> e, suiv |-> IF k < n THEN s[k + 1] ELSE Nil]
  /\ \A i \in 1 .. n : /\ g[s[i]] \in [val : Addr, suiv : Pointer]
                       /\ g[s[i]].val = h[s[i]].val
                       /\ g[s[i]].suiv = IF i = k THEN c ELSE h[s[i]].suiv
  /\ f = IF k = 0 THEN c ELSE s[1]

LEMMA InsertCells ==
  ASSUME NEW h, NEW p, NEW s, Whole(h, p, s), s = <<>> => p = Nil,
         NEW e \in Addr, NEW c \in Cell \ DOMAIN h, NEW k, k = Place(h, s, e),
         NEW n, n = Len(s), NEW g, NEW f, insert(h, p, e, c) = [heap |-> g, first |-> f]
  PROVE  Inserted(h, s, k, n, e, c, g, f)
<1>1. /\ Chain(h, p) = s /\ s \in Seq(Cell) /\ n \in Nat
      /\ \A i, j \in 1 .. n : s[i] = s[j] => i = j
  <2>1. /\ Chain(h, p) = s /\ s \in Seq(Cell) /\ Len(s) \in Nat
        /\ \A i, j \in 1 .. Len(s) : s[i] = s[j] => i = j
    BY WholeEnds
  <2> QED
    BY <2>1
<1>2. /\ Listed(h, p, s) /\ h \in [DOMAIN h -> [val : Addr, suiv : Pointer]]
      /\ \A i \in 1 .. n : s[i] \in DOMAIN h /\ s[i] # c
      /\ c \in Pointer
  BY DEF Whole, Heap, Listed, Pointer
<1>3. k \in 0 .. n
  BY PlaceRight
<1> DEFINE Grown(next) ==
             [d \in DOMAIN h \cup {c} |-> IF d = c THEN [val |-> e, suiv |-> next] ELSE h[d]]
<1>4. CASE k = 0
  <2>1. g = Grown(p) /\ f = c
    BY <1>1, <1>4 DEF insert
  <2>2. p = IF k < n THEN s[k + 1] ELSE Nil
    <3>1. CASE n = 0
      <4>1. s = <<>>
        BY <1>1, <3>1, EmptySeq
      <4> QED
        BY <1>4, <3>1, <4>1
    <3>2. CASE n # 0
      <4>1. s # <<>> /\ k < n /\ k + 1 = 1
        BY <1>1, <1>4, <3>2
      <4> QED
        BY <1>2, <4>1 DEF Listed
    <3> QED
      BY <3>1, <3>2
  <2>3. /\ DOMAIN g = DOMAIN h \cup {c} /\ g[c] = [val |-> e, suiv |-> p]
        /\ \A d \in DOMAIN h : g[d] = h[d]
    BY <2>1
  <2>4. g = [d \in DOMAIN h \cup {c} |-> g[d]]
    BY <2>1
  <2>5. ASSUME NEW i \in 1 .. n
        PROVE  /\ g[s[i]] \in [val : Addr, suiv : Pointer] /\ g[s[i]].val = h[s[i]].val
               /\ g[s[i]].suiv = IF i = k THEN c ELSE h[s[i]].suiv
    <3>1. g[s[i]] = h[s[i]] /\ i # k
      BY <1>1, <1>2, <1>4, <2>3
    <3> QED
      BY <1>2, <3>1
  <2> QED
    BY <1>4, <2>1, <2>2, <2>3, <2>4, <2>5 DEF Inserted
<1>5. CASE k # 0
  <2>1. k \in 1 .. n /\ s[k] \in DOMAIN h
    BY <1>1, <1>2, <1>3, <1>5
  <2>2. g = [Grown(h[s[k]].suiv) EXCEPT ![s[k]].suiv = c] /\ f = p
    BY <1>1, <1>5 DEF insert
  <2> DEFINE G == Grown(h[s[k]].suiv)
  <2>3. /\ DOMAIN G = DOMAIN h \cup {c} /\ G[c] = [val |-> e, suiv |-> h[s[k]].suiv]
        /\ \A d \in DOMAIN h : G[d] = h[d]
    OBVIOUS
  <2>4. g = [G EXCEPT ![s[k]] = [G[s[k]] EXCEPT !.suiv = c]]
    BY <2>2
  <2> HIDE DEF G
  <2>5. /\ DOMAIN g = DOMAIN h \cup {c} /\ g = [d \in DOMAIN h \cup {c} |-> g[d]]
        /\ g[c] = [val |-> e, suiv |-> h[s[k]].suiv]
        /\ g[s[k]] = [h[s[k]] EXCEPT !.suiv = c]
        /\ \A d \in DOMAIN h : d # s[k] => g[d] = h[d]
    BY <1>2, <2>1, <2>3, <2>4
  <2>6. h[s[k]].suiv = IF k < n THEN s[k + 1] ELSE Nil
    <3>1. CASE k < n
      <4>1. k \in 1 .. Len(s) - 1
        BY <1>1, <2>1, <3>1
      <4> QED
        BY <1>2, <3>1, <4>1 DEF Listed
    <3>2. CASE ~(k < n)
      <4>1. k = Len(s) /\ s # <<>>
        BY <1>1, <2>1, <3>2
      <4> QED
        BY <1>2, <3>2, <4>1 DEF Listed
    <3> QED
      BY <3>1, <3>2
  <2>7. ASSUME NEW i \in 1 .. n
        PROVE  /\ g[s[i]] \in [val : Addr, suiv : Pointer] /\ g[s[i]].val = h[s[i]].val
               /\ g[s[i]].suiv = IF i = k THEN c ELSE h[s[i]].suiv
    <3>1. h[s[i]] \in [val : Addr, suiv : Pointer] /\ s[i] \in DOMAIN h
      BY <1>2
    <3>2. CASE i = k
      BY <1>2, <2>5, <3>1, <3>2
    <3>3. CASE i # k
      <4>1. s[i] # s[k]
        BY <1>1, <2>1, <3>3
      <4> QED
        BY <2>5, <3>1, <3>3, <4>1
    <3> QED
      BY <3>2, <3>3
  <2>8. f = s[1]
    <3>1. s # <<>>
      BY <1>1, <2>1
    <3> QED
      BY <1>2, <2>2, <3>1 DEF Listed
  <2> QED
    BY <1>5, <2>5, <2>6, <2>7, <2>8 DEF Inserted
<1> QED
  BY <1>4, <1>5

LEMMA MakeSeq == ASSUME NEW n \in Nat, NEW t \in [1 .. n -> Cell] PROVE t \in Seq(Cell) /\ Len(t) = n
<1>1. t \in Seq(Cell)
  BY SeqDef
<1>2. Len(t) \in Nat /\ DOMAIN t = 1 .. Len(t) /\ DOMAIN t = 1 .. n
  BY <1>1
<1>3. 1 .. Len(t) = 1 .. n
  BY <1>2
<1> QED
  BY <1>1, <1>2, <1>3

(* What insert makes of a list. *)
Grew(h, s, e, c, g, f) ==
  /\ DOMAIN g = DOMAIN h \cup {c}
  /\ {g[d].val : d \in DOMAIN g} = {h[d].val : d \in DOMAIN h} \cup {e}
  /\ \E t : /\ Whole(g, f, t) /\ t # <<>>
            /\ Sorted(h, s) /\ (\A d \in DOMAIN h : h[d].val # e) => Sorted(g, t)

LEMMA InsertWhole ==
  ASSUME NEW h, NEW p, NEW s, Whole(h, p, s), s = <<>> => p = Nil,
         NEW e \in Addr, NEW c \in Cell \ DOMAIN h,
         NEW g, NEW f, insert(h, p, e, c) = [heap |-> g, first |-> f]
  PROVE  Grew(h, s, e, c, g, f)
<1>0. PICK n, k : n = Len(s) /\ k = Place(h, s, e)
  OBVIOUS
<1>1. /\ s \in Seq(Cell) /\ n \in Nat /\ DOMAIN h = {s[i] : i \in 1 .. n}
      /\ \A i \in 1 .. n : s[i] \in DOMAIN h /\ s[i] \in Cell
      /\ c \in Cell /\ \A i \in 1 .. n : s[i] # c
  <2>1. s \in Seq(Cell) /\ n \in Nat /\ DOMAIN h = {s[i] : i \in 1 .. n}
    <3>1. s \in Seq(Cell) /\ Len(s) \in Nat
      BY WholeEnds
    <3>2. /\ \A i \in 1 .. Len(s) : s[i] \in DOMAIN h
          /\ \A d \in DOMAIN h : \E i \in 1 .. Len(s) : s[i] = d
      BY DEF Whole, Listed
    <3> QED
      BY <1>0, <3>1, <3>2
  <2>2. \A i \in 1 .. n : s[i] \in DOMAIN h
    BY <2>1
  <2>3. DOMAIN h \subseteq Cell
    BY DEF Whole, Heap
  <2> QED
    BY <2>1, <2>2, <2>3
<1>2. /\ DOMAIN g = DOMAIN h \cup {c} /\ g = [d \in DOMAIN h \cup {c} |-> g[d]]
      /\ g[c] = [val |-> e, suiv |-> IF k < n THEN s[k + 1] ELSE Nil]
      /\ \A i \in 1 .. n : /\ g[s[i]] \in [val : Addr, suiv : Pointer]
                           /\ g[s[i]].val = h[s[i]].val
                           /\ g[s[i]].suiv = IF i = k THEN c ELSE h[s[i]].suiv
      /\ f = IF k = 0 THEN c ELSE s[1]
  <2>1. Inserted(h, s, k, n, e, c, g, f)
    BY <1>0, InsertCells
  <2> QED
    BY <2>1 DEF Inserted
<1>3. /\ k \in 0 .. n
      /\ k = 0 => s = <<>> \/ e < h[s[1]].val
      /\ k # 0 => /\ s # <<>> /\ ~(e < h[s[1]].val)
                  /\ k < n => ~(e > h[s[k + 1]].val)
                  /\ \A i \in 2 .. k : e > h[s[i]].val
  BY <1>0, PlaceRight
<1>4. /\ \A i \in 1 .. n - 1 : h[s[i]].suiv = s[i + 1]
      /\ n # 0 => h[s[n]].suiv = Nil
      /\ \A i \in 1 .. n : h[s[i]] \in [val : Addr, suiv : Pointer]
  <2>1. n # 0 => s # <<>>
    <3>1. Len(<<>>) = 0
      OBVIOUS
    <3> QED
      BY <1>0, <3>1
  <2>2. Listed(h, p, s) /\ h \in [DOMAIN h -> [val : Addr, suiv : Pointer]]
    BY DEF Whole, Heap
  <2> QED
    BY <1>0, <1>1, <2>1, <2>2 DEF Listed
<1> DEFINE t == [i \in 1 .. n + 1 |-> IF i <= k THEN s[i] ELSE IF i = k + 1 THEN c ELSE s[i - 1]]
<1>5. t \in [1 .. n + 1 -> Cell]
  <2> SUFFICES ASSUME NEW i \in 1 .. n + 1
               PROVE  (IF i <= k THEN s[i] ELSE IF i = k + 1 THEN c ELSE s[i - 1]) \in Cell
    OBVIOUS
  <2>1. CASE i <= k
    BY <1>1, <1>3, <2>1
  <2>2. CASE i = k + 1
    BY <1>1, <1>3, <2>2
  <2>3. CASE k + 1 < i
    <3>1. i - 1 \in 1 .. n
      BY <1>1, <1>3, <2>3
    <3> QED
      BY <1>1, <1>3, <2>3, <3>1
  <2> QED
    BY <1>1, <1>3, <2>1, <2>2, <2>3
<1>6. t \in Seq(Cell) /\ Len(t) = n + 1
  BY <1>1, <1>5, MakeSeq
<1>7. /\ \A i \in 1 .. n + 1 : i <= k => t[i] = s[i]
      /\ t[k + 1] = c
      /\ \A i \in 1 .. n : k < i => t[i + 1] = s[i]
  <2>1. \A i \in 1 .. n + 1 : t[i] = IF i <= k THEN s[i] ELSE IF i = k + 1 THEN c ELSE s[i - 1]
    OBVIOUS
  <2> HIDE DEF t
  <2>2. \A i \in 1 .. n + 1 : i <= k => t[i] = s[i]
    BY <2>1
  <2>3. t[k + 1] = c
    BY <1>1, <1>3, <2>1
  <2>4. \A i \in 1 .. n : k < i => i + 1 \in 1 .. n + 1 /\ ~(i + 1 <= k) /\ ~(i + 1 = k + 1) /\ (i + 1) - 1 = i
    BY <1>1, <1>3
  <2>5. \A i \in 1 .. n : k < i => t[i + 1] = s[i]
    BY <2>1, <2>4
  <2> QED
    BY <2>2, <2>3, <2>5
<1> HIDE DEF t
<1>8. Addr \subseteq Int
  BY BreakListAssumption
<1>9. c \in DOMAIN g /\ g[c].val = e /\ g[c].suiv = (IF k < n THEN s[k + 1] ELSE Nil)
  <2>1. \A x, y : [val |-> x, suiv |-> y].val = x /\ [val |-> x, suiv |-> y].suiv = y
    OBVIOUS
  <2> QED
    BY <1>2, <2>1
<1>10. \A i \in 1 .. n + 1 : \/ (i \in 1 .. n /\ i <= k /\ t[i] = s[i])
                            \/ (i = k + 1 /\ t[i] = c)
                            \/ (i - 1 \in 1 .. n /\ k < i - 1 /\ t[i] = s[i - 1])
  <2> SUFFICES ASSUME NEW i \in 1 .. n + 1
               PROVE  \/ (i \in 1 .. n /\ i <= k /\ t[i] = s[i])
                      \/ (i = k + 1 /\ t[i] = c)
                      \/ (i - 1 \in 1 .. n /\ k < i - 1 /\ t[i] = s[i - 1])
    OBVIOUS
  <2>1. CASE i <= k
    BY <1>1, <1>3, <1>7, <2>1
  <2>2. CASE i = k + 1
    BY <1>7, <2>2
  <2>3. CASE k + 1 < i
    <3>1. i - 1 \in 1 .. n /\ k < i - 1 /\ (i - 1) + 1 = i
      BY <1>1, <1>3, <2>3
    <3> QED
      BY <1>7, <3>1
  <2> QED
    BY <1>1, <1>3, <2>1, <2>2, <2>3
<1>11. \A i \in 1 .. n + 1 : t[i] \in DOMAIN g
  BY <1>1, <1>2, <1>9, <1>10
<1>12. ASSUME NEW i \in 1 .. n PROVE g[t[i]].suiv = t[i + 1]
  <2>1. i \in 1 .. n + 1 /\ i + 1 \in 1 .. n + 1 /\ n \in Nat /\ k \in 0 .. n
    BY <1>1, <1>3
  <2>2. CASE i < k
    <3>1. i <= k /\ i + 1 <= k /\ i # k /\ i \in 1 .. n - 1
      BY <1>1, <1>3, <2>2
    <3> QED
      BY <1>2, <1>4, <1>7, <2>1, <3>1
  <2>3. CASE i = k
    <3>1. i <= k
      BY <1>1, <2>3
    <3> QED
      BY <1>2, <1>7, <2>1, <2>3, <3>1
  <2>4. CASE i = k + 1
    <3>1. k < i /\ k < n
      BY <1>1, <1>3, <2>4
    <3> QED
      BY <1>7, <1>9, <2>4, <3>1
  <2>5. CASE k + 1 < i
    <3>1. k < i /\ i - 1 \in 1 .. n /\ i - 1 \in 1 .. n - 1 /\ k < i - 1 /\ i - 1 # k /\ (i - 1) + 1 = i
      BY <1>1, <1>3, <2>5
    <3>2. t[i] = s[i - 1] /\ t[i + 1] = s[i]
      BY <1>7, <3>1
    <3>3. PICK j \in 1 .. n : j = i - 1 /\ j \in 1 .. n - 1 /\ j # k /\ j + 1 = i
      BY <3>1
    <3>4. g[s[j]].suiv = h[s[j]].suiv /\ h[s[j]].suiv = s[j + 1]
      BY <1>2, <1>4, <3>3
    <3> QED
      BY <3>2, <3>3, <3>4
  <2>6. n \in Nat /\ k \in 0 .. n
    BY <1>1, <1>3
  <2>7. i < k \/ i = k \/ i = k + 1 \/ k + 1 < i
    BY <2>6
  <2> QED
    BY <2>2, <2>3, <2>4, <2>5, <2>7
<1>13. t # <<>> /\ f = t[1] /\ g[t[n + 1]].suiv = Nil
  <2>1. t # <<>>
    BY <1>1, <1>6
  <2>2. f = t[1]
    <3>1. CASE k = 0
      <4>1. k + 1 = 1
        BY <3>1
      <4> QED
        BY <1>2, <1>7, <3>1, <4>1
    <3>2. CASE k # 0
      <4>1. 1 \in 1 .. n + 1 /\ 1 <= k
        BY <1>1, <1>3, <3>2
      <4> QED
        BY <1>2, <1>7, <3>2, <4>1
    <3> QED
      BY <3>1, <3>2
  <2>3. g[t[n + 1]].suiv = Nil
    <3>1. CASE k < n
      <4>1. n \in 1 .. n /\ n # k /\ n # 0
        BY <1>1, <1>3, <3>1
      <4> QED
        BY <1>2, <1>4, <1>7, <3>1, <4>1
    <3>2. CASE ~(k < n)
      <4>1. k = n
        BY <1>1, <1>3, <3>2
      <4> QED
        BY <1>7, <1>9, <3>2, <4>1
    <3> QED
      BY <3>1, <3>2
  <2> QED
    BY <2>1, <2>2, <2>3
<1>14. Heap(g)
  <2>1. \A d \in DOMAIN g : d = c \/ \E i \in 1 .. n : d = s[i]
    BY <1>1, <1>2
  <2>2. g[c] \in [val : Addr, suiv : Pointer]
    <3>1. k < n => s[k + 1] \in Cell
      <4>1. k < n => k + 1 \in 1 .. n
        BY <1>1, <1>3
      <4> QED
        BY <1>1, <4>1
    <3> QED
      BY <1>2, <3>1 DEF Pointer
  <2>3. \A d \in DOMAIN g : g[d] \in [val : Addr, suiv : Pointer]
    BY <1>2, <2>1, <2>2
  <2>4. DOMAIN g \subseteq Cell
    BY <1>1, <2>1
  <2>5. g \in [DOMAIN g -> [val : Addr, suiv : Pointer]]
    <3>1. g = [d \in DOMAIN g |-> g[d]]
      BY <1>2
    <3> QED
      BY <2>3, <3>1
  <2> QED
    BY <2>4, <2>5 DEF Heap
<1>15. Whole(g, f, t)
  <2>1. \A d \in DOMAIN g : \E i \in 1 .. Len(t) : t[i] = d
    <3> SUFFICES ASSUME NEW d \in DOMAIN g PROVE \E i \in 1 .. n + 1 : t[i] = d
      BY <1>6
    <3>1. CASE d = c
      <4>1. k + 1 \in 1 .. n + 1
        BY <1>1, <1>3
      <4> QED
        BY <1>7, <3>1, <4>1
    <3>2. CASE d # c
      <4>1. PICK i \in 1 .. n : s[i] = d
        BY <1>1, <1>2, <3>2
      <4>2. n \in Nat /\ k \in 0 .. n
        BY <1>1, <1>3
      <4>3. i \in 1 .. n + 1 /\ i + 1 \in 1 .. n + 1 /\ (i <= k \/ k < i)
        BY <4>2
      <4> QED
        BY <1>7, <4>1, <4>3
    <3> QED
      BY <3>1, <3>2
  <2>2. f \in Pointer
    <3>1. 1 \in 1 .. n + 1
      BY <1>1
    <3> QED
      BY <1>5, <1>13, <3>1 DEF Pointer
  <2>3. Len(t) - 1 = n
    BY <1>1, <1>6
  <2>4. Listed(g, f, t)
    BY <1>6, <1>11, <1>12, <1>13, <2>3 DEF Listed
  <2> QED
    BY <1>14, <2>1, <2>2, <2>4 DEF Whole
<1>16. {g[d].val : d \in DOMAIN g} = {h[d].val : d \in DOMAIN h} \cup {e}
  <2>1. \A d \in DOMAIN h : g[d].val = h[d].val
    BY <1>1, <1>2
  <2>2. \A d \in DOMAIN g : d = c \/ d \in DOMAIN h
    BY <1>2
  <2>3. \A d \in DOMAIN h : d \in DOMAIN g
    BY <1>2
  <2> QED
    BY <1>9, <2>1, <2>2, <2>3
<1>17. ASSUME Sorted(h, s), \A d \in DOMAIN h : h[d].val # e PROVE Sorted(g, t)
  <2> SUFFICES ASSUME NEW i \in 1 .. n PROVE g[t[i]].val < g[t[i + 1]].val
    <3>1. Len(t) - 1 = n
      BY <1>1, <1>6
    <3> QED
      BY <3>1 DEF Sorted
  <2>1. \A j \in 1 .. n - 1 : h[s[j]].val < h[s[j + 1]].val
    BY <1>0, <1>17 DEF Sorted
  <2>2. \A j \in 1 .. n : h[s[j]].val \in Int /\ h[s[j]].val # e /\ g[s[j]].val = h[s[j]].val
    BY <1>1, <1>2, <1>4, <1>8, <1>17
  <2>3. e \in Int /\ i \in 1 .. n + 1
    BY <1>1, <1>8
  <2>4. CASE i < k
    <3>1. i <= k /\ i + 1 <= k /\ i \in 1 .. n - 1 /\ i + 1 \in 1 .. n /\ i + 1 \in 1 .. n + 1
      BY <1>1, <1>3, <2>4
    <3> QED
      BY <1>7, <2>1, <2>2, <2>3, <3>1
  <2>5. CASE i = k
    <3>1. i <= k /\ k # 0 /\ (i = 1 \/ i \in 2 .. k)
      BY <1>1, <1>3, <2>5
    <3>2. h[s[k]].val < e
      BY <1>3, <2>2, <2>3, <2>5, <3>1
    <3> QED
      BY <1>7, <1>9, <2>2, <2>3, <2>5, <3>1, <3>2
  <2>6. CASE i = k + 1
    <3>1. k < i /\ k < n
      BY <1>1, <1>3, <2>6
    <3>2. e < h[s[k + 1]].val
      <4>1. CASE k = 0
        <5>1. k + 1 = 1 /\ s # <<>>
          BY <1>0, <1>1, <3>1, <4>1
        <5> QED
          BY <1>3, <4>1, <5>1
      <4>2. CASE k # 0
        BY <1>3, <2>2, <2>3, <2>6, <3>1, <4>2
      <4> QED
        BY <4>1, <4>2
    <3> QED
      BY <1>7, <1>9, <2>2, <2>6, <3>1, <3>2
  <2>7. CASE k + 1 < i
    <3>1. k < i /\ i - 1 \in 1 .. n /\ i - 1 \in 1 .. n - 1 /\ k < i - 1 /\ (i - 1) + 1 = i
      BY <1>1, <1>3, <2>7
    <3>2. t[i] = s[i - 1] /\ t[i + 1] = s[i]
      BY <1>7, <3>1
    <3>3. h[s[i - 1]].val < h[s[i]].val
      BY <2>1, <3>1
    <3> QED
      BY <2>2, <3>1, <3>2, <3>3
  <2> QED
    BY <1>1, <1>3, <2>4, <2>5, <2>6, <2>7
<1> QED
  BY <1>2, <1>13, <1>15, <1>16, <1>17 DEF Grew

-----------------------------------------------------------------------------
(* What del leaves of a sorted list. *)

LEMMA SortedOrder ==
  ASSUME NEW h, NEW p, NEW s, Whole(h, p, s), Sorted(h, s)
  PROVE  \A i, j \in 1 .. Len(s) : i < j => h[s[i]].val < h[s[j]].val
<1> DEFINE Wrong(i, j) == i < j /\ ~(h[s[i]].val < h[s[j]].val)
           T == {j \in 1 .. Len(s) : \E i \in 1 .. Len(s) : Wrong(i, j)}
<1>1. s \in Seq(Cell) /\ Len(s) \in Nat
  BY WholeEnds
<1>2. \A i \in 1 .. Len(s) : h[s[i]].val \in Int
  <2>1. \A i \in 1 .. Len(s) : s[i] \in DOMAIN h
    BY DEF Whole, Listed
  <2>2. h \in [DOMAIN h -> [val : Addr, suiv : Pointer]] /\ Addr \subseteq Int
    BY BreakListAssumption DEF Whole, Heap
  <2> QED
    BY <2>1, <2>2
<1>3. SUFFICES ASSUME T # {} PROVE FALSE
  OBVIOUS
<1>4. T \subseteq Nat
  BY <1>1
<1>5. PICK j \in T : \A m \in T : j <= m
  BY <1>3, <1>4, Least
<1>6. PICK i \in 1 .. Len(s) : i < j /\ ~(h[s[i]].val < h[s[j]].val)
  BY <1>5
<1>7. /\ j - 1 \in 1 .. Len(s) - 1 /\ j - 1 \in 1 .. Len(s) /\ (j - 1) + 1 = j
      /\ ~(j <= j - 1) /\ (i = j - 1 \/ i < j - 1)
  BY <1>1, <1>5, <1>6
<1>8. h[s[j - 1]].val < h[s[j]].val
  BY <1>7 DEF Sorted
<1>9. i # j - 1
  BY <1>6, <1>8
<1>10. ~Wrong(i, j - 1)
  BY <1>5, <1>7
<1>11. h[s[i]].val < h[s[j - 1]].val
  BY <1>7, <1>9, <1>10
<1> QED
  BY <1>2, <1>5, <1>6, <1>7, <1>8, <1>11

Skips(f, h, gone) == f = [q \in Pointer |-> IF q \in gone THEN f[h[q].suiv] ELSE q]
After(h, gone) == CHOOSE f : Skips(f, h, gone)

LEMMA DelUnfolds ==
  ASSUME NEW h, NEW p, NEW e, NEW gone, gone = {c \in DOMAIN h : h[c].val = e}
  PROVE  del(h, p, e) =
           [heap |-> [d \in DOMAIN h \ gone |-> [h[d] EXCEPT !.suiv = After(h, gone)[@]]],
            first |-> After(h, gone)[p]]
<1> DEFINE G == {c \in DOMAIN h : h[c].val = e}
<1>1. del(h, p, e) =
        [heap |-> [d \in DOMAIN h \ G |-> [h[d] EXCEPT !.suiv = After(h, G)[@]]],
         first |-> After(h, G)[p]]
  BY Zenon DEF del, After, Skips
<1>2. G = gone
  OBVIOUS
<1> HIDE DEF G
<1> QED
  BY <1>1, <1>2

(* When no cell that goes points to one that goes, del skips one at a time. *)
Deleted(h, p, gone, g, f) ==
  /\ Heap(g) /\ DOMAIN g = DOMAIN h \ gone
  /\ \A d \in DOMAIN g : /\ g[d].val = h[d].val
                         /\ g[d].suiv = IF h[d].suiv \in gone THEN h[h[d].suiv].suiv ELSE h[d].suiv
  /\ f = IF p \in gone THEN h[p].suiv ELSE p

LEMMA DelCells ==
  ASSUME NEW h, Heap(h), NEW p \in Pointer, NEW e,
         NEW gone, gone = {c \in DOMAIN h : h[c].val = e},
         \A q \in gone : h[q].suiv \notin gone,
         NEW g, NEW f, del(h, p, e) = [heap |-> g, first |-> f]
  PROVE  Deleted(h, p, gone, g, f)
<1> DEFINE after == After(h, gone)
           w == [q \in Pointer |-> IF q \in gone THEN h[q].suiv ELSE q]
<1>1. /\ DOMAIN h \subseteq Pointer /\ gone \subseteq DOMAIN h /\ DOMAIN h \subseteq Cell
      /\ \A q \in DOMAIN h : h[q] \in [val : Addr, suiv : Pointer]
  BY DEF Heap, Pointer
<1>2. Skips(w, h, gone)
  <2>1. \A q \in Pointer : q \in gone => h[q].suiv \in Pointer /\ w[h[q].suiv] = h[q].suiv
    BY <1>1
  <2>2. w = [q \in Pointer |-> IF q \in gone THEN w[h[q].suiv] ELSE q]
    BY <2>1
  <2> HIDE DEF w
  <2> QED
    BY <2>2 DEF Skips
<1>3. Skips(after, h, gone)
  BY <1>2, Zenon DEF After
<1>4. \A q \in Pointer : after[q] = IF q \in gone THEN h[q].suiv ELSE q
  <2> HIDE DEF after
  <2>1. \A q \in Pointer : after[q] = IF q \in gone THEN after[h[q].suiv] ELSE q
    BY <1>3 DEF Skips
  <2>2. \A q \in gone : h[q].suiv \in Pointer
    BY <1>1
  <2> QED
    BY <2>1, <2>2
<1>5. [heap |-> g, first |-> f] =
        [heap |-> [d \in DOMAIN h \ gone |-> [h[d] EXCEPT !.suiv = after[@]]], first |-> after[p]]
  BY DelUnfolds
<1> HIDE DEF after, w
<1>6. g = [d \in DOMAIN h \ gone |-> [h[d] EXCEPT !.suiv = after[@]]] /\ f = after[p]
  BY <1>5
<1>7. DOMAIN g = DOMAIN h \ gone /\ g = [d \in DOMAIN g |-> g[d]]
  BY <1>6
<1>8. \A d \in DOMAIN g : /\ g[d] \in [val : Addr, suiv : Pointer] /\ g[d].val = h[d].val
                          /\ g[d].suiv = after[h[d].suiv] /\ h[d].suiv \in Pointer
  <2> SUFFICES ASSUME NEW d \in DOMAIN g
               PROVE  /\ g[d] \in [val : Addr, suiv : Pointer] /\ g[d].val = h[d].val
                      /\ g[d].suiv = after[h[d].suiv] /\ h[d].suiv \in Pointer
    OBVIOUS
  <2>1. g[d] = [h[d] EXCEPT !.suiv = after[h[d].suiv]] /\ h[d] \in [val : Addr, suiv : Pointer]
    BY <1>1, <1>6, <1>7
  <2>2. after[h[d].suiv] \in Pointer
    BY <1>1, <1>4, <2>1
  <2> QED
    BY <2>1, <2>2
<1>9. Heap(g)
  <2>1. g \in [DOMAIN g -> [val : Addr, suiv : Pointer]]
    BY <1>7, <1>8
  <2> QED
    BY <1>1, <1>7, <2>1 DEF Heap
<1> QED
  BY <1>4, <1>6, <1>7, <1>8, <1>9 DEF Deleted

LEMMA DelWhole ==
  ASSUME NEW h, NEW p, NEW s, Whole(h, p, s), Sorted(h, s), NEW e,
         NEW g, NEW f, del(h, p, e) = [heap |-> g, first |-> f]
  PROVE  /\ {g[d].val : d \in DOMAIN g} = {h[d].val : d \in DOMAIN h} \ {e}
         /\ \E t : Whole(g, f, t) /\ Sorted(g, t)
<1>0. PICK n, gone : n = Len(s) /\ gone = {c \in DOMAIN h : h[c].val = e}
  OBVIOUS
<1>1. /\ Heap(h) /\ p \in Pointer /\ s \in Seq(Cell) /\ n \in Nat /\ Nil \notin DOMAIN h
      /\ \A i \in 1 .. n : s[i] \in DOMAIN h /\ s[i] \in Cell
      /\ \A d \in DOMAIN h : \E i \in 1 .. n : s[i] = d
  <2>1. Heap(h) /\ p \in Pointer /\ s \in Seq(Cell) /\ n \in Nat
    BY <1>0 DEF Whole, Listed
  <2>2. /\ \A i \in 1 .. n : s[i] \in DOMAIN h
        /\ \A d \in DOMAIN h : \E i \in 1 .. n : s[i] = d
    BY <1>0 DEF Whole, Listed
  <2>3. DOMAIN h \subseteq Cell /\ Nil \notin DOMAIN h
    BY <2>1, NilIsNone DEF Heap
  <2> QED
    BY <2>1, <2>2, <2>3
<1>2. /\ \A i \in 1 .. n - 1 : h[s[i]].suiv = s[i + 1]
      /\ n # 0 => p = s[1] /\ h[s[n]].suiv = Nil
      /\ n = 0 => p \notin DOMAIN h
  <2>1. n = 0 <=> s = <<>>
    BY <1>0, <1>1, EmptySeq
  <2> QED
    BY <1>0, <2>1 DEF Whole, Listed
<1>3. \A i, j \in 1 .. n : i < j => h[s[i]].val < h[s[j]].val
  BY <1>0, SortedOrder
<1>4. \A i \in 1 .. n : h[s[i]].val \in Int
  <2>1. h \in [DOMAIN h -> [val : Addr, suiv : Pointer]] /\ Addr \subseteq Int
    BY <1>1, BreakListAssumption DEF Heap
  <2> QED
    BY <1>1, <2>1
<1>5. \A i, j \in 1 .. n : h[s[i]].val = h[s[j]].val => i = j
  <2> SUFFICES ASSUME NEW i \in 1 .. n, NEW j \in 1 .. n, h[s[i]].val = h[s[j]].val PROVE i = j
    OBVIOUS
  <2>1. i < j \/ j < i \/ i = j
    BY <1>1
  <2> QED
    BY <1>3, <1>4, <2>1
<1>6. \A q \in gone : h[q].suiv \notin gone
  <2> SUFFICES ASSUME NEW q \in gone, h[q].suiv \in gone PROVE FALSE
    OBVIOUS
  <2>1. q \in DOMAIN h /\ h[q].suiv \in DOMAIN h /\ h[q].val = e /\ h[h[q].suiv].val = e
    BY <1>0
  <2>2. PICK i \in 1 .. n : s[i] = q
    BY <1>1, <2>1
  <2>3. PICK j \in 1 .. n : s[j] = h[q].suiv
    BY <1>1, <2>1
  <2>4. i = j
    BY <1>5, <2>1, <2>2, <2>3
  <2>5. i # n
    BY <1>1, <1>2, <2>1, <2>2
  <2>6. i \in 1 .. n - 1 /\ i + 1 \in 1 .. n /\ i # i + 1
    BY <1>1, <2>5
  <2>7. s[i + 1] = s[i]
    BY <1>2, <2>2, <2>3, <2>4, <2>6
  <2> QED
    BY <1>5, <2>6, <2>7
<1>7. /\ Heap(g) /\ DOMAIN g = DOMAIN h \ gone
      /\ \A d \in DOMAIN g : /\ g[d].val = h[d].val
                             /\ g[d].suiv = IF h[d].suiv \in gone THEN h[h[d].suiv].suiv ELSE h[d].suiv
      /\ f = IF p \in gone THEN h[p].suiv ELSE p
  <2>1. Deleted(h, p, gone, g, f)
    BY <1>0, <1>1, <1>6, DelCells
  <2> QED
    BY <2>1 DEF Deleted
<1>8. {g[d].val : d \in DOMAIN g} = {h[d].val : d \in DOMAIN h} \ {e}
  <2>1. \A d \in DOMAIN g : d \in DOMAIN h /\ g[d].val = h[d].val /\ h[d].val # e
    BY <1>0, <1>7
  <2>2. \A d \in DOMAIN h : h[d].val # e => d \in DOMAIN g
    BY <1>0, <1>7
  <2> QED
    BY <2>1, <2>2
<1>9. ASSUME NEW m \in Nat, NEW t \in [1 .. m -> Cell],
             \A i \in 1 .. m : t[i] \in DOMAIN g,
             \A i \in 1 .. m - 1 : g[t[i]].suiv = t[i + 1],
             m # 0 => f = t[1] /\ g[t[m]].suiv = Nil,
             m = 0 => f \in Pointer /\ f \notin DOMAIN g,
             \A d \in DOMAIN g : \E i \in 1 .. m : t[i] = d,
             \A i \in 1 .. m - 1 : h[t[i]].val < h[t[i + 1]].val
      PROVE  \E u : Whole(g, f, u) /\ Sorted(g, u)
  <2>1. t \in Seq(Cell) /\ Len(t) = m /\ (m = 0 <=> t = <<>>)
    BY <1>9, MakeSeq, EmptySeq
  <2>2. Listed(g, f, t)
    BY <1>9, <2>1 DEF Listed
  <2>3. f \in Pointer
    <3>1. m # 0 => 1 \in 1 .. m
      OBVIOUS
    <3> QED
      BY <1>9, <3>1 DEF Pointer
  <2>4. Whole(g, f, t)
    BY <1>7, <1>9, <2>1, <2>2, <2>3 DEF Whole
  <2>5. \A i \in 1 .. m - 1 : i \in 1 .. m /\ i + 1 \in 1 .. m
    OBVIOUS
  <2>6. Sorted(g, t)
    BY <1>7, <1>9, <2>1, <2>5 DEF Sorted
  <2> QED
    BY <2>4, <2>6
<1>10. ASSUME gone = {} PROVE \E u : Whole(g, f, u) /\ Sorted(g, u)
  <2>1. DOMAIN g = DOMAIN h /\ f = p /\ \A d \in DOMAIN g : g[d].suiv = h[d].suiv
    BY <1>7, <1>10
  <2>2. s \in [1 .. n -> Cell]
    BY <1>0, <1>1
  <2>3. \A i \in 1 .. n - 1 : i \in 1 .. n /\ i + 1 \in 1 .. n /\ i < i + 1
    BY <1>1
  <2>4. n # 0 => n \in 1 .. n
    BY <1>1
  <2>5. \A i \in 1 .. n - 1 : g[s[i]].suiv = s[i + 1] /\ h[s[i]].val < h[s[i + 1]].val
    BY <1>1, <1>2, <1>3, <2>1, <2>3
  <2>6. n # 0 => f = s[1] /\ g[s[n]].suiv = Nil
    BY <1>1, <1>2, <2>1, <2>4
  <2>7. /\ \A i \in 1 .. n : s[i] \in DOMAIN g
        /\ \A d \in DOMAIN g : \E i \in 1 .. n : s[i] = d
        /\ n = 0 => f \in Pointer /\ f \notin DOMAIN g
    BY <1>1, <1>2, <2>1
  <2>8. n \in Nat
    BY <1>1
  <2> QED
    BY <1>9, <2>2, <2>5, <2>6, <2>7, <2>8
<1>11. ASSUME gone # {} PROVE \E u : Whole(g, f, u) /\ Sorted(g, u)
  <2>1. PICK k \in 1 .. n : s[k] \in gone
    BY <1>0, <1>1, <1>11
  <2>2. /\ \A i \in 1 .. n : s[i] \in gone => i = k
        /\ gone = {s[k]} /\ Nil \notin gone
    <3>1. \A d \in gone : d \in DOMAIN h /\ h[d].val = e
      BY <1>0
    <3>2. \A i \in 1 .. n : s[i] \in gone => i = k
      BY <1>5, <2>1, <3>1
    <3>3. \A d \in gone : d = s[k]
      BY <1>1, <3>1, <3>2
    <3>4. gone = {s[k]}
      BY <2>1, <3>3
    <3>5. Nil \notin gone
      BY <1>1, <3>1
    <3> QED
      BY <3>2, <3>4, <3>5
  <2>3. PICK m \in Nat : m = n - 1
    BY <1>1, <2>1
  <2> DEFINE t == [i \in 1 .. m |-> IF i < k THEN s[i] ELSE s[i + 1]]
  <2>4. /\ n \in Nat /\ k \in Nat /\ n = m + 1
        /\ \A i \in 1 .. m : i \in 1 .. n /\ i + 1 \in 1 .. n /\ i \in 1 .. n - 1 /\ (i < k => i # k)
                             /\ (~(i < k) => i + 1 # k) /\ (i + 1) \in Nat
        /\ \A i \in 1 .. m - 1 : i \in 1 .. m /\ i + 1 \in 1 .. m /\ (i + 1) + 1 \in 1 .. n
                                 /\ i < i + 1 /\ i < (i + 1) + 1 /\ i + 1 < (i + 1) + 1 /\ i + 1 \in 1 .. n - 1
    BY <1>1, <2>1, <2>3
  <2>5. /\ \A i \in 1 .. m : i < k => t[i] = s[i]
        /\ \A i \in 1 .. m : ~(i < k) => t[i] = s[i + 1]
    OBVIOUS
  <2>6. t \in [1 .. m -> Cell]
    BY <1>1, <2>4
  <2> HIDE DEF t
  <2>7. \A i \in 1 .. n : i # k => s[i] \in DOMAIN g /\ s[i] \notin gone
    BY <1>1, <1>7, <2>2
  <2>8. \A i \in 1 .. m : t[i] \in DOMAIN g
    BY <2>4, <2>5, <2>7
  <2>9. ASSUME NEW i \in 1 .. m - 1
        PROVE  g[t[i]].suiv = t[i + 1] /\ h[t[i]].val < h[t[i + 1]].val
    <3>1. /\ i \in 1 .. m /\ i + 1 \in 1 .. m /\ i \in 1 .. n /\ i + 1 \in 1 .. n /\ (i + 1) + 1 \in 1 .. n
          /\ i < i + 1 /\ i < (i + 1) + 1 /\ i + 1 < (i + 1) + 1
          /\ i \in 1 .. n - 1 /\ i + 1 \in 1 .. n - 1
      BY <2>4
    <3>2. h[s[i]].suiv = s[i + 1] /\ h[s[i + 1]].suiv = s[(i + 1) + 1]
      BY <1>2, <3>1
    <3>3. CASE i + 1 < k
      <4>1. i < k /\ i # k /\ i + 1 # k
        BY <2>4, <3>1, <3>3
      <4>2. t[i] = s[i] /\ t[i + 1] = s[i + 1] /\ s[i] \in DOMAIN g /\ s[i + 1] \notin gone
        BY <2>5, <2>7, <3>1, <3>3, <4>1
      <4> QED
        BY <1>3, <1>7, <3>1, <3>2, <4>2
    <3>4. CASE i + 1 = k
      <4>1. i < k /\ i # k /\ ~(i + 1 < k)
        BY <2>4, <3>1, <3>4
      <4>2. t[i] = s[i] /\ t[i + 1] = s[(i + 1) + 1] /\ s[i] \in DOMAIN g /\ s[i + 1] \in gone
        BY <2>1, <2>5, <2>7, <3>1, <3>4, <4>1
      <4> QED
        BY <1>3, <1>7, <3>1, <3>2, <4>2
    <3>5. CASE k < i + 1
      <4>1. ~(i < k) /\ ~(i + 1 < k) /\ i + 1 # k /\ (i + 1) + 1 # k
        BY <2>4, <3>1, <3>5
      <4>2. /\ t[i] = s[i + 1] /\ t[i + 1] = s[(i + 1) + 1]
            /\ s[i + 1] \in DOMAIN g /\ s[(i + 1) + 1] \notin gone
        BY <2>5, <2>7, <3>1, <4>1
      <4> QED
        BY <1>3, <1>7, <3>1, <3>2, <4>2
    <3>6. i + 1 < k \/ i + 1 = k \/ k < i + 1
      BY <2>4, <3>1
    <3> QED
      BY <3>3, <3>4, <3>5, <3>6
  <2>10. ASSUME m # 0 PROVE f = t[1] /\ g[t[m]].suiv = Nil
    <3>1. 1 \in 1 .. m /\ m \in 1 .. m /\ n # 0 /\ 1 + 1 = 2
      BY <2>4, <2>10
    <3>2. f = t[1]
      <4>1. CASE k = 1
        <5>1. t[1] = s[2] /\ p \in gone /\ h[p].suiv = s[2]
          <6>1. ~(1 < k) /\ 1 \in 1 .. n - 1
            BY <2>4, <3>1, <4>1
          <6> QED
            BY <1>2, <2>1, <2>5, <3>1, <4>1, <6>1
        <5> QED
          BY <1>7, <5>1
      <4>2. CASE k # 1
        <5>1. 1 < k /\ 1 \in 1 .. n
          BY <2>1, <2>4, <4>2
        <5>2. t[1] = s[1] /\ p = s[1] /\ s[1] \notin gone
          BY <1>2, <2>5, <2>7, <3>1, <4>2, <5>1
        <5> QED
          BY <1>7, <5>2
      <4> QED
        BY <4>1, <4>2
    <3>3. g[t[m]].suiv = Nil
      <4>1. CASE k = n
        <5>1. m < k /\ m # k /\ m \in 1 .. n /\ m \in 1 .. n - 1 /\ m + 1 = n
          BY <2>4, <3>1, <4>1
        <5>2. t[m] = s[m] /\ s[m] \in DOMAIN g /\ h[s[m]].suiv = s[n] /\ s[n] \in gone /\ h[s[n]].suiv = Nil
          BY <1>2, <2>1, <2>5, <2>7, <3>1, <4>1, <5>1
        <5> QED
          BY <1>7, <5>2
      <4>2. CASE k # n
        <5>1. ~(m < k) /\ m + 1 = n /\ n \in 1 .. n
          BY <2>1, <2>4, <4>2
        <5>2. t[m] = s[n] /\ s[n] \in DOMAIN g /\ h[s[n]].suiv = Nil
          BY <1>2, <2>5, <2>7, <3>1, <4>2, <5>1
        <5> QED
          BY <1>7, <2>2, <5>2
      <4> QED
        BY <4>1, <4>2
    <3> QED
      BY <3>2, <3>3
  <2>11. ASSUME m = 0 PROVE f \in Pointer /\ f \notin DOMAIN g
    <3>1. n = 1 /\ k = 1 /\ n # 0
      BY <2>1, <2>4, <2>11
    <3>2. f = Nil
      BY <1>2, <1>7, <2>1, <3>1
    <3> QED
      BY <1>1, <1>7, <3>2 DEF Pointer
  <2>12. ASSUME NEW d \in DOMAIN g PROVE \E i \in 1 .. m : t[i] = d
    <3>1. PICK i \in 1 .. n : s[i] = d
      BY <1>1, <1>7
    <3>2. i # k
      BY <1>7, <2>1, <3>1
    <3>3. (i < k /\ i \in 1 .. m) \/ (~(i - 1 < k) /\ i - 1 \in 1 .. m /\ (i - 1) + 1 = i)
      BY <2>1, <2>4, <3>2
    <3> QED
      BY <2>5, <3>1, <3>3
  <2> QED
    BY <1>9, <2>6, <2>8, <2>9, <2>10, <2>11, <2>12
<1> QED
  BY <1>8, <1>10, <1>11

-----------------------------------------------------------------------------
(* The list of breakpoints, one command after the other. *)

Good == \E s : Whole(heap, breaklist, s) /\ Sorted(heap, s)

LEMMA EmptyHeap == Whole(<<>>, Nil, <<>>) /\ Sorted(<<>>, <<>>)
<1>1. DOMAIN <<>> = {} /\ <<>> \in Seq(Cell) /\ Len(<<>>) = 0 /\ 1 .. 0 = {} /\ 1 .. 0 - 1 = {}
  OBVIOUS
<1>2. <<>> = [d \in DOMAIN <<>> |-> <<>>[d]]
  OBVIOUS
<1>3. Heap(<<>>)
  BY <1>1, <1>2 DEF Heap
<1>4. Listed(<<>>, Nil, <<>>)
  BY <1>1 DEF Listed
<1> QED
  BY <1>1, <1>3, <1>4 DEF Whole, Sorted, Pointer

LEMMA InsertForm ==
  ASSUME NEW h, NEW p, NEW e, NEW c
  PROVE  \E g, f : insert(h, p, e, c) = [heap |-> g, first |-> f]
BY DEF insert

LEMMA DelForm ==
  ASSUME NEW h, NEW p, NEW e PROVE \E g, f : del(h, p, e) = [heap |-> g, first |-> f]
BY Zenon DEF del

LEMMA Parts == \A x, y : [heap |-> x, first |-> y].heap = x /\ [heap |-> x, first |-> y].first = y
OBVIOUS

LEMMA GoodHeld == ASSUME Good PROVE Held(heap, breaklist) = {heap[c].val : c \in DOMAIN heap}
BY HeldIs DEF Good

LEMMA AddRight ==
  ASSUME Good, NEW a \in Addr, BreakAdd(a)
  PROVE  Good' /\ Held(heap, breaklist)' = Held(heap, breaklist) \cup {a}
<1>1. PICK s : Whole(heap, breaklist, s) /\ Sorted(heap, s)
  BY DEF Good
<1>2. PICK c \in FreeCells : /\ heap' = insert(heap, breaklist, a, c).heap
                             /\ breaklist' = insert(heap, breaklist, a, c).first
  BY DEF BreakAdd
<1>3. PICK g, f : insert(heap, breaklist, a, c) = [heap |-> g, first |-> f]
  BY InsertForm
<1>4. heap' = g /\ breaklist' = f
  BY <1>2, <1>3, Parts
<1>5. s = <<>> => breaklist = Nil
  BY <1>1 DEF BreakAdd, Intact, Whole, Listed
<1>6. Held(heap, breaklist) = {heap[d].val : d \in DOMAIN heap}
  BY <1>1, HeldIs
<1>7. \A d \in DOMAIN heap : heap[d].val # a
  BY <1>6 DEF BreakAdd, present
<1>8. c \in Cell \ DOMAIN heap
  BY DEF FreeCells
<1>9. /\ {g[d].val : d \in DOMAIN g} = {heap[d].val : d \in DOMAIN heap} \cup {a}
      /\ \E t : /\ Whole(g, f, t) /\ t # <<>>
                /\ Sorted(heap, s) /\ (\A d \in DOMAIN heap : heap[d].val # a) => Sorted(g, t)
  <2>1. Grew(heap, s, a, c, g, f)
    BY <1>1, <1>3, <1>5, <1>8, InsertWhole
  <2> QED
    BY <2>1 DEF Grew
<1>10. PICK t : Whole(g, f, t) /\ Sorted(g, t)
  BY <1>1, <1>7, <1>9
<1>11. Held(g, f) = {g[d].val : d \in DOMAIN g}
  BY <1>10, HeldIs
<1>12. Held(heap, breaklist)' = Held(g, f)
  BY <1>4
<1>13. Good'
  BY <1>4, <1>10 DEF Good
<1> QED
  BY <1>6, <1>9, <1>11, <1>12, <1>13

LEMMA DelRight ==
  ASSUME Good, NEW a \in Addr, BreakDel(a)
  PROVE  Good' /\ Held(heap, breaklist)' = Held(heap, breaklist) \ {a}
<1>1. PICK s : Whole(heap, breaklist, s) /\ Sorted(heap, s)
  BY DEF Good
<1>2. heap' = del(heap, breaklist, a).heap /\ breaklist' = del(heap, breaklist, a).first
  BY DEF BreakDel
<1>3. PICK g, f : del(heap, breaklist, a) = [heap |-> g, first |-> f]
  BY DelForm
<1>4. heap' = g /\ breaklist' = f
  BY <1>2, <1>3, Parts
<1>5. Held(heap, breaklist) = {heap[d].val : d \in DOMAIN heap}
  BY <1>1, HeldIs
<1>6. /\ {g[d].val : d \in DOMAIN g} = {heap[d].val : d \in DOMAIN heap} \ {a}
      /\ \E t : Whole(g, f, t) /\ Sorted(g, t)
  BY <1>1, <1>3, DelWhole
<1>7. PICK t : Whole(g, f, t) /\ Sorted(g, t)
  BY <1>6
<1>8. Held(g, f) = {g[d].val : d \in DOMAIN g}
  BY <1>7, HeldIs
<1>9. Held(heap, breaklist)' = Held(g, f)
  BY <1>4
<1>10. Good'
  BY <1>4, <1>7 DEF Good
<1> QED
  BY <1>5, <1>6, <1>8, <1>9, <1>10

LEMMA DelAllRight ==
  ASSUME Good, BreakDelAll
  PROVE  Good' /\ Held(heap, breaklist)' = {}
<1>1. PICK s : Whole(heap, breaklist, s) /\ Sorted(heap, s)
  BY DEF Good
<1>2. Chain(heap, breaklist) = s /\ s \in Seq(Cell)
  BY <1>1, WholeEnds
<1>3. \A d \in DOMAIN heap : d \in {s[i] : i \in DOMAIN s}
  BY <1>1, <1>2 DEF Whole
<1>4. heap' = [d \in DOMAIN heap \ {s[i] : i \in DOMAIN s} |-> heap[d]] /\ breaklist' = breaklist
  BY <1>2 DEF BreakDelAll
<1>5. DOMAIN heap \ {s[i] : i \in DOMAIN s} = {}
  BY <1>3
<1>6. DOMAIN heap' = {} /\ heap' = [d \in DOMAIN heap' |-> heap'[d]]
  BY <1>4, <1>5
<1>7. Whole(heap', breaklist', <<>>) /\ Sorted(heap', <<>>)
  <2>1. <<>> \in Seq(Cell) /\ Len(<<>>) = 0 /\ 1 .. 0 = {} /\ 1 .. 0 - 1 = {}
    OBVIOUS
  <2>2. Heap(heap')
    BY <1>6 DEF Heap
  <2>3. Listed(heap', breaklist', <<>>)
    BY <1>6, <2>1 DEF Listed
  <2>4. breaklist' \in Pointer
    BY <1>1, <1>4 DEF Whole
  <2> QED
    BY <1>6, <2>1, <2>2, <2>3, <2>4 DEF Whole, Sorted
<1>8. Held(heap', breaklist') = {heap'[d].val : d \in DOMAIN heap'}
  BY <1>7, HeldIs
<1>9. Good'
  BY <1>7 DEF Good
<1> QED
  BY <1>6, <1>8, <1>9

LEMMA GoodInit == Lists_Init => Good
BY EmptyHeap DEF Lists_Init, Good

LEMMA GoodStep == Good /\ [Lists_Next]_lvars => Good'
<1> SUFFICES ASSUME Good, [Lists_Next]_lvars PROVE Good'
  OBVIOUS
<1>1. ASSUME NEW a \in Addr, BreakAdd(a) PROVE Good'
  BY <1>1, AddRight
<1>2. ASSUME NEW a \in Addr, BreakDel(a) PROVE Good'
  BY <1>2, DelRight
<1>3. ASSUME BreakDelAll PROVE Good'
  BY <1>3, DelAllRight
<1>4. ASSUME UNCHANGED <<heap, breaklist>> PROVE Good'
  BY <1>4 DEF Good
<1>5. ASSUME NEW a \in Addr, BreakTest(a) PROVE Good'
  BY <1>4, <1>5 DEF BreakTest
<1>6. ASSUME NEW w, NEW r, StallTest(w, r) PROVE Good'
  BY <1>4, <1>6 DEF StallTest
<1>7. ASSUME UNCHANGED lvars PROVE Good'
  BY <1>4, <1>7 DEF lvars
<1> QED
  BY <1>1, <1>2, <1>3, <1>5, <1>6, <1>7 DEF Lists_Next

(* Whatever the order of the commands and the cells calloc returns, the list  *)
(* of breakpoints is sorted without repetition and holds every allocated cell *)
(* (liste.c:34-76).                                                          *)
THEOREM ListsSorted == Lists_Spec => []SortedNoLeak
<1>1. Good => SortedNoLeak
  <2> SUFFICES ASSUME NEW s, Whole(heap, breaklist, s), Sorted(heap, s) PROVE SortedNoLeak
    BY DEF Good
  <2>1. /\ Chain(heap, breaklist) = s /\ s \in Seq(Cell)
        /\ DOMAIN heap = {s[i] : i \in 1 .. Len(s)}
    BY WholeEnds
  <2>2. DOMAIN s = 1 .. Len(s)
    BY <2>1
  <2>3. /\ {s[i] : i \in DOMAIN s} = DOMAIN heap
        /\ \A i \in 1 .. Len(s) - 1 : heap[s[i]].val < heap[s[i + 1]].val
    BY <2>1, <2>2 DEF Sorted
  <2> QED
    BY <2>1, <2>3 DEF SortedNoLeak
<1> QED
  BY <1>1, GoodInit, GoodStep, PTL DEF Lists_Spec

-----------------------------------------------------------------------------
(* The lists of registers that a cycle builds. *)

Start == [heap |-> <<>>, first |-> Nil]

OneMore(b, e, cells) == insert(b.heap, b.first, e, CHOOSE c \in cells \ DOMAIN b.heap : TRUE)

Built(b, m, regs, cells) ==
  b = [n \in 0 .. m |-> IF n = 0 THEN Start ELSE OneMore(b[n - 1], regs[n], cells)]

LEMMA BuiltExists == ASSUME NEW regs, NEW cells PROVE \A m \in Nat : \E b : Built(b, m, regs, cells)
<1> DEFINE T == {m \in Nat : ~(\E b : Built(b, m, regs, cells))}
<1>1. SUFFICES ASSUME T # {} PROVE FALSE
  OBVIOUS
<1>2. T \subseteq Nat
  OBVIOUS
<1>3. PICK m \in T : \A j \in T : m <= j
  BY <1>1, <1>2, Least
<1>4. m # 0
  <2> DEFINE b == [n \in 0 .. 0 |-> Start]
  <2>1. \A n \in 0 .. 0 : n = 0
    OBVIOUS
  <2>2. b = [n \in 0 .. 0 |-> IF n = 0 THEN Start ELSE OneMore(b[n - 1], regs[n], cells)]
    BY <2>1
  <2> HIDE DEF b
  <2>3. Built(b, 0, regs, cells)
    BY <2>2 DEF Built
  <2> QED
    BY <1>3, <2>3
<1>5. m \in Nat /\ m - 1 \in Nat /\ ~(m <= m - 1)
  BY <1>3, <1>4
<1>6. PICK a : Built(a, m - 1, regs, cells)
  BY <1>3, <1>5
<1>7. PICK x : x = OneMore(a[m - 1], regs[m], cells)
  OBVIOUS
<1> DEFINE b == [n \in 0 .. m |-> IF n = m THEN x ELSE a[n]]
<1>8. /\ \A n \in 0 .. m : n # m => n \in 0 .. m - 1
      /\ \A n \in 0 .. m : n # 0 => n - 1 \in 0 .. m /\ n - 1 # m
      /\ \A n \in 0 .. m - 1 : n \in 0 .. m /\ n # m
  BY <1>5
<1>9. \A n \in 0 .. m - 1 : a[n] = IF n = 0 THEN Start ELSE OneMore(a[n - 1], regs[n], cells)
  BY <1>6 DEF Built
<1>10. ASSUME NEW n \in 0 .. m
       PROVE  b[n] = IF n = 0 THEN Start ELSE OneMore(b[n - 1], regs[n], cells)
  <2>1. n # 0 => b[n - 1] = a[n - 1]
    BY <1>8
  <2>2. b[n] = IF n = m THEN x ELSE a[n]
    OBVIOUS
  <2> HIDE DEF b
  <2>3. CASE n = m
    BY <1>4, <1>7, <2>1, <2>2, <2>3
  <2>4. CASE n # m
    <3>1. n \in 0 .. m - 1
      BY <1>8, <2>4
    <3> QED
      BY <1>9, <2>1, <2>2, <2>4, <3>1
  <2> QED
    BY <2>3, <2>4
<1>11. b = [n \in 0 .. m |-> b[n]]
  OBVIOUS
<1> HIDE DEF b
<1>12. b = [n \in 0 .. m |-> IF n = 0 THEN Start ELSE OneMore(b[n - 1], regs[n], cells)]
  BY <1>10, <1>11
<1>13. Built(b, m, regs, cells)
  BY <1>12 DEF Built
<1> QED
  BY <1>3, <1>13

LEMMA ListOfBuilt ==
  ASSUME NEW regs, NEW cells
  PROVE  ListOf(regs, cells) = (CHOOSE b : Built(b, Len(regs), regs, cells))[Len(regs)]
BY Zenon DEF ListOf, Built, OneMore, Start

(* A list made of n registers, in n cells of those given. *)
Made(x, n, regs, cells) ==
  /\ \E s : Whole(x.heap, x.first, s) /\ (s = <<>> => x.first = Nil)
  /\ DOMAIN x.heap \subseteq cells /\ Cardinality(DOMAIN x.heap) = n
  /\ {x.heap[d].val : d \in DOMAIN x.heap} = {regs[i] : i \in 1 .. n}

LEMMA MadeMore ==
  ASSUME NEW cells, cells \subseteq Cell, NEW n \in Nat, NEW regs, regs[n + 1] \in Addr,
         n < Cardinality(cells), NEW x, Made(x, n, regs, cells)
  PROVE  Made(OneMore(x, regs[n + 1], cells), n + 1, regs, cells)
<1> DEFINE h == x.heap
           p == x.first
           c == CHOOSE d \in cells \ DOMAIN h : TRUE
<1>1. PICK s : Whole(h, p, s) /\ (s = <<>> => p = Nil)
  BY DEF Made
<1>2. IsFiniteSet(cells) /\ IsFiniteSet(DOMAIN h) /\ DOMAIN h \subseteq cells /\ Cardinality(DOMAIN h) = n
  <2>1. IsFiniteSet(cells)
    BY BreakListAssumption, FS_Subset
  <2>2. DOMAIN h \subseteq cells /\ Cardinality(DOMAIN h) = n
    BY DEF Made
  <2> QED
    BY <2>1, <2>2, FS_Subset
<1>3. cells \ DOMAIN h # {}
  <2>1. SUFFICES ASSUME cells \subseteq DOMAIN h PROVE FALSE
    OBVIOUS
  <2>2. cells = DOMAIN h
    BY <1>2, <2>1
  <2> QED
    BY <1>2, <2>2
<1>4. c \in cells \ DOMAIN h
  BY <1>3, Zenon
<1>5. {h[d].val : d \in DOMAIN h} = {regs[i] : i \in 1 .. n}
  BY DEF Made
<1>6. OneMore(x, regs[n + 1], cells) = insert(h, p, regs[n + 1], c)
  BY Zenon DEF OneMore
<1> HIDE DEF h, p, c
<1>7. PICK g, f : insert(h, p, regs[n + 1], c) = [heap |-> g, first |-> f]
  BY InsertForm
<1>8. c \in Cell \ DOMAIN h
  BY <1>4
<1>9. Grew(h, s, regs[n + 1], c, g, f)
  BY <1>1, <1>7, <1>8, InsertWhole
<1>10. DOMAIN g = DOMAIN h \cup {c}
  BY <1>9 DEF Grew
<1>11. DOMAIN g \subseteq cells /\ Cardinality(DOMAIN g) = n + 1
  <2>1. Cardinality(DOMAIN h \cup {c}) = n + 1
    BY <1>2, <1>4, FS_AddElement
  <2> QED
    BY <1>2, <1>4, <1>10, <2>1
<1>12. \E t : Whole(g, f, t) /\ (t = <<>> => f = Nil)
  BY <1>9 DEF Grew
<1>13. {g[d].val : d \in DOMAIN g} = {regs[i] : i \in 1 .. n + 1}
  <2>1. {g[d].val : d \in DOMAIN g} = {h[d].val : d \in DOMAIN h} \cup {regs[n + 1]}
    BY <1>9 DEF Grew
  <2>2. {regs[i] : i \in 1 .. n + 1} = {regs[i] : i \in 1 .. n} \cup {regs[n + 1]}
    <3>1. \A i \in 1 .. n + 1 : i \in 1 .. n \/ i = n + 1
      OBVIOUS
    <3>2. n + 1 \in 1 .. n + 1 /\ \A i \in 1 .. n : i \in 1 .. n + 1
      OBVIOUS
    <3> QED
      BY <3>1, <3>2
  <2> QED
    BY <1>5, <2>1, <2>2
<1>14. PICK y : y = OneMore(x, regs[n + 1], cells)
  OBVIOUS
<1>15. y.heap = g /\ y.first = f
  BY <1>6, <1>7, <1>14, Parts
<1>16. Made(y, n + 1, regs, cells)
  BY <1>11, <1>12, <1>13, <1>15 DEF Made
<1> QED
  BY <1>14, <1>16

LEMMA ListOfMade ==
  ASSUME NEW cells, cells \subseteq Cell, NEW regs \in Seq(Addr), Len(regs) <= Cardinality(cells)
  PROVE  Made(ListOf(regs, cells), Len(regs), regs, cells)
<1>1. PICK m \in Nat : m = Len(regs)
  OBVIOUS
<1>2. \A i \in 1 .. m : regs[i] \in Addr
  BY <1>1
<1>3. PICK b : b = CHOOSE a : Built(a, m, regs, cells)
  BY Zenon
<1>4. Built(b, m, regs, cells)
  <2>1. \E a : Built(a, m, regs, cells)
    BY BuiltExists
  <2> QED
    BY <1>3, <2>1, Zenon
<1>5. ListOf(regs, cells) = b[m]
  BY <1>1, <1>3, ListOfBuilt, Zenon
<1>6. \A n \in 0 .. m : b[n] = IF n = 0 THEN Start ELSE OneMore(b[n - 1], regs[n], cells)
  BY <1>4 DEF Built
<1> DEFINE T == {n \in 0 .. m : ~Made(b[n], n, regs, cells)}
<1>7. T = {}
  <2>1. SUFFICES ASSUME T # {} PROVE FALSE
    OBVIOUS
  <2>2. T \subseteq Nat
    OBVIOUS
  <2>3. PICK n \in T : \A j \in T : n <= j
    BY <2>1, <2>2, Least
  <2>4. n # 0
    <3>1. Start.heap = <<>> /\ Start.first = Nil
      BY DEF Start
    <3>2. /\ DOMAIN <<>> = {} /\ Cardinality({}) = 0 /\ 1 .. 0 = {}
      BY FS_EmptySet
    <3>3. Made(Start, 0, regs, cells)
      BY <3>1, <3>2, EmptyHeap DEF Made
    <3>4. b[0] = Start
      BY <1>6
    <3> QED
      BY <2>3, <3>3, <3>4
  <2>5. /\ n - 1 \in Nat /\ n - 1 \in 0 .. m /\ ~(n <= n - 1) /\ (n - 1) + 1 = n
        /\ n \in 0 .. m /\ n \in 1 .. m
    BY <2>3, <2>4
  <2>6. Made(b[n - 1], n - 1, regs, cells)
    BY <2>3, <2>5
  <2>7. n - 1 < Cardinality(cells)
    <3>1. Cardinality(cells) \in Nat
      BY BreakListAssumption, FS_Subset, FS_CardinalityType
    <3> QED
      BY <1>1, <2>5, <3>1
  <2>8. PICK k \in Nat : k = n - 1 /\ k + 1 = n
    BY <2>5
  <2>9. Made(OneMore(b[k], regs[k + 1], cells), k + 1, regs, cells)
    <3>1. regs[k + 1] \in Addr /\ k < Cardinality(cells) /\ Made(b[k], k, regs, cells)
      BY <1>2, <2>5, <2>6, <2>7, <2>8
    <3> QED
      BY <3>1, MadeMore
  <2>10. b[n] = OneMore(b[k], regs[k + 1], cells)
    BY <1>6, <2>4, <2>5, <2>8
  <2> QED
    BY <2>3, <2>8, <2>9, <2>10
<1>8. Made(b[m], m, regs, cells)
  BY <1>7
<1> QED
  BY <1>1, <1>5, <1>8

-----------------------------------------------------------------------------
(* Two lists in one heap, each in cells of its own. *)

LEMMA ListedStays ==
  ASSUME NEW h, NEW p, NEW s, Whole(h, p, s), s = <<>> => p = Nil,
         NEW b, Heap(b), DOMAIN h \subseteq DOMAIN b, \A d \in DOMAIN h : b[d] = h[d]
  PROVE  Listed(b, p, s)
<1>1. Listed(h, p, s) /\ Nil \notin DOMAIN b /\ Len(s) \in Nat
  BY NilIsNone DEF Whole, Listed
<1>2. \A i \in 1 .. Len(s) : s[i] \in DOMAIN h /\ s[i] \in DOMAIN b
  BY <1>1 DEF Listed
<1>3. \A i \in 1 .. Len(s) - 1 : i \in 1 .. Len(s)
  BY <1>1
<1>4. \A i \in 1 .. Len(s) - 1 : b[s[i]].suiv = s[i + 1]
  BY <1>1, <1>2, <1>3 DEF Listed
<1>5. s # <<>> => b[s[Len(s)]].suiv = Nil
  <2>1. s # <<>> => Len(s) \in 1 .. Len(s)
    BY <1>1 DEF Listed
  <2> QED
    BY <1>1, <1>2, <2>1 DEF Listed
<1> QED
  BY <1>1, <1>2, <1>4, <1>5 DEF Listed

LEMMA HeldStays ==
  ASSUME NEW h, NEW p, NEW s, Whole(h, p, s), s = <<>> => p = Nil,
         NEW b, Heap(b), Ends(b), DOMAIN h \subseteq DOMAIN b, \A d \in DOMAIN h : b[d] = h[d]
  PROVE  Held(b, p) = {h[d].val : d \in DOMAIN h}
<1>1. Listed(b, p, s) /\ p \in Pointer
  BY ListedStays DEF Whole
<1>2. Chain(b, p) = s
  BY <1>1, ChainIs
<1>3. s \in Seq(Cell) /\ DOMAIN s = 1 .. Len(s)
  BY <1>1 DEF Listed
<1>4. \A i \in DOMAIN s : s[i] \in DOMAIN h /\ b[s[i]].val = h[s[i]].val
  BY <1>3 DEF Whole, Listed
<1>5. \A d \in DOMAIN h : \E i \in DOMAIN s : s[i] = d
  BY <1>3 DEF Whole
<1>6. Held(b, p) = {b[s[i]].val : i \in DOMAIN s}
  BY <1>2 DEF Held
<1> QED
  BY <1>4, <1>5, <1>6

Joined(g, h) == [c \in DOMAIN g \cup DOMAIN h |-> IF c \in DOMAIN g THEN g[c] ELSE h[c]]

LEMMA BothHeld ==
  ASSUME NEW g, NEW p, NEW s, Whole(g, p, s), s = <<>> => p = Nil,
         NEW h, NEW q, NEW t, Whole(h, q, t), t = <<>> => q = Nil,
         DOMAIN g \cap DOMAIN h = {}, NEW b, b = Joined(g, h)
  PROVE  /\ Held(b, p) = {g[d].val : d \in DOMAIN g}
         /\ Held(b, q) = {h[d].val : d \in DOMAIN h}
<1>1. /\ DOMAIN b = DOMAIN g \cup DOMAIN h /\ b = [d \in DOMAIN b |-> b[d]]
      /\ \A d \in DOMAIN g : b[d] = g[d]
      /\ \A d \in DOMAIN h : b[d] = h[d]
  BY DEF Joined
<1>2. Heap(b)
  <2>1. Heap(g) /\ Heap(h)
    BY DEF Whole
  <2>2. /\ \A d \in DOMAIN g : g[d] \in [val : Addr, suiv : Pointer]
        /\ \A d \in DOMAIN h : h[d] \in [val : Addr, suiv : Pointer]
        /\ DOMAIN g \subseteq Cell /\ DOMAIN h \subseteq Cell
    BY <2>1 DEF Heap
  <2>3. \A d \in DOMAIN b : b[d] \in [val : Addr, suiv : Pointer]
    BY <1>1, <2>2
  <2>4. b \in [DOMAIN b -> [val : Addr, suiv : Pointer]]
    BY <1>1, <2>3
  <2> QED
    BY <1>1, <2>2, <2>4 DEF Heap
<1>3. DOMAIN g \subseteq DOMAIN b /\ DOMAIN h \subseteq DOMAIN b
  BY <1>1
<1>4. Listed(b, p, s) /\ Listed(b, q, t)
  BY <1>1, <1>2, <1>3, ListedStays
<1>5. Ends(b)
  <2> SUFFICES ASSUME NEW d \in DOMAIN b PROVE \E u : Listed(b, d, u)
    BY DEF Ends
  <2>1. CASE d \in DOMAIN g
    <3>1. PICK i \in 1 .. Len(s) : s[i] = d
      BY <2>1 DEF Whole
    <3> QED
      BY <1>4, <3>1, Suffix
  <2>2. CASE d \in DOMAIN h
    <3>1. PICK i \in 1 .. Len(t) : t[i] = d
      BY <2>2 DEF Whole
    <3> QED
      BY <1>4, <3>1, Suffix
  <2> QED
    BY <1>1, <2>1, <2>2
<1>6. Held(b, p) = {g[d].val : d \in DOMAIN g}
  BY <1>1, <1>2, <1>3, <1>5, HeldStays
<1>7. Held(b, q) = {h[d].val : d \in DOMAIN h}
  BY <1>1, <1>2, <1>3, <1>5, HeldStays
<1> QED
  BY <1>6, <1>7

LEMMA StallRight ==
  ASSUME Good, NEW w \in Seq(Addr), NEW r \in Seq(Addr), StallTest(w, r)
  PROVE  /\ answer' = <<Registers(w), Registers(r), Registers(w) \cap Registers(r) # {}>>
         /\ UNCHANGED <<heap, breaklist>>
<1>1. FreeCells \subseteq Cell /\ IsFiniteSet(FreeCells) /\ Cardinality(FreeCells) \in Nat
  <2>1. FreeCells \subseteq Cell
    BY DEF FreeCells
  <2> QED
    BY <2>1, BreakListAssumption, FS_Subset, FS_CardinalityType
<1>2. Len(w) \in Nat /\ Len(r) \in Nat /\ Cardinality(FreeCells) >= Len(w) + Len(r)
  BY DEF StallTest
<1>3. PICK L1 : L1 = ListOf(w, FreeCells)
  OBVIOUS
<1>4. PICK L2 : L2 = ListOf(r, FreeCells \ DOMAIN L1.heap)
  OBVIOUS
<1>5. PICK both : both = [c \in DOMAIN L1.heap \cup DOMAIN L2.heap |->
                            IF c \in DOMAIN L1.heap THEN L1.heap[c] ELSE L2.heap[c]]
  OBVIOUS
<1>6. /\ answer' = <<Registers(w), Registers(r), overlap(both, L1.first, L2.first)>>
      /\ UNCHANGED <<heap, breaklist>>
  BY <1>3, <1>4, <1>5 DEF StallTest
<1>7. Made(L1, Len(w), w, FreeCells)
  <2>1. Len(w) <= Cardinality(FreeCells)
    BY <1>1, <1>2
  <2> QED
    BY <1>1, <1>3, <2>1, ListOfMade
<1>8. DOMAIN L1.heap \subseteq FreeCells /\ Cardinality(DOMAIN L1.heap) = Len(w)
  BY <1>7 DEF Made
<1> DEFINE rest == FreeCells \ DOMAIN L1.heap
<1>9. Made(L2, Len(r), r, rest)
  <2>1. Cardinality(rest) = Cardinality(FreeCells) - Cardinality(FreeCells \cap DOMAIN L1.heap)
    BY <1>1, FS_Difference
  <2>2. FreeCells \cap DOMAIN L1.heap = DOMAIN L1.heap
    BY <1>8
  <2>3. Cardinality(rest) = Cardinality(FreeCells) - Len(w)
    BY <1>8, <2>1, <2>2
  <2> HIDE DEF rest
  <2>4. Len(r) <= Cardinality(rest)
    BY <1>1, <1>2, <2>3
  <2>5. rest \subseteq Cell /\ L2 = ListOf(r, rest)
    BY <1>1, <1>4 DEF rest
  <2> QED
    BY <2>4, <2>5, ListOfMade
<1>10. DOMAIN L2.heap \subseteq rest
  BY <1>9 DEF Made
<1>11. PICK s : Whole(L1.heap, L1.first, s) /\ (s = <<>> => L1.first = Nil)
  BY <1>7 DEF Made
<1>12. PICK t : Whole(L2.heap, L2.first, t) /\ (t = <<>> => L2.first = Nil)
  BY <1>9 DEF Made
<1>13. DOMAIN L1.heap \cap DOMAIN L2.heap = {}
  BY <1>10
<1>14. /\ Held(both, L1.first) = {L1.heap[d].val : d \in DOMAIN L1.heap}
       /\ Held(both, L2.first) = {L2.heap[d].val : d \in DOMAIN L2.heap}
  <2>1. PICK g, p, h, q : g = L1.heap /\ p = L1.first /\ h = L2.heap /\ q = L2.first
    OBVIOUS
  <2>2. /\ Whole(g, p, s) /\ (s = <<>> => p = Nil)
        /\ Whole(h, q, t) /\ (t = <<>> => q = Nil) /\ DOMAIN g \cap DOMAIN h = {}
    BY <1>11, <1>12, <1>13, <2>1
  <2>3. both = Joined(g, h)
    BY <1>5, <2>1 DEF Joined
  <2>4. Held(both, p) = {g[d].val : d \in DOMAIN g}
    BY <2>2, <2>3, BothHeld
  <2>5. Held(both, q) = {h[d].val : d \in DOMAIN h}
    BY <2>2, <2>3, BothHeld
  <2> QED
    BY <2>1, <2>4, <2>5
<1>15. {w[i] : i \in 1 .. Len(w)} = Registers(w) /\ {r[i] : i \in 1 .. Len(r)} = Registers(r)
  <2>1. DOMAIN w = 1 .. Len(w) /\ DOMAIN r = 1 .. Len(r)
    OBVIOUS
  <2> QED
    BY <2>1 DEF Registers
<1>16. Held(both, L1.first) = Registers(w) /\ Held(both, L2.first) = Registers(r)
  BY <1>7, <1>9, <1>14, <1>15 DEF Made
<1>17. overlap(both, L1.first, L2.first) = (Registers(w) \cap Registers(r) # {})
  BY <1>16 DEF overlap, present
<1> QED
  BY <1>6, <1>17

(* Under every order of the commands and cycles, the lists behave as the sets *)
(* of what they hold: a command adds, removes or empties, the test of the     *)
(* breakpoints tells whether the address is in the set, and the test of a     *)
(* stall whether the two sets of registers meet (liste.c, fonctions.c:796-860,*)
(* pipeline.c's uses of both).                                                *)
THEOREM ListsAreSets == Lists_Spec => ImplementsSet
<1>1. Lists_Init => Set!Init
  <2> SUFFICES ASSUME Lists_Init PROVE Set!Init
    OBVIOUS
  <2>1. Good /\ DOMAIN heap = {}
    BY GoodInit DEF Lists_Init
  <2>2. Held(heap, breaklist) = {}
    BY <2>1, GoodHeld
  <2> QED
    BY <2>2 DEF Lists_Init, Set!Init
<1>2. Good /\ [Lists_Next]_lvars => [Set!Next]_(<<Held(heap, breaklist), answer>>)
  <2> SUFFICES ASSUME Good, [Lists_Next]_lvars PROVE [Set!Next]_(<<Held(heap, breaklist), answer>>)
    OBVIOUS
  <2>1. UNCHANGED <<heap, breaklist>> => Held(heap, breaklist)' = Held(heap, breaklist)
    OBVIOUS
  <2>2. ASSUME NEW a \in Addr, BreakAdd(a) PROVE Set!Next
    <3>1. Held(heap, breaklist)' = Held(heap, breaklist) \cup {a} /\ UNCHANGED answer
      BY <2>2, AddRight DEF BreakAdd
    <3> QED
      BY <3>1 DEF Set!Next, Set!Add
  <2>3. ASSUME NEW a \in Addr, BreakDel(a) PROVE Set!Next
    <3>1. Held(heap, breaklist)' = Held(heap, breaklist) \ {a} /\ UNCHANGED answer
      BY <2>3, DelRight DEF BreakDel
    <3> QED
      BY <3>1 DEF Set!Next, Set!Del
  <2>4. ASSUME BreakDelAll PROVE Set!Next
    <3>1. Held(heap, breaklist)' = {} /\ UNCHANGED answer
      BY <2>4, DelAllRight DEF BreakDelAll
    <3> QED
      BY <3>1 DEF Set!Next, Set!DelAll
  <2>5. ASSUME NEW a \in Addr, BreakTest(a) PROVE Set!Next
    <3>1. /\ Held(heap, breaklist)' = Held(heap, breaklist)
          /\ answer' = <<a, a \in Held(heap, breaklist)>>
      BY <2>1, <2>5 DEF BreakTest, present
    <3> QED
      BY <3>1 DEF Set!Next, Set!Query
  <2>6. ASSUME NEW w \in RegLists, NEW r \in RegLists, StallTest(w, r) PROVE Set!Next
    <3>1. w \in Seq(Addr) /\ r \in Seq(Addr)
      <4>1. \A l \in RegLists : \E n \in Nat : l \in [1 .. n -> Addr]
        BY DEF RegLists
      <4>2. RegLists \subseteq Seq(Addr)
        BY <4>1, SeqDef
      <4> QED
        BY <4>2
    <3>2. /\ answer' = <<Registers(w), Registers(r), Registers(w) \cap Registers(r) # {}>>
          /\ Held(heap, breaklist)' = Held(heap, breaklist)
      BY <2>1, <2>6, <3>1, StallRight
    <3>3. Registers(w) \in SUBSET Addr /\ Registers(r) \in SUBSET Addr
      BY <3>1 DEF Registers
    <3>4. Set!Meet(Registers(w), Registers(r))
      BY <3>2 DEF Set!Meet
    <3> QED
      BY <3>3, <3>4 DEF Set!Next
  <2>7. ASSUME UNCHANGED lvars PROVE UNCHANGED <<Held(heap, breaklist), answer>>
    BY <2>1, <2>7 DEF lvars
  <2> QED
    BY <2>2, <2>3, <2>4, <2>5, <2>6, <2>7 DEF Lists_Next
<1> QED
  BY <1>1, <1>2, GoodInit, GoodStep, PTL DEF Lists_Spec, ImplementsSet, Set!Spec
=============================================================================
