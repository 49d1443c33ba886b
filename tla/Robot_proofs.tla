---------------------------- MODULE Robot_proofs ----------------------------
(***************************************************************************)
(* The Scout robots and the network under them.                            *)
(*                                                                         *)
(* 1. WiFiUDP (WiFiUdp): the pbufs in use are exactly a chain that holds   *)
(*    the datagrams of the mailbox, each behind the helper that names its  *)
(*    sender (UdpShape), and every step is one of Mailbox.                 *)
(*                                                                         *)
(* 2. The sketches over that mailbox (Scout): no sequence of datagrams     *)
(*    makes them drive a motor from both of its pins (Inv), and when       *)
(*    loop() returns the wheels turn as the last command said (ObeyInv).   *)
(*    Neither property is inductive: the writes that are still to be made  *)
(*    must be counted, and for the second the code and the text must be    *)
(*    tied to what the robot was told.                                     *)
(*                                                                         *)
(* 3. The robot (Robot), the sketch over the chain of pbufs: it implements *)
(*    Scout, so that both hold of it.                                      *)
(***************************************************************************)
EXTENDS Robot, FiniteSetTheorems, SequenceTheorems, WellFoundedInduction, TLAPS

-----------------------------------------------------------------------------
(* 1. WiFiUDP: the chain of pbufs is the mailbox.                          *)


(* A set of numbers that holds 0 and each successor is Nat.                *)
LEMMA SetInduction ==
  ASSUME NEW T \in SUBSET Nat, 0 \in T, \A n \in T : n + 1 \in T
  PROVE  T = Nat
<1> SUFFICES ASSUME Nat \ T # {} PROVE FALSE
  OBVIOUS
<1>1. PICK m \in Nat \ T : \A k \in Nat \ T : ~(<<k, m>> \in OpToRel(<, Nat))
  BY NatLessThanWellFounded, WFMin
<1>2. m # 0 /\ m - 1 \in Nat /\ (m - 1) + 1 = m
  OBVIOUS
<1>3. <<m - 1, m>> \in OpToRel(<, Nat)
  BY <1>2 DEF OpToRel
<1> QED BY <1>1, <1>2, <1>3

Joins(f, r, n) == f = [i \in 0..n |-> IF i = 0 THEN <<>> ELSE f[i - 1] \o r[i]]
Joined(r, n) == LET f[i \in 0..n] == IF i = 0 THEN <<>> ELSE f[i - 1] \o r[i] IN f[n]

(* There is one such function, and what it computes.                       *)
LEMMA JoinsExists ==
  ASSUME NEW r, NEW n \in Nat PROVE \E f : Joins(f, r, n)
<1> DEFINE T == {k \in Nat : \E f : Joins(f, r, k)}
<1>1. 0 \in T
  <2>1. [i \in 0..0 |-> <<>>] = [i \in 0..0 |-> IF i = 0 THEN <<>> ELSE [j \in 0..0 |-> <<>>][i - 1] \o r[i]]
    OBVIOUS
  <2>2. Joins([i \in 0..0 |-> <<>>], r, 0)
    BY <2>1, Zenon DEF Joins
  <2> QED BY <2>2
<1>2. ASSUME NEW k \in T PROVE k + 1 \in T
  <2>1. PICK f : Joins(f, r, k)
    OBVIOUS
  <2> DEFINE g == [i \in 0..(k + 1) |-> IF i = k + 1 THEN f[k] \o r[k + 1] ELSE f[i]]
  <2>2. ASSUME NEW i \in 0..(k + 1) PROVE g[i] = IF i = 0 THEN <<>> ELSE g[i - 1] \o r[i]
    <3>1. CASE i = k + 1
      <4>1. i # 0 /\ i - 1 = k /\ k \in 0..(k + 1) /\ k # k + 1
        BY <3>1
      <4>2. g[k] = f[k]
        BY <4>1
      <4> QED BY <3>1, <4>1, <4>2
    <3>2. CASE i # k + 1
      <4>1. i \in 0..k /\ (i # 0 => i - 1 \in 0..k)
        BY <3>2
      <4>2. f[i] = IF i = 0 THEN <<>> ELSE f[i - 1] \o r[i]
        BY <2>1, <4>1 DEF Joins
      <4>3. g[i] = f[i] /\ (i # 0 => g[i - 1] = f[i - 1])
        BY <3>2, <4>1
      <4> QED BY <4>2, <4>3
    <3> QED BY <3>1, <3>2
  <2>3. g = [i \in 0..(k + 1) |-> g[i]]
    OBVIOUS
  <2> HIDE DEF g
  <2>4. Joins(g, r, k + 1)
    BY <2>2, <2>3 DEF Joins
  <2> QED BY <2>4
<1> HIDE DEF T
<1>3. T = Nat
  <2>1. T \in SUBSET Nat
    BY DEF T
  <2> QED BY <1>1, <1>2, <2>1, SetInduction
<1> QED BY <1>3 DEF T

LEMMA JoinsAgree ==
  ASSUME NEW r, NEW m \in Nat, NEW n \in Nat, NEW f, NEW g, Joins(f, r, m), Joins(g, r, n)
  PROVE  \A k \in Nat : k <= m /\ k <= n => f[k] = g[k]
<1> DEFINE T == {k \in Nat : k <= m /\ k <= n => f[k] = g[k]}
<1>1. 0 \in T
  <2>1. f[0] = <<>> /\ g[0] = <<>>
    BY DEF Joins
  <2> QED BY <2>1
<1>2. ASSUME NEW k \in T PROVE k + 1 \in T
  <2> SUFFICES ASSUME k + 1 <= m, k + 1 <= n PROVE f[k + 1] = g[k + 1]
    OBVIOUS
  <2>1. k \in Nat /\ f[k] = g[k] /\ (k + 1) - 1 = k /\ k + 1 # 0
    OBVIOUS
  <2>2. f[k + 1] = f[k] \o r[k + 1] /\ g[k + 1] = g[k] \o r[k + 1]
    <3>1. k + 1 \in 0..m /\ k + 1 \in 0..n
      BY <2>1
    <3>2. /\ f[k + 1] = IF k + 1 = 0 THEN <<>> ELSE f[(k + 1) - 1] \o r[k + 1]
          /\ g[k + 1] = IF k + 1 = 0 THEN <<>> ELSE g[(k + 1) - 1] \o r[k + 1]
      BY <3>1 DEF Joins
    <3> QED BY <2>1, <3>2
  <2> QED BY <2>1, <2>2
<1> HIDE DEF T
<1>3. T = Nat
  <2>1. T \in SUBSET Nat
    BY DEF T
  <2> QED BY <1>1, <1>2, <2>1, SetInduction
<1> QED BY <1>3 DEF T

LEMMA JoinedIs ==
  ASSUME NEW r, NEW n \in Nat
  PROVE  \E f : Joins(f, r, n) /\ Joined(r, n) = f[n]
<1>1. \E f : Joins(f, r, n)
  BY JoinsExists
<1> DEFINE c == CHOOSE f : f = [i \in 0..n |-> IF i = 0 THEN <<>> ELSE f[i - 1] \o r[i]]
<1>2. \E f : f = [i \in 0..n |-> IF i = 0 THEN <<>> ELSE f[i - 1] \o r[i]]
  BY <1>1 DEF Joins
<1>3. c = [i \in 0..n |-> IF i = 0 THEN <<>> ELSE c[i - 1] \o r[i]]
  BY <1>2, Zenon
<1>4. Joined(r, n) = c[n]
  BY DEF Joined
<1> HIDE DEF c
<1>5. Joins(c, r, n)
  BY <1>3 DEF Joins
<1> QED BY <1>4, <1>5

LEMMA JoinedStep ==
  ASSUME NEW r
  PROVE  /\ Joined(r, 0) = <<>>
         /\ \A n \in Nat : Joined(r, n + 1) = Joined(r, n) \o r[n + 1]
<1>1. Joined(r, 0) = <<>>
  <2>1. PICK f : Joins(f, r, 0) /\ Joined(r, 0) = f[0]
    BY JoinedIs
  <2> QED BY <2>1 DEF Joins
<1>2. ASSUME NEW n \in Nat PROVE Joined(r, n + 1) = Joined(r, n) \o r[n + 1]
  <2>1. PICK f : Joins(f, r, n) /\ Joined(r, n) = f[n]
    BY JoinedIs
  <2>2. PICK g : Joins(g, r, n + 1) /\ Joined(r, n + 1) = g[n + 1]
    BY JoinedIs
  <2>3. f[n] = g[n]
    BY <2>1, <2>2, JoinsAgree
  <2>4. g[n + 1] = g[n] \o r[n + 1]
    <3>1. n + 1 \in 0..(n + 1) /\ n + 1 # 0 /\ (n + 1) - 1 = n
      OBVIOUS
    <3> QED BY <2>2, <3>1 DEF Joins
  <2> QED BY <2>1, <2>2, <2>3, <2>4
<1> QED BY <1>1, <1>2

-----------------------------------------------------------------------------
(* What is left of a sequence behind its first k elements.                 *)
Rest(s, k) == SubSeq(s, k + 1, Len(s))

LEMMA RestIs ==
  ASSUME NEW S, NEW s \in Seq(S), NEW k \in Nat, k <= Len(s)
  PROVE  /\ Rest(s, k) \in Seq(S)
         /\ Len(Rest(s, k)) = Len(s) - k
         /\ \A i \in 1..(Len(s) - k) : Rest(s, k)[i] = s[k + i]
<1>1. Len(s) \in Nat /\ k + 1 \in Int /\ Len(s) - (k + 1) + 1 = Len(s) - k
  OBVIOUS
<1>2. \A i \in (k + 1)..Len(s) : s[i] \in S
  <2>1. \A i \in (k + 1)..Len(s) : i \in 1..Len(s)
    BY <1>1
  <2> QED BY <2>1, ElementOfSeq
<1>3. /\ Rest(s, k) \in Seq(S)
      /\ Len(Rest(s, k)) = IF k + 1 <= Len(s) THEN Len(s) - (k + 1) + 1 ELSE 0
      /\ \A i \in 1..(Len(s) - (k + 1) + 1) : Rest(s, k)[i] = s[k + 1 + i - 1]
  BY <1>1, <1>2, SubSeqProperties DEF Rest
<1>4. \A i \in 1..(Len(s) - k) : k + 1 + i - 1 = k + i
  BY <1>1
<1>5. Len(Rest(s, k)) = Len(s) - k
  <2>1. CASE k + 1 <= Len(s)
    BY <1>1, <1>3, <2>1
  <2>2. CASE ~(k + 1 <= Len(s))
    <3>1. \A n \in Nat : k <= n /\ ~(k + 1 <= n) => n - k = 0
      OBVIOUS
    <3>2. Len(s) - k = 0
      BY <1>1, <2>2, <3>1
    <3> QED BY <1>3, <2>2, <3>2
  <2> QED BY <2>1, <2>2
<1> QED BY <1>1, <1>3, <1>4, <1>5

LEMMA SameSeq ==
  ASSUME NEW S, NEW s \in Seq(S), NEW t \in Seq(S), Len(s) = Len(t),
         \A i \in 1..Len(s) : s[i] = t[i]
  PROVE  s = t
  BY SeqEqual

LEMMA JoinedType ==
  ASSUME NEW S, NEW r \in Seq(Seq(S))
  PROVE  \A n \in Nat : n <= Len(r) => Joined(r, n) \in Seq(S)
<1> DEFINE T == {n \in Nat : n <= Len(r) => Joined(r, n) \in Seq(S)}
<1>1. 0 \in T
  <2>1. <<>> \in Seq(S)
    OBVIOUS
  <2> QED BY <2>1, JoinedStep
<1>2. ASSUME NEW n \in T PROVE n + 1 \in T
  <2> SUFFICES ASSUME n + 1 <= Len(r) PROVE Joined(r, n + 1) \in Seq(S)
    OBVIOUS
  <2>1. Joined(r, n) \in Seq(S) /\ r[n + 1] \in Seq(S)
    <3>1. n <= Len(r) /\ n + 1 \in 1..Len(r)
      OBVIOUS
    <3> QED BY <3>1, ElementOfSeq
  <2>2. Joined(r, n + 1) = Joined(r, n) \o r[n + 1]
    BY JoinedStep
  <2>3. Joined(r, n) \o r[n + 1] \in Seq(S)
    BY <2>1, ConcatProperties
  <2> QED BY <2>2, <2>3
<1> HIDE DEF T
<1>3. T = Nat
  <2>1. T \in SUBSET Nat
    BY DEF T
  <2> QED BY <1>1, <1>2, <2>1, SetInduction
<1> QED BY <1>3 DEF T

(* Chains that begin with the same pbufs.                                  *)
LEMMA JoinedSame ==
  ASSUME NEW r, NEW q, NEW m \in Nat, \A i \in 1..m : r[i] = q[i]
  PROVE  \A n \in Nat : n <= m => Joined(r, n) = Joined(q, n)
<1> DEFINE T == {n \in Nat : n <= m => Joined(r, n) = Joined(q, n)}
<1>1. 0 \in T
  BY JoinedStep
<1>2. ASSUME NEW n \in T PROVE n + 1 \in T
  <2> SUFFICES ASSUME n + 1 <= m PROVE Joined(r, n + 1) = Joined(q, n + 1)
    OBVIOUS
  <2>1. Joined(r, n) = Joined(q, n) /\ r[n + 1] = q[n + 1]
    <3>1. n <= m /\ n + 1 \in 1..m
      OBVIOUS
    <3> QED BY <3>1
  <2> QED BY <2>1, JoinedStep
<1> HIDE DEF T
<1>3. T = Nat
  <2>1. T \in SUBSET Nat
    BY DEF T
  <2> QED BY <1>1, <1>2, <2>1, SetInduction
<1> QED BY <1>3 DEF T

-----------------------------------------------------------------------------
(* FlattenSeq() joins all of a sequence.                                   *)
Flattens(f, r) == f = [i \in 1..Len(r) |-> IF i = 1 THEN r[i] ELSE f[i - 1] \o r[i]]

LEMMA FlattensExists ==
  ASSUME NEW S, NEW r \in Seq(Seq(S)) PROVE \E f : Flattens(f, r)
<1>1. PICK g : Joins(g, r, Len(r))
  <2>1. Len(r) \in Nat
    OBVIOUS
  <2> QED BY <2>1, JoinsExists
<1> DEFINE f == [i \in 1..Len(r) |-> g[i]]
<1>2. ASSUME NEW i \in 1..Len(r) PROVE f[i] = IF i = 1 THEN r[i] ELSE f[i - 1] \o r[i]
  <2>1. Len(r) \in Nat /\ i \in 0..Len(r) /\ i # 0
    OBVIOUS
  <2>2. g[i] = g[i - 1] \o r[i]
    BY <1>1, <2>1 DEF Joins
  <2>3. CASE i = 1
    <3>1. g[0] = <<>>
      BY <1>1, <2>1 DEF Joins
    <3>2. r[i] \in Seq(S)
      BY ElementOfSeq
    <3>3. <<>> \o r[i] = r[i]
      BY <3>2, ConcatEmptySeq
    <3>4. i - 1 = 0
      BY <2>3
    <3> QED BY <2>2, <2>3, <3>1, <3>3, <3>4
  <2>4. CASE i # 1
    <3>1. i - 1 \in 1..Len(r)
      BY <2>1, <2>4
    <3> QED BY <2>2, <2>4, <3>1
  <2> QED BY <2>3, <2>4
<1>3. f = [i \in 1..Len(r) |-> f[i]]
  OBVIOUS
<1> HIDE DEF f
<1>4. Flattens(f, r)
  BY <1>2, <1>3 DEF Flattens
<1> QED BY <1>4

LEMMA FlattensIs ==
  ASSUME NEW S, NEW r \in Seq(Seq(S)), NEW f, Flattens(f, r)
  PROVE  \A n \in Nat : 1 <= n /\ n <= Len(r) => f[n] = Joined(r, n)
<1> DEFINE T == {n \in Nat : 1 <= n /\ n <= Len(r) => f[n] = Joined(r, n)}
<1>1. 0 \in T
  OBVIOUS
<1>2. ASSUME NEW n \in T PROVE n + 1 \in T
  <2> SUFFICES ASSUME n + 1 <= Len(r) PROVE f[n + 1] = Joined(r, n + 1)
    OBVIOUS
  <2>1. n \in Nat /\ Len(r) \in Nat /\ n + 1 \in 1..Len(r) /\ (n + 1) - 1 = n
    OBVIOUS
  <2>2. f[n + 1] = IF n + 1 = 1 THEN r[n + 1] ELSE f[(n + 1) - 1] \o r[n + 1]
    BY <2>1 DEF Flattens
  <2>3. Joined(r, n + 1) = Joined(r, n) \o r[n + 1]
    BY <2>1, JoinedStep
  <2>4. CASE n = 0
    <3>1. r[n + 1] \in Seq(S)
      BY <2>1, ElementOfSeq
    <3>2. <<>> \o r[n + 1] = r[n + 1]
      BY <3>1, ConcatEmptySeq
    <3>3. Joined(r, n) = <<>>
      BY <2>4, JoinedStep
    <3>4. f[n + 1] = r[n + 1]
      BY <2>2, <2>4
    <3> QED BY <2>3, <3>2, <3>3, <3>4
  <2>5. CASE n # 0
    <3>1. f[n] = Joined(r, n) /\ n + 1 # 1
      BY <2>1, <2>5
    <3> QED BY <2>1, <2>2, <2>3, <3>1
  <2> QED BY <2>4, <2>5
<1> HIDE DEF T
<1>3. T = Nat
  <2>1. T \in SUBSET Nat
    BY DEF T
  <2> QED BY <1>1, <1>2, <2>1, SetInduction
<1> QED BY <1>3 DEF T

(* FlattenSeq of the community modules joins the sequences one by one.     *)
LEMMA FlattenIs ==
  ASSUME NEW S, NEW r \in Seq(Seq(S))
  PROVE  FlattenSeq(r) = Joined(r, Len(r)) /\ FlattenSeq(r) \in Seq(S)
<1>1. Len(r) \in Nat /\ Len(r) <= Len(r)
  OBVIOUS
<1>2. Joined(r, Len(r)) \in Seq(S)
  BY <1>1, JoinedType
<1>3. CASE Len(r) = 0
  <2>1. r = <<>>
    BY <1>3, EmptySeq
  <2>2. FlattenSeq(r) = r
    BY <1>3 DEF FlattenSeq
  <2>3. Joined(r, 0) = <<>>
    BY JoinedStep
  <2> QED BY <1>2, <1>3, <2>1, <2>2, <2>3
<1>4. CASE Len(r) # 0
  <2> DEFINE c == CHOOSE f : f = [i \in 1..Len(r) |-> IF i = 1 THEN r[i] ELSE f[i - 1] \o r[i]]
  <2>1. \E f : f = [i \in 1..Len(r) |-> IF i = 1 THEN r[i] ELSE f[i - 1] \o r[i]]
    BY FlattensExists DEF Flattens
  <2>2. c = [i \in 1..Len(r) |-> IF i = 1 THEN r[i] ELSE c[i - 1] \o r[i]]
    BY <2>1, Zenon
  <2>3. FlattenSeq(r) = c[Len(r)]
    BY <1>4 DEF FlattenSeq
  <2> HIDE DEF c
  <2>4. Flattens(c, r)
    BY <2>2 DEF Flattens
  <2>5. c[Len(r)] = Joined(r, Len(r))
    BY <1>1, <1>4, <2>4, FlattensIs
  <2> QED BY <1>2, <2>3, <2>5
<1> QED BY <1>3, <1>4

(* The first elements joined begin what more of them joined are.           *)
LEMMA JoinedPrefix ==
  ASSUME NEW S, NEW r \in Seq(Seq(S)), NEW m \in Nat, m <= Len(r)
  PROVE  \A n \in Nat : m <= n /\ n <= Len(r) =>
           /\ Len(Joined(r, m)) <= Len(Joined(r, n))
           /\ \A i \in 1..Len(Joined(r, m)) : Joined(r, n)[i] = Joined(r, m)[i]
<1> DEFINE P(n) == /\ Len(Joined(r, m)) <= Len(Joined(r, n))
                   /\ \A i \in 1..Len(Joined(r, m)) : Joined(r, n)[i] = Joined(r, m)[i]
<1> DEFINE T == {k \in Nat : m + k <= Len(r) => P(m + k)}
<1>1. Len(r) \in Nat /\ \A n \in Nat : n <= Len(r) => Joined(r, n) \in Seq(S) /\ Len(Joined(r, n)) \in Nat
  BY JoinedType
<1>2. 0 \in T
  <2>1. m + 0 = m /\ Len(Joined(r, m)) \in Nat
    BY <1>1
  <2>2. P(m)
    BY <2>1
  <2> QED BY <2>1, <2>2
<1>3. ASSUME NEW k \in T PROVE k + 1 \in T
  <2> SUFFICES ASSUME m + (k + 1) <= Len(r) PROVE P(m + (k + 1))
    OBVIOUS
  <2> DEFINE n == m + k
  <2>1. n \in Nat /\ n <= Len(r) /\ n + 1 <= Len(r) /\ m + (k + 1) = n + 1 /\ n + 1 \in 1..Len(r)
    BY <1>1
  <2>2. P(n)
    BY <2>1
  <2> HIDE DEF n, T
  <2>3. Joined(r, n) \in Seq(S) /\ Joined(r, m) \in Seq(S) /\ r[n + 1] \in Seq(S)
    BY <1>1, <2>1, ElementOfSeq
  <2>4. Joined(r, n + 1) = Joined(r, n) \o r[n + 1]
    BY <2>1, JoinedStep
  <2> DEFINE a == Joined(r, m)
             b == Joined(r, n)
             c == Joined(r, n + 1)
  <2>5. Len(a) \in Nat /\ Len(b) \in Nat /\ Len(r[n + 1]) \in Nat
    BY <2>3
  <2>6. /\ Len(c) = Len(b) + Len(r[n + 1])
        /\ \A i \in 1..(Len(b) + Len(r[n + 1])) : c[i] = IF i <= Len(b) THEN b[i] ELSE r[n + 1][i - Len(b)]
    BY <2>3, <2>4, ConcatProperties
  <2>7. Len(a) <= Len(b) /\ \A i \in 1..Len(a) : b[i] = a[i]
    BY <2>2
  <2> HIDE DEF a, b, c
  <2>8. Len(a) <= Len(c)
    BY <2>5, <2>6, <2>7
  <2>9. ASSUME NEW i \in 1..Len(a) PROVE c[i] = a[i]
    <3>1. i \in 1..(Len(b) + Len(r[n + 1])) /\ i <= Len(b)
      BY <2>5, <2>7
    <3> QED BY <2>6, <2>7, <3>1
  <2>10. P(n + 1)
    BY <2>8, <2>9 DEF a, c
  <2> QED BY <2>1, <2>10
<1> HIDE DEF T, P
<1>4. T = Nat
  <2>1. T \in SUBSET Nat
    BY DEF T
  <2> QED BY <1>2, <1>3, <2>1, SetInduction
<1>5. ASSUME NEW n \in Nat, m <= n, n <= Len(r) PROVE P(n)
  <2>1. n - m \in T /\ m + (n - m) = n
    BY <1>4, <1>5
  <2> QED BY <1>5, <2>1 DEF T
<1> QED BY <1>5 DEF P

-----------------------------------------------------------------------------
(* The box of a chain s in a heap h, datagram by datagram.                 *)
Starts(s, h, i) == i = 1 \/ h[s[i - 1]].helper
Boxes(f, s, h, n) == f = [i \in 0..n |-> IF i = 0 THEN <<>>
                                         ELSE IF Starts(s, h, i) THEN Append(f[i - 1], h[s[i]].of)
                                         ELSE f[i - 1]]
BoxOf(s, h, n) == LET f[i \in 0..n] == IF i = 0 THEN <<>>
                                       ELSE IF Starts(s, h, i) THEN Append(f[i - 1], h[s[i]].of)
                                       ELSE f[i - 1]
                  IN  f[n]

LEMMA BoxIs == /\ Box = BoxOf(Chain[rxBuf], pbuf, Len(Chain[rxBuf]))
               /\ Box' = BoxOf(Chain'[rxBuf'], pbuf', Len(Chain'[rxBuf']))
  BY DEF Box, Begins, BoxOf, Starts

(* The recursive function of Box is one, and Box goes on as it says.       *)
LEMMA BoxesExists ==
  ASSUME NEW s, NEW h, NEW n \in Nat PROVE \E f : Boxes(f, s, h, n)
<1> DEFINE T == {k \in Nat : \E f : Boxes(f, s, h, k)}
<1>1. 0 \in T
  <2> DEFINE e == [i \in 0..0 |-> <<>>]
  <2>1. ASSUME NEW i \in 0..0
        PROVE  e[i] = IF i = 0 THEN <<>> ELSE IF Starts(s, h, i) THEN Append(e[i - 1], h[s[i]].of) ELSE e[i - 1]
    OBVIOUS
  <2>2. e = [i \in 0..0 |-> e[i]]
    OBVIOUS
  <2> HIDE DEF e
  <2>3. Boxes(e, s, h, 0)
    BY <2>1, <2>2 DEF Boxes
  <2> QED BY <2>3
<1>2. ASSUME NEW k \in T PROVE k + 1 \in T
  <2>1. PICK f : Boxes(f, s, h, k)
    OBVIOUS
  <2> DEFINE g == [i \in 0..(k + 1) |-> IF i = k + 1
                                        THEN IF Starts(s, h, k + 1) THEN Append(f[k], h[s[k + 1]].of) ELSE f[k]
                                        ELSE f[i]]
  <2>2. ASSUME NEW i \in 0..(k + 1)
        PROVE  g[i] = IF i = 0 THEN <<>> ELSE IF Starts(s, h, i) THEN Append(g[i - 1], h[s[i]].of) ELSE g[i - 1]
    <3>1. CASE i = k + 1
      <4>1. i # 0 /\ i - 1 = k /\ k \in 0..(k + 1) /\ k # k + 1
        BY <3>1
      <4>2. g[k] = f[k]
        BY <4>1
      <4>3. g[i] = IF Starts(s, h, k + 1) THEN Append(f[k], h[s[k + 1]].of) ELSE f[k]
        BY <3>1
      <4> HIDE DEF g
      <4> QED BY <3>1, <4>1, <4>2, <4>3
    <3>2. CASE i # k + 1
      <4>1. i \in 0..k /\ (i # 0 => i - 1 \in 0..k)
        BY <3>2
      <4>2. f[i] = IF i = 0 THEN <<>> ELSE IF Starts(s, h, i) THEN Append(f[i - 1], h[s[i]].of) ELSE f[i - 1]
        BY <2>1, <4>1 DEF Boxes
      <4>3. g[i] = f[i] /\ (i # 0 => g[i - 1] = f[i - 1])
        BY <3>2, <4>1
      <4> HIDE DEF g
      <4> QED BY <4>2, <4>3
    <3> QED BY <3>1, <3>2
  <2>3. g = [i \in 0..(k + 1) |-> g[i]]
    OBVIOUS
  <2> HIDE DEF g
  <2>4. Boxes(g, s, h, k + 1)
    BY <2>2, <2>3 DEF Boxes
  <2> QED BY <2>4
<1> HIDE DEF T
<1>3. T = Nat
  <2>1. T \in SUBSET Nat
    BY DEF T
  <2> QED BY <1>1, <1>2, <2>1, SetInduction
<1> QED BY <1>3 DEF T

LEMMA BoxesStep ==
  ASSUME NEW s, NEW h, NEW n \in Nat, NEW f, Boxes(f, s, h, n), NEW k \in Nat, k + 1 <= n
  PROVE  f[k + 1] = IF Starts(s, h, k + 1) THEN Append(f[k], h[s[k + 1]].of) ELSE f[k]
<1>1. k + 1 \in 0..n /\ k + 1 # 0 /\ (k + 1) - 1 = k
  OBVIOUS
<1>2. f[k + 1] = IF k + 1 = 0 THEN <<>>
                 ELSE IF Starts(s, h, k + 1) THEN Append(f[(k + 1) - 1], h[s[k + 1]].of)
                 ELSE f[(k + 1) - 1]
  BY <1>1 DEF Boxes
<1> QED BY <1>1, <1>2

LEMMA BoxesAgree ==
  ASSUME NEW s, NEW h, NEW m \in Nat, NEW n \in Nat, NEW f, NEW g, Boxes(f, s, h, m), Boxes(g, s, h, n)
  PROVE  \A k \in Nat : k <= m /\ k <= n => f[k] = g[k]
<1> DEFINE T == {k \in Nat : k <= m /\ k <= n => f[k] = g[k]}
<1>1. 0 \in T
  <2>1. f[0] = <<>> /\ g[0] = <<>>
    BY DEF Boxes
  <2> QED BY <2>1
<1>2. ASSUME NEW k \in T PROVE k + 1 \in T
  <2> SUFFICES ASSUME k + 1 <= m, k + 1 <= n PROVE f[k + 1] = g[k + 1]
    OBVIOUS
  <2>1. k \in Nat /\ f[k] = g[k]
    OBVIOUS
  <2>2. f[k + 1] = IF Starts(s, h, k + 1) THEN Append(f[k], h[s[k + 1]].of) ELSE f[k]
    BY <2>1, BoxesStep
  <2>3. g[k + 1] = IF Starts(s, h, k + 1) THEN Append(g[k], h[s[k + 1]].of) ELSE g[k]
    BY <2>1, BoxesStep
  <2> QED BY <2>1, <2>2, <2>3
<1> HIDE DEF T
<1>3. T = Nat
  <2>1. T \in SUBSET Nat
    BY DEF T
  <2> QED BY <1>1, <1>2, <2>1, SetInduction
<1> QED BY <1>3 DEF T

LEMMA BoxOfIs ==
  ASSUME NEW s, NEW h, NEW n \in Nat
  PROVE  \E f : Boxes(f, s, h, n) /\ BoxOf(s, h, n) = f[n]
<1> DEFINE c == CHOOSE f : f = [i \in 0..n |-> IF i = 0 THEN <<>>
                                               ELSE IF Starts(s, h, i) THEN Append(f[i - 1], h[s[i]].of)
                                               ELSE f[i - 1]]
<1>1. \E f : f = [i \in 0..n |-> IF i = 0 THEN <<>>
                                 ELSE IF Starts(s, h, i) THEN Append(f[i - 1], h[s[i]].of)
                                 ELSE f[i - 1]]
  <2>1. PICK f : Boxes(f, s, h, n)
    BY BoxesExists
  <2> QED BY <2>1 DEF Boxes
<1>2. c = [i \in 0..n |-> IF i = 0 THEN <<>>
                          ELSE IF Starts(s, h, i) THEN Append(c[i - 1], h[s[i]].of)
                          ELSE c[i - 1]]
  BY <1>1, Zenon
<1>3. BoxOf(s, h, n) = c[n]
  BY DEF BoxOf
<1> HIDE DEF c
<1>4. Boxes(c, s, h, n)
  BY <1>2 DEF Boxes
<1> QED BY <1>3, <1>4

LEMMA BoxStep ==
  ASSUME NEW s, NEW h
  PROVE  /\ BoxOf(s, h, 0) = <<>>
         /\ \A n \in Nat : BoxOf(s, h, n + 1) = IF Starts(s, h, n + 1) THEN Append(BoxOf(s, h, n), h[s[n + 1]].of)
                                                ELSE BoxOf(s, h, n)
<1>1. BoxOf(s, h, 0) = <<>>
  <2>1. PICK f : Boxes(f, s, h, 0) /\ BoxOf(s, h, 0) = f[0]
    BY BoxOfIs
  <2> QED BY <2>1 DEF Boxes
<1>2. ASSUME NEW n \in Nat
      PROVE  BoxOf(s, h, n + 1) = IF Starts(s, h, n + 1) THEN Append(BoxOf(s, h, n), h[s[n + 1]].of) ELSE BoxOf(s, h, n)
  <2>1. PICK f : Boxes(f, s, h, n) /\ BoxOf(s, h, n) = f[n]
    BY BoxOfIs
  <2>2. PICK g : Boxes(g, s, h, n + 1) /\ BoxOf(s, h, n + 1) = g[n + 1]
    <3>1. n + 1 \in Nat
      OBVIOUS
    <3> QED BY <3>1, BoxOfIs
  <2>3. f[n] = g[n]
    BY <2>1, <2>2, BoxesAgree
  <2>4. g[n + 1] = IF Starts(s, h, n + 1) THEN Append(g[n], h[s[n + 1]].of) ELSE g[n]
    BY <2>2, BoxesStep
  <2> QED BY <2>1, <2>2, <2>3, <2>4
<1> QED BY <1>1, <1>2

-----------------------------------------------------------------------------
(* The chain of the heap h that consists of the cells s; no other cell has *)
(* a successor.                                                            *)
In(s, c) == \E i \in 1..Len(s) : s[i] = c
Linked(s, h) ==
  /\ s \in Seq(Cell)
  /\ \A i, j \in 1..Len(s) : s[i] = s[j] => i = j
  /\ \A i \in 1..Len(s) : h[s[i]].next = IF i = Len(s) THEN NULL ELSE s[i + 1]
  /\ \A c \in Cell : ~In(s, c) => h[c].next = NULL

Chains(f, h) == f = [c \in 0..MaxCell |-> IF c = NULL THEN <<>> ELSE <<c>> \o f[h[c].next]]

LEMMA RestStep ==
  ASSUME NEW S, NEW s \in Seq(S), NEW i \in 1..Len(s)
  PROVE  Rest(s, i - 1) = <<s[i]>> \o Rest(s, i)
<1>1. Len(s) \in Nat /\ i - 1 \in Nat /\ i - 1 <= Len(s) /\ i \in Nat /\ i <= Len(s)
  OBVIOUS
<1>2. /\ Rest(s, i - 1) \in Seq(S) /\ Len(Rest(s, i - 1)) = Len(s) - (i - 1)
      /\ \A k \in 1..(Len(s) - (i - 1)) : Rest(s, i - 1)[k] = s[(i - 1) + k]
  BY <1>1, RestIs
<1>3. /\ Rest(s, i) \in Seq(S) /\ Len(Rest(s, i)) = Len(s) - i
      /\ \A k \in 1..(Len(s) - i) : Rest(s, i)[k] = s[i + k]
  BY <1>1, RestIs
<1> DEFINE a == Rest(s, i - 1)
           b == Rest(s, i)
           x == <<s[i]>>
<1>4. x \in Seq(S) /\ Len(x) = 1 /\ x[1] = s[i]
  BY ElementOfSeq
<1> HIDE DEF a, b, x
<1>9. b \in Seq(S) /\ Len(b) \in Nat
  BY <1>3 DEF b
<1>5. /\ x \o b \in Seq(S) /\ Len(x \o b) = 1 + Len(b)
      /\ \A k \in 1..(1 + Len(b)) : (x \o b)[k] = IF k <= 1 THEN x[k] ELSE b[k - 1]
  <2>1. /\ x \o b \in Seq(S) /\ Len(x \o b) = Len(x) + Len(b)
        /\ \A k \in 1..(Len(x) + Len(b)) : (x \o b)[k] = IF k <= Len(x) THEN x[k] ELSE b[k - Len(x)]
    BY <1>4, <1>9, ConcatProperties
  <2> QED BY <1>4, <1>9, <2>1
<1>6. Len(a) = Len(x \o b)
  BY <1>1, <1>2, <1>3, <1>5 DEF a, b
<1>7. ASSUME NEW k \in 1..Len(a) PROVE a[k] = (x \o b)[k]
  <2>1. k \in 1..(Len(s) - (i - 1)) /\ k \in 1..(1 + Len(b))
    BY <1>2, <1>5, <1>6 DEF a
  <2>2. a[k] = s[(i - 1) + k]
    BY <1>2, <2>1 DEF a
  <2>3. CASE k = 1
    <3>1. (i - 1) + k = i
      BY <1>1, <2>3
    <3>2. (x \o b)[k] = x[1]
      BY <1>5, <2>1, <2>3
    <3> QED BY <1>4, <2>2, <3>1, <3>2
  <2>4. CASE k # 1
    <3>1. k - 1 \in 1..(Len(s) - i) /\ i + (k - 1) = (i - 1) + k /\ ~(k <= 1)
      BY <1>1, <2>1, <2>4
    <3>2. b[k - 1] = s[(i - 1) + k]
      BY <1>3, <3>1 DEF b
    <3> QED BY <1>5, <2>1, <2>2, <3>1, <3>2
  <2> QED BY <2>3, <2>4
<1>8. a = x \o b
  BY <1>2, <1>5, <1>6, <1>7, SameSeq DEF a
<1> QED BY <1>8 DEF a, b, x

LEMMA RestAll ==
  ASSUME NEW S, NEW s \in Seq(S)
  PROVE  Rest(s, Len(s)) = <<>> /\ Rest(s, 0) = s
<1>1. Len(s) \in Nat /\ Len(s) <= Len(s) /\ Len(s) - Len(s) = 0 /\ Len(s) - 0 = Len(s)
  OBVIOUS
<1>2. Rest(s, Len(s)) \in Seq(S) /\ Len(Rest(s, Len(s))) = 0
  BY <1>1, RestIs
<1>3. /\ Rest(s, 0) \in Seq(S) /\ Len(Rest(s, 0)) = Len(s)
      /\ \A i \in 1..Len(s) : Rest(s, 0)[i] = s[i]
  <2>1. /\ Rest(s, 0) \in Seq(S) /\ Len(Rest(s, 0)) = Len(s) - 0
        /\ \A i \in 1..(Len(s) - 0) : Rest(s, 0)[i] = s[0 + i]
    BY <1>1, RestIs
  <2> QED BY <1>1, <2>1
<1>4. Rest(s, 0) = s
  BY <1>3, SameSeq
<1> QED BY <1>2, <1>4, EmptySeq

(* A linked heap has a chain for each cell ...                             *)
LEMMA ChainsExists ==
  ASSUME NEW s, NEW h, Linked(s, h) PROVE \E f : Chains(f, h)
<1> DEFINE f == [c \in 0..MaxCell |->
                   IF c = NULL THEN <<>>
                   ELSE IF In(s, c) THEN Rest(s, (CHOOSE i \in 1..Len(s) : s[i] = c) - 1)
                   ELSE <<c>>]
<1>1. MaxCell \in Nat /\ NULL = 0 /\ Cell = 1..MaxCell /\ Len(s) \in Nat
  BY UdpAssumption DEF NULL, Cell, Linked
<1>2. ASSUME NEW i \in 1..Len(s) PROVE f[s[i]] = Rest(s, i - 1)
  <2>1. s[i] \in Cell /\ In(s, s[i])
    BY ElementOfSeq DEF Linked, In
  <2>2. s[i] \in 0..MaxCell /\ s[i] # NULL
    BY <1>1, <2>1
  <2> DEFINE j == CHOOSE k \in 1..Len(s) : s[k] = s[i]
  <2>3. j \in 1..Len(s) /\ s[j] = s[i]
    OBVIOUS
  <2>4. f[s[i]] = Rest(s, j - 1)
    BY <2>1, <2>2
  <2> HIDE DEF f, j
  <2>5. j = i
    BY <2>3 DEF Linked
  <2> QED BY <2>4, <2>5
<1>3. f[NULL] = <<>>
  BY <1>1
<1>4. ASSUME NEW c \in 0..MaxCell PROVE f[c] = IF c = NULL THEN <<>> ELSE <<c>> \o f[h[c].next]
  <2>1. CASE c = NULL
    BY <1>3, <2>1
  <2>2. CASE c # NULL /\ In(s, c)
    <3>1. PICK i \in 1..Len(s) : s[i] = c
      BY <2>2 DEF In
    <3>2. f[c] = Rest(s, i - 1)
      BY <1>2, <3>1
    <3>3. Rest(s, i - 1) = <<s[i]>> \o Rest(s, i)
      BY RestStep DEF Linked
    <3>4. f[h[c].next] = Rest(s, i)
      <4>1. CASE i = Len(s)
        <5>1. h[c].next = NULL
          BY <3>1, <4>1 DEF Linked
        <5>2. Rest(s, i) = <<>>
          BY <4>1, RestAll DEF Linked
        <5> QED BY <1>3, <5>1, <5>2
      <4>2. CASE i # Len(s)
        <5>1. h[c].next = s[i + 1] /\ i + 1 \in 1..Len(s) /\ (i + 1) - 1 = i
          BY <1>1, <3>1, <4>2 DEF Linked
        <5> HIDE DEF f
        <5>2. f[s[i + 1]] = Rest(s, (i + 1) - 1)
          BY <1>2, <5>1
        <5> QED BY <5>1, <5>2
      <4> QED BY <4>1, <4>2
    <3> HIDE DEF f
    <3> QED BY <2>2, <3>1, <3>2, <3>3, <3>4
  <2>3. CASE c # NULL /\ ~In(s, c)
    <3>1. c \in Cell
      BY <1>1, <2>3
    <3>2. h[c].next = NULL
      BY <2>3, <3>1 DEF Linked
    <3>3. f[c] = <<c>>
      BY <2>3
    <3>4. <<c>> \o <<>> = <<c>>
      <4>1. <<c>> \in Seq(Cell)
        BY <3>1
      <4> QED BY <4>1, ConcatEmptySeq
    <3> HIDE DEF f
    <3> QED BY <1>3, <2>3, <3>2, <3>3, <3>4
  <2> QED BY <2>1, <2>2, <2>3
<1>5. f = [c \in 0..MaxCell |-> f[c]]
  OBVIOUS
<1> HIDE DEF f
<1>6. Chains(f, h)
  BY <1>4, <1>5 DEF Chains
<1> QED BY <1>6

(* ... and that of a cell of s is what is left of s from there on.         *)
LEMMA ChainsAre ==
  ASSUME NEW s, NEW h, Linked(s, h), NEW f, Chains(f, h)
  PROVE  f[NULL] = <<>> /\ \A i \in 1..Len(s) : f[s[i]] = Rest(s, i - 1)
<1>1. MaxCell \in Nat /\ NULL = 0 /\ Cell = 1..MaxCell /\ Len(s) \in Nat /\ s \in Seq(Cell)
  BY UdpAssumption DEF NULL, Cell, Linked
<1>2. f[NULL] = <<>>
  <2>1. NULL \in 0..MaxCell
    BY <1>1
  <2> QED BY <2>1 DEF Chains
<1>3. \A i \in 1..Len(s) : f[s[i]] = <<s[i]>> \o f[h[s[i]].next]
  <2> TAKE i \in 1..Len(s)
  <2>1. s[i] \in Cell
    BY <1>1, ElementOfSeq
  <2>2. s[i] \in 0..MaxCell /\ s[i] # NULL
    BY <1>1, <2>1
  <2>3. f[s[i]] = IF s[i] = NULL THEN <<>> ELSE <<s[i]>> \o f[h[s[i]].next]
    BY <2>2 DEF Chains
  <2> QED BY <2>2, <2>3
<1> DEFINE T == {k \in Nat : k < Len(s) => f[s[Len(s) - k]] = Rest(s, Len(s) - k - 1)}
<1>4. 0 \in T
  <2> SUFFICES ASSUME 0 < Len(s) PROVE f[s[Len(s)]] = Rest(s, Len(s) - 1)
    BY <1>1
  <2>1. Len(s) \in 1..Len(s)
    BY <1>1
  <2>2. h[s[Len(s)]].next = NULL
    BY <2>1 DEF Linked
  <2>3. Rest(s, Len(s) - 1) = <<s[Len(s)]>> \o Rest(s, Len(s))
    BY <1>1, <2>1, RestStep
  <2>4. Rest(s, Len(s)) = <<>>
    BY <1>1, RestAll
  <2> QED BY <1>2, <1>3, <2>1, <2>2, <2>3, <2>4
<1>5. ASSUME NEW k \in T PROVE k + 1 \in T
  <2> SUFFICES ASSUME k + 1 < Len(s) PROVE f[s[Len(s) - (k + 1)]] = Rest(s, Len(s) - (k + 1) - 1)
    OBVIOUS
  <2> DEFINE i == Len(s) - (k + 1)
  <2>1. k \in Nat /\ f[s[Len(s) - k]] = Rest(s, Len(s) - k - 1)
    BY <1>1
  <2>2. /\ i \in 1..Len(s) /\ i # Len(s) /\ i + 1 = Len(s) - k /\ i = Len(s) - k - 1
        /\ i - 1 = Len(s) - (k + 1) - 1
    BY <1>1, <2>1
  <2> HIDE DEF i, T
  <2>3. f[s[i + 1]] = Rest(s, i)
    BY <2>1, <2>2
  <2>4. h[s[i]].next = s[i + 1]
    BY <2>2 DEF Linked
  <2>5. Rest(s, i - 1) = <<s[i]>> \o Rest(s, i)
    BY <1>1, <2>2, RestStep
  <2>6. f[s[i]] = Rest(s, i - 1)
    BY <1>3, <2>2, <2>3, <2>4, <2>5
  <2> QED BY <2>2, <2>6 DEF i
<1> HIDE DEF T
<1>6. T = Nat
  <2>1. T \in SUBSET Nat
    BY DEF T
  <2> QED BY <1>4, <1>5, <2>1, SetInduction
<1>7. ASSUME NEW i \in 1..Len(s) PROVE f[s[i]] = Rest(s, i - 1)
  <2>1. Len(s) - i \in T /\ Len(s) - i < Len(s) /\ Len(s) - (Len(s) - i) = i
    BY <1>1, <1>6
  <2> QED BY <2>1 DEF T
<1> QED BY <1>2, <1>7

(* So Chain is that, now and in the next state.                            *)
ChainFrom(h) == LET f[c \in 0..MaxCell] == IF c = NULL THEN <<>> ELSE <<c>> \o f[h[c].next] IN f

LEMMA ChainIs == Chain = ChainFrom(pbuf) /\ Chain' = ChainFrom(pbuf')
  BY DEF Chain, ChainFrom

LEMMA ChainOf ==
  ASSUME NEW s, NEW h, Linked(s, h)
  PROVE  /\ ChainFrom(h)[NULL] = <<>>
         /\ \A i \in 1..Len(s) : ChainFrom(h)[s[i]] = Rest(s, i - 1)
<1> DEFINE c == CHOOSE f : f = [d \in 0..MaxCell |-> IF d = NULL THEN <<>> ELSE <<d>> \o f[h[d].next]]
<1>1. \E f : f = [d \in 0..MaxCell |-> IF d = NULL THEN <<>> ELSE <<d>> \o f[h[d].next]]
  BY ChainsExists DEF Chains
<1>2. c = [d \in 0..MaxCell |-> IF d = NULL THEN <<>> ELSE <<d>> \o c[h[d].next]]
  BY <1>1, Zenon
<1>3. ChainFrom(h) = c
  BY DEF ChainFrom
<1> HIDE DEF c
<1>4. Chains(c, h)
  BY <1>2 DEF Chains
<1> QED BY <1>3, <1>4, ChainsAre


-----------------------------------------------------------------------------
(* The datagrams q in a chain s of the heap h: the pbufs of the kth follow *)
(* place b[k], where its helper is unless it is the first.                 *)
Places(q, b) ==
  /\ q \in Seq(Packet)
  /\ b \in [1..(Len(q) + 1) -> Nat] /\ b[1] = 0
  /\ \A k \in 1..Len(q) : b[k + 1] = b[k] + Len(Payload[q[k]]) + 1

Holds(d, p, j) == d.helper = FALSE /\ d.of = p /\ d.bytes = Payload[p][j]
Heads(d, p) == d.helper = TRUE /\ d.of = Source[p]

Laid(s, q, b, h) ==
  /\ Places(q, b)
  /\ Len(s) = IF q = <<>> THEN 0 ELSE b[Len(q) + 1] - 1
  /\ \A k \in 1..Len(q) : \A j \in 1..Len(Payload[q[k]]) : Holds(h[s[b[k] + j]], q[k], j)
  /\ \A k \in 1..Len(q) : k # 1 => Heads(h[s[b[k]]], q[k])

LEMMA PayloadIs ==
  ASSUME NEW p \in Packet
  PROVE  Payload[p] \in Seq(Seq(Byte)) /\ Len(Payload[p]) \in Nat /\ Len(Payload[p]) >= 1
<1>1. Payload[p] \in Seq(Seq(Byte)) /\ Payload[p] # <<>>
  BY UdpAssumption
<1>2. Len(Payload[p]) \in Nat /\ Len(Payload[p]) # 0
  BY <1>1, EmptySeq
<1> QED BY <1>1, <1>2

(* The places of the datagrams follow each other, with a helper between.   *)
LEMMA PlacesGrow ==
  ASSUME NEW q, NEW b, Places(q, b)
  PROVE  /\ Len(q) \in Nat
         /\ \A k \in 1..Len(q) : /\ q[k] \in Packet /\ b[k] \in Nat /\ b[k + 1] \in Nat
                                 /\ Len(Payload[q[k]]) \in Nat /\ Len(Payload[q[k]]) >= 1
                                 /\ b[k + 1] = b[k] + Len(Payload[q[k]]) + 1
         /\ \A k \in Nat : k <= Len(q) => 2 * k <= b[k + 1]
         /\ \A k, m \in 1..(Len(q) + 1) : k <= m => b[k] <= b[m]
<1>1. Len(q) \in Nat
  BY DEF Places
<1>2. \A k \in 1..Len(q) : /\ q[k] \in Packet /\ b[k] \in Nat /\ b[k + 1] \in Nat
                           /\ Len(Payload[q[k]]) \in Nat /\ Len(Payload[q[k]]) >= 1
                           /\ b[k + 1] = b[k] + Len(Payload[q[k]]) + 1
  <2> TAKE k \in 1..Len(q)
  <2>1. q[k] \in Packet
    BY ElementOfSeq DEF Places
  <2>2. k \in 1..(Len(q) + 1) /\ k + 1 \in 1..(Len(q) + 1)
    BY <1>1
  <2> QED BY <2>1, <2>2, PayloadIs DEF Places
<1> DEFINE T == {k \in Nat : k <= Len(q) => 2 * k <= b[k + 1]}
<1>3. T = Nat
  <2>1. 0 \in T
    BY DEF Places
  <2>2. ASSUME NEW k \in T PROVE k + 1 \in T
    <3> SUFFICES ASSUME k + 1 <= Len(q) PROVE 2 * (k + 1) <= b[(k + 1) + 1]
      OBVIOUS
    <3>1. k + 1 \in 1..Len(q) /\ k <= Len(q) /\ k \in Nat
      BY <1>1
    <3>2. 2 * k <= b[k + 1]
      BY <3>1
    <3>3. /\ b[(k + 1) + 1] = b[k + 1] + Len(Payload[q[k + 1]]) + 1 /\ Len(Payload[q[k + 1]]) >= 1
          /\ b[k + 1] \in Nat /\ Len(Payload[q[k + 1]]) \in Nat
      BY <1>2, <3>1
    <3> QED BY <3>1, <3>2, <3>3
  <2>3. T \in SUBSET Nat
    OBVIOUS
  <2> HIDE DEF T
  <2> QED BY <2>1, <2>2, <2>3, SetInduction
<1>4. ASSUME NEW k \in 1..(Len(q) + 1), NEW m \in 1..(Len(q) + 1), k <= m PROVE b[k] <= b[m]
  <2> DEFINE U == {d \in Nat : k + d <= Len(q) + 1 => b[k] <= b[k + d]}
  <2>1. 0 \in U
    <3>1. k + 0 = k /\ b[k] \in Nat
      BY <1>1 DEF Places
    <3> QED BY <3>1
  <2>2. ASSUME NEW d \in U PROVE d + 1 \in U
    <3> SUFFICES ASSUME k + (d + 1) <= Len(q) + 1 PROVE b[k] <= b[k + (d + 1)]
      OBVIOUS
    <3>1. k + d \in 1..Len(q) /\ k + (d + 1) = (k + d) + 1 /\ k + d <= Len(q) + 1 /\ b[k] \in Nat
      BY <1>1 DEF Places
    <3>2. b[k] <= b[k + d]
      BY <3>1
    <3>3. b[(k + d) + 1] = b[k + d] + Len(Payload[q[k + d]]) + 1 /\ b[k + d] \in Nat /\ Len(Payload[q[k + d]]) \in Nat
      BY <1>2, <3>1
    <3> HIDE DEF U
    <3> QED BY <3>1, <3>2, <3>3
  <2>3. U \in SUBSET Nat
    OBVIOUS
  <2> HIDE DEF U
  <2>4. U = Nat
    BY <2>1, <2>2, <2>3, SetInduction
  <2>5. m - k \in Nat /\ k + (m - k) = m /\ m <= Len(q) + 1
    BY <1>1, <1>4
  <2> QED BY <2>4, <2>5 DEF U
<1>5. \A k \in Nat : k <= Len(q) => 2 * k <= b[k + 1]
  BY <1>3
<1> QED BY <1>1, <1>2, <1>4, <1>5

(* Each place of the chain is one of a datagram, or a helper.              *)
LEMMA LaidInside ==
  ASSUME NEW s, NEW q, NEW b, NEW h, Laid(s, q, b, h), NEW k \in 1..Len(q)
  PROVE  /\ Len(s) \in Nat
         /\ b[k] + Len(Payload[q[k]]) <= Len(s)
         /\ k # 1 => b[k] \in 1..Len(s)
         /\ 2 * Len(q) <= Len(s) + 1
         /\ k = Len(q) => b[k] + Len(Payload[q[k]]) = Len(s)
<1>1. Places(q, b) /\ q # <<>> /\ Len(s) = b[Len(q) + 1] - 1
  <2>1. Places(q, b) /\ q # <<>>
    BY DEF Laid, Places
  <2> QED BY <2>1 DEF Laid
<1>2. Len(q) \in Nat /\ k \in Nat /\ k <= Len(q) /\ k >= 1 /\ k + 1 \in 1..(Len(q) + 1) /\ Len(q) + 1 \in 1..(Len(q) + 1)
  BY <1>1, PlacesGrow
<1>3. /\ b[k] \in Nat /\ b[k + 1] \in Nat /\ Len(Payload[q[k]]) \in Nat
      /\ b[k + 1] = b[k] + Len(Payload[q[k]]) + 1
      /\ b[k + 1] <= b[Len(q) + 1]
      /\ 2 * Len(q) <= b[Len(q) + 1]
  <2>1. /\ b[k] \in Nat /\ b[k + 1] \in Nat /\ Len(Payload[q[k]]) \in Nat
        /\ b[k + 1] = b[k] + Len(Payload[q[k]]) + 1
    BY <1>1, PlacesGrow
  <2>2. k + 1 <= Len(q) + 1 /\ Len(q) <= Len(q)
    BY <1>2
  <2>3. b[k + 1] <= b[Len(q) + 1]
    BY <1>1, <1>2, <2>2, PlacesGrow
  <2>4. 2 * Len(q) <= b[Len(q) + 1]
    BY <1>1, <1>2, <2>2, PlacesGrow
  <2> QED BY <2>1, <2>3, <2>4
<1>4. b[Len(q) + 1] \in Nat
  BY <1>1, <1>2 DEF Places
<1>5. k # 1 => b[k] >= 1
  <2> SUFFICES ASSUME k # 1 PROVE b[k] >= 1
    OBVIOUS
  <2>1. k - 1 \in Nat /\ k - 1 <= Len(q) /\ (k - 1) + 1 = k /\ 2 * (k - 1) >= 1
    BY <1>2
  <2>2. 2 * (k - 1) <= b[(k - 1) + 1]
    BY <1>1, <2>1, PlacesGrow
  <2> QED BY <1>3, <2>1, <2>2
<1>6. Len(s) \in Nat /\ 2 * Len(q) <= Len(s) + 1 /\ b[k] + Len(Payload[q[k]]) <= Len(s)
  <2> DEFINE z == b[Len(q) + 1]
             l == Len(Payload[q[k]])
             x == b[k]
             w == Len(q)
  <2>1. /\ z \in Nat /\ l \in Nat /\ x \in Nat /\ w \in Nat /\ Len(s) = z - 1
        /\ x + l + 1 <= z /\ 2 * w <= z
    BY <1>1, <1>2, <1>3, <1>4
  <2> HIDE DEF z, l, x, w
  <2>2. Len(s) \in Nat /\ 2 * w <= Len(s) + 1 /\ x + l <= Len(s)
    BY <2>1
  <2> QED BY <2>2 DEF l, x, w
<1>7. k # 1 => b[k] \in 1..Len(s)
  BY <1>3, <1>5, <1>6
<1>8. k = Len(q) => b[k] + Len(Payload[q[k]]) = Len(s)
  <2> SUFFICES ASSUME k = Len(q) PROVE b[k] + Len(Payload[q[k]]) = Len(s)
    OBVIOUS
  <2>1. b[k + 1] = Len(s) + 1
    BY <1>1, <1>4, <1>6
  <2> QED BY <1>3, <1>6, <2>1
<1> QED BY <1>6, <1>7, <1>8

(* The box of the chain is q.                                              *)
LEMMA LaidBox ==
  ASSUME NEW s, NEW q, NEW b, NEW h, Laid(s, q, b, h)
  PROVE  BoxOf(s, h, Len(s)) = q
<1>1. Places(q, b) /\ Len(q) \in Nat /\ q \in Seq(Packet)
  BY PlacesGrow DEF Laid, Places
<1>2. CASE q = <<>>
  BY <1>2, BoxStep DEF Laid
<1>3. CASE q # <<>>
  <2>1. Len(q) >= 1 /\ 1 \in 1..Len(q) /\ b[1] = 0
    BY <1>1, <1>3, EmptySeq DEF Places
  <2>2. Len(s) \in Nat
    BY <2>1, LaidInside
  <2> DEFINE At(i, k) == b[k] < i /\ i <= b[k + 1] /\ BoxOf(s, h, i) = SubSeq(q, 1, k)
             T == {i \in Nat : 1 <= i /\ i <= Len(s) => \E k \in 1..Len(q) : At(i, k)}
  <2>3. 0 \in T
    OBVIOUS
  <2>4. ASSUME NEW i \in T PROVE i + 1 \in T
    <3> SUFFICES ASSUME i + 1 <= Len(s) PROVE \E k \in 1..Len(q) : At(i + 1, k)
      OBVIOUS
    <3>1. i \in Nat /\ (i + 1) - 1 = i
      OBVIOUS
    <3>2. CASE i = 0
      <4>1. Starts(s, h, i + 1)
        BY <3>2 DEF Starts
      <4>2. /\ b[2] \in Nat /\ b[1] = 0 /\ Len(Payload[q[1]]) >= 1 /\ Len(Payload[q[1]]) \in Nat
            /\ b[2] = b[1] + Len(Payload[q[1]]) + 1
        BY <1>1, <2>1, PlacesGrow
      <4>3. h[s[1]].of = q[1]
        <5>1. 1 \in 1..Len(Payload[q[1]]) /\ b[1] + 1 = 1
          BY <4>2
        <5> QED BY <2>1, <5>1 DEF Laid, Holds
      <4>4. BoxOf(s, h, i + 1) = Append(<<>>, q[1])
        <5>1. BoxOf(s, h, 0 + 1) = Append(BoxOf(s, h, 0), h[s[0 + 1]].of) /\ BoxOf(s, h, 0) = <<>>
          BY <3>2, <4>1, BoxStep
        <5>2. 0 + 1 = 1 /\ i + 1 = 1
          BY <3>2
        <5>3. BoxOf(s, h, 1) = Append(<<>>, h[s[1]].of)
          BY <5>1, <5>2
        <5> QED BY <4>3, <5>2, <5>3
      <4>5. SubSeq(q, 1, 1) = <<q[1]>> /\ Append(<<>>, q[1]) = <<q[1]>>
        <5>1. q[1] \in Packet
          BY <1>1, <2>1, PlacesGrow
        <5>2. SubSeq(q, 1, 1) \in Seq(Packet) /\ Len(SubSeq(q, 1, 1)) = 1 /\ SubSeq(q, 1, 1)[1] = q[1]
          BY <1>1, <2>1, <5>1
        <5>3. <<q[1]>> \in Seq(Packet) /\ Len(<<q[1]>>) = 1 /\ <<q[1]>>[1] = q[1]
          BY <5>1
        <5>4. SubSeq(q, 1, 1) = <<q[1]>>
          <6>1. \A j \in 1..Len(SubSeq(q, 1, 1)) : SubSeq(q, 1, 1)[j] = <<q[1]>>[j]
            BY <5>2, <5>3
          <6> QED BY <5>2, <5>3, <6>1, SameSeq
        <5> QED BY <5>4
      <4>6. At(i + 1, 1)
        BY <3>2, <4>2, <4>4, <4>5
      <4> QED BY <2>1, <4>6
    <3>3. CASE i # 0
      <4>1. PICK k \in 1..Len(q) : At(i, k)
        BY <3>1, <3>3, <2>2
      <4>2. /\ b[k] \in Nat /\ b[k + 1] \in Nat /\ Len(Payload[q[k]]) \in Nat
            /\ b[k + 1] = b[k] + Len(Payload[q[k]]) + 1
        BY <1>1, PlacesGrow
      <4>3. i + 1 # 1
        BY <3>3
      <4> HIDE DEF T
      <4>4. CASE i # b[k + 1]
        <5>1. i - b[k] \in 1..Len(Payload[q[k]]) /\ b[k] + (i - b[k]) = i
          <6> DEFINE l == Len(Payload[q[k]])
                     x == b[k]
          <6>1. i \in Nat /\ x \in Nat /\ l \in Nat /\ x < i /\ i <= x + l + 1 /\ i # x + l + 1
            BY <3>1, <4>1, <4>2, <4>4
          <6> HIDE DEF l, x
          <6>2. i - x \in 1..l /\ x + (i - x) = i
            BY <6>1
          <6> QED BY <6>2 DEF l, x
        <5>2. h[s[i]].helper = FALSE
          BY <5>1 DEF Laid, Holds
        <5>3. ~Starts(s, h, i + 1)
          BY <3>1, <4>3, <5>2 DEF Starts
        <5>4. BoxOf(s, h, i + 1) = BoxOf(s, h, i)
          BY <3>1, <5>3, BoxStep
        <5>5. At(i + 1, k)
          BY <3>1, <4>1, <4>2, <4>4, <5>4
        <5> QED BY <5>5
      <4>5. CASE i = b[k + 1]
        <5>1. k # Len(q)
          <6> SUFFICES ASSUME k = Len(q) PROVE FALSE
            OBVIOUS
          <6>1. b[k] + Len(Payload[q[k]]) = Len(s)
            BY LaidInside
          <6> QED BY <2>2, <3>1, <4>2, <4>5, <6>1
        <5>2. k + 1 \in 1..Len(q) /\ k + 1 # 1 /\ k \in Nat
          BY <1>1, <5>1
        <5>3. h[s[i]].helper = TRUE
          BY <4>5, <5>2 DEF Laid, Heads
        <5>4. Starts(s, h, i + 1)
          BY <3>1, <5>3 DEF Starts
        <5>5. /\ b[(k + 1) + 1] \in Nat /\ Len(Payload[q[k + 1]]) >= 1 /\ Len(Payload[q[k + 1]]) \in Nat
              /\ b[(k + 1) + 1] = b[k + 1] + Len(Payload[q[k + 1]]) + 1
              /\ q[k + 1] \in Packet
          BY <1>1, <5>2, PlacesGrow
        <5>6. h[s[i + 1]].of = q[k + 1]
          <6>1. 1 \in 1..Len(Payload[q[k + 1]])
            BY <5>5
          <6> QED BY <4>5, <5>2, <6>1 DEF Laid, Holds
        <5>7. BoxOf(s, h, i + 1) = Append(SubSeq(q, 1, k), q[k + 1])
          BY <3>1, <4>1, <5>4, <5>6, BoxStep
        <5>8. Append(SubSeq(q, 1, k), q[k + 1]) = SubSeq(q, 1, k + 1)
          <6> DEFINE a == Append(SubSeq(q, 1, k), q[k + 1])
                     c == SubSeq(q, 1, k + 1)
          <6>1. SubSeq(q, 1, k) \in Seq(Packet) /\ Len(SubSeq(q, 1, k)) = k /\ \A j \in 1..k : SubSeq(q, 1, k)[j] = q[j]
            BY <1>1, <5>2
          <6>2. a \in Seq(Packet) /\ Len(a) = k + 1 /\ \A j \in 1..(k + 1) : a[j] = q[j]
            BY <5>2, <5>5, <6>1
          <6>3. c \in Seq(Packet) /\ Len(c) = k + 1 /\ \A j \in 1..(k + 1) : c[j] = q[j]
            BY <1>1, <5>2
          <6> HIDE DEF a, c
          <6>4. a = c
            BY <6>2, <6>3, SameSeq
          <6> QED BY <6>4 DEF a, c
        <5>9. At(i + 1, k + 1)
          <6>1. BoxOf(s, h, i + 1) = SubSeq(q, 1, k + 1)
            BY <5>7, <5>8
          <6>2. b[k + 1] < i + 1 /\ i + 1 <= b[(k + 1) + 1]
            <7>1. i \in Nat /\ b[k + 1] = i
              BY <3>1, <4>5
            <7>2. b[(k + 1) + 1] = i + Len(Payload[q[k + 1]]) + 1
              BY <5>5, <7>1
            <7>3. \A x, y \in Nat : x < x + 1 /\ x + 1 <= x + y + 1
              OBVIOUS
            <7>4. i < i + 1 /\ i + 1 <= i + Len(Payload[q[k + 1]]) + 1
              BY <5>5, <7>1, <7>3
            <7> QED BY <7>1, <7>2, <7>4
          <6> QED BY <6>1, <6>2
        <5> QED BY <5>2, <5>9
      <4> QED BY <4>4, <4>5
    <3> QED BY <3>2, <3>3
  <2>5. T \in SUBSET Nat
    OBVIOUS
  <2> HIDE DEF T
  <2>6. T = Nat
    BY <2>3, <2>4, <2>5, SetInduction
  <2>7. Len(s) >= 1
    <3>1. b[1] + Len(Payload[q[1]]) <= Len(s) /\ Len(Payload[q[1]]) >= 1 /\ Len(Payload[q[1]]) \in Nat
      BY <1>1, <2>1, LaidInside, PlacesGrow
    <3> QED BY <2>1, <2>2, <3>1
  <2>8. PICK k \in 1..Len(q) : At(Len(s), k)
    BY <2>2, <2>6, <2>7 DEF T
  <2>9. k = Len(q)
    <3> SUFFICES ASSUME k # Len(q) PROVE FALSE
      OBVIOUS
    <3>1. k + 1 \in 1..Len(q) /\ k + 1 # 1
      BY <1>1
    <3>2. b[k + 1] + Len(Payload[q[k + 1]]) <= Len(s) /\ Len(Payload[q[k + 1]]) >= 1 /\ Len(Payload[q[k + 1]]) \in Nat
      BY <1>1, <3>1, LaidInside, PlacesGrow
    <3>3. b[k + 1] \in Nat
      BY <1>1, PlacesGrow
    <3> QED BY <2>2, <2>8, <3>2, <3>3
  <2>10. SubSeq(q, 1, Len(q)) = q
    BY <1>1, SubSeqFull
  <2> QED BY <2>8, <2>9, <2>10
<1> QED BY <1>2, <1>3

-----------------------------------------------------------------------------
(* A pbuf of the heap.                                                     *)
Pbuf == [helper : BOOLEAN, of : Packet \cup {Source[p] : p \in Packet} \cup {NULL}, bytes : Seq(Byte),
         next : 0..MaxCell, ref : Nat]

(* DataFrom() and BytesOf(), of a chain s in a heap h.                     *)
DataIn(s, h) == LET helper == SelectInSeq(s, LAMBDA d : h[d].helper)
                IN  IF helper = 0 THEN s ELSE SubSeq(s, 1, helper - 1)
BytesIn(s, h) == FlattenSeq([i \in DOMAIN s |-> h[s[i]].bytes])

LEMMA DataFromIs == \A c : DataFrom(c) = DataIn(Chain[c], pbuf)
  BY DEF DataFrom, DataIn

LEMMA BytesOfIs == \A s : BytesOf(s) = BytesIn(s, pbuf)
  BY DEF BytesOf, BytesIn

(* The first element of a sequence that passes a test, whose places are I. *)
LEMMA FirstIs ==
  ASSUME NEW I \in SUBSET Nat, NEW m \in I, \A i \in I : m <= i
  PROVE  Min(I) = m
<1>1. \A x \in I : (\A y \in I : x <= y) => x = m
  OBVIOUS
<1> QED BY <1>1 DEF Min

LEMMA FlatIs ==
  ASSUME NEW p \in Packet
  PROVE  FlattenSeq(Payload[p]) \in Seq(Byte) /\ Len(FlattenSeq(Payload[p])) \in Nat
  BY PayloadIs, FlattenIs

(* The pbufs up to the first helper are those of the first datagram, and   *)
(* hold its bytes.                                                         *)
LEMMA DataIs ==
  ASSUME NEW s \in Seq(Cell), NEW q, NEW b, NEW h, Laid(s, q, b, h), q # <<>>
  PROVE  /\ 1 \in 1..Len(q) /\ q[1] \in Packet
         /\ Len(DataIn(s, h)) = Len(Payload[q[1]])
         /\ Len(q) = 1 <=> Len(DataIn(s, h)) = Len(s)
         /\ Len(q) # 1 => b[2] = Len(DataIn(s, h)) + 1 /\ b[2] \in 1..Len(s)
         /\ BytesIn(DataIn(s, h), h) = FlattenSeq(Payload[q[1]])
<1> DEFINE m == Len(Payload[q[1]])
<1>1. Places(q, b) /\ Len(q) \in Nat /\ q \in Seq(Packet) /\ Len(q) # 0
  BY PlacesGrow, EmptySeq DEF Laid, Places
<1>2. /\ 1 \in 1..Len(q) /\ b[1] = 0 /\ q[1] \in Packet /\ m \in Nat /\ m >= 1 /\ b[2] = m + 1
      /\ Payload[q[1]] \in Seq(Seq(Byte))
  <2>1. 1 \in 1..Len(q) /\ b[1] = 0
    BY <1>1 DEF Places
  <2>2. q[1] \in Packet /\ m \in Nat /\ m >= 1 /\ b[1 + 1] = b[1] + m + 1
    BY <1>1, <2>1, PlacesGrow
  <2> QED BY <2>1, <2>2, PayloadIs
<1>3. Len(s) \in Nat /\ m <= Len(s) /\ (Len(q) = 1 => m = Len(s))
  <2>1. b[1] + m <= Len(s) /\ (1 = Len(q) => b[1] + m = Len(s)) /\ Len(s) \in Nat
    BY <1>2, LaidInside
  <2> QED BY <1>2, <2>1
<1>4. \A j \in 1..m : Holds(h[s[j]], q[1], j)
  <2> TAKE j \in 1..m
  <2>1. Holds(h[s[b[1] + j]], q[1], j) /\ b[1] + j = j
    BY <1>2 DEF Laid
  <2> QED BY <2>1
<1>5. Len(q) # 1 => b[2] \in 1..Len(s) /\ h[s[b[2]]].helper = TRUE
  <2> SUFFICES ASSUME Len(q) # 1 PROVE b[2] \in 1..Len(s) /\ h[s[b[2]]].helper = TRUE
    OBVIOUS
  <2>1. 2 \in 1..Len(q)
    <3>1. Len(q) \in Nat /\ Len(q) # 0 /\ Len(q) # 1
      BY <1>1
    <3>2. \A n \in Nat : n # 0 /\ n # 1 => 2 \in 1..n
      OBVIOUS
    <3> QED BY <3>1, <3>2
  <2>2. b[2] \in 1..Len(s)
    BY <2>1, LaidInside
  <2>3. Heads(h[s[b[2]]], q[2])
    BY <2>1 DEF Laid
  <2> QED BY <2>2, <2>3 DEF Heads
<1> DEFINE I == {i \in 1..Len(s) : h[s[i]].helper}
<1>6. DataIn(s, h) = SubSeq(s, 1, m)
  <2>1. CASE Len(q) = 1
    <3>1. I = {}
      BY <1>3, <1>4, <2>1 DEF Holds
    <3>2. DataIn(s, h) = s
      BY <3>1 DEF DataIn, SelectInSeq
    <3>3. SubSeq(s, 1, Len(s)) = s
      BY SubSeqFull
    <3> QED BY <1>3, <2>1, <3>2, <3>3
  <2>2. CASE Len(q) # 1
    <3>1. b[2] \in I /\ I \in SUBSET Nat
      BY <1>5, <2>2
    <3>2. ASSUME NEW i \in I PROVE b[2] <= i
      <4> SUFFICES ASSUME i < b[2] PROVE FALSE
        BY <1>2, <1>3
      <4>1. i \in 1..m
        BY <1>2, <1>3
      <4> QED BY <1>4, <4>1 DEF Holds
    <3>3. Min(I) = b[2] /\ I # {}
      BY <3>1, <3>2, FirstIs
    <3>4. SelectInSeq(s, LAMBDA d : h[d].helper) = b[2]
      BY <3>3 DEF SelectInSeq
    <3> HIDE DEF I
    <3>5. b[2] # 0 /\ b[2] - 1 = m
      BY <1>2
    <3> QED BY <3>4, <3>5 DEF DataIn
  <2> QED BY <2>1, <2>2
<1> DEFINE d == SubSeq(s, 1, m)
<1>7. d \in Seq(Cell) /\ Len(d) = m /\ DOMAIN d = 1..m /\ \A j \in 1..m : d[j] = s[j]
  BY <1>2, <1>3
<1>8. BytesIn(d, h) = FlattenSeq(Payload[q[1]])
  <2>1. \A j \in 1..m : h[d[j]].bytes = Payload[q[1]][j]
    BY <1>4, <1>7 DEF Holds
  <2> HIDE DEF d
  <2>2. [i \in DOMAIN d |-> h[d[i]].bytes] = Payload[q[1]]
    <3>1. Payload[q[1]] = [i \in 1..m |-> Payload[q[1]][i]]
      BY <1>2
    <3> QED BY <1>7, <2>1, <3>1
  <2> QED BY <2>2 DEF BytesIn
<1>9. Len(q) # 1 => m # Len(s)
  BY <1>2, <1>3, <1>5
<1> QED BY <1>2, <1>3, <1>5, <1>6, <1>7, <1>8, <1>9

(* So the bytes of the whole chain begin with those of the first datagram. *)
LEMMA ReadIs ==
  ASSUME NEW s \in Seq(Cell), NEW q, NEW b, NEW h \in [Cell -> Pbuf], Laid(s, q, b, h), q # <<>>,
         NEW o \in Nat, NEW k \in Nat, o + k <= Len(FlattenSeq(Payload[q[1]]))
  PROVE  SubSeq(BytesIn(s, h), o + 1, o + k) = SubSeq(FlattenSeq(Payload[q[1]]), o + 1, o + k)
<1> DEFINE m == Len(Payload[q[1]])
           r == [i \in 1..Len(s) |-> h[s[i]].bytes]
           a == FlattenSeq(Payload[q[1]])
           c == BytesIn(s, h)
<1>1. Places(q, b) /\ 1 \in 1..Len(q) /\ q[1] \in Packet
  BY DataIs DEF Laid
<1>2. /\ m \in Nat /\ Payload[q[1]] \in Seq(Seq(Byte)) /\ b[1] = 0
      /\ Len(s) \in Nat /\ m <= Len(s)
  <2>1. m \in Nat /\ b[1] = 0 /\ Payload[q[1]] \in Seq(Seq(Byte))
    BY <1>1, PayloadIs DEF Places
  <2>2. b[1] + m <= Len(s) /\ Len(s) \in Nat
    BY <1>1, LaidInside
  <2> QED BY <2>1, <2>2
<1>3. r \in Seq(Seq(Byte)) /\ Len(r) = Len(s)
  <2>1. ASSUME NEW i \in 1..Len(s) PROVE h[s[i]].bytes \in Seq(Byte)
    <3>1. s[i] \in Cell
      BY ElementOfSeq
    <3>2. h[s[i]] \in Pbuf
      BY <3>1
    <3> QED BY <3>2 DEF Pbuf
  <2> QED BY <1>2, <2>1, IsASeq
<1>4. \A j \in 1..m : r[j] = Payload[q[1]][j]
  <2> TAKE j \in 1..m
  <2>1. Holds(h[s[b[1] + j]], q[1], j) /\ b[1] + j = j /\ j \in 1..Len(s)
    <3>1. Holds(h[s[b[1] + j]], q[1], j)
      BY <1>1 DEF Laid
    <3>2. b[1] + j = j /\ j \in 1..Len(s)
      BY <1>2
    <3> QED BY <3>1, <3>2
  <2> QED BY <2>1 DEF Holds
<1>5. c = Joined(r, Len(r)) /\ c \in Seq(Byte)
  <2>1. c = FlattenSeq(r)
    <3>1. DOMAIN s = 1..Len(s)
      OBVIOUS
    <3> QED BY <3>1 DEF BytesIn
  <2> HIDE DEF c, r
  <2> QED BY <1>3, <2>1, FlattenIs
<1>6. a = Joined(r, m) /\ a \in Seq(Byte)
  <2>1. a = Joined(Payload[q[1]], m) /\ a \in Seq(Byte)
    BY <1>2, FlattenIs
  <2> HIDE DEF a, c, r
  <2>2. Joined(r, m) = Joined(Payload[q[1]], m)
    <3>1. m <= m
      BY <1>2
    <3>2. \A n \in Nat : n <= m => Joined(r, n) = Joined(Payload[q[1]], n)
      <4> HIDE DEF m
      <4>1. \A u : (\A j \in 1..m : r[j] = u[j]) => \A n \in Nat : n <= m => Joined(r, n) = Joined(u, n)
        BY <1>2, JoinedSame
      <4> QED BY <1>4, <4>1
    <3> QED BY <1>2, <3>1, <3>2
  <2> QED BY <2>1, <2>2
<1> HIDE DEF a, c, r
<1>7. Len(a) <= Len(c) /\ \A i \in 1..Len(a) : c[i] = a[i]
  <2>1. m <= Len(r) /\ Len(r) <= Len(r) /\ Len(r) \in Nat
    BY <1>2, <1>3
  <2>2. /\ Len(Joined(r, m)) <= Len(Joined(r, Len(r)))
        /\ \A i \in 1..Len(Joined(r, m)) : Joined(r, Len(r))[i] = Joined(r, m)[i]
    BY <1>2, <1>3, <2>1, JoinedPrefix
  <2> QED BY <1>5, <1>6, <2>2
<1>8. o + k <= Len(a) /\ Len(a) \in Nat /\ Len(c) \in Nat
  BY <1>5, <1>6 DEF a
<1>9. SubSeq(c, o + 1, o + k) = SubSeq(a, o + 1, o + k)
  <2> DEFINE x == SubSeq(c, o + 1, o + k)
             y == SubSeq(a, o + 1, o + k)
  <2> DEFINE u == o + 1
             v == o + k
  <2>5. a \in Seq(Byte) /\ u \in 1..(Len(a) + 1) /\ v \in (u - 1)..Len(a) /\ v - u + 1 = k /\ u \in Nat
    BY <1>6, <1>8
  <2>6. \A i \in Nat : u + i - 1 = o + i
    OBVIOUS
  <2>1. x \in Seq(Byte) /\ Len(x) = k /\ \A i \in 1..k : x[i] = c[o + i]
    BY <1>5, <1>7, <1>8
  <2>2. y \in Seq(Byte) /\ Len(y) = k /\ \A i \in 1..k : y[i] = a[o + i]
    <3> HIDE DEF u, v
    <3>1. /\ SubSeq(a, u, v) \in Seq(Byte) /\ Len(SubSeq(a, u, v)) = v - u + 1
          /\ \A i \in 1..(v - u + 1) : SubSeq(a, u, v)[i] = a[u + i - 1]
      BY <1>8, <2>5
    <3> QED BY <2>5, <2>6, <3>1 DEF u, v
  <2> HIDE DEF x, y
  <2>3. ASSUME NEW i \in 1..k PROVE x[i] = y[i]
    <3>1. o + i \in 1..Len(a)
      BY <1>8
    <3> QED BY <1>7, <2>1, <2>2, <3>1
  <2>4. x = y
    BY <2>1, <2>2, <2>3, SameSeq
  <2> QED BY <2>4 DEF x, y
<1> QED BY <1>9 DEF a, c

(* Any piece of what the chain holds is that piece of the first datagram.  *)
ReadsFrom(s, q, h) ==
  \A o, k \in Nat : o + k <= Len(FlattenSeq(Payload[q[1]])) =>
    SubSeq(BytesIn(s, h), o + 1, o + k) = SubSeq(FlattenSeq(Payload[q[1]]), o + 1, o + k)

LEMMA ReadsTheFirst ==
  ASSUME NEW s, NEW q, NEW b, NEW h, s \in Seq(Cell), h \in [Cell -> Pbuf], Laid(s, q, b, h), q # <<>>
  PROVE  ReadsFrom(s, q, h)
<1> SUFFICES ASSUME NEW o \in Nat, NEW k \in Nat, o + k <= Len(FlattenSeq(Payload[q[1]]))
             PROVE  SubSeq(BytesIn(s, h), o + 1, o + k) = SubSeq(FlattenSeq(Payload[q[1]]), o + 1, o + k)
  BY DEF ReadsFrom
<1> QED BY ReadIs

-----------------------------------------------------------------------------
(* A heap whose pbufs in use are those of the chain s.                     *)
Kept(s, h) == /\ h \in [Cell -> Pbuf]
              /\ Linked(s, h)
              /\ \A i \in 1..Len(s) : h[s[i]].ref = 1
              /\ \A c \in Cell : ~In(s, c) => h[c] = Free

Begin(s) == IF s = <<>> THEN NULL ELSE s[1]

LEMMA FreeIs == Free \in Pbuf /\ Free.next = NULL /\ Free.ref = 0
<1>1. MaxCell \in Nat /\ NULL = 0 /\ <<>> \in Seq(Byte)
  BY UdpAssumption DEF NULL
<1>2. NULL \in 0..MaxCell
  BY <1>1
<1> QED BY <1>1, <1>2 DEF Free, Pbuf

(* Taking a reference and giving it back changes nothing.                  *)
LEMMA RefUndone ==
  ASSUME NEW d \in Pbuf, d.ref = 1, NEW e, e = [d EXCEPT !.ref = @ + 1]
  PROVE  e.ref = 2 /\ [e EXCEPT !.ref = @ - 1] = d
<1> DEFINE f == [e EXCEPT !.ref = @ - 1]
<1>1. e \in Pbuf /\ e.ref = 2 /\ e.helper = d.helper /\ e.of = d.of /\ e.bytes = d.bytes /\ e.next = d.next
  BY DEF Pbuf
<1>2. f = [e EXCEPT !.ref = 1]
  <2>1. 2 - 1 = 1
    OBVIOUS
  <2> QED BY <1>1, <2>1
<1>3. f \in Pbuf /\ f.ref = 1 /\ f.helper = e.helper /\ f.of = e.of /\ f.bytes = e.bytes /\ f.next = e.next
  <2> HIDE DEF f
  <2> QED BY <1>1, <1>2 DEF Pbuf
<1> HIDE DEF f
<1>4. f = d
  BY <1>1, <1>3 DEF Pbuf
<1> QED BY <1>1, <1>4 DEF f

LEMMA ChainBegin ==
  ASSUME NEW s, Linked(s, pbuf) PROVE Chain[Begin(s)] = s
<1>1. s \in Seq(Cell)
  BY DEF Linked
<1>2. CASE s = <<>>
  BY <1>2, ChainIs, ChainOf DEF Begin
<1>3. CASE s # <<>>
  <2>1. 1 \in 1..Len(s) /\ 1 - 1 = 0
    BY <1>1, <1>3, EmptySeq
  <2>2. ChainFrom(pbuf)[s[1]] = Rest(s, 0)
    BY <2>1, ChainOf
  <2> QED BY <1>1, <1>3, <2>2, ChainIs, RestAll DEF Begin
<1> QED BY <1>2, <1>3

(* pbuf_free() of a chain nobody else refers to leaves none of it.         *)
LEMMA ReleaseAll ==
  ASSUME NEW s, Kept(s, pbuf) PROVE Released(Begin(s), pbuf) = [d \in Cell |-> Free]
<1>1. Chain[Begin(s)] = s /\ s \in Seq(Cell) /\ Len(s) \in Nat
  BY ChainBegin DEF Kept, Linked
<1>2. {i \in 1..Len(s) : pbuf[s[i]].ref > 1} = {}
  BY DEF Kept
<1>3. SelectInSeq(s, LAMBDA d : pbuf[d].ref > 1) = 0
  BY <1>2 DEF SelectInSeq
<1>4. Released(Begin(s), pbuf) = [d \in Cell |-> IF d \in {s[i] : i \in 1..Len(s)} THEN Free ELSE pbuf[d]]
  BY <1>1, <1>3, Zenon DEF Released
<1>5. \A d \in Cell : ~(d \in {s[i] : i \in 1..Len(s)}) => pbuf[d] = Free
  BY DEF Kept, In
<1> QED BY <1>4, <1>5

(* A heap without the first m pbufs of s.                                  *)
Without(s, m, h) == [d \in Cell |-> IF \E i \in 1..m : s[i] = d THEN Free ELSE h[d]]

(* With a reference to a later pbuf of it, the pbufs in front of that go.  *)
LEMMA ReleaseFirst ==
  ASSUME NEW s, Kept(s, pbuf), NEW m \in Nat, m + 1 <= Len(s)
  PROVE  Released(Begin(s), Ref(s[m + 1])) = Without(s, m, pbuf)
<1> DEFINE c == s[m + 1]
           g == Ref(c)
<1>1. Chain[Begin(s)] = s /\ s \in Seq(Cell) /\ Len(s) \in Nat /\ m + 1 \in 1..Len(s) /\ c \in Cell
  <2>1. Chain[Begin(s)] = s /\ s \in Seq(Cell) /\ Len(s) \in Nat
    BY ChainBegin DEF Kept, Linked
  <2> QED BY <2>1, ElementOfSeq
<1>2. pbuf \in [Cell -> Pbuf] /\ pbuf[c] \in Pbuf /\ pbuf[c].ref = 1
  BY <1>1 DEF Kept
<1>3. g = [pbuf EXCEPT ![c].ref = @ + 1]
  BY DEF Ref
<1>4. \A d \in Cell : d # c => g[d] = pbuf[d]
  BY <1>2, <1>3
<1>5. g[c] = [pbuf[c] EXCEPT !.ref = @ + 1]
  BY <1>1, <1>2, <1>3
<1>6. g[c].ref = 2 /\ [g[c] EXCEPT !.ref = @ - 1] = pbuf[c]
  BY <1>2, <1>5, RefUndone
<1> HIDE DEF c, g
<1>7. \A i \in 1..Len(s) : g[s[i]].ref > 1 <=> i = m + 1
  <2> TAKE i \in 1..Len(s)
  <2>1. s[i] \in Cell /\ (s[i] = c => i = m + 1)
    BY <1>1, ElementOfSeq DEF Kept, Linked, c
  <2>2. CASE i = m + 1
    BY <1>6, <2>2 DEF c
  <2>3. CASE i # m + 1
    <3>1. g[s[i]] = pbuf[s[i]] /\ pbuf[s[i]].ref = 1
      BY <1>4, <2>1, <2>3 DEF Kept
    <3> QED BY <2>3, <3>1
  <2> QED BY <2>2, <2>3
<1> DEFINE I == {i \in 1..Len(s) : g[s[i]].ref > 1}
<1>8. I = {m + 1}
  BY <1>1, <1>7
<1>9. I # {} /\ Min(I) = m + 1
  BY <1>8 DEF Min
<1>10. SelectInSeq(s, LAMBDA d : g[d].ref > 1) = m + 1
  BY <1>9 DEF SelectInSeq
<1> HIDE DEF I
<1>11. m + 1 # 0 /\ (m + 1) - 1 = m
  OBVIOUS
<1> DEFINE r == [d \in Cell |-> IF d \in {s[i] : i \in 1..m} THEN Free
                                ELSE IF d = s[m + 1] THEN [g[d] EXCEPT !.ref = @ - 1] ELSE g[d]]
<1>12. Released(Begin(s), g) = r
  BY <1>1, <1>10, <1>11 DEF Released
<1>13. ASSUME NEW d \in Cell PROVE r[d] = IF \E i \in 1..m : s[i] = d THEN Free ELSE pbuf[d]
  <2>1. r[d] = IF d \in {s[i] : i \in 1..m} THEN Free
               ELSE IF d = s[m + 1] THEN [g[d] EXCEPT !.ref = @ - 1] ELSE g[d]
    OBVIOUS
  <2>2. d \in {s[i] : i \in 1..m} <=> \E i \in 1..m : s[i] = d
    OBVIOUS
  <2> HIDE DEF r
  <2> QED BY <1>4, <1>6, <2>1, <2>2 DEF c
<1>14. r = [d \in Cell |-> IF \E i \in 1..m : s[i] = d THEN Free ELSE pbuf[d]]
  BY <1>13
<1> QED BY <1>12, <1>14 DEF g, c, Without

(* What is left is a chain.                                                *)
LEMMA KeptRest ==
  ASSUME NEW s, NEW h, Kept(s, h), NEW m \in Nat, m <= Len(s),
         NEW g, g = Without(s, m, h)
  PROVE  /\ Kept(Rest(s, m), g)
         /\ \A i \in 1..(Len(s) - m) : g[s[m + i]] = h[s[m + i]]
<1> DEFINE t == Rest(s, m)
<1>1. s \in Seq(Cell) /\ Len(s) \in Nat /\ h \in [Cell -> Pbuf] /\ \A i \in 1..Len(s) : s[i] \in Cell
  BY ElementOfSeq DEF Kept, Linked
<1>2. t \in Seq(Cell) /\ Len(t) = Len(s) - m /\ \A i \in 1..(Len(s) - m) : t[i] = s[m + i]
  BY <1>1, RestIs
<1> HIDE DEF t
<1>3. \A i \in 1..(Len(s) - m) : m + i \in 1..Len(s)
  BY <1>1
<1>4. \A i \in 1..(Len(s) - m) : g[t[i]] = h[s[m + i]]
  <2> TAKE i \in 1..(Len(s) - m)
  <2>1. m + i \in 1..Len(s) /\ s[m + i] \in Cell
    BY <1>1, <1>3
  <2>2. ASSUME NEW j \in 1..m, s[j] = s[m + i] PROVE FALSE
    <3>1. j \in 1..Len(s) /\ j # m + i
      BY <1>1
    <3> QED BY <2>1, <2>2, <3>1 DEF Kept, Linked
  <2> QED BY <1>2, <2>1, <2>2 DEF Without
<1>5. \A c \in Cell : ~In(t, c) => g[c] = Free
  <2> SUFFICES ASSUME NEW c \in Cell, ~In(t, c), ~(\E i \in 1..m : s[i] = c) PROVE h[c] = Free
    BY DEF Without
  <2>1. ASSUME NEW i \in 1..Len(s), s[i] = c PROVE FALSE
    <3>1. ~(i \in 1..m)
      BY <2>1
    <3>2. i - m \in 1..(Len(s) - m) /\ m + (i - m) = i
      BY <1>1, <3>1
    <3>3. t[i - m] = c /\ i - m \in 1..Len(t)
      BY <1>2, <2>1, <3>2
    <3> QED BY <3>3 DEF In
  <2> QED BY <2>1 DEF Kept, In
<1>6. g \in [Cell -> Pbuf]
  BY <1>1, FreeIs DEF Without
<1>7. Linked(t, g)
  <2>1. \A i, j \in 1..Len(t) : t[i] = t[j] => i = j
    <3> TAKE i, j \in 1..Len(t)
    <3> HAVE t[i] = t[j]
    <3>1. m + i \in 1..Len(s) /\ m + j \in 1..Len(s) /\ s[m + i] = s[m + j]
      BY <1>2, <1>3
    <3>2. m + i = m + j
      BY <3>1 DEF Kept, Linked
    <3> QED BY <1>1, <1>2, <3>2
  <2>2. \A i \in 1..Len(t) : g[t[i]].next = IF i = Len(t) THEN NULL ELSE t[i + 1]
    <3> TAKE i \in 1..Len(t)
    <3>1. g[t[i]].next = IF m + i = Len(s) THEN NULL ELSE s[(m + i) + 1]
      BY <1>2, <1>3, <1>4 DEF Kept, Linked
    <3>2. m + i = Len(s) <=> i = Len(t)
      BY <1>1, <1>2
    <3>3. i # Len(t) => t[i + 1] = s[(m + i) + 1]
      <4> SUFFICES ASSUME i # Len(t) PROVE t[i + 1] = s[(m + i) + 1]
        OBVIOUS
      <4>1. i + 1 \in 1..(Len(s) - m)
        <5>1. \A x, y \in Nat : \A z \in 1..(x - y) : z # x - y => z + 1 \in 1..(x - y)
          OBVIOUS
        <5>2. i \in 1..(Len(s) - m) /\ i # Len(s) - m
          BY <1>2
        <5> QED BY <1>1, <5>1, <5>2
      <4>2. m + (i + 1) = (m + i) + 1
        BY <1>1, <1>2
      <4> QED BY <1>2, <4>1, <4>2
    <3> QED BY <3>1, <3>2, <3>3
  <2>3. \A c \in Cell : ~In(t, c) => g[c].next = NULL
    BY <1>5, FreeIs
  <2> QED BY <1>2, <2>1, <2>2, <2>3 DEF Linked
<1>8. \A i \in 1..Len(t) : g[t[i]].ref = 1
  <2> TAKE i \in 1..Len(t)
  <2>1. i \in 1..(Len(s) - m) /\ m + i \in 1..Len(s)
    BY <1>2, <1>3
  <2> QED BY <1>4, <2>1 DEF Kept
<1>9. Kept(t, g)
  BY <1>5, <1>6, <1>7, <1>8 DEF Kept
<1> QED BY <1>2, <1>4, <1>9 DEF t

(* It holds the datagrams behind the first.                                *)
LEMMA LaidRest ==
  ASSUME NEW s \in Seq(Cell), NEW q, NEW b, NEW h, Laid(s, q, b, h), q # <<>>, Len(q) # 1,
         NEW g, \A i \in 1..(Len(s) - b[2]) : g[s[b[2] + i]] = h[s[b[2] + i]]
  PROVE  /\ Laid(Rest(s, b[2]), Tail(q), [k \in 1..Len(q) |-> b[k + 1] - b[2]], g)
         /\ Tail(q) # <<>> /\ Tail(q)[1] = q[2]
<1> DEFINE m == b[2]
           t == Rest(s, m)
           u == Tail(q)
           e == [k \in 1..Len(q) |-> b[k + 1] - m]
<1>1. Places(q, b) /\ q \in Seq(Packet) /\ Len(q) \in Nat /\ Len(q) # 0
  BY PlacesGrow, EmptySeq DEF Laid, Places
<1>2. m \in 1..Len(s) /\ Len(s) \in Nat /\ m \in Nat /\ m <= Len(s)
  <2>1. 1 \in 1..Len(q)
    BY <1>1
  <2>2. m \in 1..Len(s) /\ Len(s) \in Nat
    BY <2>1, DataIs, LaidInside
  <2> HIDE DEF m
  <2> QED BY <2>2
<1>3. t \in Seq(Cell) /\ Len(t) = Len(s) - m /\ \A i \in 1..(Len(s) - m) : t[i] = s[m + i]
  <2> HIDE DEF m
  <2> QED BY <1>2, RestIs
<1>4. u \in Seq(Packet) /\ Len(u) = Len(q) - 1 /\ \A k \in 1..Len(u) : u[k] = q[k + 1]
  BY <1>1, HeadTailProperties
<1>5. /\ \A k \in 1..(Len(q) + 1) : b[k] \in Nat
      /\ \A k \in 2..(Len(q) + 1) : m <= b[k]
  <2>1. \A k \in 1..(Len(q) + 1) : b[k] \in Nat
    BY <1>1 DEF Places
  <2>2. ASSUME NEW k \in 2..(Len(q) + 1) PROVE m <= b[k]
    <3>1. 2 \in 1..(Len(q) + 1) /\ k \in 1..(Len(q) + 1) /\ 2 <= k
      BY <1>1
    <3> QED BY <1>1, <3>1, PlacesGrow
  <2> QED BY <2>1, <2>2
<1> HIDE DEF m, t, u
<1>6. Places(u, e)
  <2>1. ASSUME NEW k \in 1..Len(q) PROVE e[k] \in Nat /\ e[k] = b[k + 1] - m
    <3>1. k + 1 \in 2..(Len(q) + 1) /\ k + 1 \in 1..(Len(q) + 1)
      BY <1>1
    <3> QED BY <1>2, <1>5, <3>1
  <2>2. e = [k \in 1..(Len(u) + 1) |-> e[k]] /\ Len(u) + 1 = Len(q)
    BY <1>1, <1>4
  <2> HIDE DEF e
  <2>3. e \in [1..(Len(u) + 1) -> Nat]
    BY <2>1, <2>2
  <2>4. e[1] = 0
    <3>1. 1 \in 1..Len(q) /\ 1 + 1 = 2
      BY <1>1
    <3>2. e[1] = m - m
      BY <2>1, <3>1 DEF m
    <3> QED BY <1>2, <3>2
  <2>5. ASSUME NEW k \in 1..Len(u) PROVE e[k + 1] = e[k] + Len(Payload[u[k]]) + 1
    <3>1. k \in 1..Len(q) /\ k + 1 \in 1..Len(q) /\ (k + 1) + 1 \in 1..(Len(q) + 1) /\ k + 1 \in 1..(Len(q) + 1)
      BY <1>1, <1>4
    <3>2. /\ b[(k + 1) + 1] = b[k + 1] + Len(Payload[q[k + 1]]) + 1 /\ b[k + 1] \in Nat
          /\ Len(Payload[q[k + 1]]) \in Nat
      BY <1>1, <3>1, PlacesGrow
    <3>3. e[k + 1] = b[(k + 1) + 1] - m /\ e[k] = b[k + 1] - m /\ u[k] = q[k + 1]
      BY <1>4, <2>1, <3>1
    <3> DEFINE l == Len(Payload[q[k + 1]])
               x == b[k + 1]
    <3>4. /\ x \in Nat /\ l \in Nat /\ m \in Nat
          /\ e[k + 1] = (x + l + 1) - m /\ e[k] = x - m /\ l = Len(Payload[u[k]])
      BY <1>2, <3>2, <3>3
    <3> HIDE DEF l, x
    <3>5. e[k + 1] = e[k] + l + 1
      BY <3>4
    <3> QED BY <3>4, <3>5
  <2> QED BY <1>4, <2>3, <2>4, <2>5 DEF Places
<1>7. u # <<>> /\ Len(t) = e[Len(u) + 1] - 1
  <2>1. Len(u) # 0 /\ Len(u) + 1 = Len(q) /\ Len(q) \in 1..Len(q)
    BY <1>1, <1>4
  <2>2. Len(s) = b[Len(q) + 1] - 1
    BY DEF Laid
  <2>3. e[Len(q)] = b[Len(q) + 1] - m /\ b[Len(q) + 1] \in Nat
    BY <1>1, <1>5, <2>1
  <2> HIDE DEF e
  <2>4. Len(t) = e[Len(u) + 1] - 1
    BY <1>2, <1>3, <2>1, <2>2, <2>3
  <2>5. u # <<>>
    BY <1>4, <2>1, EmptySeq
  <2> QED BY <2>4, <2>5
<1>8. ASSUME NEW k \in 1..Len(u)
      PROVE  /\ k \in 1..Len(q) /\ k + 1 \in 1..Len(q) /\ e[k] = b[k + 1] - m /\ u[k] = q[k + 1]
             /\ b[k + 1] \in Nat /\ m <= b[k + 1] /\ b[k + 1] + Len(Payload[u[k]]) <= Len(s)
             /\ Len(Payload[u[k]]) \in Nat
  <2>1. k \in 1..Len(q) /\ k + 1 \in 1..Len(q) /\ k + 1 \in 2..(Len(q) + 1) /\ u[k] = q[k + 1]
    BY <1>1, <1>4
  <2>2. b[k + 1] + Len(Payload[q[k + 1]]) <= Len(s) /\ Len(Payload[q[k + 1]]) \in Nat /\ b[k + 1] \in Nat
    BY <1>1, <2>1, LaidInside, PlacesGrow
  <2> QED BY <1>5, <2>1, <2>2
<1> HIDE DEF e
<1>9. ASSUME NEW k \in 1..Len(u), NEW j \in 1..Len(Payload[u[k]])
      PROVE  Holds(g[t[e[k] + j]], u[k], j)
  <2>1. e[k] + j \in 1..(Len(s) - m) /\ m + (e[k] + j) = b[k + 1] + j
    <3>1. /\ e[k] = b[k + 1] - m /\ b[k + 1] \in Nat /\ m <= b[k + 1] /\ b[k + 1] + Len(Payload[u[k]]) <= Len(s)
          /\ Len(Payload[u[k]]) \in Nat
      BY <1>8
    <3>3. \A i \in 1..Len(Payload[u[k]]) : /\ (b[k + 1] - m) + i \in 1..(Len(s) - m)
                                           /\ m + ((b[k + 1] - m) + i) = b[k + 1] + i
      <4> DEFINE x == b[k + 1]
                 y == Len(Payload[u[k]])
                 z == Len(s)
      <4>1. m \in Nat /\ x \in Nat /\ y \in Nat /\ z \in Nat /\ m <= x /\ x + y <= z
        BY <1>2, <3>1
      <4> HIDE DEF x, y, z
      <4>2. \A i \in 1..y : (x - m) + i \in 1..(z - m) /\ m + ((x - m) + i) = x + i
        BY <4>1
      <4> QED BY <4>2 DEF x, y, z
    <3> QED BY <3>1, <3>3
  <2>2. t[e[k] + j] = s[b[k + 1] + j] /\ g[s[b[k + 1] + j]] = h[s[b[k + 1] + j]]
    BY <1>3, <2>1 DEF m
  <2>3. Holds(h[s[b[k + 1] + j]], q[k + 1], j)
    BY <1>8 DEF Laid
  <2> QED BY <1>8, <2>2, <2>3
<1>10. ASSUME NEW k \in 1..Len(u), k # 1 PROVE Heads(g[t[e[k]]], u[k])
  <2>1. e[k] >= 1 /\ e[k] \in Int
    <3>1. k - 1 \in Nat /\ k - 1 <= Len(u) /\ 2 * (k - 1) >= 1 /\ (k - 1) + 1 = k
      BY <1>4, <1>10
    <3>2. 2 * (k - 1) <= e[(k - 1) + 1]
      BY <1>6, <3>1, PlacesGrow
    <3>3. e[k] \in Int
      <4>1. e[k] = b[k + 1] - m /\ b[k + 1] \in Nat
        BY <1>8
      <4> QED BY <1>2, <4>1
    <3> QED BY <3>1, <3>2, <3>3
  <2>2. e[k] \in 1..(Len(s) - m) /\ m + e[k] = b[k + 1]
    <3>1. /\ e[k] = b[k + 1] - m /\ b[k + 1] \in Nat /\ b[k + 1] + Len(Payload[u[k]]) <= Len(s)
          /\ Len(Payload[u[k]]) \in Nat
      BY <1>8
    <3> DEFINE x == e[k]
               y == b[k + 1]
               z == Len(s)
               l == Len(Payload[u[k]])
    <3>2. /\ x \in Int /\ y \in Int /\ z \in Int /\ m \in Int /\ l \in Nat
          /\ x = y - m /\ y + l <= z /\ x >= 1
      BY <1>2, <2>1, <3>1
    <3> HIDE DEF x, y, z, l
    <3>3. x \in 1..(z - m) /\ m + x = y
      BY <3>2
    <3> QED BY <3>3 DEF x, y, z
  <2>3. t[e[k]] = s[b[k + 1]] /\ g[s[b[k + 1]]] = h[s[b[k + 1]]]
    BY <1>3, <2>2 DEF m
  <2>4. Heads(h[s[b[k + 1]]], q[k + 1])
    <3>1. k + 1 \in 1..Len(q) /\ k + 1 # 1
      BY <1>1, <1>8, <1>10
    <3> QED BY <3>1 DEF Laid
  <2> QED BY <1>8, <2>3, <2>4
<1>11. Laid(t, u, e, g)
  BY <1>6, <1>7, <1>9, <1>10 DEF Laid
<1>12. u[1] = q[2]
  <2>1. 1 \in 1..Len(u) /\ 1 + 1 = 2
    BY <1>1, <1>4
  <2> QED BY <1>4, <2>1
<1> QED BY <1>7, <1>11, <1>12 DEF m, t, u, e

-----------------------------------------------------------------------------
(* The heap has as many unused cells as it counts.                         *)
LEMMA AllocatedIs ==
  ASSUME NEW n \in Nat, n <= Cardinality(Unused)
  PROVE  Allocated(n) \in [1..n -> Unused] /\ IsInjective(Allocated(n))
<1>1. IsFiniteSet(Unused)
  <2>1. MaxCell \in Int /\ 1 \in Int
    BY UdpAssumption
  <2>2. IsFiniteSet(Cell)
    BY <2>1, FS_Interval DEF Cell
  <2>3. Unused \in SUBSET Cell
    BY DEF Unused
  <2> QED BY <2>2, <2>3, FS_Subset
<1>2. Cardinality(Unused) \in Nat /\ ExistsBijection(1..Cardinality(Unused), Unused)
  BY <1>1, FS_CardinalityType
<1>3. PICK f \in [1..Cardinality(Unused) -> Unused] : IsInjective(f)
  BY <1>2 DEF ExistsBijection, Bijection, Injection
<1> DEFINE g == [i \in 1..n |-> f[i]]
<1>4. \A i \in 1..n : i \in 1..Cardinality(Unused)
  BY <1>2
<1>5. g \in [1..n -> Unused]
  BY <1>4
<1>6. IsInjective(g)
  BY <1>3, <1>4 DEF IsInjective
<1>7. \E e \in [1..n -> Unused] : IsInjective(e)
  BY <1>5, <1>6
<1> QED BY <1>7 DEF Allocated

(* What pbuf_cat() leaves alone of a pbuf.                                 *)
Same(d, e) == d.helper = e.helper /\ d.of = e.of /\ d.bytes = e.bytes /\ d.ref = e.ref

AppendedTo(s, new, t, g) ==
  /\ Kept(t, g)
  /\ Len(t) = Len(s) + Len(new)
  /\ \A i \in 1..Len(s) : t[i] = s[i] /\ Same(g[t[i]], pbuf[s[i]])
  /\ \A i \in 1..Len(new) : t[Len(s) + i] = Allocated(Len(new))[i] /\ Same(g[t[Len(s) + i]], new[i])

(* pbuf_cat(): the chain goes on with the new pbufs, and what was there    *)
(* stays.                                                                  *)
LEMMA AppendedIs ==
  ASSUME NEW s, Kept(s, pbuf), rxBuf = Begin(s),
         NEW new \in Seq(Pbuf), Len(new) >= 1, \A i \in 1..Len(new) : new[i].ref = 1,
         Len(new) <= Cardinality(Unused),
         NEW t, t = s \o Allocated(Len(new)), NEW g, g = Appended(new)
  PROVE  AppendedTo(s, new, t, g)
<1> DEFINE n == Len(new)
           m == Len(s)
           place == Allocated(n)
<1>1. n \in Nat /\ n >= 1 /\ m \in Nat /\ s \in Seq(Cell) /\ DOMAIN new = 1..n /\ 1 \in 1..n
      /\ MaxCell \in Nat /\ Cell = 1..MaxCell /\ NULL = 0
  BY UdpAssumption DEF Kept, Linked, Cell, NULL
<1>2. place \in [1..n -> Unused] /\ \A i, j \in 1..n : place[i] = place[j] => i = j
  <2>1. place \in [1..n -> Unused] /\ IsInjective(place)
    BY <1>1, AllocatedIs
  <2> HIDE DEF place, n
  <2> QED BY <2>1 DEF IsInjective
<1>3. \A i \in 1..n : place[i] \in Cell /\ pbuf[place[i]].ref = 0
  BY <1>2 DEF Unused
<1>4. \A i \in 1..m : s[i] \in Cell /\ pbuf[s[i]].ref = 1
  BY <1>1, ElementOfSeq DEF Kept
<1>5. \A i \in 1..m, j \in 1..n : s[i] # place[j]
  <2> SUFFICES ASSUME NEW i \in 1..m, NEW j \in 1..n, s[i] = place[j] PROVE FALSE
    OBVIOUS
  <2>1. pbuf[s[i]].ref = 1 /\ pbuf[place[j]].ref = 0
    BY <1>3, <1>4
  <2> HIDE DEF place
  <2> QED BY <2>1
<1>6. place \in Seq(Cell) /\ Len(place) = n
  <2> HIDE DEF place, n
  <2>1. place \in [1..n -> Cell]
    BY <1>2 DEF Unused
  <2> QED BY <1>1, <2>1
<1>7. Chain[rxBuf] = s /\ (rxBuf # NULL <=> m # 0)
  <2>1. Chain[rxBuf] = s
    BY ChainBegin DEF Kept
  <2>2. s = <<>> <=> m = 0
    BY <1>1, EmptySeq
  <2>3. m # 0 => s[1] # NULL
    BY <1>1, <1>4
  <2> QED BY <2>1, <2>2, <2>3 DEF Begin
<1>8. /\ t \in Seq(Cell) /\ Len(t) = m + n
      /\ \A i \in 1..(m + n) : t[i] = IF i <= m THEN s[i] ELSE place[i - m]
  <2>1. t = s \o place
    OBVIOUS
  <2> HIDE DEF place, n, m
  <2>2. /\ s \o place \in Seq(Cell) /\ Len(s \o place) = Len(s) + Len(place)
        /\ \A i \in 1..(Len(s) + Len(place)) : (s \o place)[i] = IF i <= Len(s) THEN s[i] ELSE place[i - Len(s)]
    <3>1. s \in Seq(Cell) /\ place \in Seq(Cell)
      BY <1>1, <1>6
    <3> QED BY <3>1, ConcatProperties
  <2> QED BY <1>6, <2>1, <2>2 DEF m
<1>9. /\ \A i \in 1..m : i \in 1..(m + n) /\ t[i] = s[i]
      /\ \A i \in 1..n : m + i \in 1..(m + n) /\ t[m + i] = place[i]
  <2> HIDE DEF place, n, m
  <2>1. \A i \in 1..m : i \in 1..(m + n) /\ i <= m
    BY <1>1
  <2>2. \A i \in 1..n : m + i \in 1..(m + n) /\ ~(m + i <= m) /\ (m + i) - m = i
    BY <1>1
  <2> QED BY <1>8, <2>1, <2>2
<1>10. g = [c \in Cell |->
              IF \E i \in DOMAIN new : c = place[i]
              THEN LET i == CHOOSE j \in DOMAIN new : c = place[j]
                   IN  [new[i] EXCEPT !.next = IF i = n THEN NULL ELSE place[i + 1]]
              ELSE IF rxBuf # NULL /\ c = Chain[rxBuf][Len(Chain[rxBuf])] THEN [pbuf[c] EXCEPT !.next = place[1]]
              ELSE pbuf[c]]
  BY DEF Appended, Last
<1> HIDE DEF place, n, m
<1>11. ASSUME NEW i \in 1..n
       PROVE  g[place[i]] = [new[i] EXCEPT !.next = IF i = n THEN NULL ELSE place[i + 1]]
  <2> DEFINE k == CHOOSE j \in DOMAIN new : place[i] = place[j]
  <2>1. k \in 1..n /\ place[i] = place[k]
    BY <1>1
  <2>2. k = i
    BY <1>2, <2>1
  <2>3. place[i] \in Cell /\ \E j \in DOMAIN new : place[i] = place[j]
    BY <1>1, <1>3
  <2>4. g[place[i]] = [new[k] EXCEPT !.next = IF k = n THEN NULL ELSE place[k + 1]]
    BY <1>10, <2>3
  <2> HIDE DEF k
  <2> QED BY <2>2, <2>4
<1>12. ASSUME NEW c \in Cell, \A i \in 1..n : c # place[i]
       PROVE  g[c] = IF m # 0 /\ c = s[m] THEN [pbuf[c] EXCEPT !.next = place[1]] ELSE pbuf[c]
  BY <1>1, <1>7, <1>10, <1>12 DEF m
<1>13. ASSUME NEW i \in 1..m
       PROVE  /\ Same(g[s[i]], pbuf[s[i]]) /\ g[s[i]] \in Pbuf
              /\ g[s[i]].next = IF i = m THEN place[1] ELSE s[i + 1]
  <2>1. s[i] \in Cell /\ pbuf[s[i]] \in Pbuf /\ pbuf[s[i]].next = (IF i = m THEN NULL ELSE s[i + 1])
    BY <1>4 DEF Kept, Linked, m
  <2>2. g[s[i]] = IF m # 0 /\ s[i] = s[m] THEN [pbuf[s[i]] EXCEPT !.next = place[1]] ELSE pbuf[s[i]]
    BY <1>5, <1>12, <2>1
  <2>3. m # 0 /\ (s[i] = s[m] <=> i = m)
    <3>1. m \in 1..m /\ m # 0
      BY <1>1
    <3> QED BY <3>1 DEF Kept, Linked, m
  <2>4. place[1] \in 0..MaxCell
    BY <1>1, <1>3
  <2>5. CASE i = m
    <3>1. g[s[i]] = [pbuf[s[i]] EXCEPT !.next = place[1]]
      BY <2>2, <2>3, <2>5
    <3> QED BY <2>1, <2>4, <2>5, <3>1 DEF Pbuf, Same
  <2>6. CASE i # m
    <3>1. g[s[i]] = pbuf[s[i]]
      BY <2>2, <2>3, <2>6
    <3> QED BY <2>1, <2>6, <3>1 DEF Same
  <2> QED BY <2>5, <2>6
<1>14. ASSUME NEW i \in 1..n
       PROVE  /\ Same(g[place[i]], new[i]) /\ g[place[i]] \in Pbuf
              /\ g[place[i]].next = IF i = n THEN NULL ELSE place[i + 1]
  <2>1. new[i] \in Pbuf
    BY ElementOfSeq DEF n
  <2>2. (IF i = n THEN NULL ELSE place[i + 1]) \in 0..MaxCell
    <3>1. CASE i = n
      BY <1>1, <3>1
    <3>2. CASE i # n
      <4>1. i + 1 \in 1..n
        BY <1>1, <3>2
      <4>2. place[i + 1] \in Cell
        BY <1>3, <4>1
      <4> QED BY <1>1, <3>2, <4>2
    <3> QED BY <3>1, <3>2
  <2>3. g[place[i]] = [new[i] EXCEPT !.next = IF i = n THEN NULL ELSE place[i + 1]]
    BY <1>11
  <2> QED BY <2>1, <2>2, <2>3 DEF Pbuf, Same
<1>15. \A c \in Cell : ~In(t, c) => g[c] = Free
  <2> SUFFICES ASSUME NEW c \in Cell, ~In(t, c) PROVE g[c] = Free
    OBVIOUS
  <2>1. \A i \in 1..(m + n) : t[i] # c
    BY <1>8 DEF In
  <2>2. \A i \in 1..n : c # place[i]
    BY <1>9, <2>1
  <2>3. \A i \in 1..m : s[i] # c
    BY <1>9, <2>1
  <2>4. ~(m # 0 /\ c = s[m])
    <3>1. m # 0 => m \in 1..m
      BY <1>1
    <3> QED BY <2>3, <3>1
  <2>5. g[c] = pbuf[c]
    BY <1>12, <2>2, <2>4
  <2>6. ~In(s, c)
    BY <2>3 DEF In, m
  <2> QED BY <2>5, <2>6 DEF Kept
<1>16. ASSUME NEW i \in 1..(m + n)
       PROVE  \/ i \in 1..m /\ t[i] = s[i]
              \/ i - m \in 1..n /\ t[i] = place[i - m] /\ ~(i <= m)
  BY <1>1, <1>8
<1>25. \A i \in 1..(m + n) : ~(i <= m) => i - m \in 1..n /\ t[i] = place[i - m]
  <2> SUFFICES ASSUME NEW i \in 1..(m + n), ~(i <= m) PROVE i - m \in 1..n /\ t[i] = place[i - m]
    OBVIOUS
  <2>1. ~(i \in 1..m)
    OBVIOUS
  <2> QED BY <1>16, <2>1
<1>26. \A i \in 1..(m + n) : i <= m => i \in 1..m /\ t[i] = s[i]
  <2> SUFFICES ASSUME NEW i \in 1..(m + n), i <= m PROVE i \in 1..m /\ t[i] = s[i]
    OBVIOUS
  <2>1. i \in 1..m
    BY <1>1
  <2> QED BY <1>9, <2>1
<1>17. \A i, j \in 1..(m + n) : t[i] = t[j] => i = j
  <2> TAKE i, j \in 1..(m + n)
  <2> HAVE t[i] = t[j]
  <2>1. CASE i <= m /\ j <= m
    BY <1>1, <1>16, <2>1 DEF Kept, Linked, m
  <2>2. CASE ~(i <= m) /\ ~(j <= m)
    <3>1. i - m = j - m
      <4>1. i - m \in 1..n /\ t[i] = place[i - m] /\ j - m \in 1..n /\ t[j] = place[j - m]
        BY <1>25, <2>2
      <4>2. place[i - m] = place[j - m]
        BY <4>1
      <4> QED BY <1>2, <4>1, <4>2
    <3> QED BY <1>1, <3>1
  <2>3. CASE i <= m /\ ~(j <= m)
    BY <1>5, <1>25, <1>26, <2>3
  <2>4. CASE ~(i <= m) /\ j <= m
    BY <1>5, <1>25, <1>26, <2>4
  <2> QED BY <2>1, <2>2, <2>3, <2>4
<1>18. \A i \in 1..(m + n) : g[t[i]].next = IF i = m + n THEN NULL ELSE t[i + 1]
  <2> TAKE i \in 1..(m + n)
  <2>1. CASE i <= m
    <3>1. i \in 1..m /\ t[i] = s[i] /\ i # m + n
      <4>1. i # m + n
        BY <1>1, <2>1
      <4> QED BY <1>26, <2>1, <4>1
    <3>2. g[t[i]].next = IF i = m THEN place[1] ELSE s[i + 1]
      BY <1>13, <3>1
    <3>3. CASE i = m
      BY <1>1, <1>9, <3>1, <3>2, <3>3
    <3>4. CASE i # m
      <4>1. i + 1 \in 1..m
        BY <1>1, <3>1, <3>4
      <4> QED BY <1>9, <3>1, <3>2, <3>4, <4>1
    <3> QED BY <3>3, <3>4
  <2>2. CASE ~(i <= m)
    <3>1. i - m \in 1..n /\ t[i] = place[i - m]
      BY <1>25, <2>2
    <3>2. g[t[i]].next = IF i - m = n THEN NULL ELSE place[(i - m) + 1]
      BY <1>14, <3>1
    <3>3. CASE i - m = n
      <4>1. i = m + n
        BY <1>1, <3>3
      <4> QED BY <3>2, <3>3, <4>1
    <3>4. CASE i - m # n
      <4>1. (i - m) + 1 \in 1..n /\ m + ((i - m) + 1) = i + 1 /\ i # m + n
        <5>1. i \in Int /\ m \in Int /\ n \in Int /\ i - m \in 1..n /\ i - m # n
          BY <1>1, <3>1, <3>4
        <5> QED BY <5>1
      <4>2. t[i + 1] = place[(i - m) + 1]
        BY <1>9, <4>1
      <4> QED BY <3>2, <3>4, <4>1, <4>2
    <3> QED BY <3>3, <3>4
  <2> QED BY <2>1, <2>2
<1>19. Linked(t, g)
  <2>1. \A c \in Cell : ~In(t, c) => g[c].next = NULL
    BY <1>15, FreeIs
  <2> QED BY <1>8, <1>17, <1>18, <2>1 DEF Linked
<1>20. \A i \in 1..(m + n) : g[t[i]].ref = 1 /\ g[t[i]] \in Pbuf
  <2> TAKE i \in 1..(m + n)
  <2>1. CASE i \in 1..m /\ t[i] = s[i]
    BY <1>4, <1>13, <2>1 DEF Same
  <2>2. CASE i - m \in 1..n /\ t[i] = place[i - m]
    <3>1. new[i - m].ref = 1
      BY <2>2 DEF n
    <3> QED BY <1>14, <2>2, <3>1 DEF Same
  <2> QED BY <1>16, <2>1, <2>2
<1>21. g \in [Cell -> Pbuf]
  <2>1. \A c \in Cell : g[c] \in Pbuf
    <3> TAKE c \in Cell
    <3>1. CASE In(t, c)
      BY <1>8, <1>20, <3>1 DEF In
    <3>2. CASE ~In(t, c)
      BY <1>15, <3>2, FreeIs
    <3> QED BY <3>1, <3>2
  <2>2. g = [c \in Cell |-> g[c]]
    BY <1>10
  <2> QED BY <2>1, <2>2
<1>22. Kept(t, g)
  BY <1>8, <1>15, <1>19, <1>20, <1>21 DEF Kept
<1>23. \A i \in 1..m : t[i] = s[i] /\ Same(g[t[i]], pbuf[s[i]])
  BY <1>9, <1>13
<1>24. \A i \in 1..n : t[m + i] = place[i] /\ Same(g[t[m + i]], new[i])
  BY <1>9, <1>14
<1> QED BY <1>8, <1>22, <1>23, <1>24 DEF AppendedTo, n, m, place

Extended(q, b, x) == [k \in 1..(Len(q) + 2) |-> IF k = Len(q) + 2 THEN x ELSE b[k]]

(* A datagram behind the others.                                           *)
LEMMA LaidAppended ==
  ASSUME NEW s \in Seq(Cell), NEW q, NEW b, NEW h, Laid(s, q, b, h), NEW p \in Packet,
         NEW t, NEW g, NEW m, m = (IF q = <<>> THEN 0 ELSE Len(s) + 1), Len(t) = m + Len(Payload[p]),
         \A i \in 1..Len(s) : Same(g[t[i]], h[s[i]]),
         \A j \in 1..Len(Payload[p]) : Holds(g[t[m + j]], p, j),
         q # <<>> => Heads(g[t[m]], p)
  PROVE  Laid(t, Append(q, p), Extended(q, b, m + Len(Payload[p]) + 1), g)
<1> DEFINE n == Len(Payload[p])
           l == Len(q)
           u == Append(q, p)
           e == [k \in 1..(l + 2) |-> IF k = l + 2 THEN m + n + 1 ELSE b[k]]
<1>1. Places(q, b) /\ q \in Seq(Packet) /\ l \in Nat /\ n \in Nat /\ n >= 1 /\ Len(s) \in Nat
      /\ (q = <<>> <=> l = 0)
  BY PlacesGrow, PayloadIs, EmptySeq DEF Laid, Places
<1>2. b[l + 1] = m /\ m \in Nat
  <2>1. CASE q = <<>>
    <3>1. l + 1 = 1
      BY <1>1, <2>1
    <3> QED BY <1>1, <2>1, <3>1 DEF Places
  <2>2. CASE q # <<>>
    <3>1. Len(s) = b[l + 1] - 1 /\ l + 1 \in 1..(l + 1)
      BY <1>1, <2>2 DEF Laid
    <3>2. b[l + 1] \in Nat
      BY <1>1, <3>1 DEF Places
    <3> QED BY <1>1, <2>2, <3>1, <3>2
  <2> QED BY <2>1, <2>2
<1>3. /\ u \in Seq(Packet) /\ Len(u) = l + 1 /\ u[l + 1] = p /\ u # <<>>
      /\ \A k \in 1..l : u[k] = q[k]
  BY <1>1
<1>4. /\ \A k \in 1..(l + 1) : e[k] = b[k] /\ b[k] \in Nat
      /\ e[l + 2] = m + n + 1 /\ e[l + 1] = m
  <2>1. ASSUME NEW k \in 1..(l + 1) PROVE e[k] = b[k]
    <3>1. k \in 1..(l + 2) /\ k # l + 2
      BY <1>1
    <3> QED BY <3>1
  <2>2. l + 2 \in 1..(l + 2) /\ l + 1 \in 1..(l + 1)
    BY <1>1
  <2>3. e[l + 2] = m + n + 1
    BY <2>2
  <2> QED BY <1>1, <1>2, <2>1, <2>2, <2>3 DEF Places
<1>5. e = [k \in 1..(Len(u) + 1) |-> e[k]]
  <2>1. Len(u) + 1 = l + 2
    BY <1>1, <1>3
  <2> QED BY <2>1
<1> HIDE DEF e, u, n, l
<1>6. Places(u, e)
  <2>1. ASSUME NEW k \in 1..(Len(u) + 1) PROVE e[k] \in Nat
    <3>1. k \in 1..(l + 1) \/ k = l + 2
      BY <1>1, <1>3
    <3> QED BY <1>1, <1>2, <1>4, <3>1
  <2>2. e \in [1..(Len(u) + 1) -> Nat]
    BY <1>5, <2>1
  <2>3. e[1] = 0
    <3>1. 1 \in 1..(l + 1)
      BY <1>1
    <3> QED BY <1>1, <1>4, <3>1 DEF Places
  <2>4. ASSUME NEW k \in 1..Len(u) PROVE e[k + 1] = e[k] + Len(Payload[u[k]]) + 1
    <3>1. CASE k = l + 1
      <4>1. k + 1 = l + 2 /\ u[k] = p
        BY <1>1, <1>3, <3>1
      <4> QED BY <1>4, <3>1, <4>1 DEF n
    <3>2. CASE k # l + 1
      <4>1. k \in 1..l /\ k \in 1..(l + 1) /\ k + 1 \in 1..(l + 1)
        BY <1>1, <1>3, <3>2
      <4>2. b[k + 1] = b[k] + Len(Payload[q[k]]) + 1
        BY <1>1, <4>1 DEF Places, l
      <4> QED BY <1>3, <1>4, <4>1, <4>2
    <3> QED BY <3>1, <3>2
  <2> QED BY <1>3, <2>2, <2>3, <2>4 DEF Places
<1>7. Len(t) = e[Len(u) + 1] - 1
  <2>1. Len(u) + 1 = l + 2
    BY <1>1, <1>3
  <2>2. e[Len(u) + 1] = m + n + 1 /\ Len(t) = m + n
    BY <1>4, <2>1 DEF n
  <2>3. (m + n + 1) - 1 = m + n
    BY <1>1, <1>2
  <2> QED BY <2>2, <2>3
<1>8. ASSUME NEW k \in 1..Len(u), NEW j \in 1..Len(Payload[u[k]])
      PROVE  Holds(g[t[e[k] + j]], u[k], j)
  <2>1. CASE k = l + 1
    BY <1>3, <1>4, <2>1 DEF n
  <2>2. CASE k # l + 1
    <3>1. k \in 1..Len(q) /\ k \in 1..(l + 1) /\ u[k] = q[k]
      BY <1>1, <1>3, <2>2 DEF l
    <3>2. Holds(h[s[b[k] + j]], q[k], j)
      BY <3>1 DEF Laid
    <3>3. b[k] + Len(Payload[q[k]]) <= Len(s) /\ b[k] \in Nat /\ Len(Payload[q[k]]) \in Nat
      BY <1>1, <3>1, LaidInside, PlacesGrow
    <3>4. b[k] + j \in 1..Len(s)
      BY <1>1, <3>1, <3>3
    <3>5. Same(g[t[b[k] + j]], h[s[b[k] + j]])
      BY <3>4
    <3> QED BY <1>4, <3>1, <3>2, <3>5 DEF Holds, Same
  <2> QED BY <2>1, <2>2
<1>9. ASSUME NEW k \in 1..Len(u), k # 1 PROVE Heads(g[t[e[k]]], u[k])
  <2>1. CASE k = l + 1
    <3>1. q # <<>>
      BY <1>1, <1>9, <2>1
    <3> QED BY <1>3, <1>4, <2>1, <3>1
  <2>2. CASE k # l + 1
    <3>1. k \in 1..Len(q) /\ k \in 1..(l + 1) /\ u[k] = q[k]
      BY <1>1, <1>3, <2>2 DEF l
    <3>2. Heads(h[s[b[k]]], q[k])
      BY <1>9, <3>1 DEF Laid
    <3>3. b[k] \in 1..Len(s)
      BY <1>9, <3>1, LaidInside
    <3>4. Same(g[t[b[k]]], h[s[b[k]]])
      BY <3>3
    <3> QED BY <1>4, <3>1, <3>2, <3>4 DEF Heads, Same
  <2> QED BY <2>1, <2>2
<1>10. Laid(t, u, e, g)
  BY <1>3, <1>6, <1>7, <1>8, <1>9 DEF Laid
<1> QED BY <1>10 DEF u, e, l, n, Extended

-----------------------------------------------------------------------------
(* The inductive invariant: the pbufs in use are a chain s, which holds the*)
(* datagrams q at the places b, and the first of q is the one that is read.*)
Inner(s, q, b) ==
  /\ Kept(s, pbuf) /\ Laid(s, q, b, pbuf)
  /\ rxBuf = Begin(s)
  /\ ctx \in BOOLEAN /\ firstBufTaken \in BOOLEAN
  /\ ctx \/ s = <<>>
  /\ rxBufOffset \in Nat
  /\ IF q = <<>> THEN rxBufOffset = 0 /\ rxBufSize = 0
     ELSE /\ rxBufSize = Len(FlattenSeq(Payload[q[1]])) /\ rxBufOffset <= rxBufSize
          /\ currentAddr = Source[q[1]]
  /\ answer.n = Len(answer.bytes) \/ answer.bytes = <<>>

UdpShape == \E s, q, b : Inner(s, q, b)

LEMMA InnerIs ==
  ASSUME NEW s, NEW q, NEW b, Inner(s, q, b)
  PROVE  /\ Box = q /\ q \in Seq(Packet) /\ Chain[rxBuf] = s /\ s \in Seq(Cell)
         /\ (s = <<>> <=> q = <<>>) /\ (rxBuf = NULL <=> q = <<>>)
         /\ (q # <<>> => Len(q) \in Nat \ {0} /\ 1 \in 1..Len(q) /\ q[1] \in Packet /\ q[1] = Head(q))
<1>1. Chain[rxBuf] = s /\ s \in Seq(Cell) /\ Laid(s, q, b, pbuf) /\ q \in Seq(Packet)
  BY ChainBegin DEF Inner, Kept, Linked, Laid, Places
<1>2. Box = q
  <2>1. Box = BoxOf(s, pbuf, Len(s))
    BY <1>1, BoxIs
  <2> QED BY <1>1, <2>1, LaidBox
<1>3. q # <<>> => Len(q) \in Nat \ {0} /\ 1 \in 1..Len(q) /\ q[1] \in Packet /\ q[1] = Head(q)
  BY <1>1, EmptySeq, ElementOfSeq
<1>4. s = <<>> <=> q = <<>>
  <2>1. CASE q = <<>>
    <3>1. Len(s) = 0
      BY <1>1, <2>1 DEF Laid
    <3> QED BY <1>1, <2>1, <3>1, EmptySeq
  <2>2. CASE q # <<>>
    <3>1. Len(DataIn(s, pbuf)) = Len(Payload[q[1]]) /\ b[1] + Len(Payload[q[1]]) <= Len(s) /\ Len(s) \in Nat
      BY <1>1, <1>3, <2>2, DataIs, LaidInside
    <3>2. Len(Payload[q[1]]) >= 1 /\ Len(Payload[q[1]]) \in Nat /\ b[1] = 0
      BY <1>1, <1>3, <2>2, PayloadIs DEF Laid, Places
    <3>3. Len(s) # 0
      BY <3>1, <3>2
    <3> QED BY <1>1, <2>2, <3>3, EmptySeq
  <2> QED BY <2>1, <2>2
<1>5. rxBuf = NULL <=> s = <<>>
  <2>1. CASE s = <<>>
    BY <2>1 DEF Inner, Begin
  <2>2. CASE s # <<>>
    <3>1. 1 \in 1..Len(s)
      BY <1>1, <2>2, EmptySeq
    <3>2. s[1] \in Cell
      BY <1>1, <3>1, ElementOfSeq
    <3>3. s[1] # 0
      BY <3>2 DEF Cell
    <3> QED BY <2>2, <3>3 DEF Inner, Begin, NULL
  <2> QED BY <2>1, <2>2
<1> QED BY <1>1, <1>2, <1>3, <1>4, <1>5

(* The same of the box in the next state.                                  *)
LEMMA BoxPrime ==
  ASSUME NEW s, NEW q, NEW b, Inner(s, q, b)' PROVE Box' = q
<1>1. Kept(s, pbuf') /\ Laid(s, q, b, pbuf') /\ rxBuf' = Begin(s)
  BY DEF Inner
<1>2. Linked(s, pbuf') /\ s \in Seq(Cell)
  BY <1>1 DEF Kept, Linked
<1>3. ChainFrom(pbuf')[Begin(s)] = s
  <2>1. CASE s = <<>>
    BY <1>2, <2>1, ChainOf DEF Begin
  <2>2. CASE s # <<>>
    <3>1. 1 \in 1..Len(s) /\ 1 - 1 = 0
      BY <1>2, <2>2, EmptySeq
    <3>2. ChainFrom(pbuf')[s[1]] = Rest(s, 0)
      BY <1>2, <3>1, ChainOf
    <3> QED BY <1>2, <2>2, <3>2, RestAll DEF Begin
  <2> QED BY <2>1, <2>2
<1>4. Box' = BoxOf(s, pbuf', Len(s))
  BY <1>1, <1>3, ChainIs, BoxIs
<1> QED BY <1>1, <1>4, LaidBox

LEMMA EmptyIs ==
  /\ Kept(<<>>, [d \in Cell |-> Free])
  /\ \A h : Laid(<<>>, <<>>, [k \in 1..1 |-> 0], h)
  /\ Begin(<<>>) = NULL
<1>1. <<>> \in Seq(Cell) /\ <<>> \in Seq(Packet) /\ Len(<<>>) = 0
  OBVIOUS
<1>2. Kept(<<>>, [d \in Cell |-> Free])
  BY <1>1, FreeIs DEF Kept, Linked, In
<1>3. ASSUME NEW h PROVE Laid(<<>>, <<>>, [k \in 1..1 |-> 0], h)
  <2>1. [k \in 1..1 |-> 0] \in [1..(Len(<<>>) + 1) -> Nat] /\ [k \in 1..1 |-> 0][1] = 0
    BY <1>1
  <2>2. 1..Len(<<>>) = {}
    BY <1>1
  <2> QED BY <1>1, <2>1, <2>2 DEF Laid, Places
<1> QED BY <1>2, <1>3 DEF Begin

-----------------------------------------------------------------------------
LEMMA UdpBegins == UdpInit => Inner(<<>>, <<>>, [k \in 1..1 |-> 0])
<1> SUFFICES ASSUME UdpInit PROVE Inner(<<>>, <<>>, [k \in 1..1 |-> 0])
  OBVIOUS
<1>1. Kept(<<>>, pbuf) /\ Laid(<<>>, <<>>, [k \in 1..1 |-> 0], pbuf) /\ rxBuf = Begin(<<>>)
  BY EmptyIs DEF UdpInit
<1>2. answer.bytes = <<>>
  BY DEF UdpInit, NoAnswer
<1> QED BY <1>1, <1>2 DEF UdpInit, Inner

LEMMA RenewStep ==
  ASSUME NEW s, NEW q, NEW b, Inner(s, q, b), NEW now \in BOOLEAN, Renew(now)
  PROVE  Inner(<<>>, <<>>, [k \in 1..1 |-> 0])'
<1>1. pbuf' = [d \in Cell |-> Free]
  BY ReleaseAll DEF Renew, Inner
<1>2. Kept(<<>>, pbuf') /\ Laid(<<>>, <<>>, [k \in 1..1 |-> 0], pbuf') /\ rxBuf' = Begin(<<>>)
  BY <1>1, EmptyIs DEF Renew
<1> QED BY <1>2 DEF Renew, Inner

LEMMA ParseFirstStep ==
  ASSUME NEW s, NEW q, NEW b, Inner(s, q, b), ParseFirst PROVE Inner(s, q, b)'
  BY DEF ParseFirst, Inner

LEMMA ParseNoneStep ==
  ASSUME NEW s, NEW q, NEW b, Inner(s, q, b), ParseNone PROVE Inner(s, q, b)'
  BY DEF ParseNone, Inner, NoAnswer

(* The last datagram: nothing is left.                                     *)
LEMMA ParseLastStep ==
  ASSUME NEW s, NEW q, NEW b, Inner(s, q, b), ParseNext, Len(q) = 1
  PROVE  Inner(<<>>, <<>>, [k \in 1..1 |-> 0])' /\ rxBufSize' = 0
<1>1. q # <<>> /\ Chain[rxBuf] = s /\ s \in Seq(Cell) /\ Laid(s, q, b, pbuf)
  BY InnerIs DEF ParseNext, Inner
<1>2. Len(DataFrom(rxBuf)) = Len(s)
  BY <1>1, DataFromIs, DataIs
<1>3. NextHelper = NULL
  BY <1>1, <1>2 DEF NextHelper
<1>4. pbuf' = [d \in Cell |-> Free]
  BY <1>3, ReleaseAll DEF ParseNext, Inner
<1>5. Kept(<<>>, pbuf') /\ Laid(<<>>, <<>>, [k \in 1..1 |-> 0], pbuf') /\ rxBuf' = Begin(<<>>)
  BY <1>3, <1>4, EmptyIs DEF ParseNext
<1> QED BY <1>3, <1>5 DEF ParseNext, Inner

(* Another one: it is the first of those that are left.                    *)
LEMMA ParseMoreStep ==
  ASSUME NEW s, NEW q, NEW b, Inner(s, q, b), ParseNext, Len(q) # 1
  PROVE  \E t, e : Inner(t, Tail(q), e)' /\ Tail(q) # <<>>
<1> DEFINE m == b[2]
           t == Rest(s, m)
           e == [k \in 1..Len(q) |-> b[k + 1] - m]
           h == pbuf
<1>1. /\ q # <<>> /\ Chain[rxBuf] = s /\ s \in Seq(Cell) /\ Laid(s, q, b, pbuf) /\ Kept(s, pbuf)
      /\ rxBuf = Begin(s) /\ Places(q, b)
  BY InnerIs DEF ParseNext, Inner, Laid
<1>2. Len(DataFrom(rxBuf)) # Len(s) /\ m = Len(DataFrom(rxBuf)) + 1 /\ m \in 1..Len(s) /\ Len(s) \in Nat
  <2>1. DataFrom(rxBuf) = DataIn(s, pbuf)
    BY <1>1, DataFromIs
  <2> QED BY <1>1, <2>1, DataIs
<1>3. NextHelper = s[m] /\ s[m] \in Cell /\ NextHelper # NULL
  <2>1. s[m] \in Cell
    BY <1>1, <1>2, ElementOfSeq
  <2>2. s[m] # 0
    BY <2>1 DEF Cell
  <2>3. NextHelper = s[m]
    <3> HIDE DEF m
    <3> QED BY <1>1, <1>2 DEF NextHelper
  <2> QED BY <2>1, <2>2, <2>3 DEF NULL
<1>4. 2 \in 1..Len(q) /\ Len(q) \in Nat /\ Heads(pbuf[s[m]], q[2]) /\ m + 1 <= Len(s) /\ q[2] \in Packet
  <2>1. Len(q) \in Nat /\ Len(q) # 0
    BY <1>1, EmptySeq DEF Places
  <2>2. 2 \in 1..Len(q)
    <3>1. \A n \in Nat : n # 0 /\ n # 1 => 2 \in 1..n
      OBVIOUS
    <3> QED BY <2>1, <3>1
  <2>3. Heads(pbuf[s[m]], q[2])
    BY <1>1, <2>2 DEF Laid
  <2>4. m + Len(Payload[q[2]]) <= Len(s) /\ Len(Payload[q[2]]) >= 1 /\ Len(Payload[q[2]]) \in Nat /\ q[2] \in Packet
    BY <1>1, <2>2, LaidInside, PlacesGrow
  <2>5. m \in Nat /\ m + 1 <= Len(s)
    <3> DEFINE x == Len(Payload[q[2]])
    <3> HIDE DEF m
    <3>1. m + x <= Len(s) /\ x >= 1 /\ x \in Nat
      BY <2>4
    <3>2. m \in Nat /\ Len(s) \in Nat
      <4>1. m \in 1..Len(s)
        BY <1>2
      <4>2. Len(s) \in Nat
        BY <1>2
      <4> QED BY <4>1, <4>2
    <3> HIDE DEF x
    <3> QED BY <3>1, <3>2
  <2> QED BY <2>1, <2>2, <2>3, <2>4, <2>5
<1> HIDE DEF m, t, e
<1>5. m \in Nat /\ m + 1 \in 1..Len(s) /\ m # Len(s) /\ m <= Len(s)
  BY <1>2, <1>4
<1>6. rxBuf' = s[m + 1]
  <2>1. pbuf[s[m]].next = s[m + 1]
    BY <1>1, <1>2, <1>5 DEF Kept, Linked
  <2> QED BY <1>3, <2>1 DEF ParseNext
<1>7. currentAddr' = Source[q[2]]
  BY <1>3, <1>4 DEF ParseNext, Sender, Heads
<1>8. pbuf' = Without(s, m, pbuf)
  <2>1. pbuf' = Released(rxBuf, Ref(rxBuf'))
    BY <1>3 DEF ParseNext
  <2>2. pbuf' = Released(Begin(s), Ref(s[m + 1]))
    BY <1>1, <1>6, <2>1
  <2> QED BY <1>1, <1>4, <1>5, <2>2, ReleaseFirst
<1>9. Kept(t, pbuf') /\ \A i \in 1..(Len(s) - m) : pbuf'[s[m + i]] = pbuf[s[m + i]]
  <2>1. Kept(s, pbuf) /\ m \in Nat /\ m <= Len(s)
    BY <1>1, <1>5
  <2>2. \A g : g = Without(s, m, pbuf) =>
               Kept(Rest(s, m), g) /\ \A i \in 1..(Len(s) - m) : g[s[m + i]] = pbuf[s[m + i]]
    BY <2>1, KeptRest
  <2> QED BY <1>8, <2>2 DEF t
<1>10. /\ Laid(t, Tail(q), e, pbuf') /\ Laid(t, Tail(q), e, pbuf)
       /\ Tail(q) # <<>> /\ Tail(q)[1] = q[2]
  BY <1>1, <1>9, LaidRest DEF t, e, m
<1>11. t \in Seq(Cell) /\ Len(t) = Len(s) - m /\ t # <<>> /\ t[1] = s[m + 1] /\ rxBuf' = Begin(t)
  <2>1. t \in Seq(Cell) /\ Len(t) = Len(s) - m /\ \A i \in 1..(Len(s) - m) : t[i] = s[m + i]
    <3>1. s \in Seq(Cell) /\ m \in Nat /\ m <= Len(s)
      BY <1>1, <1>2, <1>5
    <3> QED BY <3>1, RestIs DEF t
  <2>2. 1 \in 1..(Len(s) - m)
    BY <1>2, <1>5
  <2>3. t # <<>>
    BY <2>1, <2>2
  <2> QED BY <1>6, <2>1, <2>2, <2>3 DEF Begin
<1>12. rxBufSize' = Len(FlattenSeq(Payload[q[2]]))
  <2>1. Chain[s[m + 1]] = t
    <3>1. (m + 1) - 1 = m /\ Linked(s, pbuf)
      BY <1>1, <1>5 DEF Kept
    <3>2. ChainFrom(pbuf)[s[m + 1]] = Rest(s, (m + 1) - 1)
      BY <1>5, <3>1, ChainOf
    <3> QED BY <3>1, <3>2, ChainIs DEF t
  <2>2. ProcessSize(s[m + 1]) = Len(BytesIn(DataIn(t, pbuf), pbuf))
    BY <2>1, DataFromIs, BytesOfIs DEF ProcessSize
  <2>3. BytesIn(DataIn(t, pbuf), pbuf) = FlattenSeq(Payload[q[2]])
    <3> DEFINE u == Tail(q)
    <3>1. t \in Seq(Cell) /\ Laid(t, u, e, pbuf) /\ u # <<>> /\ u[1] = q[2]
      BY <1>10, <1>11
    <3> HIDE DEF u
    <3>2. BytesIn(DataIn(t, pbuf), pbuf) = FlattenSeq(Payload[u[1]])
      BY <3>1, DataIs
    <3> QED BY <3>1, <3>2
  <2>4. rxBufSize' = ProcessSize(rxBuf')
    BY <1>3 DEF ParseNext
  <2> QED BY <1>6, <2>2, <2>3, <2>4
<1>13. Len(FlattenSeq(Payload[q[2]])) \in Nat
  BY <1>4, FlatIs
<1>14. Inner(t, Tail(q), e)'
  <2>1. rxBufOffset' = 0 /\ ctx' = ctx /\ firstBufTaken' = firstBufTaken /\ answer' = [n |-> rxBufSize', bytes |-> <<>>]
    BY <1>3 DEF ParseNext
  <2>2. ctx
    <3>1. s # <<>>
      BY <1>1, InnerIs
    <3> QED BY <3>1 DEF Inner
  <2>3. ctx' \in BOOLEAN /\ firstBufTaken' \in BOOLEAN
    BY <2>1 DEF Inner
  <2>4. answer'.bytes = <<>>
    BY <2>1
  <2>5. rxBufOffset' \in Nat /\ rxBufOffset' <= rxBufSize'
    BY <1>12, <1>13, <2>1
  <2> QED BY <1>7, <1>9, <1>10, <1>11, <1>12, <2>1, <2>2, <2>3, <2>4, <2>5 DEF Inner
<1> QED BY <1>10, <1>14

(* read() takes its bytes from the first datagram alone.                   *)
LEMMA ReadStep ==
  ASSUME NEW s, NEW q, NEW b, Inner(s, q, b), NEW k \in Nat, Read(k)
  PROVE  /\ Inner(s, q, b)'
         /\ getSize = (IF q = <<>> THEN 0 ELSE Len(FlattenSeq(Payload[q[1]])) - rxBufOffset)
         /\ rxBufOffset' = rxBufOffset + Amount(k)
         /\ answer' = [n |-> Amount(k),
                    bytes |-> IF Amount(k) = 0 THEN <<>>
                              ELSE SubSeq(FlattenSeq(Payload[q[1]]), rxBufOffset + 1, rxBufOffset + Amount(k))]
<1> DEFINE n == Amount(k)
<1>1. /\ Chain[rxBuf] = s /\ s \in Seq(Cell) /\ Laid(s, q, b, pbuf) /\ pbuf \in [Cell -> Pbuf]
      /\ (rxBuf = NULL <=> q = <<>>) /\ (s = <<>> <=> q = <<>>) /\ rxBufOffset \in Nat
  BY InnerIs DEF Inner, Kept
<1>2. /\ answer' = [n |-> n, bytes |-> SubSeq(BytesIn(s, pbuf), rxBufOffset + 1, rxBufOffset + n)]
      /\ rxBufOffset' = IF rxBuf = NULL THEN rxBufOffset ELSE rxBufOffset + n
      /\ UNCHANGED <<ctx, pbuf, rxBuf, firstBufTaken, rxBufSize, currentAddr>>
  BY <1>1, BytesOfIs DEF Read
<1>3. CASE q = <<>>
  <2>1. getSize = 0 /\ n = 0 /\ rxBufOffset = 0
    BY <1>1, <1>3 DEF getSize, Amount, Inner
  <2>2. SubSeq(BytesIn(s, pbuf), rxBufOffset + 1, rxBufOffset + n) = <<>>
    <3>1. s = <<>> /\ rxBufOffset + 1 = 1 /\ rxBufOffset + n = 0
      BY <1>1, <1>3, <2>1
    <3>2. SubSeq(BytesIn(s, pbuf), 1, 0) = <<>>
      OBVIOUS
    <3> QED BY <3>1, <3>2
  <2> HIDE DEF n
  <2>3. answer' = [n |-> n, bytes |-> <<>>] /\ rxBufOffset' = rxBufOffset + n
    BY <1>1, <1>2, <1>3, <2>1, <2>2
  <2>4. Inner(s, q, b)'
    BY <1>2, <1>3, <2>1, <2>3 DEF Inner
  <2> QED BY <1>3, <2>1, <2>3, <2>4 DEF n
<1>4. CASE q # <<>>
  <2> DEFINE a == FlattenSeq(Payload[q[1]])
  <2>1. /\ a \in Seq(Byte) /\ Len(a) \in Nat /\ rxBufSize = Len(a) /\ rxBufOffset <= Len(a)
        /\ getSize = Len(a) - rxBufOffset
    <3>1. q[1] \in Packet
      BY <1>4, InnerIs
    <3> QED BY <1>1, <1>4, <3>1, FlatIs DEF Inner, getSize
  <2>2. n \in Nat /\ rxBufOffset + n <= Len(a)
    <3> HIDE DEF a
    <3> QED BY <1>1, <2>1 DEF Amount
  <2> HIDE DEF n
  <2>3. SubSeq(BytesIn(s, pbuf), rxBufOffset + 1, rxBufOffset + n) = SubSeq(a, rxBufOffset + 1, rxBufOffset + n)
    <3>1. /\ s \in Seq(Cell) /\ Laid(s, q, b, pbuf) /\ pbuf \in [Cell -> Pbuf] /\ q # <<>>
          /\ rxBufOffset \in Nat /\ n \in Nat /\ rxBufOffset + n <= Len(FlattenSeq(Payload[q[1]]))
      BY <1>1, <1>4, <2>2 DEF a
    <3>2. SubSeq(BytesIn(s, pbuf), rxBufOffset + 1, rxBufOffset + n)
            = SubSeq(FlattenSeq(Payload[q[1]]), rxBufOffset + 1, rxBufOffset + n)
      <4> HIDE DEF a
      <4>1. ReadsFrom(s, q, pbuf)
        BY <3>1, ReadsTheFirst
      <4> QED BY <3>1, <4>1 DEF ReadsFrom
    <3> QED BY <3>2 DEF a
  <2> HIDE DEF a
  <2>4. SubSeq(a, rxBufOffset + 1, rxBufOffset + n) \in Seq(Byte) /\ Len(SubSeq(a, rxBufOffset + 1, rxBufOffset + n)) = n
    <3>1. a \in Seq(Byte) /\ rxBufOffset \in Nat /\ n \in Nat /\ rxBufOffset + n <= Len(a)
      BY <1>1, <2>1, <2>2
    <3> QED BY <3>1
  <2>5. n = 0 => SubSeq(a, rxBufOffset + 1, rxBufOffset + n) = <<>>
    BY <2>4, EmptySeq
  <2>6. answer' = [n |-> n, bytes |-> SubSeq(a, rxBufOffset + 1, rxBufOffset + n)] /\ rxBufOffset' = rxBufOffset + n
    BY <1>1, <1>2, <1>4, <2>3
  <2>7. rxBufOffset' \in Nat /\ rxBufOffset' <= rxBufSize'
    BY <1>1, <1>2, <2>1, <2>2, <2>6
  <2>8. answer'.n = Len(answer'.bytes)
    BY <2>4, <2>6
  <2>9. Inner(s, q, b)'
    BY <1>2, <1>4, <2>7, <2>8 DEF Inner
  <2> QED BY <1>4, <2>1, <2>5, <2>6, <2>9 DEF n, a
<1> QED BY <1>3, <1>4

(* A datagram arrives: its pbufs, behind the helper if there is a chain.   *)
New(p) == IF rxBuf = NULL THEN Data(p) ELSE <<Helper(p)>> \o Data(p)

LEMMA NewIs ==
  ASSUME NEW p \in Packet
  PROVE  LET k == IF rxBuf = NULL THEN 0 ELSE 1
         IN  /\ New(p) \in Seq(Pbuf) /\ Len(New(p)) = k + Len(Payload[p])
             /\ \A i \in 1..Len(New(p)) : New(p)[i].ref = 1
             /\ \A j \in 1..Len(Payload[p]) : Holds(New(p)[k + j], p, j)
             /\ rxBuf # NULL => Heads(New(p)[1], p)
<1> DEFINE n == Len(Payload[p])
           d == Data(p)
           a == <<Helper(p)>>
<1>1. Payload[p] \in Seq(Seq(Byte)) /\ n \in Nat /\ n >= 1 /\ DOMAIN Payload[p] = 1..n
  BY PayloadIs
<1>2. NULL \in 0..MaxCell /\ <<>> \in Seq(Byte)
  BY UdpAssumption DEF NULL
<1>3. ASSUME NEW i \in 1..n PROVE d[i] \in Pbuf /\ d[i].ref = 1 /\ Holds(d[i], p, i)
  <2>1. Payload[p][i] \in Seq(Byte)
    BY <1>1, ElementOfSeq
  <2>2. d[i] = [helper |-> FALSE, of |-> p, bytes |-> Payload[p][i], next |-> NULL, ref |-> 1]
    BY <1>1 DEF Data
  <2> HIDE DEF d
  <2> QED BY <1>2, <2>1, <2>2 DEF Pbuf, Holds
<1>4. Helper(p) \in Pbuf /\ Helper(p).ref = 1 /\ Heads(Helper(p), p)
  BY <1>2 DEF Helper, Pbuf, Heads
<1>5. d \in Seq(Pbuf) /\ Len(d) = n
  <2>1. d = [i \in 1..n |-> d[i]]
    BY <1>1 DEF Data
  <2> HIDE DEF d, n
  <2>2. d \in [1..n -> Pbuf]
    BY <1>3, <2>1
  <2> QED BY <1>1, <2>2
<1>6. a \in Seq(Pbuf) /\ Len(a) = 1 /\ a[1] = Helper(p)
  BY <1>4
<1> HIDE DEF d, a, n
<1>7. CASE rxBuf = NULL
  <2>1. New(p) = d
    BY <1>7 DEF New, d
  <2>2. \A j \in 1..n : 0 + j = j
    OBVIOUS
  <2> QED BY <1>1, <1>3, <1>5, <1>7, <2>1, <2>2 DEF n
<1>8. CASE rxBuf # NULL
  <2>1. New(p) = a \o d
    BY <1>8 DEF New, a, d
  <2>2. /\ a \o d \in Seq(Pbuf) /\ Len(a \o d) = Len(a) + Len(d)
        /\ \A i \in 1..(Len(a) + Len(d)) : (a \o d)[i] = IF i <= Len(a) THEN a[i] ELSE d[i - Len(a)]
    BY <1>5, <1>6, ConcatProperties
  <2>3. Len(New(p)) = 1 + n /\ \A i \in 1..(1 + n) : New(p)[i] = IF i <= 1 THEN a[i] ELSE d[i - 1]
    BY <1>5, <1>6, <2>1, <2>2
  <2>4. New(p)[1] = Helper(p)
    <3>1. 1 \in 1..(1 + n) /\ 1 <= 1
      BY <1>1
    <3> QED BY <1>6, <2>3, <3>1
  <2>5. ASSUME NEW j \in 1..n PROVE New(p)[1 + j] = d[j]
    <3>1. 1 + j \in 1..(1 + n) /\ ~(1 + j <= 1) /\ (1 + j) - 1 = j
      BY <1>1
    <3> QED BY <2>3, <3>1
  <2>6. ASSUME NEW i \in 1..Len(New(p)) PROVE New(p)[i].ref = 1
    <3>1. CASE i = 1
      BY <1>4, <2>4, <3>1
    <3>2. CASE i # 1
      <4>1. i - 1 \in 1..n /\ 1 + (i - 1) = i
        BY <1>1, <2>3, <3>2
      <4>2. New(p)[i] = d[i - 1]
        BY <2>5, <4>1
      <4> QED BY <1>3, <4>1, <4>2
    <3> QED BY <3>1, <3>2
  <2> QED BY <1>3, <1>4, <1>8, <2>1, <2>2, <2>3, <2>4, <2>5, <2>6 DEF n
<1> QED BY <1>7, <1>8

LEMMA RecvStep ==
  ASSUME NEW s, NEW q, NEW b, Inner(s, q, b), NEW p \in Packet, Recv(p)
  PROVE  /\ \E t, e : Inner(t, Append(q, p), e)'
         /\ Len(q) < rxBufMaxDepth + 1
<1> DEFINE new == New(p)
           n == Len(Payload[p])
           k == IF rxBuf = NULL THEN 0 ELSE 1
           m == IF q = <<>> THEN 0 ELSE Len(s) + 1
           place == Allocated(Len(new))
           t == s \o place
           g == Appended(new)
           u == Append(q, p)
           e == Extended(q, b, m + n + 1)
<1>1. /\ q \in Seq(Packet) /\ Len(q) \in Nat /\ Chain[rxBuf] = s /\ s \in Seq(Cell) /\ Len(s) \in Nat
      /\ (s = <<>> <=> q = <<>>) /\ (rxBuf = NULL <=> q = <<>>)
      /\ Laid(s, q, b, pbuf) /\ Kept(s, pbuf) /\ rxBuf = Begin(s)
      /\ rxBufMaxDepth \in Nat \ {0}
  BY InnerIs, UdpAssumption DEF Inner
<1>2. /\ ctx /\ ~TooDeep /\ Len(new) <= Cardinality(Unused) /\ pbuf' = g
      /\ UNCHANGED <<ctx, answer>>
      /\ IF rxBuf # NULL
         THEN UNCHANGED <<rxBuf, firstBufTaken, rxBufOffset, rxBufSize, currentAddr>>
         ELSE /\ rxBuf' = place[1]
              /\ firstBufTaken' = FALSE
              /\ rxBufOffset' = 0
              /\ rxBufSize' = Len(FlattenSeq(Payload[p]))
              /\ currentAddr' = Source[p]
  BY DEF Recv, New
<1>3. /\ new \in Seq(Pbuf) /\ Len(new) = k + n /\ \A i \in 1..Len(new) : new[i].ref = 1
      /\ \A j \in 1..n : Holds(new[k + j], p, j)
      /\ rxBuf # NULL => Heads(new[1], p)
  BY NewIs
<1>4. n \in Nat /\ n >= 1 /\ k \in Nat /\ Len(new) >= 1 /\ Len(new) \in Nat
  <2>1. n \in Nat /\ n >= 1
    BY PayloadIs
  <2>2. k \in Nat
    OBVIOUS
  <2> HIDE DEF n, k, new
  <2> QED BY <1>3, <2>1, <2>2
<1>5. Len(s) + k = m
  <2>1. s = <<>> => Len(s) = 0
    OBVIOUS
  <2> QED BY <1>1, <2>1
<1>6. u \in Seq(Packet) /\ u # <<>> /\ u[1] = IF q = <<>> THEN p ELSE q[1]
  <2>1. u \in Seq(Packet) /\ Len(u) = Len(q) + 1 /\ u[Len(q) + 1] = p /\ \A i \in 1..Len(q) : u[i] = q[i]
    BY <1>1
  <2> HIDE DEF u
  <2>2. q # <<>> => 1 \in 1..Len(q)
    BY <1>1, EmptySeq
  <2>3. q = <<>> => Len(q) + 1 = 1
    OBVIOUS
  <2> QED BY <1>1, <2>1, <2>2, <2>3
<1> HIDE DEF new, n, k, m, place, t, g, u, e
<1>7. /\ Kept(t, g) /\ Len(t) = Len(s) + Len(new)
      /\ \A i \in 1..Len(s) : t[i] = s[i] /\ Same(g[t[i]], pbuf[s[i]])
      /\ \A i \in 1..Len(new) : t[Len(s) + i] = place[i] /\ Same(g[t[Len(s) + i]], new[i])
  <2>1. /\ Kept(s, pbuf) /\ rxBuf = Begin(s) /\ new \in Seq(Pbuf) /\ Len(new) >= 1
        /\ \A i \in 1..Len(new) : new[i].ref = 1
        /\ Len(new) <= Cardinality(Unused)
    BY <1>1, <1>2, <1>3, <1>4
  <2>2. ASSUME NEW x, NEW y, x = s \o Allocated(Len(new)), y = Appended(new)
        PROVE  AppendedTo(s, new, x, y)
    BY <2>1, <2>2, AppendedIs
  <2>3. AppendedTo(s, new, t, g)
    BY <2>2 DEF t, g, place
  <2> QED BY <2>3 DEF AppendedTo, place
<1>8. Len(t) = m + n
  BY <1>1, <1>3, <1>4, <1>5, <1>7
<1>9. ASSUME NEW j \in 1..n PROVE Holds(g[t[m + j]], p, j)
  <2>1. k + j \in 1..Len(new) /\ Len(s) + (k + j) = m + j
    <3>1. k + j \in 1..Len(new)
      BY <1>3, <1>4
    <3>2. Len(s) + (k + j) = m + j
      BY <1>1, <1>4, <1>5
    <3> QED BY <3>1, <3>2
  <2>2. Same(g[t[m + j]], new[k + j])
    BY <1>7, <2>1
  <2> QED BY <1>3, <2>2 DEF Same, Holds
<1>10. q # <<>> => Heads(g[t[m]], p)
  <2> SUFFICES ASSUME q # <<>> PROVE Heads(g[t[m]], p)
    OBVIOUS
  <2>1. rxBuf # NULL /\ m = Len(s) + 1 /\ 1 \in 1..Len(new)
    BY <1>1, <1>4 DEF m
  <2>2. Same(g[t[m]], new[1])
    BY <1>7, <2>1
  <2> QED BY <1>3, <2>1, <2>2 DEF Same, Heads
<1>11. Laid(t, u, e, g)
  <2>1. /\ m = (IF q = <<>> THEN 0 ELSE Len(s) + 1) /\ Len(t) = m + Len(Payload[p])
        /\ \A i \in 1..Len(s) : Same(g[t[i]], pbuf[s[i]])
        /\ \A j \in 1..Len(Payload[p]) : Holds(g[t[m + j]], p, j)
    BY <1>7, <1>8, <1>9 DEF m, n
  <2>2. Laid(t, Append(q, p), Extended(q, b, m + Len(Payload[p]) + 1), g)
    BY <1>1, <1>10, <2>1, LaidAppended
  <2> QED BY <2>2 DEF u, e, n
<1>12. t # <<>> /\ Begin(t) = IF q = <<>> THEN place[1] ELSE rxBuf
  <2>1. t \in Seq(Cell)
    BY <1>7 DEF Kept, Linked
  <2>2. t # <<>>
    <3>1. Len(t) # 0
      BY <1>1, <1>4, <1>7
    <3> QED BY <2>1, <3>1, EmptySeq
  <2>3. CASE q = <<>>
    <3>1. 1 \in 1..Len(new) /\ Len(s) = 0 /\ Len(s) + 1 = 1
      BY <1>1, <1>4, <2>3
    <3>2. t[1] = place[1]
      BY <1>7, <3>1
    <3> QED BY <2>2, <2>3, <3>2 DEF Begin
  <2>4. CASE q # <<>>
    <3>1. 1 \in 1..Len(s) /\ s # <<>>
      BY <1>1, <2>4, EmptySeq
    <3>2. t[1] = s[1]
      BY <1>7, <3>1
    <3> QED BY <1>1, <2>2, <2>4, <3>1, <3>2 DEF Begin
  <2> QED BY <2>3, <2>4
<1>13. rxBuf' = Begin(t)
  BY <1>1, <1>2, <1>12
<1>16. PICK x, z : x = t /\ z = e
  OBVIOUS
<1>14. Inner(x, u, z)'
  <2>1. Kept(x, pbuf') /\ Laid(x, u, z, pbuf') /\ rxBuf' = Begin(x)
    BY <1>2, <1>7, <1>11, <1>13, <1>16
  <2>2. ctx' \in BOOLEAN /\ (ctx' \/ x = <<>>) /\ (answer'.n = Len(answer'.bytes) \/ answer'.bytes = <<>>)
    BY <1>2 DEF Inner
  <2>3. CASE q = <<>>
    <3>1. /\ firstBufTaken' = FALSE /\ rxBufOffset' = 0 /\ currentAddr' = Source[p]
          /\ rxBufSize' = Len(FlattenSeq(Payload[p]))
      BY <1>1, <1>2, <2>3
    <3>2. Len(FlattenSeq(Payload[p])) \in Nat
      BY FlatIs
    <3>3. u[1] = p /\ u # <<>> /\ rxBufOffset' \in Nat /\ rxBufOffset' <= rxBufSize'
      BY <1>6, <2>3, <3>1, <3>2
    <3>4. firstBufTaken' \in BOOLEAN
      BY <3>1
    <3> QED BY <2>1, <2>2, <3>1, <3>3, <3>4 DEF Inner
  <2>4. CASE q # <<>>
    <3>1. UNCHANGED <<firstBufTaken, rxBufOffset, rxBufSize, currentAddr>>
      BY <1>1, <1>2, <2>4
    <3>2. u[1] = q[1] /\ u # <<>>
      BY <1>6, <2>4
    <3>3. /\ firstBufTaken \in BOOLEAN /\ rxBufOffset \in Nat /\ currentAddr = Source[q[1]]
          /\ rxBufSize = Len(FlattenSeq(Payload[q[1]])) /\ rxBufOffset <= rxBufSize
      BY <2>4 DEF Inner
    <3>4. firstBufTaken' \in BOOLEAN
      BY <3>1, <3>3
    <3>5. /\ rxBufOffset' \in Nat /\ currentAddr' = Source[u[1]]
          /\ rxBufSize' = Len(FlattenSeq(Payload[u[1]])) /\ rxBufOffset' <= rxBufSize'
      BY <3>1, <3>2, <3>3
    <3> QED BY <2>1, <2>2, <3>2, <3>4, <3>5 DEF Inner
  <2> QED BY <2>3, <2>4
<1>15. Len(q) < rxBufMaxDepth + 1
  <2>1. ~(Len(s) >= 2 * rxBufMaxDepth)
    BY <1>1, <1>2 DEF TooDeep
  <2>2. CASE q = <<>>
    BY <1>1, <2>2
  <2>3. CASE q # <<>>
    <3>1. 1 \in 1..Len(q)
      BY <1>1, <2>3, EmptySeq
    <3>2. 2 * Len(q) <= Len(s) + 1
      BY <1>1, <3>1, LaidInside
    <3> QED BY <1>1, <2>1, <3>2
  <2> QED BY <2>2, <2>3
<1> QED BY <1>14, <1>15 DEF u

-----------------------------------------------------------------------------
Bytes == [p \in Packet |-> FlattenSeq(Payload[p])]

(* The step of the mailbox that each action is.                            *)
LEMMA RenewIsOpen ==
  ASSUME NEW s, NEW q, NEW b, Inner(s, q, b), NEW now \in BOOLEAN, Renew(now)
  PROVE  Promised!Open(now)
<1>1. Box' = <<>>
  BY RenewStep, BoxPrime
<1> QED BY <1>1 DEF Renew, Promised!Open

LEMMA RecvIsArrive ==
  ASSUME NEW s, NEW q, NEW b, Inner(s, q, b), NEW p \in Packet, Recv(p)
  PROVE  Promised!Arrive(p)
<1>1. PICK t, e : Inner(t, Append(q, p), e)'
  BY RecvStep
<1>2. Box = q /\ Box' = Append(q, p) /\ Len(q) < rxBufMaxDepth + 1 /\ (rxBuf = NULL <=> q = <<>>)
  <2>1. Box = q /\ (rxBuf = NULL <=> q = <<>>)
    BY InnerIs
  <2>2. Box' = Append(q, p)
    BY <1>1, BoxPrime
  <2>3. Len(q) < rxBufMaxDepth + 1
    BY RecvStep
  <2> QED BY <2>1, <2>2, <2>3
<1>3. ctx /\ ctx' = ctx /\ answer' = answer
  BY DEF Recv
<1>4. rxBufOffset' = rxBufOffset
  BY <1>2 DEF Recv, Inner
<1>5. (firstBufTaken /\ rxBuf # NULL)' <=> (firstBufTaken /\ rxBuf # NULL)
  BY <1>2 DEF Recv
<1> QED BY <1>2, <1>3, <1>4, <1>5 DEF Promised!Arrive

LEMMA ParseNoneIsParse ==
  ASSUME NEW s, NEW q, NEW b, Inner(s, q, b), ParseNone PROVE Promised!Parse
<1>1. Box = q /\ Box' = q /\ q = <<>> /\ rxBuf = NULL /\ rxBuf' = NULL
  BY InnerIs, ParseNoneStep, BoxPrime DEF ParseNone
<1>2. rxBufOffset = 0 /\ rxBufOffset' = 0
  BY <1>1 DEF ParseNone, Inner
<1> QED BY <1>1, <1>2 DEF ParseNone, NoAnswer, Promised!Parse, Promised!left

LEMMA ParseFirstIsParse ==
  ASSUME NEW s, NEW q, NEW b, Inner(s, q, b), ParseFirst PROVE Promised!Parse
<1>1. Box = q /\ Box' = q /\ q # <<>> /\ rxBuf # NULL /\ rxBuf' # NULL /\ Head(q) \in Packet /\ q[1] = Head(q)
  BY InnerIs, ParseFirstStep, BoxPrime DEF ParseFirst
<1>2. getSize = Len(FlattenSeq(Payload[Head(q)])) - rxBufOffset
  BY <1>1 DEF getSize, Inner
<1>3. answer' = [n |-> Len(FlattenSeq(Payload[Head(q)])) - rxBufOffset, bytes |-> <<>>]
  BY <1>2 DEF ParseFirst
<1> QED BY <1>1, <1>3 DEF ParseFirst, Promised!Parse, Promised!left

LEMMA ParseNextIsParse ==
  ASSUME NEW s, NEW q, NEW b, Inner(s, q, b), ParseNext PROVE Promised!Parse
<1>1. Box = q /\ q \in Seq(Packet) /\ q # <<>> /\ rxBuf # NULL /\ firstBufTaken
  BY InnerIs DEF ParseNext
<1>2. firstBufTaken' = firstBufTaken /\ ctx' = ctx /\ rxBufOffset' = 0 /\ answer' = [n |-> rxBufSize', bytes |-> <<>>]
  BY DEF ParseNext
<1>3. CASE Len(q) = 1
  <2>1. Inner(<<>>, <<>>, [k \in 1..1 |-> 0])' /\ rxBufSize' = 0
    BY <1>3, ParseLastStep
  <2>2. Box' = <<>> /\ rxBuf' = NULL
    BY <2>1, BoxPrime DEF Inner, Begin
  <2>3. Tail(q) = <<>>
    <3>1. Tail(q) \in Seq(Packet) /\ Len(Tail(q)) = Len(q) - 1
      BY <1>1, HeadTailProperties
    <3>2. Len(Tail(q)) = 0
      BY <1>3, <3>1
    <3> QED BY <3>1, <3>2, EmptySeq
  <2> QED BY <1>1, <1>2, <2>1, <2>2, <2>3 DEF Promised!Parse, Promised!left
<1>4. CASE Len(q) # 1
  <2>1. PICK t, e : Inner(t, Tail(q), e)' /\ Tail(q) # <<>>
    BY <1>4, ParseMoreStep
  <2> DEFINE u == Tail(q)
  <2>2. u # <<>> /\ u \in Seq(Packet)
    BY <1>1, <2>1, HeadTailProperties
  <2>3. Head(u) = u[1] /\ u[1] \in Packet
    BY <2>2, EmptySeq, ElementOfSeq
  <2>4. Box' = u
    BY <2>1, BoxPrime
  <2>5. rxBufSize' = Len(FlattenSeq(Payload[u[1]])) /\ rxBuf' = Begin(t) /\ Laid(t, u, e, pbuf') /\ t \in Seq(Cell)
    BY <2>1 DEF Inner, Kept, Linked
  <2> HIDE DEF u
  <2>6. rxBuf' # NULL
    <3>1. t # <<>>
      <4>1. b = b /\ 1 \in 1..Len(u)
        BY <2>2, EmptySeq
      <4>2. e[1] + Len(Payload[u[1]]) <= Len(t) /\ Places(u, e)
        BY <2>5, <4>1, LaidInside DEF Laid
      <4>3. e[1] = 0 /\ Len(Payload[u[1]]) >= 1 /\ Len(Payload[u[1]]) \in Nat
        BY <2>3, <4>2, PayloadIs DEF Places
      <4> QED BY <4>2, <4>3
    <3>2. t[1] \in Cell
      BY <2>5, <3>1, EmptySeq, ElementOfSeq
    <3> QED BY <2>5, <3>1, <3>2 DEF Begin, Cell, NULL
  <2>7. Len(FlattenSeq(Payload[u[1]])) \in Nat
    BY <2>3, FlatIs
  <2>8. answer' = [n |-> Len(FlattenSeq(Payload[Head(u)])) - 0, bytes |-> <<>>]
    BY <1>2, <2>3, <2>5, <2>7
  <2>9. Box' # <<>> /\ Box' = Tail(Box)
    BY <1>1, <2>2, <2>4 DEF u
  <2>10. (Promised!left)' = Len(FlattenSeq(Payload[Head(u)])) - 0
    BY <1>2, <2>2, <2>3, <2>4 DEF Promised!left
  <2> QED BY <1>1, <1>2, <2>6, <2>8, <2>9, <2>10 DEF Promised!Parse
<1> QED BY <1>3, <1>4

LEMMA ReadIsRead ==
  ASSUME NEW s, NEW q, NEW b, Inner(s, q, b), NEW k \in Nat, Read(k)
  PROVE  Promised!Read(k)
<1>1. /\ Box = q /\ (q # <<>> => Head(q) \in Packet /\ q[1] = Head(q))
      /\ Box' = q
  BY InnerIs, ReadStep, BoxPrime
<1>2. Promised!left = getSize
  <2>1. getSize = (IF q = <<>> THEN 0 ELSE Len(FlattenSeq(Payload[q[1]])) - rxBufOffset)
    BY ReadStep
  <2> QED BY <1>1, <2>1 DEF Promised!left
<1>3. Amount(k) = IF k < Promised!left THEN k ELSE Promised!left
  BY <1>2 DEF Amount
<1>4. Amount(k) # 0 => q # <<>>
  <2>1. q = <<>> => getSize = 0
    BY ReadStep
  <2> QED BY <2>1 DEF Amount
<1>5. answer' = [n |-> Amount(k),
              bytes |-> IF Amount(k) = 0 THEN <<>>
                        ELSE SubSeq(Bytes[Head(Box)], rxBufOffset + 1, rxBufOffset + Amount(k))]
  <2>1. answer' = [n |-> Amount(k),
                bytes |-> IF Amount(k) = 0 THEN <<>>
                          ELSE SubSeq(FlattenSeq(Payload[q[1]]), rxBufOffset + 1, rxBufOffset + Amount(k))]
    BY ReadStep
  <2>2. Amount(k) # 0 => Bytes[Head(Box)] = FlattenSeq(Payload[q[1]])
    BY <1>1, <1>4 DEF Bytes
  <2> QED BY <2>1, <2>2
<1>6. rxBufOffset' = rxBufOffset + Amount(k)
  BY ReadStep
<1>7. UNCHANGED <<ctx, firstBufTaken, rxBuf>> /\ Box' = Box
  BY <1>1 DEF Read
<1> QED BY <1>3, <1>5, <1>6, <1>7 DEF Promised!Read, Bytes

LEMMA StutterIs ==
  ASSUME NEW s, NEW q, NEW b, Inner(s, q, b), UNCHANGED udpVars
  PROVE  Inner(s, q, b)' /\ UNCHANGED Promised!vars
<1>1. Inner(s, q, b)'
  BY DEF udpVars, Inner
<1>2. Box' = Box
  BY <1>1, InnerIs, BoxPrime
<1> QED BY <1>1, <1>2 DEF udpVars, Promised!vars

(* Every step keeps the chain and is a step of the mailbox, or none.       *)
LEMMA UdpStep == UdpShape /\ [UdpNext]_udpVars => UdpShape' /\ [Promised!Next]_(Promised!vars)
<1> SUFFICES ASSUME UdpShape, [UdpNext]_udpVars PROVE UdpShape' /\ [Promised!Next]_(Promised!vars)
  OBVIOUS
<1>1. PICK s, q, b : Inner(s, q, b)
  BY DEF UdpShape
<1>2. \A t, u, e : Inner(t, u, e)' => UdpShape'
  BY DEF UdpShape
<1>3. ASSUME NEW now \in BOOLEAN, Renew(now) PROVE UdpShape' /\ Promised!Next
  <2>1. Promised!Open(now) /\ UdpShape'
    BY <1>1, <1>2, <1>3, RenewStep, RenewIsOpen
  <2> QED BY <2>1 DEF Promised!Next
<1>4. ASSUME NEW p \in Packet, Recv(p) PROVE UdpShape' /\ Promised!Next
  <2>1. PICK t, e : Inner(t, Append(q, p), e)'
    BY <1>1, <1>4, RecvStep
  <2>2. Promised!Arrive(p)
    BY <1>1, <1>4, RecvIsArrive
  <2> QED BY <1>2, <2>1, <2>2 DEF Promised!Next
<1>5. CASE ParseNone
  <2>1. Promised!Parse /\ UdpShape'
    BY <1>1, <1>2, <1>5, ParseNoneStep, ParseNoneIsParse
  <2> QED BY <2>1 DEF Promised!Next
<1>6. CASE ParseFirst
  <2>1. Promised!Parse /\ UdpShape'
    BY <1>1, <1>2, <1>6, ParseFirstStep, ParseFirstIsParse
  <2> QED BY <2>1 DEF Promised!Next
<1>7. CASE ParseNext
  <2>1. Promised!Parse
    BY <1>1, <1>7, ParseNextIsParse
  <2>2. UdpShape'
    BY <1>1, <1>2, <1>7, ParseLastStep, ParseMoreStep
  <2> QED BY <2>1, <2>2 DEF Promised!Next
<1>8. ASSUME NEW k \in Reads, Read(k) PROVE UdpShape' /\ Promised!Next
  <2>1. k \in Nat
    BY UdpAssumption
  <2>2. Promised!Read(k) /\ UdpShape'
    BY <1>1, <1>2, <1>8, <2>1, ReadStep, ReadIsRead
  <2> QED BY <2>2 DEF Promised!Next
<1>9. CASE UNCHANGED udpVars
  BY <1>1, <1>2, <1>9, StutterIs
<1> QED BY <1>3, <1>4, <1>5, <1>6, <1>7, <1>8, <1>9 DEF UdpNext

(* The chain of the invariant has the types, loses no pbuf, and the sender *)
(* that is remembered is that of its first datagram.                       *)
LEMMA UdpInvHolds == UdpShape => UdpInv /\ RemoteIsSender
<1> SUFFICES ASSUME NEW s, NEW q, NEW b, Inner(s, q, b) PROVE UdpInv /\ RemoteIsSender
  BY DEF UdpShape
<1>1. /\ Chain[rxBuf] = s /\ s \in Seq(Cell) /\ Kept(s, pbuf) /\ Box = q /\ (rxBuf = NULL <=> q = <<>>)
      /\ (s = <<>> <=> q = <<>>) /\ (q # <<>> => q[1] = Head(q) /\ q[1] \in Packet)
  BY InnerIs DEF Inner
<1>2. MaxCell \in Nat /\ Cell = 1..MaxCell /\ NULL = 0
  BY UdpAssumption DEF Cell, NULL
<1>3. \A c \in Cell : pbuf[c] \in Pbuf /\ pbuf[c].ref = IF In(s, c) THEN 1 ELSE 0
  BY <1>1, FreeIs DEF Kept, In
<1>4. {c \in Cell : pbuf[c].ref > 0} = ToSet(s)
  <2>1. \A c \in Cell : pbuf[c].ref > 0 <=> In(s, c)
    BY <1>3
  <2>2. ToSet(s) = {s[i] : i \in 1..Len(s)}
    BY <1>1 DEF ToSet
  <2>3. \A i \in 1..Len(s) : s[i] \in Cell
    BY <1>1, ElementOfSeq
  <2> QED BY <2>1, <2>2, <2>3 DEF In
<1>5. rxBuf \in 0..MaxCell
  <2>1. CASE s = <<>>
    BY <1>2, <2>1 DEF Inner, Begin
  <2>2. CASE s # <<>>
    <3>1. s[1] \in Cell
      BY <1>1, <2>2, EmptySeq, ElementOfSeq
    <3> QED BY <1>2, <2>2, <3>1 DEF Inner, Begin
  <2> QED BY <2>1, <2>2
<1>6. rxBufOffset \in 0..rxBufSize
  <2>1. CASE q = <<>>
    BY <2>1 DEF Inner
  <2>2. CASE q # <<>>
    <3>1. rxBufSize \in Nat /\ rxBufOffset \in Nat /\ rxBufOffset <= rxBufSize
      BY <1>1, <2>2, FlatIs DEF Inner
    <3> QED BY <3>1
  <2> QED BY <2>1, <2>2
<1>7. UdpTypeOK
  <2>1. \A c \in Cell : pbuf[c].helper \in BOOLEAN /\ pbuf[c].next \in 0..MaxCell /\ pbuf[c].ref \in 0..1
    BY <1>3 DEF Pbuf
  <2>2. ctx \in BOOLEAN /\ firstBufTaken \in BOOLEAN /\ (answer.n = Len(answer.bytes) \/ answer.bytes = <<>>)
    BY DEF Inner
  <2> QED BY <1>5, <1>6, <2>1, <2>2 DEF UdpTypeOK
<1>8. NoPbufLost
  BY <1>1, <1>4 DEF NoPbufLost, Inner
<1>9. RemoteIsSender
  BY <1>1 DEF RemoteIsSender, Inner
<1> QED BY <1>7, <1>8, <1>9 DEF UdpInv

LEMMA UdpStart == UdpInit => UdpShape /\ Promised!Init
<1> SUFFICES ASSUME UdpInit PROVE UdpShape /\ Promised!Init
  OBVIOUS
<1>1. Inner(<<>>, <<>>, [k \in 1..1 |-> 0])
  BY UdpBegins
<1>2. Box = <<>>
  BY <1>1, InnerIs
<1> QED BY <1>1, <1>2 DEF UdpShape, UdpInit, NoAnswer, Promised!Init, Promised!Nothing

(* Whatever lwIP delivers and the sketch calls, in any order: the pbufs in *)
(* use are a chain of whole datagrams, each behind its helper.             *)
THEOREM UdpAlways == UdpSpec => []UdpShape
<1>1. UdpShape /\ [UdpNext]_udpVars => UdpShape'
  BY UdpStep
<1> QED BY <1>1, UdpStart, PTL DEF UdpSpec

(* _recv(), next() and stop() leak no pbuf and free none that is linked,   *)
(* for any number of pbufs in a datagram, depth of the buffer and heap.    *)
THEOREM UdpTypes == UdpSpec => []UdpInv
  BY UdpAlways, UdpInvHolds, PTL

(* remoteIP() is the sender of the datagram that is being read, however    *)
(* many arrived behind it since parsePacket().                             *)
THEOREM RemoteIsSenderAlways == UdpSpec => []RemoteIsSender
  BY UdpAlways, UdpInvHolds, PTL

(* WiFiUDP over UdpContext is the mailbox that Mailbox promises: datagrams *)
(* come in the order of arrival, parsePacket() moves on by one, and read() *)
(* never returns the bytes of another.                                     *)
THEOREM UdpImplementsMailbox == UdpSpec => ImplementsMailbox
<1>1. UdpShape /\ [UdpNext]_udpVars => [Promised!Next]_(Promised!vars)
  BY UdpStep
<1>2. UdpInit => Promised!Init
  BY UdpStart
<1> QED BY <1>1, <1>2, UdpAlways, PTL DEF UdpSpec, ImplementsMailbox, Promised!Spec

-----------------------------------------------------------------------------
(* 2. The sketches over the mailbox.                                       *)

Duty == 0..255

(* The pin is driven, or the writes still to be made will drive it.        *)
Drives(pin) == \/ pins[pin] # 0
               \/ \E i \in 1..Len(writes) : writes[i][1] = pin /\ writes[i][2] # 0

OneSided == /\ ~(Drives("M1_PWM") /\ Drives("M1_DIR"))
            /\ ~(Drives("M2_PWM") /\ Drives("M2_DIR"))

(* cruise() releases every pin that it has not written yet.                *)
Loose == pc = "cruise" =>
               /\ \A i \in 1..Len(writes) : writes[i][2] = 0
               /\ \A pin \in Pin : pins[pin] = 0 \/ \E i \in 1..Len(writes) : writes[i][1] = pin

WriteTypes == /\ pins \in [Pin -> Duty]
              /\ writes \in Seq(Pin \X Duty)
              /\ cmdCode \in 0..8
              /\ pc \notin {"cruise", "act"} => writes = <<>>

Inv == WriteTypes /\ Loose /\ OneSided

-----------------------------------------------------------------------------
(* A list of writes that drives neither motor from both pins.              *)
Safe(w) == \/ w = <<>>
           \/ \E a, b, c, d \in Duty : /\ w = Wheels(a, b, c, d)
                                       /\ a = 0 \/ b = 0
                                       /\ c = 0 \/ d = 0

LEMMA WheelsSafe ==
  ASSUME NEW a \in Duty, NEW b \in Duty, NEW c \in Duty, NEW d \in Duty,
         a = 0 \/ b = 0, c = 0 \/ d = 0
  PROVE  Safe(Wheels(a, b, c, d))
  BY DEF Safe

LEMMA Duties == /\ {0, 180, 200, 201, 224, 225, 250, 255} \subseteq Duty
                /\ Slower(200) = 180 /\ Slower(224) = 201
  BY DEF Duty, Slower

(* Every case of the two switches is such a list.                          *)
LEMMA Switch4Safe == ASSUME NEW code \in 0..8 PROVE Safe(Switch4(code))
<1>1. /\ Safe(cruise) /\ Safe(forward(255)) /\ Safe(backward(224))
  BY Duties, WheelsSafe DEF cruise, forward, backward
<1>2. Safe(left(200)) /\ Safe(right(200)) /\ Safe(left(224)) /\ Safe(right(224))
  BY Duties, WheelsSafe DEF left, right
<1>3. Safe(left_back(200)) /\ Safe(right_back(200))
  BY Duties, WheelsSafe DEF left_back, right_back
<1> QED BY <1>1, <1>2, <1>3 DEF Switch4

LEMMA Switch2Safe == ASSUME NEW char PROVE Safe(Switch2(char))
<1>1. Safe(cruise) /\ Safe(forward(250)) /\ Safe(backward(250))
  BY Duties, WheelsSafe DEF cruise, forward, backward
<1>2. Safe(left2(225)) /\ Safe(right2(255))
  BY Duties, WheelsSafe DEF left2, right2
<1>3. Safe(<<>>)
  BY DEF Safe
<1> QED BY <1>1, <1>2, <1>3 DEF Switch2

LEMMA CodeInRange == ASSUME WriteTypes, NEW text PROVE CodeOf(text) \in 0..8
<1>1. Len(Codes) = 8 /\ DOMAIN Codes = 1..8
  BY DEF Codes
<1>2. CASE text = <<"S">>
  BY <1>2 DEF CodeOf
<1>3. CASE \E i \in DOMAIN Codes : Codes[i] = text
  <2>1. (CHOOSE i \in DOMAIN Codes : Codes[i] = text) \in DOMAIN Codes
    BY <1>3
  <2> QED BY <1>1, <1>3, <2>1 DEF CodeOf
<1>4. CASE text # <<"S">> /\ ~\E i \in DOMAIN Codes : Codes[i] = text
  BY <1>4 DEF CodeOf, WriteTypes
<1> QED BY <1>2, <1>3, <1>4

-----------------------------------------------------------------------------
(* The steps that start a list of writes.                                  *)

(* cruise() begins when nothing is left to write: it drives no pin and     *)
(* names them all.                                                         *)
LEMMA CruiseStarts ==
  ASSUME Inv, writes = <<>>, writes' = cruise, pins' = pins, cmdCode' = cmdCode, pc' = "cruise"
  PROVE  Inv'
<1>1. /\ writes' \in Seq(Pin \X Duty) /\ Len(writes') = 4
      /\ writes'[1] = <<"M1_PWM", 0>> /\ writes'[2] = <<"M1_DIR", 0>>
      /\ writes'[3] = <<"M2_PWM", 0>> /\ writes'[4] = <<"M2_DIR", 0>>
  BY Duties DEF cruise, Wheels, Pin
<1>2. WriteTypes'
  BY <1>1 DEF Inv, WriteTypes
<1>3. \A i \in 1..Len(writes') : writes'[i][2] = 0
  BY <1>1
<1>4. \A pin \in Pin : \E i \in 1..Len(writes') : writes'[i][1] = pin
  BY <1>1 DEF Pin
<1>5. Loose'
  BY <1>3, <1>4 DEF Loose
<1>6. OneSided'
  BY <1>3 DEF Inv, OneSided, Drives
<1> QED BY <1>2, <1>5, <1>6 DEF Inv

(* The drive function begins when cruise() has released every pin.         *)
LEMMA DriveStarts ==
  ASSUME Inv, pc = "cruise", writes = <<>>, Safe(writes'), pins' = pins,
         cmdCode' \in 0..8, pc' = "act"
  PROVE  Inv'
<1>1. \A pin \in Pin : pins'[pin] = 0
  BY DEF Inv, Loose
<1>2. CASE writes' = <<>>
  BY <1>1, <1>2 DEF Inv, WriteTypes, Loose, OneSided, Drives, Pin
<1>3. CASE writes' # <<>>
  <2>1. PICK a, b, c, d \in Duty : /\ writes' = Wheels(a, b, c, d)
                                   /\ a = 0 \/ b = 0
                                   /\ c = 0 \/ d = 0
    BY <1>3 DEF Safe
  <2>2. /\ writes' \in Seq(Pin \X Duty) /\ Len(writes') = 4
        /\ writes'[1] = <<"M1_PWM", a>> /\ writes'[2] = <<"M1_DIR", b>>
        /\ writes'[3] = <<"M2_PWM", c>> /\ writes'[4] = <<"M2_DIR", d>>
    BY <2>1 DEF Wheels, Pin
  <2>3. OneSided'
    BY <1>1, <2>1, <2>2 DEF OneSided, Drives, Pin
  <2> QED BY <2>2, <2>3 DEF Inv, WriteTypes, Loose
<1> QED BY <1>2, <1>3

(* A write drives nothing that was not going to be driven.                 *)
LEMMA WriteKeeps == ASSUME Inv, Write PROVE Inv'
<1> USE DEF Write
<1>1. writes \in Seq(Pin \X Duty) /\ writes # <<>> /\ pins \in [Pin -> Duty]
  BY DEF Inv, WriteTypes
<1>2. /\ Len(writes) >= 1 /\ Head(writes) = writes[1] /\ writes[1] \in Pin \X Duty
      /\ Len(writes') = Len(writes) - 1
      /\ \A i \in 1..Len(writes') : writes'[i] = writes[i + 1]
      /\ writes' \in Seq(Pin \X Duty)
  BY <1>1
<1>3. PICK pin \in Pin, v \in Duty : writes[1] = <<pin, v>>
  BY <1>2
<1>4. pins' = [pins EXCEPT ![pin] = v] /\ pins' \in [Pin -> Duty]
  <2>1. Head(writes)[1] = pin /\ Head(writes)[2] = v
    BY <1>2, <1>3
  <2>2. pins' = [pins EXCEPT ![Head(writes)[1]] = Head(writes)[2]]
    OBVIOUS
  <2>3. pins' = [pins EXCEPT ![pin] = v]
    BY <2>1, <2>2
  <2> QED BY <1>1, <2>3
<1>5. \A p \in Pin : pins'[p] = IF p = pin THEN v ELSE pins[p]
  BY <1>1, <1>4
<1>6. WriteTypes'
  BY <1>1, <1>2, <1>4 DEF Inv, WriteTypes
<1>7. ASSUME NEW p \in Pin, Drives(p)' PROVE Drives(p)
  <2>1. CASE pins'[p] # 0
    BY <1>2, <1>3, <1>5, <2>1 DEF Drives
  <2>2. ASSUME NEW i \in 1..Len(writes'), writes'[i][1] = p, writes'[i][2] # 0 PROVE Drives(p)
    <3>1. i + 1 \in 1..Len(writes) /\ writes'[i] = writes[i + 1]
      BY <1>1, <1>2
    <3> QED BY <2>2, <3>1 DEF Drives
  <2> QED BY <1>7, <2>1, <2>2 DEF Drives
<1>8. OneSided'
  BY <1>7 DEF Inv, OneSided, Pin
<1>9. Loose'
  <2> SUFFICES ASSUME pc = "cruise" PROVE Loose'
    BY DEF Loose
  <2>1. \A i \in 1..Len(writes') : writes'[i][2] = 0
    BY <1>1, <1>2 DEF Inv, Loose
  <2>2. v = 0
    BY <1>1, <1>2, <1>3 DEF Inv, Loose
  <2>3. ASSUME NEW p \in Pin, pins'[p] # 0 PROVE \E i \in 1..Len(writes') : writes'[i][1] = p
    <3>1. p # pin /\ pins[p] # 0
      BY <1>5, <2>2, <2>3
    <3>2. PICK i \in 1..Len(writes) : writes[i][1] = p
      BY <3>1 DEF Inv, Loose
    <3>3. i # 1
      BY <1>3, <3>1, <3>2
    <3>4. i - 1 \in 1..Len(writes') /\ writes'[i - 1] = writes[i]
      BY <1>1, <1>2, <3>3
    <3> QED BY <3>2, <3>4
  <2> QED BY <2>1, <2>3 DEF Loose
<1> QED BY <1>6, <1>8, <1>9 DEF Inv

-----------------------------------------------------------------------------
LEMMA InitInv == Init => Inv
  BY Duties DEF Init, Idle, Inv, WriteTypes, Loose, OneSided, Drives, Pin

LEMMA NextInv == Inv /\ [Next]_vars => Inv'
<1> SUFFICES ASSUME Inv, [Next]_vars PROVE Inv'
  OBVIOUS
<1>1. CASE Write
  BY <1>1, WriteKeeps
<1>2. CASE ParsePacket
  <2>1. writes = <<>> /\ pins' = pins /\ cmdCode' = cmdCode
    BY <1>2 DEF ParsePacket, ParseBy, Inv, WriteTypes
  <2>2. CASE got'.n > 0
    <3>1. writes' = writes /\ pc' = "read"
      BY <1>2, <2>2 DEF ParsePacket, ParseBy
    <3>2. WriteTypes' /\ Loose'
      BY <2>1, <3>1 DEF Inv, WriteTypes, Loose
    <3>3. OneSided'
      BY <2>1, <3>1 DEF Inv, OneSided, Drives
    <3> QED BY <3>2, <3>3 DEF Inv
  <2>3. CASE ~(got'.n > 0)
    BY <1>2, <2>1, <2>3, CruiseStarts DEF ParsePacket, ParseBy
  <2> QED BY <2>2, <2>3
<1>3. CASE Receive
  <2>1. writes = <<>>
    BY <1>3 DEF Receive, ReceiveBy, Inv, WriteTypes
  <2> QED BY <1>3, <2>1, CruiseStarts DEF Receive, ReceiveBy
<1>4. CASE Decide
  <2>1. cmdCode \in 0..8
    BY DEF Inv, WriteTypes
  <2>2. CASE incomingPacket = <<>>
    BY <1>4, <2>1, <2>2, DriveStarts DEF Decide, Safe
  <2>3. CASE incomingPacket # <<>> /\ sketch = "4wd"
    <3>1. cmdCode' = CodeOf(incomingPacket) /\ writes' = Switch4(cmdCode')
      BY <1>4, <2>3 DEF Decide
    <3>2. cmdCode' \in 0..8 /\ Safe(writes')
      BY <3>1, CodeInRange, Switch4Safe DEF Inv
    <3> QED BY <1>4, <3>2, DriveStarts DEF Decide
  <2>4. CASE incomingPacket # <<>> /\ sketch # "4wd"
    <3>1. Safe(writes') /\ cmdCode' = cmdCode
      BY <1>4, <2>4, Switch2Safe DEF Decide
    <3> QED BY <1>4, <2>1, <3>1, DriveStarts DEF Decide
  <2> QED BY <2>2, <2>3, <2>4
<1>5. CASE Setup \/ Acted \/ Again \/ (\E c \in Command : Arrive(c)) \/ UNCHANGED vars
  <2>1. writes' = writes /\ pins' = pins /\ cmdCode' = cmdCode
    BY <1>5 DEF Setup, SetupBy, Acted, Again, Arrive, ArriveBy, vars
  <2>2. WriteTypes'
    BY <1>5, <2>1 DEF Setup, SetupBy, Acted, Again, Arrive, ArriveBy, vars, Inv, WriteTypes
  <2>3. Loose'
    BY <1>5, <2>1 DEF Setup, SetupBy, Acted, Again, Arrive, ArriveBy, vars, Inv, Loose
  <2>4. OneSided'
    BY <2>1 DEF Inv, OneSided, Drives
  <2> QED BY <2>2, <2>3, <2>4 DEF Inv
<1> QED BY <1>1, <1>2, <1>3, <1>4, <1>5 DEF Next, Loop

(* No motor is driven from both of its pins, for all datagrams and however *)
(* many of them the socket keeps.                                          *)
THEOREM SpecNeverBrakes == Spec => []NeverBrakes
<1>1. Inv => NeverBrakes
  BY DEF Inv, OneSided, Drives, NeverBrakes
<1> QED BY <1>1, InitInv, NextInv, PTL DEF Spec

-----------------------------------------------------------------------------
(* That the robot obeys: the socket delivers whole texts, the text and its *)
(* code agree with what the robot was told, and so do the duties of the    *)
(* pins, the writes that are still to be made included.                    *)

Socket == /\ open \in BOOLEAN /\ taken \in BOOLEAN
          /\ box \in Seq(Command) /\ Len(box) <= Capacity
          /\ offset \in Nat
          /\ box = <<>> \/ ~taken => offset = 0
          /\ box # <<>> => offset <= Len(Chars[Head(box)])
          /\ pc = "read" => taken /\ offset = 0 /\ box # <<>>

Text == incomingPacket = <<>> \/ \E c \in Command : incomingPacket = Chars[c]

CodeFor == [S |-> 0, F |-> 1, B |-> 2, L |-> 3, R |-> 4, LF |-> 5, RF |-> 6, LB |-> 7, RB |-> 8]

(* While the text is new, its code has still to be decided upon (4wd).     *)
Remembers ==
  /\ sketch \in {"4wd", "2wd"} /\ told \in Known
  /\ incomingPacket = <<>> => told = "S"
  /\ sketch = "4wd" =>
       /\ incomingPacket # <<>> => CodeOf(incomingPacket) = CodeFor[told]
       /\ pc # "cruise" \/ incomingPacket = <<>> => cmdCode = CodeFor[told]
  /\ sketch = "2wd" /\ incomingPacket # <<>> =>
       told = IF Head(incomingPacket) \in {"F", "B", "L", "R"} THEN Head(incomingPacket) ELSE "S"

(* The writes that the last command means.                                 *)
Ordered == IF sketch = "4wd" THEN Switch4(CodeFor[told]) ELSE Switch2(told)

(* Each of the writes w has been made or is still to be made.              *)
Settled(w) == \A i \in 1..4 :
  /\ \A k \in 1..Len(writes) : writes[k][1] = w[i][1] => writes[k][2] = w[i][2]
  /\ pins[w[i][1]] = w[i][2] \/ \E k \in 1..Len(writes) : writes[k][1] = w[i][1]

Settles == pc \in {"act", "end"} => Settled(Ordered)

Few == Len(writes) <= 4 /\ pc \in {"setup", "parse", "read", "cruise", "act", "end"}

ObeyInv == Inv /\ Socket /\ Text /\ Remembers /\ Settles /\ Few

(* The commands that a 2wd robot can be given.                             *)
LEMMA KnownIs == Known = {"S", "F", "B", "L", "R", "LF", "RF", "LB", "RB"}
  BY DEF Known, Spelling

LEMMA ToldOf2wd ==
  ASSUME Remembers, sketch # "4wd" PROVE told \in {"S", "F", "B", "L", "R"}
  BY DEF Remembers

(* What they mean, as duties.                                              *)
LEMMA OrderedIs ==
  ASSUME Remembers
  PROVE  /\ told = "S" => Ordered = Wheels(0, 0, 0, 0)
         /\ told = "F" => \E v \in {250, 255} : Ordered = Wheels(v, 0, v, 0)
         /\ told = "B" => \E v \in {224, 250} : Ordered = Wheels(0, v, 0, v)
         /\ told = "L" => Ordered \in {Wheels(180, 0, 200, 0), Wheels(0, 0, 225, 0)}
         /\ told = "R" => Ordered \in {Wheels(200, 0, 180, 0), Wheels(255, 0, 0, 0)}
         /\ told = "LF" => Ordered = Wheels(201, 0, 224, 0)
         /\ told = "RF" => Ordered = Wheels(224, 0, 201, 0)
         /\ told = "LB" => Ordered = Wheels(0, 180, 0, 200)
         /\ told = "RB" => Ordered = Wheels(0, 200, 0, 180)
<1> USE Duties
<1>1. CASE sketch = "4wd"
  <2>1. /\ Switch4(0) = Wheels(0, 0, 0, 0)
        /\ Switch4(1) = Wheels(255, 0, 255, 0)
        /\ Switch4(2) = Wheels(0, 224, 0, 224)
        /\ Switch4(3) = Wheels(180, 0, 200, 0)
        /\ Switch4(4) = Wheels(200, 0, 180, 0)
    BY DEF Switch4, cruise, forward, backward, left, right
  <2>2. /\ Switch4(5) = Wheels(201, 0, 224, 0)
        /\ Switch4(6) = Wheels(224, 0, 201, 0)
        /\ Switch4(7) = Wheels(0, 180, 0, 200)
        /\ Switch4(8) = Wheels(0, 200, 0, 180)
    BY DEF Switch4, left, right, left_back, right_back
  <2>3. Ordered = Switch4(CodeFor[told])
    BY <1>1 DEF Ordered
  <2> QED BY <2>1, <2>2, <2>3 DEF CodeFor
<1>2. CASE sketch # "4wd"
  <2>1. /\ Switch2("S") = Wheels(0, 0, 0, 0)
        /\ Switch2("F") = Wheels(250, 0, 250, 0)
        /\ Switch2("B") = Wheels(0, 250, 0, 250)
        /\ Switch2("L") = Wheels(0, 0, 225, 0)
        /\ Switch2("R") = Wheels(255, 0, 0, 0)
    BY DEF Switch2, cruise, forward, backward, left2, right2
  <2>2. Ordered = Switch2(told)
    BY <1>2 DEF Ordered
  <2> QED BY <1>2, <2>1, <2>2, ToldOf2wd
<1> QED BY <1>1, <1>2

LEMMA OrderedWheels ==
  ASSUME Remembers
  PROVE  \E a, b, c, d \in Duty : Ordered = Wheels(a, b, c, d)
<1>1. told \in {"S", "F", "B", "L", "R", "LF", "RF", "LB", "RB"}
  BY KnownIs DEF Remembers
<1> QED BY <1>1, OrderedIs, Duties

-----------------------------------------------------------------------------
(* The texts of the commands, and their codes.                             *)
LEMMA CodesAre ==
  /\ DOMAIN Codes = 1..8
  /\ Codes[1] = <<"F">> /\ Codes[2] = <<"B">> /\ Codes[3] = <<"L">> /\ Codes[4] = <<"R">>
  /\ Codes[5] = <<"L", "F">> /\ Codes[6] = <<"R", "F">>
  /\ Codes[7] = <<"L", "B">> /\ Codes[8] = <<"R", "B">>
  BY DEF Codes

LEMMA SpellingIs ==
  /\ Spelling["S"] = <<"S">> /\ Spelling["F"] = <<"F">> /\ Spelling["B"] = <<"B">>
  /\ Spelling["L"] = <<"L">> /\ Spelling["R"] = <<"R">>
  /\ Spelling["LF"] = <<"L", "F">> /\ Spelling["RF"] = <<"R", "F">>
  /\ Spelling["LB"] = <<"L", "B">> /\ Spelling["RB"] = <<"R", "B">>
  BY DEF Spelling

(* No two of them are spelt the same.                                      *)
LEMMA SpeltApart ==
  /\ \A c \in Known : Spelling[c] = <<"S">> => c = "S"
  /\ \A i \in 1..8 : Codes[i] # <<"S">>
  /\ \A i \in 1..8 : \A c \in Known : Codes[i] = Spelling[c] => CodeFor[c] = i
<1>1. /\ <<"S">>[1] = "S" /\ Len(<<"S">>) = 1
      /\ <<"F">>[1] = "F" /\ Len(<<"F">>) = 1
      /\ <<"B">>[1] = "B" /\ Len(<<"B">>) = 1
      /\ <<"L">>[1] = "L" /\ Len(<<"L">>) = 1
      /\ <<"R">>[1] = "R" /\ Len(<<"R">>) = 1
  OBVIOUS
<1>2. /\ <<"L", "F">>[1] = "L" /\ <<"L", "F">>[2] = "F" /\ Len(<<"L", "F">>) = 2
      /\ <<"R", "F">>[1] = "R" /\ <<"R", "F">>[2] = "F" /\ Len(<<"R", "F">>) = 2
      /\ <<"L", "B">>[1] = "L" /\ <<"L", "B">>[2] = "B" /\ Len(<<"L", "B">>) = 2
      /\ <<"R", "B">>[1] = "R" /\ <<"R", "B">>[2] = "B" /\ Len(<<"R", "B">>) = 2
  OBVIOUS
<1>3. \A c \in Known : Spelling[c] = <<"S">> => c = "S"
  BY <1>1, <1>2, SpellingIs, KnownIs
<1>4. \A i \in 1..8 : Codes[i] # <<"S">>
  BY <1>1, <1>2, CodesAre
<1>5. ASSUME NEW i \in 1..8, NEW c \in Known, Codes[i] = Spelling[c] PROVE CodeFor[c] = i
  <2>1. i \in {1, 2, 3, 4} => Len(Codes[i]) = 1
    BY <1>1, CodesAre
  <2>2. i \in {5, 6, 7, 8} => Len(Codes[i]) = 2
    BY <1>2, CodesAre
  <2>3. c \in {"S", "F", "B", "L", "R"} => Len(Spelling[c]) = 1
    BY <1>1, SpellingIs
  <2>4. c \in {"LF", "RF", "LB", "RB"} => Len(Spelling[c]) = 2
    BY <1>2, SpellingIs
  <2>5. CASE i \in {1, 2, 3, 4} /\ c \in {"S", "F", "B", "L", "R"}
    BY <1>1, <1>5, <2>5, SpellingIs, CodesAre DEF CodeFor
  <2>6. CASE i \in {5, 6, 7, 8} /\ c \in {"LF", "RF", "LB", "RB"}
    BY <1>2, <1>5, <2>6, SpellingIs, CodesAre DEF CodeFor
  <2>7. i \in {1, 2, 3, 4} \/ i \in {5, 6, 7, 8}
    OBVIOUS
  <2> QED BY <1>5, <2>1, <2>2, <2>3, <2>4, <2>5, <2>6, <2>7, KnownIs
<1> QED BY <1>3, <1>4, <1>5

LEMMA EveryCodeIsSpelt ==
  /\ \A i \in 1..8 : \E c \in Known : Codes[i] = Spelling[c]
  /\ \A c \in Known : c = "S" \/ \E i \in 1..8 : Codes[i] = Spelling[c]
<1>1. \A i \in 1..8 : i \in {1, 2, 3, 4, 5, 6, 7, 8}
  OBVIOUS
<1> QED BY <1>1, SpellingIs, CodesAre, KnownIs

(* What a text means to a 4wd robot, whatever it was told before.          *)
LEMMA CodeOfKnown ==
  ASSUME NEW c \in Known PROVE CodeOf(Spelling[c]) = CodeFor[c]
<1>1. CASE c = "S"
  BY <1>1, SpellingIs DEF CodeOf, CodeFor
<1>2. CASE c # "S"
  <2>1. \E i \in DOMAIN Codes : Codes[i] = Spelling[c]
    BY <1>2, EveryCodeIsSpelt, CodesAre
  <2>2. Spelling[c] # <<"S">>
    BY <1>2, SpeltApart
  <2>3. PICK i \in DOMAIN Codes : i = CHOOSE k \in DOMAIN Codes : Codes[k] = Spelling[c]
    BY <2>1
  <2>4. Codes[i] = Spelling[c]
    BY <2>1, <2>3
  <2>5. CodeOf(Spelling[c]) = i
    BY <2>1, <2>2, <2>3 DEF CodeOf
  <2> QED BY <2>4, <2>5, CodesAre, SpeltApart
<1> QED BY <1>1, <1>2

LEMMA CodeOfUnknown ==
  ASSUME NEW text, \A c \in Known : Spelling[c] # text PROVE CodeOf(text) = cmdCode
<1>1. text # <<"S">>
  BY KnownIs, SpellingIs
<1>2. ~\E i \in DOMAIN Codes : Codes[i] = text
  BY CodesAre, EveryCodeIsSpelt
<1> QED BY <1>1, <1>2 DEF CodeOf

-----------------------------------------------------------------------------
(* The socket.                                                             *)
LEMMA HeadOfBox ==
  ASSUME Socket, box # <<>>
  PROVE  /\ Head(box) \in Command /\ Tail(box) \in Seq(Command)
         /\ Len(Tail(box)) <= Capacity
         /\ Chars[Head(box)] \in Seq(STRING) /\ Len(Chars[Head(box)]) \in Nat
         /\ Len(Chars[Head(box)]) < 255
<1>1. box \in Seq(Command) /\ Len(box) <= Capacity /\ Len(box) >= 1
  BY DEF Socket
<1>2. Head(box) \in Command /\ Tail(box) \in Seq(Command) /\ Len(Tail(box)) = Len(box) - 1
  BY <1>1
<1>3. Len(Tail(box)) <= Capacity
  BY <1>1, <1>2, ScoutAssumption
<1>4. Chars[Head(box)] \in Seq(STRING) /\ Len(Chars[Head(box)]) < 255
  BY <1>2, ScoutAssumption
<1>5. Len(Chars[Head(box)]) \in Nat
  BY <1>4
<1> QED BY <1>2, <1>3, <1>4, <1>5

LEMMA ParseKeepsSocket == ASSUME Socket, ParsePacket PROVE Socket'
<1>1. /\ open' = open /\ taken' = (box' # <<>>) /\ pc' \in {"read", "cruise"}
      /\ pc' = "read" => got'.n > 0
  BY DEF ParsePacket, ParseBy, Udp!Parse
<1>2. CASE box # <<>> /\ ~taken
  <2>1. box' = box /\ offset' = offset /\ offset = 0
    BY <1>2 DEF ParsePacket, ParseBy, Udp!Parse, Socket
  <2> QED BY <1>1, <1>2, <2>1, HeadOfBox DEF Socket
<1>3. CASE ~(box # <<>> /\ ~taken)
  <2>1. offset' = 0 /\ box' = IF box = <<>> THEN <<>> ELSE Tail(box)
    BY <1>3 DEF ParsePacket, ParseBy, Udp!Parse
  <2>2. box' \in Seq(Command) /\ Len(box') <= Capacity
    BY <2>1, HeadOfBox, ScoutAssumption DEF Socket
  <2>3. box' # <<>> => Len(Chars[Head(box')]) \in Nat
    BY <2>2, ScoutAssumption
  <2>4. box' = <<>> => got'.n = 0
    BY DEF ParsePacket, ParseBy, Udp!Parse, Udp!left
  <2>5. pc' = "read" => box' # <<>>
    BY <1>1, <2>4
  <2>6. taken' \in BOOLEAN /\ (box' = <<>> \/ ~taken' => offset' = 0) /\ (pc' = "read" => taken')
    BY <1>1, <2>1, <2>5
  <2>7. open' \in BOOLEAN
    BY <1>1 DEF Socket
  <2>8. box' # <<>> => offset' <= Len(Chars[Head(box')])
    BY <2>1, <2>3
  <2> QED BY <2>1, <2>2, <2>5, <2>6, <2>7, <2>8 DEF Socket
<1> QED BY <1>2, <1>3

(* The text that read() delivers is a whole datagram.                      *)
LEMMA ReadIsWhole ==
  ASSUME Socket, Receive
  PROVE  /\ Socket'
         /\ got'.n > 0 => \E c \in Command : /\ got'.bytes = Chars[c]
                                             /\ Chars[c] \in Seq(STRING)
                                             /\ Chars[c] # <<>>
<1>1. offset = 0 /\ taken /\ box # <<>>
  BY DEF Socket, Receive, ReceiveBy
<1> DEFINE text == Chars[Head(box)]
<1>2. Head(box) \in Command /\ text \in Seq(STRING) /\ Len(text) \in Nat /\ Len(text) < 255
  BY <1>1, HeadOfBox
<1>3. Udp!left = Len(text)
  <2>1. Len(text) - 0 = Len(text)
    BY <1>2
  <2> QED BY <1>1, <2>1 DEF Udp!left
<1>4. /\ offset' = Len(text) /\ open' = open /\ box' = box /\ taken' = taken
      /\ got' = [n |-> Len(text),
                 bytes |-> IF Len(text) = 0 THEN <<>> ELSE SubSeq(text, 1, Len(text))]
  <2>1. ~(255 < Len(text)) /\ offset + Len(text) = Len(text) /\ offset + 1 = 1
    <3> HIDE DEF text
    <3> QED BY <1>1, <1>2
  <2>2. Udp!Read(255)
    BY DEF Receive, ReceiveBy
  <2> HIDE DEF text
  <2>3. Head(box) = Head(box)
    OBVIOUS
  <2> QED BY <1>3, <2>1, <2>2 DEF Udp!Read, text
<1>5. SubSeq(text, 1, Len(text)) = text
  BY <1>2
<1>6. got'.n > 0 => got'.bytes = text /\ text # <<>>
  <2> HIDE DEF text
  <2>1. text = <<>> => Len(text) = 0
    OBVIOUS
  <2> QED BY <1>2, <1>4, <1>5, <2>1
<1>7. Socket'
  BY <1>1, <1>2, <1>4 DEF Socket, Receive, ReceiveBy
<1> QED BY <1>2, <1>6, <1>7

LEMMA SocketKeeps == ASSUME Socket, [Next]_vars PROVE Socket'
<1>1. CASE Setup
  <2>1. /\ open' = TRUE /\ box' = <<>> /\ taken' = FALSE /\ offset' = 0 /\ pc' = "parse"
    BY <1>1 DEF Setup, SetupBy, Udp!Open
  <2>2. box' \in Seq(Command) /\ Len(box') = 0 /\ 0 <= Capacity
    BY <2>1, ScoutAssumption
  <2> QED BY <2>1, <2>2 DEF Socket
<1>2. ASSUME NEW c \in Command, Arrive(c) PROVE Socket'
  <2>1. /\ box' = Append(box, c) /\ box \in Seq(Command) /\ Len(box) < Capacity
        /\ open' = open /\ taken' = taken /\ offset' = offset /\ pc' = pc /\ pc = "end"
    BY <1>2 DEF Arrive, ArriveBy, Udp!Arrive, Socket
  <2>2. box' \in Seq(Command) /\ Len(box') = Len(box) + 1
    BY <2>1
  <2>3. Len(box') <= Capacity
    BY <2>1, <2>2, ScoutAssumption
  <2>4. CASE box = <<>>
    <3>1. Head(box') \in Command
      BY <2>2
    <3>2. Len(Chars[Head(box')]) \in Nat
      BY <3>1, ScoutAssumption
    <3>3. offset' = 0
      BY <2>1, <2>4 DEF Socket
    <3> QED BY <2>1, <2>2, <2>3, <2>4, <3>2 DEF Socket
  <2>5. CASE box # <<>>
    <3>1. Head(box') = Head(box)
      BY <2>1, <2>5
    <3> QED BY <2>1, <2>2, <2>3, <2>5, <3>1 DEF Socket
  <2> QED BY <2>4, <2>5
<1>3. CASE Write \/ Decide \/ Acted \/ Again \/ UNCHANGED vars
  BY <1>3 DEF Write, Decide, Acted, Again, vars, socket, Socket
<1> QED BY <1>1, <1>2, <1>3, ParseKeepsSocket, ReadIsWhole DEF Next, Loop

-----------------------------------------------------------------------------
(* The memory of the last command.                                         *)
(* A new text is remembered with the command that it means, and a text     *)
(* that is no command leaves the old one.                                  *)
LEMMA ReceiveRemembers ==
  ASSUME Remembers, Socket, Text, Receive PROVE Text' /\ Remembers'
<1>1. pc = "read" /\ pc' = "cruise" /\ sketch' = sketch /\ cmdCode' = cmdCode
  BY DEF Receive, ReceiveBy
<1>2. CASE ~(got'.n > 0)
  <2>1. incomingPacket' = incomingPacket /\ told' = told
    BY <1>2 DEF Receive, ReceiveBy
  <2>2. CodeOf(incomingPacket)' = CodeOf(incomingPacket)
    BY <1>1, <2>1 DEF CodeOf
  <2> QED BY <1>1, <2>1, <2>2 DEF Text, Remembers
<1>3. CASE got'.n > 0
  <2>1. PICK c \in Command : /\ got'.bytes = Chars[c]
                             /\ Chars[c] \in Seq(STRING) /\ Chars[c] # <<>>
    BY <1>3, ReadIsWhole
  <2> DEFINE text == Chars[c]
  <2>2. incomingPacket' = text /\ told' = Meant(text) /\ text # <<>>
    BY <1>3, <2>1 DEF Receive, ReceiveBy
  <2>3. CodeOf(incomingPacket)' = CodeOf(text)
    BY <1>1, <2>2 DEF CodeOf
  <2>4. CASE sketch = "4wd" /\ \E k \in Known : Spelling[k] = text
    <3>1. PICK k \in Known : k = CHOOSE m \in Known : Spelling[m] = text
      BY <2>4
    <3>2. Spelling[k] = text
      BY <2>4, <3>1
    <3>3. told' = k
      BY <2>2, <2>4, <3>1 DEF Meant
    <3>4. CodeOf(text) = CodeFor[k]
      BY <3>2, CodeOfKnown
    <3> QED BY <1>1, <2>2, <2>3, <2>4, <3>3, <3>4 DEF Text, Remembers
  <2>5. CASE sketch = "4wd" /\ ~\E k \in Known : Spelling[k] = text
    <3>1. told' = told
      BY <2>2, <2>5 DEF Meant
    <3>2. CodeOf(text) = cmdCode
      BY <2>5, CodeOfUnknown
    <3>3. cmdCode = CodeFor[told]
      BY <1>1, <2>5 DEF Remembers
    <3> QED BY <1>1, <2>2, <2>3, <2>5, <3>1, <3>2, <3>3 DEF Text, Remembers
  <2>6. CASE sketch # "4wd"
    <3>1. sketch = "2wd"
      BY <2>6 DEF Remembers
    <3>2. told' = IF Head(text) \in {"F", "B", "L", "R"} THEN Head(text) ELSE "S"
      BY <2>2, <3>1 DEF Meant
    <3>3. told' \in Known
      BY <3>2, KnownIs
    <3> QED BY <1>1, <2>2, <3>1, <3>2, <3>3 DEF Text, Remembers
  <2> QED BY <2>4, <2>5, <2>6
<1> QED BY <1>2, <1>3

(* The switch gives the text the code that is remembered for it.  Without  *)
(* a text, and for one that the 2wd sketch does not know, it writes        *)
(* nothing, and the cruise() that came before is what was ordered.         *)
LEMMA DecideRemembers ==
  ASSUME Remembers, Decide
  PROVE  /\ Remembers'
         /\ Ordered' = Ordered
         /\ \/ writes' = Ordered
            \/ writes' = <<>> /\ Ordered = Wheels(0, 0, 0, 0)
<1>1. /\ pc = "cruise" /\ pc' = "act" /\ sketch' = sketch /\ told' = told
      /\ incomingPacket' = incomingPacket
  BY DEF Decide
<1>2. Ordered' = Ordered
  BY <1>1 DEF Ordered
<1>3. CASE incomingPacket = <<>>
  <2>1. cmdCode' = cmdCode /\ writes' = <<>> /\ told = "S"
    BY <1>1, <1>3 DEF Decide, Remembers
  <2> QED BY <1>1, <1>3, <1>2, <2>1, OrderedIs DEF Remembers
<1>4. CASE incomingPacket # <<>> /\ sketch = "4wd"
  <2>1. cmdCode' = CodeOf(incomingPacket) /\ writes' = Switch4(cmdCode')
    BY <1>4 DEF Decide
  <2>2. CodeOf(incomingPacket) = CodeFor[told]
    BY <1>4 DEF Remembers
  <2>3. writes' = Ordered
    BY <1>4, <2>1, <2>2 DEF Ordered
  <2>4. CodeOf(incomingPacket)' = CodeFor[told]
    <3>1. CASE incomingPacket = <<"S">> \/ \E i \in DOMAIN Codes : Codes[i] = incomingPacket
      <4>1. CodeOf(incomingPacket)' = CodeOf(incomingPacket)
        BY <1>1, <3>1 DEF CodeOf
      <4> QED BY <2>2, <4>1
    <3>2. CASE ~(incomingPacket = <<"S">> \/ \E i \in DOMAIN Codes : Codes[i] = incomingPacket)
      <4>1. CodeOf(incomingPacket)' = cmdCode'
        BY <1>1, <3>2 DEF CodeOf
      <4> QED BY <2>1, <2>2, <4>1
    <3> QED BY <3>1, <3>2
  <2> QED BY <1>1, <1>4, <1>2, <2>1, <2>2, <2>3, <2>4 DEF Remembers
<1>5. CASE incomingPacket # <<>> /\ sketch # "4wd"
  <2>1. sketch = "2wd"
    BY <1>5 DEF Remembers
  <2>2. told = IF Head(incomingPacket) \in {"F", "B", "L", "R"} THEN Head(incomingPacket) ELSE "S"
    BY <1>5, <2>1 DEF Remembers
  <2>3. writes' = Switch2(Head(incomingPacket))
    BY <1>5 DEF Decide
  <2>4. Remembers'
    BY <1>1, <1>5, <2>1, <2>2 DEF Remembers
  <2>5. CASE Head(incomingPacket) \in {"F", "B", "L", "R", "S"}
    BY <1>2, <2>1, <2>2, <2>3, <2>4, <2>5 DEF Ordered
  <2>6. CASE Head(incomingPacket) \notin {"F", "B", "L", "R", "S"}
    <3>1. writes' = <<>>
      BY <2>3, <2>6 DEF Switch2
    <3>2. told = "S"
      BY <2>2, <2>6
    <3> QED BY <1>2, <2>4, <3>1, <3>2, OrderedIs
  <2> QED BY <2>5, <2>6
<1> QED BY <1>3, <1>4, <1>5

(* cruise() has released every pin when the writes for the order begin.    *)
LEMMA DecideSettles ==
  ASSUME Inv, Remembers, Decide PROVE Settled(Ordered)'
<1>1. pc = "cruise" /\ writes = <<>> /\ pins' = pins
  BY DEF Decide
<1>2. \A pin \in Pin : pins'[pin] = 0
  BY <1>1 DEF Inv, Loose
<1>3. PICK a, b, c, d \in Duty : Ordered = Wheels(a, b, c, d)
  BY OrderedWheels
<1>4. Ordered' = Wheels(a, b, c, d)
  BY <1>3, DecideRemembers
<1> DEFINE w == Wheels(a, b, c, d)
<1>5. /\ Len(w) = 4 /\ w[1] = <<"M1_PWM", a>> /\ w[2] = <<"M1_DIR", b>>
      /\ w[3] = <<"M2_PWM", c>> /\ w[4] = <<"M2_DIR", d>>
  BY DEF Wheels
<1> HIDE DEF w
<1>6. CASE writes' = w
  <2>1. ASSUME NEW i \in 1..4, NEW k \in 1..4, w[k][1] = w[i][1] PROVE w[k][2] = w[i][2]
    BY <1>5, <2>1
  <2>2. Settled(w)'
    BY <1>5, <1>6, <2>1 DEF Settled
  <2> QED BY <1>4, <2>2 DEF Settled, w
<1>7. CASE writes' = <<>> /\ w = Wheels(0, 0, 0, 0)
  <2>1. a = 0 /\ b = 0 /\ c = 0 /\ d = 0
    <3>1. w[1] = <<"M1_PWM", 0>> /\ w[2] = <<"M1_DIR", 0>> /\ w[3] = <<"M2_PWM", 0>> /\ w[4] = <<"M2_DIR", 0>>
      BY <1>7 DEF Wheels
    <3> QED BY <1>5, <3>1
  <2>2. \A i \in 1..4 : w[i][1] \in Pin /\ w[i][2] = 0
    BY <1>5, <2>1 DEF Pin
  <2>3. Settled(w)'
    BY <1>2, <1>7, <2>2 DEF Settled
  <2> QED BY <1>4, <2>3 DEF Settled, w
<1> QED BY <1>3, <1>6, <1>7, DecideRemembers DEF w

(* A write is one that the order asks for.                                 *)
LEMMA WriteSettles ==
  ASSUME WriteTypes, Remembers, Settled(Ordered), Write PROVE Settled(Ordered)'
<1>1. writes \in Seq(Pin \X Duty) /\ writes # <<>> /\ pins \in [Pin -> Duty]
  BY DEF WriteTypes, Write
<1>2. /\ Len(writes) >= 1 /\ Head(writes) = writes[1] /\ writes[1] \in Pin \X Duty
      /\ Len(writes') = Len(writes) - 1
      /\ \A k \in 1..Len(writes') : writes'[k] = writes[k + 1]
  BY <1>1 DEF Write
<1>3. \A p \in Pin : pins'[p] = IF p = writes[1][1] THEN writes[1][2] ELSE pins[p]
  <2>1. pins' = [pins EXCEPT ![writes[1][1]] = writes[1][2]]
    BY <1>2 DEF Write
  <2> QED BY <1>1, <2>1
<1>4. Ordered' = Ordered
  BY DEF Write, Ordered
<1>5. PICK a, b, c, d \in Duty : Ordered = Wheels(a, b, c, d)
  BY OrderedWheels
<1> DEFINE w == Wheels(a, b, c, d)
<1>6. \A i \in 1..4 : w[i][1] \in Pin
  BY DEF Wheels, Pin
<1>7. Settled(w)
  BY <1>5
<1> HIDE DEF w
<1>8. ASSUME NEW i \in 1..4
      PROVE  /\ \A k \in 1..Len(writes') : writes'[k][1] = w[i][1] => writes'[k][2] = w[i][2]
             /\ \/ pins'[w[i][1]] = w[i][2]
                \/ \E k \in 1..Len(writes') : writes'[k][1] = w[i][1]
  <2>1. \A k \in 1..Len(writes') : k + 1 \in 1..Len(writes) /\ writes'[k] = writes[k + 1]
    BY <1>1, <1>2
  <2>2. \A k \in 1..Len(writes') : writes'[k][1] = w[i][1] => writes'[k][2] = w[i][2]
    BY <1>7, <2>1 DEF Settled
  <2>3. CASE writes[1][1] = w[i][1]
    <3>1. 1 \in 1..Len(writes)
      BY <1>1, <1>2
    <3>2. writes[1][2] = w[i][2]
      BY <1>7, <2>3, <3>1 DEF Settled
    <3> QED BY <1>3, <1>6, <2>2, <2>3, <3>2
  <2>4. CASE writes[1][1] # w[i][1] /\ pins[w[i][1]] = w[i][2]
    BY <1>3, <1>6, <2>2, <2>4
  <2>5. CASE writes[1][1] # w[i][1] /\ \E k \in 1..Len(writes) : writes[k][1] = w[i][1]
    <3>1. PICK k \in 1..Len(writes) : writes[k][1] = w[i][1]
      BY <2>5
    <3>2. k # 1
      BY <2>5, <3>1
    <3>3. k - 1 \in 1..Len(writes') /\ writes'[k - 1] = writes[k]
      BY <1>1, <1>2, <3>2
    <3> QED BY <2>2, <3>1, <3>3
  <2> QED BY <1>7, <2>3, <2>4, <2>5 DEF Settled
<1>9. Settled(w)'
  BY <1>8 DEF Settled
<1> QED BY <1>4, <1>5, <1>9 DEF Settled, w

-----------------------------------------------------------------------------
LEMMA InitObey == Init => ObeyInv
<1> SUFFICES ASSUME Init PROVE ObeyInv
  OBVIOUS
<1>1. Socket
  <2>1. open = FALSE /\ box = <<>> /\ taken = FALSE /\ offset = 0 /\ pc = "setup"
    BY DEF Init, Idle, Udp!Init
  <2>2. box \in Seq(Command) /\ Len(box) = 0 /\ 0 <= Capacity
    BY <2>1, ScoutAssumption
  <2> QED BY <2>1, <2>2 DEF Socket
<1>2. Remembers
  BY KnownIs DEF Init, Idle, Remembers, CodeFor
<1> QED BY <1>1, <1>2, InitInv DEF Init, Idle, ObeyInv, Text, Settles, Few

LEMMA FewKeeps == ASSUME Inv, Remembers, Few, [Next]_vars PROVE Few'
<1>1. writes \in Seq(Pin \X Duty) /\ Len(<<>>) = 0
  BY DEF Inv, WriteTypes
<1>2. Len(cruise) = 4
  BY DEF cruise, Wheels
<1>3. CASE ParsePacket \/ Receive
  <2>1. pc' \in {"read", "cruise"} /\ (writes' = writes \/ writes' = cruise)
    BY <1>3 DEF ParsePacket, ParseBy, Receive, ReceiveBy
  <2>2. CASE writes' = writes
    BY <2>1, <2>2 DEF Few
  <2>3. CASE writes' = cruise
    <3>1. Len(writes') = 4
      BY <1>2, <2>3, Zenon
    <3> QED BY <2>1, <3>1 DEF Few
  <2> QED BY <2>1, <2>2, <2>3
<1>4. CASE Write
  <2>1. Len(writes') = Len(writes) - 1 /\ Len(writes) \in Nat
    BY <1>1, <1>4 DEF Write
  <2> QED BY <1>4, <2>1 DEF Write, Few
<1>5. CASE Decide
  <2>1. Len(writes') <= 4
    <3>1. PICK a, b, c, d \in Duty : Ordered = Wheels(a, b, c, d)
      BY OrderedWheels
    <3>2. Len(Wheels(a, b, c, d)) = 4
      BY DEF Wheels
    <3>3. CASE writes' = Ordered
      <4>1. Len(writes') = 4
        BY <3>1, <3>2, <3>3, Zenon
      <4> QED BY <4>1
    <3>4. CASE writes' = <<>>
      BY <1>1, <3>4
    <3> QED BY <1>5, <3>3, <3>4, DecideRemembers
  <2> QED BY <1>5, <2>1 DEF Decide, Few
<1>6. CASE Setup \/ Acted \/ Again \/ (\E c \in Command : Arrive(c)) \/ UNCHANGED vars
  BY <1>6 DEF Setup, SetupBy, Acted, Again, Arrive, ArriveBy, vars, Few
<1> QED BY <1>3, <1>4, <1>5, <1>6 DEF Next, Loop

LEMMA NextObey == ObeyInv /\ [Next]_vars => ObeyInv'
<1> SUFFICES ASSUME ObeyInv, [Next]_vars PROVE ObeyInv'
  OBVIOUS
<1>1. Inv' /\ Socket' /\ Few'
  BY NextInv, SocketKeeps, FewKeeps DEF ObeyInv
<1>2. CASE Receive
  <2>1. Text' /\ Remembers'
    BY <1>2, ReceiveRemembers DEF ObeyInv
  <2>2. Settles'
    BY <1>2 DEF Receive, ReceiveBy, Settles
  <2> QED BY <1>1, <2>1, <2>2 DEF ObeyInv
<1>3. CASE Decide
  <2>1. Remembers' /\ Settled(Ordered)'
    BY <1>3, DecideRemembers, DecideSettles DEF ObeyInv
  <2>2. Text'
    BY <1>3 DEF Decide, ObeyInv, Text
  <2> QED BY <1>1, <2>1, <2>2 DEF ObeyInv, Settles
<1>4. CASE ~Receive /\ ~Decide
  <2>1. /\ sketch' = sketch /\ incomingPacket' = incomingPacket
        /\ cmdCode' = cmdCode /\ told' = told
    BY <1>4 DEF Next, Loop, Setup, SetupBy, ParsePacket, ParseBy, Write, Acted, Again, Arrive, ArriveBy, vars
  <2>2. pc' = "cruise" => pc = "cruise" \/ pc = "parse"
    BY <1>4 DEF Next, Loop, Setup, SetupBy, ParsePacket, ParseBy, Write, Acted, Again, Arrive, ArriveBy, vars
  <2>3. pc = "cruise" => pc' = "cruise"
    BY <1>4 DEF Next, Loop, Setup, SetupBy, ParsePacket, ParseBy, Write, Acted, Again, Arrive, ArriveBy, vars
  <2>4. Text'
    BY <2>1 DEF ObeyInv, Text
  <2>5. CodeOf(incomingPacket)' = CodeOf(incomingPacket)
    BY <2>1 DEF CodeOf
  <2>6. Remembers'
    BY <2>1, <2>3, <2>5 DEF ObeyInv, Remembers
  <2>7. Ordered' = Ordered
    BY <2>1 DEF Ordered
  <2>8. CASE Write
    <3>1. pc' = pc
      BY <2>8 DEF Write
    <3>2. pc \in {"act", "end"} => Settled(Ordered)'
      BY <2>8, WriteSettles DEF ObeyInv, Inv, Settles
    <3> QED BY <1>1, <2>4, <2>6, <3>1, <3>2 DEF ObeyInv, Settles
  <2>9. CASE ~Write
    <3>1. pc' \in {"act", "end"} => pins' = pins /\ writes' = writes /\ pc \in {"act", "end"}
      BY <1>4, <2>9 DEF Next, Loop, Setup, SetupBy, ParsePacket, ParseBy, Acted, Again, Arrive, ArriveBy, vars
    <3>2. Settles'
      BY <2>7, <3>1 DEF ObeyInv, Settles, Settled
    <3> QED BY <1>1, <2>4, <2>6, <3>2 DEF ObeyInv
  <2> QED BY <2>8, <2>9
<1> QED BY <1>2, <1>3, <1>4

(* The duties that a list of writes leaves behind when all of it is done.  *)
LEMMA SettledPins ==
  ASSUME NEW a \in Duty, NEW b \in Duty, NEW c \in Duty, NEW d \in Duty,
         writes = <<>>, Settled(Wheels(a, b, c, d))
  PROVE  /\ pins["M1_PWM"] = a /\ pins["M1_DIR"] = b
         /\ pins["M2_PWM"] = c /\ pins["M2_DIR"] = d
<1> DEFINE w == Wheels(a, b, c, d)
<1>1. /\ w[1] = <<"M1_PWM", a>> /\ w[2] = <<"M1_DIR", b>>
      /\ w[3] = <<"M2_PWM", c>> /\ w[4] = <<"M2_DIR", d>>
  BY DEF Wheels
<1> HIDE DEF w
<1>2. Settled(w) /\ Len(writes) = 0
  BY DEF w
<1>3. \A i \in 1..4 : pins[w[i][1]] = w[i][2]
  BY <1>2 DEF Settled
<1> QED BY <1>1, <1>3

LEMMA ObeyInvObeys == ObeyInv => Obeys
<1> SUFFICES ASSUME ObeyInv PROVE Obeys
  OBVIOUS
<1> USE DEF ObeyInv
<1>1. TypeOK
  <2>1. Len(Codes) = 8
    BY DEF Codes
  <2> QED BY <2>1 DEF TypeOK, Socket, Text, Few, Inv, WriteTypes, Remembers, Duty
<1>2. ASSUME pc = "end" PROVE Turns(told)
  <2>1. writes = <<>> /\ Settled(Ordered)
    BY <1>2 DEF Settles, Inv, WriteTypes
  <2>2. told \in {"S", "F", "B", "L", "R", "LF", "RF", "LB", "RB"}
    BY KnownIs DEF Remembers
  <2>3. ASSUME told = "S" PROVE Turns(told)
    BY <2>1, <2>3, OrderedIs, Duties, SettledPins DEF Turns
  <2>4. ASSUME told = "F" PROVE Turns(told)
    <3>1. PICK v \in {250, 255} : Ordered = Wheels(v, 0, v, 0)
      BY <2>4, OrderedIs
    <3> QED BY <2>1, <2>4, <3>1, Duties, SettledPins DEF Turns
  <2>5. ASSUME told = "B" PROVE Turns(told)
    <3>1. PICK v \in {224, 250} : Ordered = Wheels(0, v, 0, v)
      BY <2>5, OrderedIs
    <3> QED BY <2>1, <2>5, <3>1, Duties, SettledPins DEF Turns
  <2>6. ASSUME told = "L" PROVE Turns(told)
    BY <2>1, <2>6, OrderedIs, Duties, SettledPins DEF Turns
  <2>7. ASSUME told = "R" PROVE Turns(told)
    BY <2>1, <2>7, OrderedIs, Duties, SettledPins DEF Turns
  <2>8. ASSUME told = "LF" PROVE Turns(told)
    BY <2>1, <2>8, OrderedIs, Duties, SettledPins DEF Turns
  <2>9. ASSUME told = "RF" PROVE Turns(told)
    BY <2>1, <2>9, OrderedIs, Duties, SettledPins DEF Turns
  <2>10. ASSUME told = "LB" PROVE Turns(told)
    BY <2>1, <2>10, OrderedIs, Duties, SettledPins DEF Turns
  <2>11. ASSUME told = "RB" PROVE Turns(told)
    BY <2>1, <2>11, OrderedIs, Duties, SettledPins DEF Turns
  <2> QED BY <2>2, <2>3, <2>4, <2>5, <2>6, <2>7, <2>8, <2>9, <2>10, <2>11
<1> QED BY <1>1, <1>2 DEF Obeys, EndsAsTold

(* When loop() returns the wheels turn as the last command said that the   *)
(* robot accepted, with the text and the duties in their bounds: for any   *)
(* set of datagrams and any text of each that fits incomingPacket.         *)
THEOREM SpecObeys == Spec => []Obeys
  BY InitObey, NextObey, ObeyInvObeys, PTL DEF Spec

-----------------------------------------------------------------------------
(* 3. The robot: the sketch over the chain of pbufs.                       *)

(* The chain is that of WiFiUDP alone, whatever the sketch does between    *)
(* its calls, and the sketch sees the mailbox that it implements.          *)
RobotInv == Mirrors /\ UdpShape

LEMMA Constants ==
  /\ Packet = Command /\ Chars = [p \in Packet |-> FlattenSeq(Payload[p])]
  /\ Capacity = rxBufMaxDepth + 1 /\ 255 \in Reads /\ 255 \in Nat
  BY RobotAssumption

LEMMA MirrorsNext == Mirrored => Mirrors'
  BY DEF Mirrors, Mirrored

(* What is left to read of the current datagram.                           *)
LEMMA LeftIs == /\ Mirrors => Udp!left = Promised!left
                /\ Mirrors' => Udp!left' = Promised!left'
<1>1. Mirrors => Udp!left = Promised!left
  BY Constants DEF Mirrors, Udp!left, Promised!left
<1>2. Mirrors' => Udp!left' = Promised!left'
  BY Constants DEF Mirrors, Udp!left, Promised!left
<1> QED BY <1>1, <1>2

(* A step of the mailbox that WiFiUDP promises is one of the mailbox that  *)
(* the sketch is written for.                                              *)
LEMMA OpenIsOpen ==
  ASSUME Mirrors, Mirrors', Promised!Open(TRUE) PROVE Udp!Open(TRUE)
  BY DEF Mirrors, Promised!Open, Udp!Open

LEMMA ArriveIsArrive ==
  ASSUME Mirrors, Mirrors', NEW c \in Command, Promised!Arrive(c) PROVE Udp!Arrive(c)
  BY Constants DEF Mirrors, Promised!Arrive, Udp!Arrive

LEMMA ParseIsParse ==
  ASSUME Mirrors, Mirrors', Promised!Parse PROVE Udp!Parse
<1>1. Udp!left' = Promised!left'
  BY LeftIs
<1> QED BY <1>1 DEF Mirrors, Promised!Parse, Udp!Parse

LEMMA ReadsAsRead ==
  ASSUME Mirrors, Mirrors', Promised!Read(255) PROVE Udp!Read(255)
<1>1. Udp!left = Promised!left
  BY LeftIs
<1> QED BY <1>1, Constants DEF Mirrors, Promised!Read, Udp!Read

(* The calls that the sketch and lwIP make.                                *)
LEMMA RenewStarts ==
  ASSUME RobotInv, Renew(TRUE), Mirrored PROVE RobotInv' /\ Udp!Open(TRUE)
<1>1. PICK s, q, b : Inner(s, q, b)
  BY DEF RobotInv, UdpShape
<1>2. Promised!Open(TRUE)
  BY <1>1, RenewIsOpen
<1>3. UdpShape'
  BY <1>1, RenewStep DEF UdpShape
<1> QED BY <1>2, <1>3, MirrorsNext, OpenIsOpen DEF RobotInv

LEMMA RecvArrives ==
  ASSUME RobotInv, NEW c \in Command, Recv(c), Mirrored PROVE RobotInv' /\ Udp!Arrive(c)
<1>1. PICK s, q, b : Inner(s, q, b)
  BY DEF RobotInv, UdpShape
<1>2. c \in Packet
  BY Constants
<1>3. Promised!Arrive(c)
  BY <1>1, <1>2, RecvIsArrive
<1>4. UdpShape'
  BY <1>1, <1>2, RecvStep DEF UdpShape
<1> QED BY <1>3, <1>4, MirrorsNext, ArriveIsArrive DEF RobotInv

LEMMA ParsePacketParses ==
  ASSUME RobotInv, ParseNone \/ ParseFirst \/ ParseNext, Mirrored PROVE RobotInv' /\ Udp!Parse
<1>1. PICK s, q, b : Inner(s, q, b)
  BY DEF RobotInv, UdpShape
<1>2. Promised!Parse
  BY <1>1, ParseNoneIsParse, ParseFirstIsParse, ParseNextIsParse
<1>3. UdpShape'
  <2>1. CASE ParseNone
    BY <1>1, <2>1, ParseNoneStep DEF UdpShape
  <2>2. CASE ParseFirst
    BY <1>1, <2>2, ParseFirstStep DEF UdpShape
  <2>3. CASE ParseNext
    BY <1>1, <2>3, ParseLastStep, ParseMoreStep DEF UdpShape
  <2> QED BY <2>1, <2>2, <2>3
<1> QED BY <1>2, <1>3, MirrorsNext, ParseIsParse DEF RobotInv

LEMMA ReadReads ==
  ASSUME RobotInv, Read(255), Mirrored PROVE RobotInv' /\ Udp!Read(255)
<1>1. PICK s, q, b : Inner(s, q, b)
  BY DEF RobotInv, UdpShape
<1>2. 255 \in Nat
  BY Constants
<1>3. Promised!Read(255)
  BY <1>1, <1>2, ReadIsRead
<1>4. UdpShape'
  BY <1>1, <1>2, ReadStep DEF UdpShape
<1> QED BY <1>3, <1>4, MirrorsNext, ReadsAsRead DEF RobotInv

(* Where no call is made, neither side of the socket moves.                *)
LEMMA SocketRests ==
  ASSUME RobotInv, UNCHANGED socket, UNCHANGED udpVars PROVE RobotInv'
<1>1. PICK s, q, b : Inner(s, q, b)
  BY DEF RobotInv, UdpShape
<1>2. Inner(s, q, b)' /\ Box' = Box
  BY <1>1, StutterIs, InnerIs, BoxPrime
<1> QED BY <1>2 DEF RobotInv, Mirrors, UdpShape, socket, udpVars

LEMMA RobotStart == RobotInit => RobotInv /\ Init
<1> SUFFICES ASSUME RobotInit PROVE RobotInv /\ Init
  OBVIOUS
<1>1. UdpShape /\ Promised!Init
  BY UdpStart DEF RobotInit
<1>2. Udp!Init
  BY <1>1 DEF RobotInit, Mirrors, Promised!Init, Udp!Init, Promised!Nothing, Udp!Nothing
<1> QED BY <1>1, <1>2 DEF RobotInit, RobotInv, Init

LEMMA RobotStep == RobotInv /\ [RobotNext]_robotVars => RobotInv' /\ [Next]_vars
<1> SUFFICES ASSUME RobotInv, [RobotNext]_robotVars PROVE RobotInv' /\ [Next]_vars
  OBVIOUS
<1>1. CASE RobotSetup
  <2>1. RobotInv' /\ Udp!Open(TRUE)
    BY <1>1, RenewStarts DEF RobotSetup, SetupBy
  <2>2. Setup
    BY <1>1, <2>1 DEF RobotSetup, SetupBy, Setup
  <2> QED BY <2>1, <2>2 DEF Next, Loop
<1>2. ASSUME NEW c \in Command, RobotArrive(c) PROVE RobotInv' /\ [Next]_vars
  <2>1. RobotInv' /\ Udp!Arrive(c)
    BY <1>2, RecvArrives DEF RobotArrive, ArriveBy
  <2>2. Arrive(c)
    BY <1>2, <2>1 DEF RobotArrive, ArriveBy, Arrive
  <2> QED BY <2>1, <2>2 DEF Next
<1>3. CASE RobotParse
  <2>1. RobotInv' /\ Udp!Parse
    BY <1>3, ParsePacketParses DEF RobotParse, ParseBy
  <2>2. ParsePacket
    BY <1>3, <2>1 DEF RobotParse, ParseBy, ParsePacket
  <2> QED BY <2>1, <2>2 DEF Next, Loop
<1>4. CASE RobotReceive
  <2>1. RobotInv' /\ Udp!Read(255)
    BY <1>4, ReadReads DEF RobotReceive, ReceiveBy
  <2>2. Receive
    BY <1>4, <2>1 DEF RobotReceive, ReceiveBy, Receive
  <2> QED BY <2>1, <2>2 DEF Next, Loop
<1>5. CASE RobotMoves
  <2>1. UNCHANGED socket /\ UNCHANGED udpVars
    BY <1>5 DEF RobotMoves, Write, Decide, Acted, Again
  <2>2. Next
    BY <1>5 DEF RobotMoves, Next, Loop
  <2> QED BY <2>1, <2>2, SocketRests
<1>6. CASE UNCHANGED robotVars
  <2>1. UNCHANGED socket /\ UNCHANGED udpVars /\ UNCHANGED vars
    BY <1>6 DEF robotVars, vars, socket
  <2> QED BY <2>1, SocketRests
<1> QED BY <1>1, <1>2, <1>3, <1>4, <1>5, <1>6 DEF RobotNext, RobotLoop

(* The robot over WiFiUDP's chain of pbufs behaves as the sketch over the  *)
(* mailbox: for any commands, any cut of each into pbufs, and any          *)
(* depth of the receive buffer and size of the heap.                       *)
THEOREM RobotImplementsScout == RobotSpec => ImplementsScout
  BY RobotStart, RobotStep, PTL DEF RobotSpec, ImplementsScout

(* So no motor of the robot is ever driven from both of its pins, through  *)
(* loop(), WiFiUDP and UdpContext together.                                *)
THEOREM RobotNeverBrakes == RobotSpec => []NeverBrakes
<1>1. Inv => NeverBrakes
  BY DEF Inv, OneSided, Drives, NeverBrakes
<1> QED BY <1>1, InitInv, NextInv, RobotImplementsScout, PTL DEF ImplementsScout

(* When its loop() returns, the wheels turn as the last accepted datagram  *)
(* said, read out of its pbufs by UdpContext.                              *)
THEOREM RobotObeys == RobotSpec => []Obeys
  BY InitObey, NextObey, ObeyInvObeys, RobotImplementsScout, PTL DEF ImplementsScout

(* Under the sketch's calls too the pbufs in use are those of the chain,   *)
(* and remoteIP() names the sender of the datagram that is read.           *)
THEOREM RobotKeepsPbufs == RobotSpec => [](UdpInv /\ RemoteIsSender)
<1>1. RobotInv => UdpInv /\ RemoteIsSender
  BY UdpInvHolds DEF RobotInv
<1> QED BY <1>1, RobotStart, RobotStep, PTL DEF RobotSpec
=============================================================================
