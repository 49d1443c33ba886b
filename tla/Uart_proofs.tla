----------------------------- MODULE Uart_proofs -----------------------------
(***************************************************************************)
(* What Uart keeps for every FIFO, trigger level, set of ring sizes and    *)
(* number of bytes: what a sketch peeks at is what it will read, and the   *)
(* ring, the FIFO and the interrupt together are the pipe of SerialPipe.   *)
(***************************************************************************)
EXTENDS Uart, SequenceTheorems, WellFoundedInduction, TLAPS

(* What a ring holds: the bytes of the line, and what was left in it.      *)
Content == Byte \cup {MinusOne}

Ring(u) ==
  /\ u = [size |-> u.size, rpos |-> u.rpos, wpos |-> u.wpos, overrun |-> u.overrun, buffer |-> u.buffer]
  /\ u.size \in Sizes /\ u.rpos \in 0..(u.size - 1) /\ u.wpos \in 0..(u.size - 1)
  /\ u.overrun \in BOOLEAN /\ u.buffer \in [0..(u.size - 1) -> Content]

-----------------------------------------------------------------------------
(* What is left of a sequence behind its first k elements.                 *)
Rest(s, k) == SubSeq(s, k + 1, Len(s))

LEMMA RestIs ==
  ASSUME NEW S, NEW s \in Seq(S), NEW k \in Nat, k <= Len(s)
  PROVE  /\ Rest(s, k) \in Seq(S)
         /\ Len(Rest(s, k)) = Len(s) - k
         /\ \A i \in 1..(Len(s) - k) : Rest(s, k)[i] = s[k + i]
<1>1. Len(s) \in Nat /\ k + 1 \in Int /\ Len(s) - (k + 1) + 1 = Len(s) - k
  OBVIOUS
<1>2. \A i \in (k + 1)..Len(s) : s[i] \in S
  <2>1. \A i \in (k + 1)..Len(s) : i \in 1..Len(s)
    BY <1>1
  <2> QED BY <2>1, ElementOfSeq
<1>3. /\ Rest(s, k) \in Seq(S)
      /\ Len(Rest(s, k)) = IF k + 1 <= Len(s) THEN Len(s) - (k + 1) + 1 ELSE 0
      /\ \A i \in 1..(Len(s) - (k + 1) + 1) : Rest(s, k)[i] = s[k + 1 + i - 1]
  BY <1>1, <1>2, SubSeqProperties DEF Rest
<1>4. \A i \in 1..(Len(s) - k) : k + 1 + i - 1 = k + i
  BY <1>1
<1>5. Len(Rest(s, k)) = Len(s) - k
  <2>1. CASE k + 1 <= Len(s)
    BY <1>1, <1>3, <2>1
  <2>2. CASE ~(k + 1 <= Len(s))
    <3>1. \A len \in Nat : k <= len /\ ~(k + 1 <= len) => len - k = 0
      OBVIOUS
    <3>2. Len(s) - k = 0
      BY <1>1, <2>2, <3>1
    <3> QED BY <1>3, <2>2, <3>2
  <2> QED BY <2>1, <2>2
<1> QED BY <1>1, <1>3, <1>4, <1>5

(* Two sequences are one when their elements are.                          *)
LEMMA SameSeq ==
  ASSUME NEW S, NEW s \in Seq(S), NEW t \in Seq(S), Len(s) = Len(t),
         \A i \in 1..Len(s) : s[i] = t[i]
  PROVE  s = t
  BY SeqEqual

(* What is left of two sequences read one after the other.                 *)
LEMMA RestOfConcat ==
  ASSUME NEW S, NEW s \in Seq(S), NEW t \in Seq(S), NEW k \in Nat
  PROVE  /\ k <= Len(s) => Rest(s \o t, k) = Rest(s, k) \o t
         /\ Len(s) <= k /\ k <= Len(s) + Len(t) => Rest(s \o t, k) = Rest(t, k - Len(s))
<1>1. /\ s \o t \in Seq(S) /\ Len(s \o t) = Len(s) + Len(t)
      /\ \A i \in 1..(Len(s) + Len(t)) : (s \o t)[i] = IF i <= Len(s) THEN s[i] ELSE t[i - Len(s)]
  BY ConcatProperties
<1>2. Len(s) \in Nat /\ Len(t) \in Nat
  OBVIOUS
<1> DEFINE u == s \o t
<1> HIDE DEF u
<1>3. ASSUME k <= Len(s) + Len(t)
      PROVE  /\ Rest(u, k) \in Seq(S) /\ Len(Rest(u, k)) = Len(s) + Len(t) - k
             /\ \A i \in 1..(Len(s) + Len(t) - k) : Rest(u, k)[i] = u[k + i]
  <2>1. u \in Seq(S) /\ Len(u) = Len(s) + Len(t)
    BY <1>1 DEF u
  <2>2. k <= Len(u)
    BY <1>3, <2>1
  <2>3. /\ Rest(u, k) \in Seq(S) /\ Len(Rest(u, k)) = Len(u) - k
        /\ \A i \in 1..(Len(u) - k) : Rest(u, k)[i] = u[k + i]
    BY <2>1, <2>2, RestIs
  <2> QED BY <2>1, <2>3
<1>4. ASSUME k <= Len(s) PROVE Rest(u, k) = Rest(s, k) \o t
  <2>1. /\ Rest(s, k) \in Seq(S) /\ Len(Rest(s, k)) = Len(s) - k
        /\ \A i \in 1..(Len(s) - k) : Rest(s, k)[i] = s[k + i]
    BY <1>4, RestIs
  <2> DEFINE v == Rest(s, k)
  <2> HIDE DEF v
  <2>2. v \in Seq(S) /\ Len(v) = Len(s) - k /\ \A i \in 1..(Len(s) - k) : v[i] = s[k + i]
    BY <2>1 DEF v
  <2>3. /\ v \o t \in Seq(S) /\ Len(v \o t) = Len(v) + Len(t)
        /\ \A i \in 1..(Len(v) + Len(t)) : (v \o t)[i] = IF i <= Len(v) THEN v[i] ELSE t[i - Len(v)]
    BY <2>2, ConcatProperties
  <2>4. k <= Len(s) + Len(t) /\ Len(s) + Len(t) - k = Len(v) + Len(t)
    BY <1>2, <1>4, <2>2
  <2>5. ASSUME NEW i \in 1..(Len(s) + Len(t) - k) PROVE Rest(u, k)[i] = (v \o t)[i]
    <3>1. k + i \in 1..(Len(s) + Len(t)) /\ i \in 1..(Len(v) + Len(t))
      BY <1>2, <2>4
    <3>2. CASE i <= Len(v)
      <4>1. k + i <= Len(s) /\ i \in 1..(Len(s) - k)
        BY <1>2, <2>2, <3>2
      <4> QED BY <1>1, <1>3, <2>2, <2>3, <2>4, <3>1, <3>2, <4>1 DEF u
    <3>3. CASE ~(i <= Len(v))
      <4>1. ~(k + i <= Len(s)) /\ (k + i) - Len(s) = i - Len(v)
        BY <1>2, <1>4, <2>2, <3>3
      <4> QED BY <1>1, <1>3, <2>3, <2>4, <3>1, <3>3, <4>1 DEF u
    <3> QED BY <3>2, <3>3
  <2>6. Rest(u, k) = v \o t
    <3>1. Rest(u, k) \in Seq(S) /\ Len(Rest(u, k)) = Len(v \o t)
      BY <1>3, <2>3, <2>4
    <3>2. \A i \in 1..Len(Rest(u, k)) : Rest(u, k)[i] = (v \o t)[i]
      BY <1>3, <2>4, <2>5
    <3> QED BY <2>3, <3>1, <3>2, SameSeq
  <2> QED BY <2>6 DEF v
<1>5. ASSUME Len(s) <= k, k <= Len(s) + Len(t) PROVE Rest(u, k) = Rest(t, k - Len(s))
  <2>1. k - Len(s) \in Nat /\ k - Len(s) <= Len(t) /\ Len(t) - (k - Len(s)) = Len(s) + Len(t) - k
    BY <1>2, <1>5
  <2> DEFINE j == k - Len(s)
  <2> HIDE DEF j
  <2>2. /\ Rest(t, j) \in Seq(S) /\ Len(Rest(t, j)) = Len(t) - j
        /\ \A i \in 1..(Len(t) - j) : Rest(t, j)[i] = t[j + i]
    <3>1. j \in Nat /\ j <= Len(t)
      BY <2>1 DEF j
    <3> QED BY <3>1, RestIs
  <2>3. Len(t) - j = Len(s) + Len(t) - k
    BY <2>1 DEF j
  <2>4. ASSUME NEW i \in 1..(Len(s) + Len(t) - k) PROVE Rest(u, k)[i] = Rest(t, j)[i]
    <3>1. k + i \in 1..(Len(s) + Len(t)) /\ ~(k + i <= Len(s)) /\ (k + i) - Len(s) = j + i
      BY <1>2, <1>5 DEF j
    <3> QED BY <1>1, <1>3, <1>5, <2>2, <2>3, <3>1 DEF u
  <2>5. Rest(u, k) = Rest(t, j)
    <3>1. Len(Rest(u, k)) = Len(Rest(t, j)) /\ Rest(u, k) \in Seq(S)
      BY <1>3, <1>5, <2>2, <2>3
    <3>2. \A i \in 1..Len(Rest(u, k)) : Rest(u, k)[i] = Rest(t, j)[i]
      BY <1>3, <1>5, <2>4
    <3> QED BY <2>2, <3>1, <3>2, SameSeq
  <2> QED BY <2>5 DEF j
<1> QED BY <1>4, <1>5 DEF u

-----------------------------------------------------------------------------
(* Positions modulo the size of the ring.                                  *)
LEMMA Positions ==
  ASSUME NEW s \in Nat \ {0, 1}, NEW r \in 0..(s - 1)
  PROVE  /\ (r + 1) % s = IF r + 1 < s THEN r + 1 ELSE 0
         /\ \A w \in 0..(s - 1) : /\ (w + s - r) % s = IF r <= w THEN w - r ELSE w + s - r
                                 /\ (r + w) % s = IF r + w < s THEN r + w ELSE r + w - s
  OBVIOUS

(* The count without its modulo; a full ring holds all but one byte.       *)
LEMMA CountIs ==
  ASSUME NEW u, Ring(u)
  PROVE  /\ u.size \in Nat \ {0, 1} /\ u.rpos \in Nat /\ u.wpos \in Nat /\ u.rpos < u.size /\ u.wpos < u.size
         /\ Count(u) = IF u.rpos <= u.wpos THEN u.wpos - u.rpos ELSE u.wpos + u.size - u.rpos
         /\ Count(u) \in 0..(u.size - 1)
         /\ Full(u) <=> Count(u) = u.size - 1
<1>1. u.size \in Nat \ {0, 1} /\ u.rpos \in 0..(u.size - 1) /\ u.wpos \in 0..(u.size - 1)
  BY UartAssumption DEF Ring
<1>2. u.rpos \in Nat /\ u.wpos \in Nat /\ u.rpos < u.size /\ u.wpos < u.size
  BY <1>1
<1>5. Count(u) = IF u.rpos <= u.wpos THEN u.wpos - u.rpos ELSE u.wpos + u.size - u.rpos
  BY <1>1, Positions DEF Count
<1>6. Full(u) <=> Count(u) = u.size - 1
  <2>1. (u.wpos + 1) % u.size = IF u.wpos + 1 < u.size THEN u.wpos + 1 ELSE 0
    BY <1>1, Positions
  <2>2. \A s \in Nat \ {0, 1} : \A r, w \in 0..(s - 1) :
          (IF w + 1 < s THEN w + 1 ELSE 0) = r <=> (IF r <= w THEN w - r ELSE w + s - r) = s - 1
    OBVIOUS
  <2>3. (IF u.wpos + 1 < u.size THEN u.wpos + 1 ELSE 0) = u.rpos <=> Count(u) = u.size - 1
    BY <1>1, <1>5, <2>2
  <2> QED BY <2>1, <2>3 DEF Full
<1>7. Count(u) \in 0..(u.size - 1)
  BY <1>1, <1>2, <1>5
<1> QED BY <1>1, <1>2, <1>5, <1>6, <1>7

(* Where the bytes of a ring are.                                          *)
Place(u, i) == IF u.rpos + i - 1 < u.size THEN u.rpos + i - 1 ELSE u.rpos + i - 1 - u.size

(* The bytes of a ring are those at its places.                            *)
LEMMA RingBytesIs ==
  ASSUME NEW u, Ring(u)
  PROVE  /\ RingBytes(u) \in Seq(Content) /\ Len(RingBytes(u)) = Count(u)
         /\ \A i \in 1..Count(u) : /\ RingBytes(u)[i] = u.buffer[Place(u, i)]
                                   /\ Place(u, i) \in 0..(u.size - 1)
<1>1. /\ u.size \in Nat \ {0, 1} /\ u.rpos \in Nat /\ u.rpos < u.size
      /\ Count(u) \in 0..(u.size - 1)
      /\ u.buffer \in [0..(u.size - 1) -> Content]
  BY CountIs DEF Ring
<1>2. Count(u) \in Nat
  BY <1>1
<1>3. ASSUME NEW i \in 1..Count(u)
      PROVE  Place(u, i) \in 0..(u.size - 1) /\ (u.rpos + i - 1) % u.size = Place(u, i)
  <2>1. \A s \in Nat \ {0, 1} : \A r, c \in Nat : r < s /\ c < s => \A j \in 1..c :
          /\ r + j - 1 \in Nat /\ r + j - 1 < s + s
          /\ (IF r + j - 1 < s THEN r + j - 1 ELSE r + j - 1 - s) \in 0..(s - 1)
    OBVIOUS
  <2>2. /\ u.rpos + i - 1 \in Nat /\ u.rpos + i - 1 < u.size + u.size
        /\ Place(u, i) \in 0..(u.size - 1)
    BY <1>1, <1>2, <2>1 DEF Place
  <2>3. (u.rpos + i - 1) % u.size = Place(u, i)
    <3>1. i - 1 \in 0..(u.size - 1) /\ u.rpos \in 0..(u.size - 1) /\ u.rpos + i - 1 = u.rpos + (i - 1)
      BY <1>1, <1>2
    <3>2. (u.rpos + (i - 1)) % u.size = IF u.rpos + (i - 1) < u.size THEN u.rpos + (i - 1)
                                        ELSE u.rpos + (i - 1) - u.size
      BY <1>1, <3>1, Positions
    <3> QED BY <3>1, <3>2 DEF Place
  <2> QED BY <2>2, <2>3
<1>4. RingBytes(u) = [i \in 1..Count(u) |-> u.buffer[Place(u, i)]]
  BY <1>3 DEF RingBytes
<1>5. \A i \in 1..Count(u) : u.buffer[Place(u, i)] \in Content
  BY <1>1, <1>3
<1> HIDE DEF Place
<1>6. RingBytes(u) \in Seq(Content) /\ Len(RingBytes(u)) = Count(u)
  BY <1>2, <1>4, <1>5
<1>7. \A i \in 1..Count(u) : RingBytes(u)[i] = u.buffer[Place(u, i)]
  BY <1>4
<1> QED BY <1>3, <1>6, <1>7

(* What a byte does to the fields of a ring.                               *)
LEMMA PutFields ==
  ASSUME NEW u, Ring(u), NEW b \in Content
  PROVE  /\ Ring(Put(u, b)) /\ Put(u, b).size = u.size
         /\ Put(u, b).rpos = IF ~Full(u) THEN u.rpos ELSE IF u.rpos + 1 < u.size THEN u.rpos + 1 ELSE 0
         /\ Put(u, b).wpos = IF u.wpos + 1 < u.size THEN u.wpos + 1 ELSE 0
         /\ Put(u, b).overrun = (u.overrun \/ Full(u))
         /\ Put(u, b).buffer = [u.buffer EXCEPT ![u.wpos] = b]
<1>1. /\ u.size \in Sizes /\ u.size \in Nat \ {0, 1} /\ u.rpos \in 0..(u.size - 1) /\ u.wpos \in 0..(u.size - 1)
      /\ u.overrun \in BOOLEAN /\ u.buffer \in [0..(u.size - 1) -> Content]
  BY CountIs DEF Ring
<1>2. /\ (u.rpos + 1) % u.size = IF u.rpos + 1 < u.size THEN u.rpos + 1 ELSE 0
      /\ (u.wpos + 1) % u.size = IF u.wpos + 1 < u.size THEN u.wpos + 1 ELSE 0
  BY <1>1, Positions
<1> DEFINE v == IF Full(u) THEN Discarded(u) ELSE u
<1>3. /\ v = [size |-> u.size, wpos |-> u.wpos, buffer |-> u.buffer,
              rpos |-> IF ~Full(u) THEN u.rpos ELSE (u.rpos + 1) % u.size,
              overrun |-> u.overrun \/ Full(u)]
  <2>1. CASE Full(u)
    BY <1>1, <2>1 DEF Ring, Discarded
  <2>2. CASE ~Full(u)
    BY <1>1, <2>2 DEF Ring
  <2> QED BY <2>1, <2>2
<1>4. Put(u, b) = [v EXCEPT !.buffer[u.wpos] = b, !.wpos = (@ + 1) % u.size]
  BY DEF Put
<1> HIDE DEF v
<1>5. Put(u, b) = [size |-> u.size, wpos |-> (u.wpos + 1) % u.size,
                   buffer |-> [u.buffer EXCEPT ![u.wpos] = b],
                   rpos |-> IF ~Full(u) THEN u.rpos ELSE (u.rpos + 1) % u.size,
                   overrun |-> u.overrun \/ Full(u)]
  <2>1. /\ v.size = u.size /\ v.wpos = u.wpos /\ v.buffer = u.buffer
        /\ v.rpos = IF ~Full(u) THEN u.rpos ELSE (u.rpos + 1) % u.size
        /\ v.overrun = (u.overrun \/ Full(u))
    BY <1>3
  <2>2. Put(u, b) = [size |-> v.size, wpos |-> (v.wpos + 1) % u.size, buffer |-> [v.buffer EXCEPT ![u.wpos] = b],
                     rpos |-> v.rpos, overrun |-> v.overrun]
    <3> HIDE DEF Full
    <3> QED BY <1>3, <1>4
  <2> QED BY <2>1, <2>2
<1>6. [u.buffer EXCEPT ![u.wpos] = b] \in [0..(u.size - 1) -> Content]
  BY <1>1
<1>7. /\ Put(u, b).size = u.size
      /\ Put(u, b).rpos = IF ~Full(u) THEN u.rpos ELSE IF u.rpos + 1 < u.size THEN u.rpos + 1 ELSE 0
      /\ Put(u, b).wpos = IF u.wpos + 1 < u.size THEN u.wpos + 1 ELSE 0
      /\ Put(u, b).overrun = (u.overrun \/ Full(u))
      /\ Put(u, b).buffer = [u.buffer EXCEPT ![u.wpos] = b]
  BY <1>2, <1>5
<1>8. /\ Put(u, b).rpos \in 0..(u.size - 1) /\ Put(u, b).wpos \in 0..(u.size - 1)
      /\ Put(u, b).overrun \in BOOLEAN
  <2> HIDE DEF Full
  <2>1. \A s \in Nat \ {0, 1} : \A i \in 0..(s - 1) : (IF i + 1 < s THEN i + 1 ELSE 0) \in 0..(s - 1)
    OBVIOUS
  <2> QED BY <1>1, <1>7, <2>1
<1>9. Put(u, b) = [size |-> Put(u, b).size, rpos |-> Put(u, b).rpos, wpos |-> Put(u, b).wpos,
                   overrun |-> Put(u, b).overrun, buffer |-> Put(u, b).buffer]
  BY <1>5
<1> QED BY <1>1, <1>6, <1>7, <1>8, <1>9 DEF Ring

(* A byte goes behind those that are there, and the oldest makes room.     *)
LEMMA PutBytes ==
  ASSUME NEW u, Ring(u), NEW b \in Content
  PROVE  /\ Count(Put(u, b)) = IF Full(u) THEN Count(u) ELSE Count(u) + 1
         /\ Put(u, b).rpos + Count(Put(u, b)) <= u.rpos + Count(u) + 1
         /\ RingBytes(Put(u, b)) = Append(Rest(RingBytes(u), IF Full(u) THEN 1 ELSE 0), b)
<1> DEFINE v == Put(u, b)
           d == IF Full(u) THEN 1 ELSE 0
           c == Count(u)
           e == Count(v)
<1>1. /\ u.size \in Nat \ {0, 1} /\ u.rpos \in Nat /\ u.wpos \in Nat /\ u.rpos < u.size /\ u.wpos < u.size
      /\ c = IF u.rpos <= u.wpos THEN u.wpos - u.rpos ELSE u.wpos + u.size - u.rpos
      /\ c \in 0..(u.size - 1)
      /\ Full(u) <=> c = u.size - 1
  BY CountIs
<1>2. /\ Ring(v) /\ v.size = u.size
      /\ v.rpos = IF ~Full(u) THEN u.rpos ELSE IF u.rpos + 1 < u.size THEN u.rpos + 1 ELSE 0
      /\ v.wpos = IF u.wpos + 1 < u.size THEN u.wpos + 1 ELSE 0
      /\ v.buffer = [u.buffer EXCEPT ![u.wpos] = b]
  BY PutFields
<1>3. /\ RingBytes(u) \in Seq(Content) /\ Len(RingBytes(u)) = c
      /\ \A i \in 1..c : RingBytes(u)[i] = u.buffer[Place(u, i)] /\ Place(u, i) \in 0..(u.size - 1)
  BY RingBytesIs
<1> HIDE DEF v
<1>4. /\ RingBytes(v) \in Seq(Content) /\ Len(RingBytes(v)) = e
      /\ \A i \in 1..e : RingBytes(v)[i] = v.buffer[Place(v, i)]
  BY <1>2, RingBytesIs
<1>5. e = IF v.rpos <= v.wpos THEN v.wpos - v.rpos ELSE v.wpos + v.size - v.rpos
  BY <1>2, CountIs
<1>6. d \in 0..1 /\ d <= c /\ c - d \in Nat
  BY <1>1
<1> HIDE DEF c, e
<1>7. e = c - d + 1 /\ v.rpos + e <= u.rpos + c + 1
  <2>1. CASE Full(u)
    <3>1. c = u.size - 1 /\ d = 1
      BY <1>1, <2>1
    <3>2. v.rpos = (IF u.rpos + 1 < u.size THEN u.rpos + 1 ELSE 0)
          /\ v.wpos = (IF u.wpos + 1 < u.size THEN u.wpos + 1 ELSE 0)
      BY <1>2, <2>1
    <3>3. \A s \in Nat \ {0, 1} : \A j, k \in 0..(s - 1) :
            /\ (IF j <= k THEN k - j ELSE k + s - j) = s - 1
            => LET q == IF j + 1 < s THEN j + 1 ELSE 0
                   t == IF k + 1 < s THEN k + 1 ELSE 0
               IN  /\ (IF q <= t THEN t - q ELSE t + s - q) = s - 1
                   /\ q <= j + 1
      OBVIOUS
    <3>4. u.rpos \in 0..(u.size - 1) /\ u.wpos \in 0..(u.size - 1)
      BY <1>1
    <3>5. e = u.size - 1 /\ v.rpos <= u.rpos + 1 /\ v.rpos \in Nat
      <4>1. (IF u.rpos <= u.wpos THEN u.wpos - u.rpos ELSE u.wpos + u.size - u.rpos) = u.size - 1
        BY <1>1, <3>1
      <4>2. e = (IF v.rpos <= v.wpos THEN v.wpos - v.rpos ELSE v.wpos + u.size - v.rpos)
        BY <1>2, <1>5
      <4>3. e = u.size - 1 /\ v.rpos <= u.rpos + 1
        BY <1>1, <3>2, <3>3, <3>4, <4>1, <4>2
      <4> QED BY <1>1, <3>2, <4>3
    <3> QED BY <1>1, <3>1, <3>5
  <2>2. CASE ~Full(u)
    <3>1. c < u.size - 1 /\ d = 0
      BY <1>1, <2>2
    <3>2. v.rpos = u.rpos /\ v.wpos = (IF u.wpos + 1 < u.size THEN u.wpos + 1 ELSE 0)
      BY <1>2, <2>2
    <3> QED BY <1>1, <1>2, <1>5, <3>1, <3>2
  <2> QED BY <2>1, <2>2
<1>8. \A i \in 1..(c - d) : Place(v, i) = Place(u, d + i) /\ Place(u, d + i) # u.wpos
  <2> TAKE i \in 1..(c - d)
  <2>1. i \in Nat /\ 1 <= i /\ i + d <= c
    BY <1>1, <1>6
  <2>2. CASE Full(u)
    BY <1>1, <1>2, <2>1, <2>2 DEF Place
  <2>3. CASE ~Full(u)
    BY <1>1, <1>2, <2>1, <2>3 DEF Place
  <2> QED BY <2>2, <2>3
<1>9. Place(v, e) = u.wpos
  <2>1. CASE Full(u)
    <3>1. e = u.size - 1
      BY <1>1, <1>7, <2>1
    <3>2. u.wpos = IF u.rpos = 0 THEN u.size - 1 ELSE u.rpos - 1
      BY <1>1, <2>1
    <3>3. v.rpos = IF u.rpos + 1 < u.size THEN u.rpos + 1 ELSE 0
      BY <1>2, <2>1
    <3>4. \A s \in Nat \ {0, 1} : \A r \in 0..(s - 1) : \A q, w \in Nat :
            /\ w = (IF r = 0 THEN s - 1 ELSE r - 1)
            /\ q = (IF r + 1 < s THEN r + 1 ELSE 0)
            => (IF q + (s - 1) - 1 < s THEN q + (s - 1) - 1 ELSE q + (s - 1) - 1 - s) = w
      OBVIOUS
    <3>5. v.rpos \in Nat /\ u.rpos \in 0..(u.size - 1)
      BY <1>1, <3>3
    <3> QED BY <1>1, <1>2, <3>1, <3>2, <3>3, <3>4, <3>5 DEF Place
  <2>2. CASE ~Full(u)
    BY <1>1, <1>2, <1>7, <2>2 DEF Place
  <2> QED BY <2>1, <2>2
<1> HIDE DEF d
<1>10. /\ Rest(RingBytes(u), d) \in Seq(Content) /\ Len(Rest(RingBytes(u), d)) = c - d
       /\ \A i \in 1..(c - d) : Rest(RingBytes(u), d)[i] = RingBytes(u)[d + i]
  <2>1. d \in Nat /\ d <= Len(RingBytes(u))
    BY <1>3, <1>6
  <2>2. /\ Rest(RingBytes(u), d) \in Seq(Content) /\ Len(Rest(RingBytes(u), d)) = Len(RingBytes(u)) - d
        /\ \A i \in 1..(Len(RingBytes(u)) - d) : Rest(RingBytes(u), d)[i] = RingBytes(u)[d + i]
    BY <1>3, <2>1, RestIs
  <2> QED BY <1>3, <2>2
<1> DEFINE t == Append(Rest(RingBytes(u), d), b)
<1>11. /\ t \in Seq(Content) /\ Len(t) = e
       /\ \A i \in 1..(c - d) : t[i] = RingBytes(u)[d + i]
       /\ t[e] = b
  <2>1. /\ t \in Seq(Content) /\ Len(t) = Len(Rest(RingBytes(u), d)) + 1
        /\ \A i \in 1..Len(Rest(RingBytes(u), d)) : t[i] = Rest(RingBytes(u), d)[i]
        /\ t[Len(Rest(RingBytes(u), d)) + 1] = b
    BY <1>10, AppendProperties
  <2> HIDE DEF t
  <2> QED BY <1>7, <1>10, <2>1
<1> HIDE DEF t
<1>12. ASSUME NEW i \in 1..e PROVE RingBytes(v)[i] = t[i]
  <2>1. CASE i = e
    <3>1. v.buffer[u.wpos] = b
      <4>1. u.wpos \in DOMAIN u.buffer
        BY <1>1 DEF Ring
      <4> QED BY <1>2, <4>1
    <3> QED BY <1>4, <1>9, <1>11, <2>1, <3>1
  <2>2. CASE i # e
    <3>1. i \in 1..(c - d) /\ d + i \in 1..c
      BY <1>1, <1>6, <1>7, <2>2
    <3>2. RingBytes(v)[i] = v.buffer[Place(u, d + i)]
      BY <1>4, <1>8, <3>1
    <3>3. v.buffer[Place(u, d + i)] = u.buffer[Place(u, d + i)]
      <4>1. Place(u, d + i) \in DOMAIN u.buffer
        BY <1>3, <3>1 DEF Ring
      <4> QED BY <1>2, <1>8, <3>1, <4>1
    <3>4. t[i] = u.buffer[Place(u, d + i)]
      BY <1>3, <1>11, <3>1
    <3> QED BY <3>2, <3>3, <3>4
  <2> QED BY <2>1, <2>2
<1>13. RingBytes(v) = t
  BY <1>4, <1>11, <1>12, SameSeq
<1>14. e = IF Full(u) THEN c ELSE c + 1
  BY <1>1, <1>7 DEF d
<1> QED BY <1>7, <1>13, <1>14 DEF t, v, c, d, e

-----------------------------------------------------------------------------
(* Induction over the numbers, for a set that is closed under successor.   *)
LEMMA SetInduction ==
  ASSUME NEW T \in SUBSET Nat, 0 \in T, \A k \in T : k + 1 \in T
  PROVE  T = Nat
<1> SUFFICES ASSUME Nat \ T # {} PROVE FALSE
  OBVIOUS
<1>1. PICK m \in Nat \ T : \A k \in Nat \ T : ~(<<k, m>> \in OpToRel(<, Nat))
  BY NatLessThanWellFounded, WFMin
<1>2. m # 0 /\ m - 1 \in Nat /\ (m - 1) + 1 = m
  OBVIOUS
<1>3. <<m - 1, m>> \in OpToRel(<, Nat)
  BY <1>2 DEF OpToRel
<1> QED BY <1>1, <1>2, <1>3

(* The rings while k bytes of the FIFO are copied to u.                    *)
Copies(c, u, k) == c = [i \in 0..k |-> IF i = 0 THEN u ELSE Put(c[i - 1], fifo[i])]

(* The recursive function of Copied() is one.                              *)
LEMMA CopiesExists ==
  ASSUME NEW u, NEW k \in Nat PROVE \E c : Copies(c, u, k)
<1> DEFINE T == {m \in Nat : \E c : Copies(c, u, m)}
<1>1. 0 \in T
  <2>1. [i \in 0..0 |-> u] = [i \in 0..0 |-> IF i = 0 THEN u ELSE Put([j \in 0..0 |-> u][i - 1], fifo[i])]
    OBVIOUS
  <2>2. Copies([i \in 0..0 |-> u], u, 0)
    BY <2>1, Zenon DEF Copies
  <2> QED BY <2>2
<1>2. ASSUME NEW m \in T PROVE m + 1 \in T
  <2>1. PICK c : Copies(c, u, m)
    OBVIOUS
  <2> DEFINE e == [i \in 0..(m + 1) |-> IF i = m + 1 THEN Put(c[m], fifo[m + 1]) ELSE c[i]]
  <2>2. ASSUME NEW i \in 0..(m + 1) PROVE e[i] = IF i = 0 THEN u ELSE Put(e[i - 1], fifo[i])
    <3>1. CASE i = m + 1
      <4>1. i # 0 /\ i - 1 = m /\ m \in 0..(m + 1) /\ m # m + 1
        BY <3>1
      <4>2. e[m] = c[m]
        BY <4>1
      <4> QED BY <3>1, <4>1, <4>2
    <3>2. CASE i # m + 1
      <4>1. i \in 0..m /\ (i # 0 => i - 1 \in 0..m)
        BY <3>2
      <4>2. c[i] = IF i = 0 THEN u ELSE Put(c[i - 1], fifo[i])
        BY <2>1, <4>1 DEF Copies
      <4>3. e[i] = c[i] /\ (i # 0 => e[i - 1] = c[i - 1])
        BY <3>2, <4>1
      <4> QED BY <4>2, <4>3
    <3> QED BY <3>1, <3>2
  <2>3. e = [i \in 0..(m + 1) |-> e[i]]
    OBVIOUS
  <2> HIDE DEF e
  <2>4. Copies(e, u, m + 1)
    BY <2>2, <2>3 DEF Copies
  <2> QED BY <2>4
<1> HIDE DEF T
<1>3. T = Nat
  <2>1. T \in SUBSET Nat
    BY DEF T
  <2> QED BY <1>1, <1>2, <2>1, SetInduction
<1> QED BY <1>3 DEF T

(* So Copied() is its last ring.                                           *)
LEMMA CopiedIs ==
  ASSUME NEW u, Len(fifo) \in Nat
  PROVE  \E c : Copies(c, u, Len(fifo)) /\ Copied(u) = c[Len(fifo)]
<1>1. \E c : Copies(c, u, Len(fifo))
  BY CopiesExists
<1> DEFINE c == CHOOSE c : c = [i \in 0..Len(fifo) |-> IF i = 0 THEN u ELSE Put(c[i - 1], fifo[i])]
<1>2. \E d : d = [i \in 0..Len(fifo) |-> IF i = 0 THEN u ELSE Put(d[i - 1], fifo[i])]
  BY <1>1 DEF Copies
<1>3. c = [i \in 0..Len(fifo) |-> IF i = 0 THEN u ELSE Put(c[i - 1], fifo[i])]
  BY <1>2, Zenon
<1>4. Copied(u) = c[Len(fifo)]
  BY DEF Copied
<1> HIDE DEF c
<1>5. Copies(c, u, Len(fifo))
  BY <1>3 DEF Copies
<1> QED BY <1>4, <1>5

(* The bytes of the FIFO may stand in the ring.                            *)
LEMMA FifoContent ==
  ASSUME fifo \in Seq(1..MaxByte)
  PROVE  fifo \in Seq(Content) /\ Len(fifo) \in Nat /\ \A i \in 1..Len(fifo) : fifo[i] \in Content
<1>1. Len(fifo) \in Nat
  OBVIOUS
<1>2. \A i \in 1..MaxByte : i \in Content
  BY UartAssumption DEF Content, Byte, Unwritten
<1>3. \A i \in 1..Len(fifo) : fifo[i] \in 1..MaxByte
  BY ElementOfSeq
<1>4. \A i \in 1..Len(fifo) : fifo[i] \in Content
  BY <1>2, <1>3
<1>5. fifo = [i \in 1..Len(fifo) |-> fifo[i]]
  OBVIOUS
<1> HIDE DEF Content
<1> QED BY <1>1, <1>4, <1>5

(* How many of t bytes a ring of s has no room for.                        *)
Lost(t, s) == IF t > s - 1 THEN t - (s - 1) ELSE 0

(* The ring takes the bytes of the FIFO behind its own; of all of them the *)
(* last are kept, and the overrun is noted when that is not all.           *)
LEMMA CopiedBytes ==
  ASSUME NEW u, Ring(u), fifo \in Seq(1..MaxByte)
  PROVE  /\ Ring(Copied(u)) /\ Copied(u).size = u.size
         /\ RingBytes(Copied(u)) = Rest(RingBytes(u) \o fifo, Lost(Count(u) + Len(fifo), u.size))
         /\ Copied(u).overrun = (u.overrun \/ Lost(Count(u) + Len(fifo), u.size) # 0)
         /\ Lost(Count(u) + Len(fifo), u.size) = 0 => Copied(u).rpos = u.rpos
         /\ Copied(u).rpos + Count(Copied(u)) <= u.rpos + Count(u) + Len(fifo)
<1> DEFINE all == RingBytes(u) \o fifo
           b == Count(u)
           s == u.size
           z == Len(fifo)
<1>1. /\ z \in Nat /\ s \in Nat \ {0, 1} /\ b \in 0..(s - 1) /\ u.rpos \in Nat /\ u.overrun \in BOOLEAN
      /\ RingBytes(u) \in Seq(Content) /\ Len(RingBytes(u)) = b
  BY CountIs, RingBytesIs DEF Ring
<1>2. fifo \in Seq(Content) /\ \A i \in 1..z : fifo[i] \in Content
  BY FifoContent
<1>3. /\ all \in Seq(Content) /\ Len(all) = b + z
      /\ \A i \in 1..z : all[b + i] = fifo[i]
  <2>1. /\ all \in Seq(Content) /\ Len(all) = Len(RingBytes(u)) + Len(fifo)
        /\ \A i \in 1..(Len(RingBytes(u)) + Len(fifo)) :
             all[i] = IF i <= Len(RingBytes(u)) THEN RingBytes(u)[i] ELSE fifo[i - Len(RingBytes(u))]
    BY <1>1, <1>2, ConcatProperties
  <2>2. \A i \in 1..z : b + i \in 1..(b + z) /\ ~(b + i <= b) /\ (b + i) - b = i
    BY <1>1
  <2> HIDE DEF all
  <2> QED BY <1>1, <2>1, <2>2
<1>4. \A i \in 1..b : all[i] = RingBytes(u)[i]
  <2>1. \A i \in 1..Len(RingBytes(u)) : all[i] = RingBytes(u)[i]
    BY <1>1, <1>2, ConcatProperties
  <2> QED BY <1>1, <2>1
<1>5. PICK c : Copies(c, u, z) /\ Copied(u) = c[z]
  BY <1>1, CopiedIs
<1> DEFINE Good(i) ==
             /\ Ring(c[i]) /\ c[i].size = s
             /\ Count(c[i]) = b + i - Lost(b + i, s)
             /\ \A j \in 1..Count(c[i]) : RingBytes(c[i])[j] = all[Lost(b + i, s) + j]
             /\ c[i].overrun = (u.overrun \/ Lost(b + i, s) # 0)
             /\ Lost(b + i, s) = 0 => c[i].rpos = u.rpos
             /\ c[i].rpos + Count(c[i]) <= u.rpos + b + i
           T == {i \in Nat : i <= z => Good(i)}
<1> HIDE DEF all, b, s, z
<1>6. 0 \in T
  <2>1. c[0] = u
    <3>1. 0 \in 0..z
      BY <1>1
    <3> QED BY <1>5, <3>1 DEF Copies
  <2>2. b + 0 = b /\ Lost(b, s) = 0 /\ b - 0 = b
    BY <1>1 DEF Lost
  <2>3. \A j \in 1..b : 0 + j = j
    BY <1>1
  <2>4. Good(0)
    BY <1>1, <1>4, <2>1, <2>2, <2>3 DEF b, s
  <2> QED BY <2>4
<1>7. ASSUME NEW i \in T PROVE i + 1 \in T
  <2> SUFFICES ASSUME i + 1 <= z PROVE Good(i + 1)
    OBVIOUS
  <2>1. i \in Nat /\ i + 1 \in 1..z /\ i + 1 \in 0..z /\ i + 1 # 0 /\ (i + 1) - 1 = i
    BY <1>1
  <2>2. Good(i)
    BY <1>1, <2>1
  <2> DEFINE v == c[i]
             w == c[i + 1]
             x == fifo[i + 1]
             d == Lost(b + i, s)
             f == IF Full(v) THEN 1 ELSE 0
  <2>3. w = Put(v, x) /\ x \in Content
    <3>1. w = IF i + 1 = 0 THEN u ELSE Put(c[(i + 1) - 1], fifo[i + 1])
      BY <1>5, <2>1 DEF Copies
    <3> QED BY <1>2, <2>1, <3>1
  <2>4. /\ Ring(v) /\ v.size = s /\ Count(v) = b + i - d
        /\ \A j \in 1..Count(v) : RingBytes(v)[j] = all[d + j]
        /\ v.overrun = (u.overrun \/ d # 0)
        /\ d = 0 => v.rpos = u.rpos
        /\ v.rpos + Count(v) <= u.rpos + b + i
    BY <2>2
  <2> HIDE DEF v, w, x, f, Good
  <2>5. /\ Full(v) <=> Count(v) = s - 1
        /\ Count(v) \in 0..(s - 1) /\ v.rpos \in Nat
        /\ RingBytes(v) \in Seq(Content) /\ Len(RingBytes(v)) = Count(v)
    BY <2>4, CountIs, RingBytesIs
  <2>6. /\ Ring(w) /\ w.size = s
        /\ w.rpos = IF ~Full(v) THEN v.rpos ELSE IF v.rpos + 1 < v.size THEN v.rpos + 1 ELSE 0
        /\ w.overrun = (v.overrun \/ Full(v))
        /\ Count(w) = IF Full(v) THEN Count(v) ELSE Count(v) + 1
        /\ w.rpos + Count(w) <= v.rpos + Count(v) + 1
        /\ RingBytes(w) = Append(Rest(RingBytes(v), f), x)
    <3>1. /\ Ring(Put(v, x)) /\ Put(v, x).size = v.size
          /\ Put(v, x).rpos = IF ~Full(v) THEN v.rpos ELSE IF v.rpos + 1 < v.size THEN v.rpos + 1 ELSE 0
          /\ Put(v, x).overrun = (v.overrun \/ Full(v))
      BY <2>3, <2>4, PutFields
    <3>2. /\ Count(Put(v, x)) = IF Full(v) THEN Count(v) ELSE Count(v) + 1
          /\ Put(v, x).rpos + Count(Put(v, x)) <= v.rpos + Count(v) + 1
          /\ RingBytes(Put(v, x)) = Append(Rest(RingBytes(v), IF Full(v) THEN 1 ELSE 0), x)
      BY <2>3, <2>4, PutBytes
    <3> QED BY <2>3, <2>4, <3>1, <3>2 DEF f
  <2>7. /\ d \in Nat /\ f \in 0..1 /\ Lost(b + (i + 1), s) = d + f
        /\ Full(v) <=> f # 0
        /\ d = 0 \/ Full(v)
    <3>1. \A g, m \in Nat : \A q, k \in Nat :
            /\ q = (IF g > m THEN g - m ELSE 0) /\ k = g - q /\ m >= 1
            => /\ (IF g + 1 > m THEN (g + 1) - m ELSE 0) = q + (IF k = m THEN 1 ELSE 0)
               /\ q = 0 \/ k = m
      OBVIOUS
    <3>2. b + i \in Nat /\ s - 1 \in Nat /\ s - 1 >= 1 /\ b + (i + 1) = b + i + 1 /\ Count(v) \in Nat
      BY <1>1, <2>1, <2>5
    <3>3. d = (IF b + i > s - 1 THEN (b + i) - (s - 1) ELSE 0) /\ d \in Nat
      BY <3>2 DEF Lost
    <3>4. Lost(b + (i + 1), s) = IF b + i + 1 > s - 1 THEN (b + i + 1) - (s - 1) ELSE 0
      BY <3>2 DEF Lost
    <3> DEFINE g == b + i
               m == s - 1
    <3> HIDE DEF d, g, m
    <3>5. /\ (IF g + 1 > m THEN (g + 1) - m ELSE 0) = d + (IF Count(v) = m THEN 1 ELSE 0)
          /\ d = 0 \/ Count(v) = m
      <4>1. g \in Nat /\ m \in Nat /\ m >= 1 /\ d = (IF g > m THEN g - m ELSE 0) /\ Count(v) = g - d
        <5>1. (b + i) - d = b + i - d
          BY <1>1, <2>1, <3>3
        <5> QED BY <2>4, <3>2, <3>3, <5>1 DEF g, m
      <4> QED BY <3>1, <3>2, <3>3, <4>1
    <3>6. f = IF Count(v) = m THEN 1 ELSE 0
      BY <2>5 DEF f, m
    <3> QED BY <2>5, <3>3, <3>4, <3>5, <3>6 DEF g, m, f
  <2>8. Count(w) = b + (i + 1) - (d + f) /\ Count(w) = Count(v) - f + 1
    <3> HIDE DEF d
    <3>1. Count(w) = Count(v) - f + 1
      BY <2>5, <2>6, <2>7
    <3> QED BY <1>1, <2>1, <2>4, <2>7, <3>1
  <2>9. /\ w.rpos + Count(w) <= u.rpos + b + (i + 1)
        /\ d + f = 0 => w.rpos = u.rpos
    <3>1. w.rpos \in Nat /\ Count(w) \in Nat
      BY <2>6, CountIs
    <3> HIDE DEF d
    <3>2. \A q, k, h, l, m, j, e \in Nat : q + k <= h + l + 1 /\ h + l <= m + j + e => q + k <= m + j + (e + 1)
      OBVIOUS
    <3>3. w.rpos + Count(w) <= u.rpos + b + (i + 1)
      <4>1. /\ w.rpos + Count(w) <= v.rpos + Count(v) + 1 /\ v.rpos + Count(v) <= u.rpos + b + i
            /\ v.rpos \in Nat /\ Count(v) \in Nat /\ u.rpos \in Nat /\ b \in Nat /\ i \in Nat
        BY <1>1, <2>1, <2>4, <2>5, <2>6
      <4> QED BY <3>1, <3>2, <4>1, Zenon
    <3>4. d + f = 0 => d = 0 /\ ~Full(v)
      BY <2>7
    <3>5. d + f = 0 => w.rpos = u.rpos
      BY <2>4, <2>6, <3>4
    <3> QED BY <3>3, <3>5
  <2>10. w.overrun = (u.overrun \/ d + f # 0)
    <3> HIDE DEF d, f
    <3>1. d + f # 0 <=> d # 0 \/ f # 0
      BY <2>7
    <3>2. w.overrun = (u.overrun \/ d # 0 \/ f # 0)
      BY <2>4, <2>6, <2>7
    <3> QED BY <3>1, <3>2
  <2> HIDE DEF d, f
  <2>11. ASSUME NEW j \in 1..Count(w) PROVE RingBytes(w)[j] = all[d + f + j]
    <3>1. f \in Nat /\ f <= Len(RingBytes(v)) /\ Count(v) - f \in Nat
      BY <1>1, <2>5, <2>7
    <3>2. /\ Rest(RingBytes(v), f) \in Seq(Content) /\ Len(Rest(RingBytes(v), f)) = Count(v) - f
          /\ \A k \in 1..(Count(v) - f) : Rest(RingBytes(v), f)[k] = RingBytes(v)[f + k]
      <4>1. /\ Rest(RingBytes(v), f) \in Seq(Content) /\ Len(Rest(RingBytes(v), f)) = Len(RingBytes(v)) - f
            /\ \A k \in 1..(Len(RingBytes(v)) - f) : Rest(RingBytes(v), f)[k] = RingBytes(v)[f + k]
        BY <2>5, <3>1, RestIs
      <4> QED BY <2>5, <4>1
    <3> DEFINE r == Rest(RingBytes(v), f)
    <3> HIDE DEF r
    <3>3. /\ \A k \in 1..Len(r) : Append(r, x)[k] = r[k]
          /\ Append(r, x)[Len(r) + 1] = x
      <4>1. r \in Seq(Content)
        BY <3>2 DEF r
      <4> QED BY <2>3, <4>1, AppendProperties
    <3>4. CASE j = Count(w)
      <4>1. j = Len(r) + 1
        BY <2>8, <3>2, <3>4 DEF r
      <4>2. RingBytes(w)[j] = x
        BY <2>6, <3>3, <4>1 DEF r
      <4>3. d + f + j = b + (i + 1)
        BY <1>1, <2>1, <2>7, <2>8, <3>4
      <4>4. all[b + (i + 1)] = x
        BY <1>3, <2>1 DEF x
      <4> QED BY <4>2, <4>3, <4>4
    <3>5. CASE j # Count(w)
      <4>1. /\ j \in 1..(Count(v) - f) /\ f + j \in 1..Count(v) /\ d + (f + j) = d + f + j
        BY <2>5, <2>7, <2>8, <3>1, <3>5
      <4>2. RingBytes(w)[j] = r[j]
        BY <2>6, <3>2, <3>3, <4>1 DEF r
      <4>3. r[j] = RingBytes(v)[f + j]
        BY <3>2, <4>1 DEF r
      <4> QED BY <2>4, <4>1, <4>2, <4>3
    <3> QED BY <3>4, <3>5
  <2>12. w = c[i + 1]
    BY DEF w
  <2> QED BY <2>6, <2>7, <2>8, <2>9, <2>10, <2>11, <2>12 DEF Good
<1> HIDE DEF T
<1>8. T = Nat
  <2>1. T \in SUBSET Nat
    BY DEF T
  <2> QED BY <1>6, <1>7, <2>1, SetInduction
<1>9. Good(z)
  <2>1. z \in T /\ z <= z
    BY <1>1, <1>8
  <2> QED BY <2>1 DEF T
<1> DEFINE d == Lost(b + z, s)
<1>10. d \in Nat /\ d <= Len(all) /\ Count(Copied(u)) = Len(all) - d
  BY <1>1, <1>3, <1>5, <1>9 DEF Lost
<1>11. RingBytes(Copied(u)) \in Seq(Content) /\ Len(RingBytes(Copied(u))) = Count(Copied(u))
  BY <1>5, <1>9, RingBytesIs
<1>12. \A j \in 1..Count(Copied(u)) : RingBytes(Copied(u))[j] = all[d + j]
  BY <1>5, <1>9
<1> HIDE DEF d
<1>13. /\ Rest(all, d) \in Seq(Content) /\ Len(Rest(all, d)) = Len(all) - d
       /\ \A j \in 1..(Len(all) - d) : Rest(all, d)[j] = all[d + j]
  BY <1>3, <1>10, RestIs
<1>14. RingBytes(Copied(u)) = Rest(all, d)
  BY <1>10, <1>11, <1>12, <1>13, SameSeq
<1>15. /\ Ring(Copied(u)) /\ Copied(u).size = s
       /\ Copied(u).overrun = (u.overrun \/ d # 0)
       /\ d = 0 => Copied(u).rpos = u.rpos
       /\ Copied(u).rpos + Count(Copied(u)) <= u.rpos + b + z
  BY <1>5, <1>9 DEF d
<1> QED BY <1>14, <1>15 DEF d, all, b, s, z

-----------------------------------------------------------------------------
(* The inductive invariant: the ring is one, what the ring and the FIFO    *)
(* hold has been on the line, and a closed receiver has told the sketch so.*)
Hardware ==
  /\ gdb \in BOOLEAN /\ open \in BOOLEAN /\ rx_size \in Sizes
  /\ fifo \in Seq(1..MaxByte) /\ Len(fifo) <= FifoSize
  /\ uiff \in BOOLEAN /\ uiof \in BOOLEAN /\ lapped \in BOOLEAN
  /\ sent \in 0..MaxByte
  /\ uart.rpos + Count(uart) + Len(fifo) <= sent
  /\ ~open => got = Answer("restart", 0, <<>>)

(* Between two steps of a call the count is one the ring can satisfy, and  *)
(* unless bytes were dropped the pointer is where the next byte is.        *)
Looking ==
  /\ pc \in {"idle", "counted", "peeked", "pointed"}
  /\ n \in 0..MaxByte /\ p \in 0..MaxByte
  /\ pc # "idle" => open /\ n <= Count(uart)
  /\ pc \in {"peeked", "pointed"} /\ ~lapped => uart.rpos + n <= uart.size
  /\ pc = "pointed" /\ ~lapped => p = uart.rpos

IInv == Ring(uart) /\ Hardware /\ Looking

-----------------------------------------------------------------------------
(* Only the positions and the buffer count.                                *)
LEMMA SameRing ==
  ASSUME NEW u, NEW v, v.size = u.size, v.rpos = u.rpos, v.wpos = u.wpos, v.buffer = u.buffer
  PROVE  Count(v) = Count(u) /\ RingBytes(v) = RingBytes(u)
  BY DEF Count, RingBytes

(* The ring v is u after k bytes have been taken from it.                  *)
Advances(u, v, k) == v = [u EXCEPT !.rpos = IF u.rpos + k < u.size THEN u.rpos + k ELSE u.rpos + k - u.size]

(* The bytes behind those that were taken are left.                        *)
LEMMA Advance ==
  ASSUME NEW u, Ring(u), NEW k \in 0..Count(u), NEW v, Advances(u, v, k)
  PROVE  /\ Ring(v) /\ v.size = u.size /\ v.overrun = u.overrun
         /\ (u.rpos + k) % u.size = v.rpos
         /\ Count(v) = Count(u) - k
         /\ v.rpos + Count(v) <= u.rpos + Count(u)
         /\ RingBytes(v) = Rest(RingBytes(u), k)
<1>1. /\ u.size \in Nat \ {0, 1} /\ u.rpos \in Nat /\ u.wpos \in Nat /\ u.rpos < u.size /\ u.wpos < u.size
      /\ Count(u) = IF u.rpos <= u.wpos THEN u.wpos - u.rpos ELSE u.wpos + u.size - u.rpos
      /\ Count(u) \in 0..(u.size - 1)
  BY CountIs
<1>2. /\ v.size = u.size /\ v.wpos = u.wpos /\ v.buffer = u.buffer /\ v.overrun = u.overrun
      /\ v.rpos = IF u.rpos + k < u.size THEN u.rpos + k ELSE u.rpos + k - u.size
      /\ v = [size |-> v.size, rpos |-> v.rpos, wpos |-> v.wpos, overrun |-> v.overrun, buffer |-> v.buffer]
  BY DEF Ring, Advances
<1>3. k \in Nat /\ k \in 0..(u.size - 1) /\ k <= Count(u)
  BY <1>1
<1>4. (u.rpos + k) % u.size = v.rpos
  <2>1. u.rpos \in 0..(u.size - 1)
    BY <1>1
  <2>2. \A w \in 0..(u.size - 1) : (u.rpos + w) % u.size = IF u.rpos + w < u.size THEN u.rpos + w ELSE u.rpos + w - u.size
    BY <1>1, <2>1, Positions
  <2> QED BY <1>2, <1>3, <2>2, Zenon
<1>5. v.rpos \in 0..(u.size - 1)
  BY <1>1, <1>2, <1>3
<1>6. Ring(v)
  BY <1>1, <1>2, <1>5 DEF Ring
<1>7. Count(v) = IF v.rpos <= v.wpos THEN v.wpos - v.rpos ELSE v.wpos + v.size - v.rpos
  BY <1>6, CountIs
<1>8. Count(v) = Count(u) - k /\ v.rpos + Count(v) <= u.rpos + Count(u)
  BY <1>1, <1>2, <1>3, <1>7
<1>9. RingBytes(v) = Rest(RingBytes(u), k)
  <2>1. /\ RingBytes(u) \in Seq(Content) /\ Len(RingBytes(u)) = Count(u)
        /\ \A i \in 1..Count(u) : RingBytes(u)[i] = u.buffer[Place(u, i)]
    BY RingBytesIs
  <2>2. /\ RingBytes(v) \in Seq(Content) /\ Len(RingBytes(v)) = Count(v)
        /\ \A i \in 1..Count(v) : RingBytes(v)[i] = v.buffer[Place(v, i)]
    BY <1>6, RingBytesIs
  <2>3. /\ Rest(RingBytes(u), k) \in Seq(Content) /\ Len(Rest(RingBytes(u), k)) = Count(u) - k
        /\ \A i \in 1..(Count(u) - k) : Rest(RingBytes(u), k)[i] = RingBytes(u)[k + i]
    <3>1. k <= Len(RingBytes(u))
      BY <1>3, <2>1
    <3>2. /\ Rest(RingBytes(u), k) \in Seq(Content) /\ Len(Rest(RingBytes(u), k)) = Len(RingBytes(u)) - k
          /\ \A i \in 1..(Len(RingBytes(u)) - k) : Rest(RingBytes(u), k)[i] = RingBytes(u)[k + i]
      BY <1>3, <2>1, <3>1, RestIs
    <3> QED BY <2>1, <3>2
  <2>4. ASSUME NEW i \in 1..Count(v) PROVE RingBytes(v)[i] = Rest(RingBytes(u), k)[i]
    <3>1. i \in 1..(Count(u) - k) /\ k + i \in 1..Count(u)
      BY <1>1, <1>3, <1>8
    <3>2. Place(v, i) = Place(u, k + i)
      <4>1. \A s, r, c, q, j \in Nat : r < s /\ c < s /\ q + j <= c /\ 1 <= j =>
               LET t == IF r + q < s THEN r + q ELSE r + q - s
               IN  (IF t + j - 1 < s THEN t + j - 1 ELSE t + j - 1 - s)
                 = (IF r + (q + j) - 1 < s THEN r + (q + j) - 1 ELSE r + (q + j) - 1 - s)
        OBVIOUS
      <4>2. /\ u.size \in Nat /\ u.rpos \in Nat /\ Count(u) \in Nat /\ i \in Nat
            /\ u.rpos < u.size /\ Count(u) < u.size /\ k + i <= Count(u) /\ 1 <= i
        BY <1>1, <3>1
      <4> QED BY <1>2, <1>3, <4>1, <4>2 DEF Place
    <3> QED BY <1>2, <2>1, <2>2, <2>3, <3>1, <3>2
  <2>5. Len(RingBytes(v)) = Len(Rest(RingBytes(u), k))
    BY <1>8, <2>2, <2>3
  <2> QED BY <2>2, <2>3, <2>4, <2>5, SameSeq
<1> QED BY <1>2, <1>4, <1>6, <1>8, <1>9

-----------------------------------------------------------------------------
(* The types of the parts, and how much the pipe holds.                    *)
LEMMA Facts ==
  ASSUME IInv
  PROVE  /\ uart.size \in Nat \ {0, 1} /\ uart.rpos \in Nat /\ uart.rpos < uart.size
         /\ Count(uart) \in 0..(uart.size - 1) /\ Count(uart) \in Nat
         /\ fifo \in Seq(Content) /\ Len(fifo) \in Nat /\ sent \in Nat /\ MaxByte \in Nat
         /\ RingBytes(uart) \in Seq(Content) /\ Len(RingBytes(uart)) = Count(uart)
         /\ Pending \in Seq(Content)
         /\ Len(Pending) = (IF open THEN Count(uart) ELSE 0) + Len(fifo)
         /\ open => (Drops <=> Lost(Count(uart) + Len(fifo), uart.size) # 0)
<1>1. Ring(uart) /\ Hardware
  BY DEF IInv
<1>2. /\ uart.size \in Nat \ {0, 1} /\ uart.rpos \in Nat /\ uart.rpos < uart.size
      /\ Count(uart) \in 0..(uart.size - 1) /\ Count(uart) \in Nat
  BY <1>1, CountIs
<1>3. fifo \in Seq(Content) /\ Len(fifo) \in Nat /\ sent \in Nat /\ MaxByte \in Nat
  BY <1>1, FifoContent, UartAssumption DEF Hardware
<1>4. RingBytes(uart) \in Seq(Content) /\ Len(RingBytes(uart)) = Count(uart)
  BY <1>1, RingBytesIs
<1>5. /\ Pending \in Seq(Content)
      /\ Len(Pending) = (IF open THEN Count(uart) ELSE 0) + Len(fifo)
  <2>1. CASE open
    <3>1. Pending = RingBytes(uart) \o fifo
      BY <2>1 DEF Pending
    <3>2. RingBytes(uart) \o fifo \in Seq(Content) /\ Len(RingBytes(uart) \o fifo) = Len(RingBytes(uart)) + Len(fifo)
      BY <1>3, <1>4, ConcatProperties
    <3> QED BY <1>4, <2>1, <3>1, <3>2
  <2>2. CASE ~open
    <3>1. Pending = fifo
      BY <1>3, <2>2 DEF Pending
    <3> QED BY <1>3, <2>2, <3>1
  <2> QED BY <2>1, <2>2
<1>6. open => (Drops <=> Lost(Count(uart) + Len(fifo), uart.size) # 0)
  <2> DEFINE t == Count(uart) + Len(fifo)
  <2>1. t \in Nat
    BY <1>2, <1>3
  <2> HIDE DEF t
  <2>2. Lost(t, uart.size) # 0 <=> t > uart.size - 1
    BY <1>2, <2>1 DEF Lost
  <2>3. open => Len(Pending) = t
    BY <1>5 DEF t
  <2> QED BY <2>2, <2>3 DEF Drops, t
<1> QED BY <1>2, <1>3, <1>4, <1>5, <1>6

(* What emptying the FIFO into the ring does.                              *)
LEMMA CopyStep ==
  ASSUME IInv
  PROVE  /\ Ring(Copied(uart)) /\ Copied(uart).size = uart.size
         /\ Count(Copied(uart)) \in Nat /\ Copied(uart).rpos \in Nat
         /\ Count(uart) <= Count(Copied(uart))
         /\ Copied(uart).rpos + Count(Copied(uart)) <= sent
         /\ open /\ ~Drops => Copied(uart).rpos = uart.rpos
<1>1. /\ Ring(uart) /\ fifo \in Seq(1..MaxByte)
      /\ uart.rpos + Count(uart) + Len(fifo) <= sent
  BY DEF IInv, Hardware
<1> DEFINE d == Lost(Count(uart) + Len(fifo), uart.size)
           v == Copied(uart)
           t == RingBytes(uart) \o fifo
<1>2. /\ Ring(v) /\ v.size = uart.size
      /\ RingBytes(v) = Rest(t, d)
      /\ d = 0 => v.rpos = uart.rpos
      /\ v.rpos + Count(v) <= uart.rpos + Count(uart) + Len(fifo)
  BY <1>1, CopiedBytes
<1>3. /\ t \in Seq(Content) /\ Len(t) = Count(uart) + Len(fifo)
  BY Facts, ConcatProperties
<1> HIDE DEF v, t
<1>4. d \in Nat /\ d <= Len(t) /\ Count(uart) <= Len(t) - d
  <2>1. \A c, s, f \in Nat : c <= s - 1 => LET e == IF c + f > s - 1 THEN (c + f) - (s - 1) ELSE 0
                                           IN  e \in Nat /\ e <= c + f /\ c <= (c + f) - e
    OBVIOUS
  <2>2. Count(uart) \in Nat /\ uart.size \in Nat /\ Len(fifo) \in Nat /\ Count(uart) <= uart.size - 1
    BY Facts
  <2> QED BY <1>3, <2>1, <2>2 DEF Lost
<1> HIDE DEF d
<1>5. Count(v) = Len(t) - d
  <2>1. Len(RingBytes(v)) = Count(v)
    BY <1>2, RingBytesIs
  <2>2. Len(Rest(t, d)) = Len(t) - d
    BY <1>3, <1>4, RestIs
  <2> QED BY <1>2, <2>1, <2>2
<1>6. Count(v) \in Nat /\ v.rpos \in Nat
  BY <1>2, CountIs
<1>7. v.rpos + Count(v) <= sent
  <2>1. uart.rpos + Count(uart) + Len(fifo) \in Nat /\ sent \in Nat
    BY Facts
  <2> QED BY <1>1, <1>2, <1>6, <2>1
<1>8. open /\ ~Drops => d = 0
  BY Facts DEF d
<1> QED BY <1>2, <1>4, <1>5, <1>6, <1>7, <1>8 DEF v

-----------------------------------------------------------------------------
(* A new ring is empty.                                                    *)
LEMMA EmptyRing ==
  ASSUME NEW s \in Sizes
  PROVE  Ring(Empty(s)) /\ Empty(s).size = s /\ Empty(s).rpos = 0 /\ Count(Empty(s)) = 0
<1>1. s \in Nat \ {0, 1} /\ 0 \in 0..(s - 1) /\ Unwritten \in Content
  BY UartAssumption DEF Content, Byte, Unwritten
<1>2. Ring(Empty(s))
  BY <1>1 DEF Ring, Empty
<1>3. Empty(s).size = s /\ Empty(s).rpos = 0 /\ Empty(s).wpos = 0
  BY DEF Empty
<1>4. Count(Empty(s)) = 0
  <2>1. Count(Empty(s)) = IF 0 <= 0 THEN 0 - 0 ELSE 0 + s - 0
    BY <1>2, <1>3, CountIs
  <2> QED BY <2>1
<1> QED BY <1>2, <1>3, <1>4

(* The receiver starts closed, with nothing on the line.                   *)
LEMMA InitIInv == Init => IInv
<1> SUFFICES ASSUME Init PROVE IInv
  OBVIOUS
<1>1. Ring(uart) /\ uart.rpos = 0 /\ Count(uart) = 0
  BY EmptyRing DEF Init
<1>2. MaxByte \in Nat /\ FifoSize \in Nat
  BY UartAssumption
<1>3. fifo \in Seq(1..MaxByte) /\ Len(fifo) = 0
  BY DEF Init
<1>4. Hardware
  <2>1. sent = 0 /\ 0 \in 0..MaxByte /\ uart.rpos + Count(uart) + Len(fifo) <= sent /\ Len(fifo) <= FifoSize
    BY <1>1, <1>2, <1>3 DEF Init
  <2> QED BY <1>3, <2>1 DEF Init, Hardware
<1>5. Looking
  BY <1>2 DEF Init, Looking
<1> QED BY <1>1, <1>4, <1>5 DEF IInv

(* The ring stays as it is, or bytes join it behind those that are there.  *)
LEMMA LookingOn ==
  ASSUME IInv, Ring(uart'), UNCHANGED callVars, open' = open,
         uart'.size = uart.size, Count(uart) <= Count(uart'),
         lapped' \in BOOLEAN, ~lapped' => ~lapped /\ (open => uart'.rpos = uart.rpos)
  PROVE  Looking'
<1>1. Count(uart) \in Nat /\ Count(uart') \in Nat
  BY Facts, CountIs
<1>2. Looking /\ pc' = pc /\ n' = n /\ p' = p
  BY DEF IInv, callVars
<1>3. pc # "idle" => n <= Count(uart')
  BY <1>1, <1>2 DEF Looking
<1> QED BY <1>2, <1>3 DEF Looking

(* The line delivers to the FIFO, or the byte is lost with an overrun.     *)
LEMMA ReceiveStep == ASSUME IInv, Receive PROVE IInv'
<1>1. /\ open /\ sent < MaxByte /\ sent' = sent + 1
      /\ UNCHANGED <<gdb, open, uart, rx_size, callVars, got, lapped>>
      /\ \/ Len(fifo) < FifoSize /\ fifo' = Append(fifo, sent + 1) /\ uiff' \in BOOLEAN /\ UNCHANGED uiof
         \/ uiof' = TRUE /\ UNCHANGED <<fifo, uiff>>
  BY DEF Receive, IInv, Hardware
<1>2. /\ Count(uart) \in Nat /\ Len(fifo) \in Nat /\ sent \in Nat /\ MaxByte \in Nat /\ uart.rpos \in Nat
      /\ FifoSize \in Nat
  BY Facts, UartAssumption
<1>3. /\ fifo' \in Seq(1..MaxByte) /\ Len(fifo') <= FifoSize
      /\ uart.rpos + Count(uart) + Len(fifo') <= sent + 1
  <2>1. fifo \in Seq(1..MaxByte) /\ Len(fifo) <= FifoSize /\ uart.rpos + Count(uart) + Len(fifo) <= sent
    BY DEF IInv, Hardware
  <2>2. sent + 1 \in 1..MaxByte
    BY <1>1, <1>2
  <2>3. CASE Len(fifo) < FifoSize /\ fifo' = Append(fifo, sent + 1)
    <3>1. fifo' \in Seq(1..MaxByte) /\ Len(fifo') = Len(fifo) + 1
      BY <2>1, <2>2, <2>3, AppendProperties
    <3> QED BY <1>2, <2>1, <2>3, <3>1
  <2>4. CASE fifo' = fifo
    BY <1>2, <2>1, <2>4
  <2> QED BY <1>1, <2>3, <2>4
<1>4. sent + 1 \in 0..MaxByte
  BY <1>1, <1>2
<1>5. Ring(uart)' /\ Count(uart') = Count(uart)
  BY <1>1 DEF IInv
<1>6. Hardware'
  BY <1>1, <1>3, <1>4 DEF IInv, Hardware
<1>7. Looking'
  BY <1>1, <1>2, <1>5, LookingOn DEF IInv, Hardware
<1> QED BY <1>5, <1>6, <1>7 DEF IInv

(* The ring and the FIFO after a step that keeps the rest of the hardware. *)
LEMMA HardwareOn ==
  ASSUME IInv, UNCHANGED <<gdb, open, rx_size, sent>>,
         fifo' \in Seq(1..MaxByte), Len(fifo') <= FifoSize,
         uiff' \in BOOLEAN, uiof' \in BOOLEAN, lapped' \in BOOLEAN,
         uart'.rpos + Count(uart') + Len(fifo') <= sent,
         got' = got \/ open
  PROVE  Hardware'
  BY DEF IInv, Hardware

(* A FIFO that has been emptied.                                           *)
LEMMA EmptyFifo ==
  /\ <<>> \in Seq(1..MaxByte) /\ Len(<<>>) = 0 /\ 0 <= FifoSize
  /\ \A a, b \in Nat : a + b + 0 = a + b
  BY UartAssumption

(* The interrupt copies the FIFO to the ring.                              *)
LEMMA IsrStep == ASSUME IInv, uart_isr PROVE IInv'
<1> DEFINE v == IF uiff THEN Copied(uart) ELSE uart
<1>1. /\ open /\ uart' = [v EXCEPT !.overrun = @ \/ uiof]
      /\ fifo' = (IF uiff THEN <<>> ELSE fifo)
      /\ lapped' = (lapped \/ (uiff /\ Drops))
      /\ uiff' = FALSE /\ uiof' = FALSE
      /\ UNCHANGED <<gdb, open, rx_size, sent, callVars, got>>
  BY DEF uart_isr
<1>2. Ring(uart) /\ uiff \in BOOLEAN /\ uiof \in BOOLEAN /\ lapped \in BOOLEAN /\ fifo \in Seq(1..MaxByte) /\ Len(fifo) <= FifoSize
      /\ uart.rpos + Count(uart) + Len(fifo) <= sent
  BY DEF IInv, Hardware
<1>3. /\ Ring(v) /\ v.size = uart.size /\ Count(uart) <= Count(v)
      /\ v.rpos + Count(v) + Len(fifo') <= sent
      /\ ~(uiff /\ Drops) => v.rpos = uart.rpos
  <2>1. CASE uiff
    <3>1. v = Copied(uart) /\ Len(fifo') = 0
      BY <1>1, <2>1
    <3>2. v.rpos + Count(v) + 0 = v.rpos + Count(v)
      BY <3>1, CopyStep
    <3> QED BY <1>1, <2>1, <3>1, <3>2, CopyStep
  <2>2. CASE ~uiff
    <3>1. v = uart /\ fifo' = fifo
      BY <1>1, <2>2
    <3> QED BY <1>2, <2>2, <3>1, Facts
  <2> QED BY <2>1, <2>2
<1> HIDE DEF v
<1>4. /\ uart'.size = v.size /\ uart'.rpos = v.rpos /\ uart'.wpos = v.wpos /\ uart'.buffer = v.buffer
      /\ Ring(uart')
  BY <1>1, <1>2, <1>3 DEF Ring
<1>5. Count(uart') = Count(v)
  BY <1>4, SameRing
<1>6. fifo' \in Seq(1..MaxByte) /\ Len(fifo') <= FifoSize
  BY <1>1, <1>2, EmptyFifo
<1>7. lapped' \in BOOLEAN /\ (~lapped' => ~lapped /\ uart'.rpos = uart.rpos)
  BY <1>1, <1>2, <1>3, <1>4
<1>8. Hardware'
  BY <1>1, <1>3, <1>4, <1>5, <1>6, <1>7, HardwareOn
<1>9. Looking'
  BY <1>1, <1>3, <1>4, <1>5, <1>7, LookingOn
<1> QED BY <1>4, <1>8, <1>9 DEF IInv

(* The stub of GDB hands over a byte.                                      *)
LEMMA GdbByteStep == ASSUME IInv, GdbByte PROVE IInv'
<1>1. Ring(uart) /\ uiff \in BOOLEAN /\ uiof \in BOOLEAN /\ lapped \in BOOLEAN /\ fifo \in Seq(1..MaxByte) /\ Len(fifo) <= FifoSize
      /\ uart.rpos + Count(uart) + Len(fifo) <= sent /\ open \in BOOLEAN
  BY DEF IInv, Hardware
<1>2. /\ fifo # <<>> /\ fifo' = Tail(fifo)
      /\ UNCHANGED <<gdb, open, rx_size, sent, callVars, got>>
  BY DEF GdbByte
<1>3. /\ fifo' \in Seq(1..MaxByte) /\ Len(fifo') = Len(fifo) - 1 /\ Head(fifo) \in Content
      /\ Len(fifo) \in Nat \ {0}
  <2>1. /\ Tail(fifo) \in Seq(1..MaxByte) /\ Len(Tail(fifo)) = Len(fifo) - 1 /\ Head(fifo) \in 1..MaxByte
        /\ Len(fifo) \in Nat \ {0}
    <3>1. fifo \in Seq(1..MaxByte) /\ fifo # <<>>
      BY <1>1, <1>2
    <3>2. /\ Tail(fifo) \in Seq(1..MaxByte) /\ Len(Tail(fifo)) = Len(fifo) - 1 /\ Head(fifo) \in 1..MaxByte
      BY <3>1, HeadTailProperties
    <3>3. Len(fifo) \in Nat \ {0}
      BY <3>1, EmptySeq
    <3> QED BY <3>2, <3>3
  <2>2. Head(fifo) \in Content
    BY <2>1, UartAssumption DEF Content, Byte, Unwritten
  <2> QED BY <1>2, <2>1, <2>2
<1>4. Len(fifo') <= FifoSize
  BY <1>1, <1>3, UartAssumption
<1>5. uart.rpos \in Nat /\ Count(uart) \in Nat /\ sent \in Nat
  BY Facts
<1>6. CASE open
  <2> DEFINE v == Put(uart, Head(fifo))
  <2>1. /\ uart' = [v EXCEPT !.overrun = @ \/ uiof]
        /\ lapped' = (lapped \/ Full(uart))
        /\ uiff' = FALSE /\ uiof' = FALSE
    BY <1>6 DEF GdbByte
  <2>2. /\ Ring(v) /\ v.size = uart.size
        /\ ~Full(uart) => v.rpos = uart.rpos
    BY <1>1, <1>3, PutFields
  <2>3. /\ Count(v) = (IF Full(uart) THEN Count(uart) ELSE Count(uart) + 1)
        /\ v.rpos + Count(v) <= uart.rpos + Count(uart) + 1
    BY <1>1, <1>3, PutBytes
  <2> HIDE DEF v
  <2>4. /\ uart'.size = v.size /\ uart'.rpos = v.rpos /\ uart'.wpos = v.wpos /\ uart'.buffer = v.buffer
        /\ Ring(uart')
    BY <1>1, <2>1, <2>2 DEF Ring
  <2>5. Count(uart') = Count(v)
    BY <2>4, SameRing
  <2>6. Count(uart) <= Count(v) /\ v.rpos + Count(v) + Len(fifo') <= sent /\ Full(uart) \in BOOLEAN
    <3>1. v.rpos \in Nat /\ Count(v) \in Nat
      BY <2>2, CountIs
    <3>2. Count(uart) <= Count(v)
      BY <1>5, <2>3
    <3>3. v.rpos + Count(v) + Len(fifo') <= sent
      <4>1. \A r, c, q, k, f, g, m \in Nat : r + c <= q + k + 1 /\ g = f - 1 /\ q + k + f <= m => r + c + g <= m
        OBVIOUS
      <4>2. Len(fifo') \in Nat /\ Len(fifo) \in Nat
        BY <1>3
      <4> QED BY <1>1, <1>3, <1>5, <2>3, <3>1, <4>1, <4>2
    <3> QED BY <3>2, <3>3 DEF Full
  <2>7. lapped' \in BOOLEAN /\ (~lapped' => ~lapped /\ uart'.rpos = uart.rpos)
    BY <1>1, <2>1, <2>2, <2>4, <2>6
  <2>8. Hardware'
    BY <1>2, <1>3, <1>4, <2>1, <2>4, <2>5, <2>6, <2>7, HardwareOn
  <2>9. Looking'
    BY <1>2, <2>2, <2>4, <2>5, <2>6, <2>7, LookingOn
  <2> QED BY <2>4, <2>8, <2>9 DEF IInv
<1>7. CASE ~open
  <2>1. UNCHANGED <<uart, lapped, uiff, uiof>>
    BY <1>7 DEF GdbByte
  <2>2. uart.rpos + Count(uart) + Len(fifo') <= sent
    BY <1>1, <1>3, <1>5
  <2>3. Hardware'
    BY <1>1, <1>2, <1>3, <1>4, <2>1, <2>2, HardwareOn
  <2>4. Looking'
    BY <1>1, <1>2, <1>5, <2>1, LookingOn
  <2> QED BY <1>1, <2>1, <2>3, <2>4 DEF IInv
<1> QED BY <1>6, <1>7

(* No call is suspended.                                                   *)
LEMMA LookingIdle == ASSUME IInv, pc = "idle", UNCHANGED callVars PROVE Looking'
  BY DEF IInv, Looking, callVars

(* begin() makes a new ring, or fails and leaves the receiver closed.      *)
LEMMA BeginStep == ASSUME IInv, Begin PROVE IInv'
<1>1. /\ pc = "idle" /\ UNCHANGED <<gdb, rx_size, sent, callVars, lapped>>
      /\ got' = Answer("restart", 0, <<>>)
      /\ \/ open' = TRUE /\ uart' = Empty(rx_size)
         \/ open' = FALSE /\ UNCHANGED uart
      /\ \/ UNCHANGED <<fifo, uiff, uiof>>
         \/ fifo' = <<>> /\ uiff' = FALSE /\ uiof' = FALSE
  BY DEF Begin
<1>2. Hardware /\ Ring(uart)
  BY DEF IInv
<1>3. Ring(uart') /\ uart'.rpos + Count(uart') <= uart.rpos + Count(uart)
      /\ uart'.rpos \in Nat /\ Count(uart') \in Nat /\ uart.rpos \in Nat /\ Count(uart) \in Nat
  <2>1. uart.rpos \in Nat /\ Count(uart) \in Nat
    BY Facts
  <2>2. CASE uart' = Empty(rx_size)
    <3>1. Ring(uart') /\ uart'.rpos = 0 /\ Count(uart') = 0
      BY <1>2, <2>2, EmptyRing DEF Hardware
    <3> QED BY <2>1, <3>1
  <2>3. CASE uart' = uart
    BY <1>2, <2>1, <2>3
  <2> QED BY <1>1, <2>2, <2>3
<1>4. fifo' \in Seq(1..MaxByte) /\ Len(fifo') <= FifoSize /\ Len(fifo') <= Len(fifo) /\ Len(fifo') \in Nat
      /\ uiff' \in BOOLEAN /\ uiof' \in BOOLEAN
  <2>1. fifo \in Seq(1..MaxByte) /\ Len(fifo) <= FifoSize /\ Len(fifo) \in Nat /\ uiff \in BOOLEAN /\ uiof \in BOOLEAN
    BY <1>2, Facts DEF Hardware
  <2>2. CASE fifo' = <<>> /\ uiff' = FALSE /\ uiof' = FALSE
    <3>1. fifo' \in Seq(1..MaxByte) /\ Len(fifo') = 0 /\ 0 <= FifoSize
      BY <2>2, EmptyFifo
    <3>2. Len(fifo') <= Len(fifo) /\ Len(fifo') <= FifoSize /\ Len(fifo') \in Nat
      BY <2>1, <3>1
    <3> QED BY <2>2, <3>1, <3>2
  <2>3. CASE UNCHANGED <<fifo, uiff, uiof>>
    BY <2>1, <2>3
  <2> QED BY <1>1, <2>2, <2>3
<1>5. uart'.rpos + Count(uart') + Len(fifo') <= sent
  <2>1. uart.rpos + Count(uart) + Len(fifo) <= sent /\ Len(fifo) \in Nat /\ sent \in Nat
    BY <1>2, Facts DEF Hardware
  <2> QED BY <1>3, <1>4, <2>1
<1>6. Hardware'
  BY <1>1, <1>2, <1>4, <1>5 DEF Hardware
<1> QED BY <1>1, <1>3, <1>6, LookingIdle DEF IInv

(* end() closes.                                                           *)
LEMMA EndStep == ASSUME IInv, End PROVE IInv'
<1>1. /\ pc = "idle" /\ UNCHANGED <<gdb, uart, rx_size, fifo, sent, callVars, lapped>>
      /\ got' = Answer("restart", 0, <<>>) /\ open' = FALSE
      /\ \/ UNCHANGED <<uiff, uiof>>
         \/ uiff' = FALSE /\ uiof' = FALSE
  BY DEF End
<1>2. Hardware'
  BY <1>1 DEF IInv, Hardware
<1>3. Looking'
  BY <1>1, LookingIdle
<1>4. Ring(uart')
  BY <1>1 DEF IInv
<1> QED BY <1>2, <1>3, <1>4 DEF IInv

(* setRxBufferSize() of a closed receiver only keeps the number.           *)
LEMMA SetSizeClosedStep == ASSUME IInv, NEW s \in Sizes, SetSizeClosed(s) PROVE IInv'
<1>1. /\ pc = "idle" /\ UNCHANGED <<gdb, open, uart, hwVars, callVars, lapped>>
      /\ got' = Answer("restart", 0, <<>>) /\ rx_size' = s
  BY DEF SetSizeClosed
<1>2. Hardware'
  BY <1>1 DEF IInv, Hardware, hwVars
<1>3. Looking'
  BY <1>1, LookingIdle
<1>4. Ring(uart')
  BY <1>1 DEF IInv
<1> QED BY <1>2, <1>3, <1>4 DEF IInv

(* The bytes that resizing keeps: all of the ring, or none.                *)
LEMMA ResizedRing ==
  ASSUME IInv, NEW s \in Sizes, Resize(s)
  PROVE  /\ Ring(uart') /\ uart'.size = s /\ uart'.rpos = 0
         /\ uart'.wpos = IF Moved(s) = s THEN 0 ELSE Moved(s)
         /\ Count(uart') = uart'.wpos /\ Count(uart') \in Nat
         /\ Count(uart') = 0 \/ (Count(uart') = Count(uart) /\ fifo = <<>>)
         /\ uart'.overrun = uart.overrun
         /\ \A i \in 1..Count(uart) : i <= s => uart'.buffer[i - 1] = RingBytes(uart)[i]
<1> DEFINE w == IF Moved(s) = s THEN 0 ELSE Moved(s)
           f == [i \in 0..(s - 1) |-> IF i < Count(uart) THEN RingBytes(uart)[i + 1]
                                      ELSE IF i < Moved(s) THEN MinusOne ELSE Unwritten]
<1>1. /\ uart' = [uart EXCEPT !.size = s, !.rpos = 0, !.wpos = w, !.buffer = f]
      /\ uart = [size |-> uart.size, rpos |-> uart.rpos, wpos |-> uart.wpos, overrun |-> uart.overrun, buffer |-> uart.buffer]
      /\ uart.overrun \in BOOLEAN
  BY DEF Resize, IInv, Ring
<1>2. s \in Nat \ {0, 1} /\ Count(uart) \in Nat /\ RingBytes(uart) \in Seq(Content) /\ Len(RingBytes(uart)) = Count(uart)
  BY Facts, UartAssumption
<1>3. /\ w \in 0..(s - 1)
      /\ w = 0 \/ (w = Count(uart) /\ fifo = <<>>)
  BY <1>2 DEF Moved, Least
<1>4. f \in [0..(s - 1) -> Content]
  <2>1. MinusOne \in Content /\ Unwritten \in Content
    BY UartAssumption DEF Content, Byte, Unwritten
  <2>2. ASSUME NEW i \in 0..(s - 1), i < Count(uart) PROVE RingBytes(uart)[i + 1] \in Content
    <3>1. i + 1 \in 1..Len(RingBytes(uart))
      BY <1>2, <2>2
    <3> QED BY <1>2, <3>1, ElementOfSeq
  <2> HIDE DEF Content
  <2> QED BY <2>1, <2>2
<1>5. \A i \in 1..Count(uart) : i <= s => f[i - 1] = RingBytes(uart)[i]
  <2> SUFFICES ASSUME NEW i \in 1..Count(uart), i <= s PROVE f[i - 1] = RingBytes(uart)[i]
    OBVIOUS
  <2>1. i - 1 \in 0..(s - 1) /\ i - 1 < Count(uart) /\ (i - 1) + 1 = i
    BY <1>2
  <2> QED BY <2>1
<1> HIDE DEF f, w
<1>6. uart' = [size |-> s, rpos |-> 0, wpos |-> w, overrun |-> uart.overrun, buffer |-> f]
  BY <1>1
<1>7. Ring(uart')
  <2>1. 0 \in 0..(s - 1)
    BY <1>2
  <2> QED BY <1>1, <1>3, <1>4, <1>6, <2>1 DEF Ring
<1>8. Count(uart') = w
  <2>1. uart'.rpos = 0 /\ uart'.wpos = w
    BY <1>6
  <2>2. Count(uart') = IF 0 <= w THEN w - 0 ELSE w + uart'.size - 0
    BY <1>7, <2>1, CountIs
  <2> QED BY <1>2, <1>3, <2>2
<1>9. w \in Nat
  BY <1>2, <1>3
<1> QED BY <1>3, <1>5, <1>6, <1>7, <1>8, <1>9 DEF w

(* setRxBufferSize() of an open one moves the ring to a new buffer.        *)
LEMMA ResizeStep == ASSUME IInv, NEW s \in Sizes, Resize(s) PROVE IInv'
<1>1. /\ pc = "idle" /\ UNCHANGED <<gdb, open, hwVars, callVars, lapped>>
      /\ got' = Answer("restart", 0, <<>>) /\ rx_size' = s
  BY DEF Resize
<1>2. Ring(uart') /\ uart'.rpos = 0 /\ (Count(uart') = 0 \/ Count(uart') = Count(uart))
  BY ResizedRing
<1>3. uart'.rpos + Count(uart') + Len(fifo) <= sent
  <2>1. uart.rpos + Count(uart) + Len(fifo) <= sent /\ Len(fifo) \in Nat /\ sent \in Nat /\ uart.rpos \in Nat /\ Count(uart) \in Nat
    BY Facts DEF IInv, Hardware
  <2> QED BY <1>2, <2>1
<1>4. Hardware'
  BY <1>1, <1>3 DEF IInv, Hardware, hwVars
<1> QED BY <1>1, <1>2, <1>4, LookingIdle DEF IInv

-----------------------------------------------------------------------------
(* What read() takes.                                                      *)
LEMMA Taken ==
  ASSUME IInv, NEW k \in Amounts
  PROVE  /\ FromRing(k) \in 0..Count(uart) /\ FromFifo(k) \in 0..Len(fifo)
         /\ FromRing(k) \in Nat /\ FromFifo(k) \in Nat
         /\ FromRing(k) + FromFifo(k) = Least(k, Count(uart) + Len(fifo))
         /\ FromFifo(k) # 0 => FromRing(k) = Count(uart)
<1>1. Count(uart) \in Nat /\ Len(fifo) \in Nat /\ k \in Nat
  BY Facts, UartAssumption DEF Amounts
<1> QED BY <1>1 DEF FromRing, FromFifo, Least

(* A FIFO from which bytes were read.                                      *)
LEMMA RestOfFifo ==
  ASSUME IInv, NEW k \in 0..Len(fifo)
  PROVE  Rest(fifo, k) \in Seq(1..MaxByte) /\ Len(Rest(fifo, k)) = Len(fifo) - k /\ Len(Rest(fifo, k)) <= FifoSize
<1>1. Len(fifo) \in Nat /\ k \in Nat /\ k <= Len(fifo) /\ fifo \in Seq(1..MaxByte) /\ Len(fifo) <= FifoSize /\ FifoSize \in Nat
  BY Facts, UartAssumption DEF IInv, Hardware
<1>2. Rest(fifo, k) \in Seq(1..MaxByte) /\ Len(Rest(fifo, k)) = Len(fifo) - k
  BY <1>1, RestIs
<1> QED BY <1>1, <1>2

(* What read() leaves in the ring and in the FIFO.                         *)
LEMMA ReadRing ==
  ASSUME IInv, NEW k \in Amounts, Read(k)
  PROVE  /\ Ring(uart') /\ uart'.size = uart.size /\ uart'.overrun = uart.overrun
         /\ Count(uart') = Count(uart) - FromRing(k)
         /\ uart'.rpos + Count(uart') <= uart.rpos + Count(uart)
         /\ RingBytes(uart') = Rest(RingBytes(uart), FromRing(k))
         /\ fifo' = Rest(fifo, FromFifo(k))
<1> DEFINE j == FromRing(k)
           v == [uart EXCEPT !.rpos = IF uart.rpos + j < uart.size THEN uart.rpos + j ELSE uart.rpos + j - uart.size]
<1>1. uart' = [uart EXCEPT !.rpos = (@ + j) % uart.size]
  BY DEF Read
<1>2. Ring(uart) /\ j \in 0..Count(uart)
  BY Taken DEF IInv
<1> HIDE DEF j, v
<1>3. /\ Ring(v) /\ v.size = uart.size /\ v.overrun = uart.overrun
      /\ (uart.rpos + j) % uart.size = v.rpos
      /\ Count(v) = Count(uart) - j
      /\ v.rpos + Count(v) <= uart.rpos + Count(uart)
      /\ RingBytes(v) = Rest(RingBytes(uart), j)
  <2>1. Advances(uart, v, j)
    BY DEF Advances, v
  <2> QED BY <1>2, <2>1, Advance
<1>4. v.rpos = IF uart.rpos + j < uart.size THEN uart.rpos + j ELSE uart.rpos + j - uart.size
  BY <1>2 DEF Ring, v
<1>5. uart' = v
  BY <1>1, <1>3, <1>4 DEF v
<1> QED BY <1>3, <1>5 DEF j, Read, Rest

(* read() takes from both.                                                 *)
LEMMA ReadStep == ASSUME IInv, NEW k \in Amounts, Read(k) PROVE IInv'
<1>1. /\ pc = "idle" /\ open /\ UNCHANGED <<gdb, open, rx_size, uiff, uiof, sent, callVars, lapped>>
      /\ fifo' = Rest(fifo, FromFifo(k))
  BY ReadRing DEF Read
<1>2. Ring(uart') /\ uart'.rpos + Count(uart') <= uart.rpos + Count(uart)
  BY ReadRing
<1>3. fifo' \in Seq(1..MaxByte) /\ Len(fifo') = Len(fifo) - FromFifo(k) /\ Len(fifo') <= FifoSize
  BY <1>1, Taken, RestOfFifo
<1>4. uart'.rpos + Count(uart') + Len(fifo') <= sent
  <2>1. uart.rpos + Count(uart) + Len(fifo) <= sent /\ Len(fifo) \in Nat /\ sent \in Nat /\ uart.rpos \in Nat /\ Count(uart) \in Nat
    BY Facts DEF IInv, Hardware
  <2>2. uart'.rpos \in Nat /\ Count(uart') \in Nat
    BY <1>2, CountIs
  <2>3. FromFifo(k) \in Nat
    BY Taken
  <2>4. \A r, c, q, d, f, j, m \in Nat : r + c <= q + d /\ q + d + f <= m => r + c + (f - j) <= m
    OBVIOUS
  <2>5. uart'.rpos + Count(uart') + (Len(fifo) - FromFifo(k)) <= sent
    BY <1>2, <2>1, <2>2, <2>3, <2>4
  <2> QED BY <1>3, <2>5
<1>5. uiff \in BOOLEAN /\ uiof \in BOOLEAN /\ lapped \in BOOLEAN
  BY DEF IInv, Hardware
<1>6. Hardware'
  BY <1>1, <1>3, <1>4, <1>5, HardwareOn
<1> QED BY <1>1, <1>2, <1>6, LookingIdle DEF IInv

(* available() announces what the ring can satisfy.                        *)
LEMMA CountRingStep == ASSUME IInv, CountRing PROVE IInv'
<1>1. /\ pc = "idle" /\ open /\ n' = Count(uart) /\ pc' = "counted"
      /\ UNCHANGED <<gdb, open, uart, rx_size, hwVars, p, got, lapped>>
  BY DEF CountRing
<1>2. Count(uart) \in 0..MaxByte
  <2>1. /\ uart.rpos + Count(uart) + Len(fifo) <= sent /\ Len(fifo) \in Nat /\ sent \in Nat /\ uart.rpos \in Nat /\ Count(uart) \in Nat
        /\ sent <= MaxByte /\ MaxByte \in Nat
    BY Facts DEF IInv, Hardware
  <2> QED BY <2>1
<1>3. Hardware' /\ Ring(uart')
  BY <1>1 DEF IInv, Hardware, hwVars
<1>4. Looking'
  <2>1. Count(uart) <= Count(uart)
    BY <1>2
  <2> QED BY <1>1, <1>2, <2>1 DEF IInv, Looking
<1> QED BY <1>3, <1>4 DEF IInv

(* available() answers.                                                    *)
LEMMA CountFifoStep == ASSUME IInv, CountFifo PROVE IInv'
<1>1. /\ pc = "counted" /\ pc' = "idle" /\ n' = 0
      /\ UNCHANGED <<gdb, open, uart, rx_size, hwVars, p, lapped>>
  BY DEF CountFifo
<1>2. open
  BY <1>1 DEF IInv, Looking
<1>3. Hardware' /\ Ring(uart')
  BY <1>1, <1>2 DEF IInv, Hardware, hwVars
<1>4. Looking'
  BY <1>1, UartAssumption DEF IInv, Looking
<1> QED BY <1>3, <1>4 DEF IInv

(* peek() may empty the FIFO into the ring.                                *)
LEMMA PeekCharStep == ASSUME IInv, PeekChar PROVE IInv'
<1>1. /\ pc = "idle" /\ open
      /\ \/ uart' = Copied(uart) /\ fifo' = <<>>
         \/ UNCHANGED <<uart, fifo>>
      /\ UNCHANGED <<gdb, open, rx_size, uiff, uiof, sent, callVars, lapped>>
  BY DEF PeekChar
<1>2. /\ fifo \in Seq(1..MaxByte) /\ Len(fifo) <= FifoSize
      /\ uart.rpos + Count(uart) + Len(fifo) <= sent
      /\ uiff \in BOOLEAN /\ uiof \in BOOLEAN /\ lapped \in BOOLEAN
  BY DEF IInv, Hardware
<1>3. Ring(uart') /\ fifo' \in Seq(1..MaxByte) /\ Len(fifo') <= FifoSize /\ uart'.rpos + Count(uart') + Len(fifo') <= sent
  <2>1. CASE uart' = Copied(uart) /\ fifo' = <<>>
    <3>1. Copied(uart).rpos + Count(Copied(uart)) + 0 = Copied(uart).rpos + Count(Copied(uart))
      BY CopyStep
    <3> QED BY <2>1, <3>1, CopyStep, EmptyFifo
  <2>2. CASE UNCHANGED <<uart, fifo>>
    BY <1>2, <2>2 DEF IInv
  <2> QED BY <1>1, <2>1, <2>2
<1>4. Hardware'
  BY <1>1, <1>2, <1>3, HardwareOn
<1> QED BY <1>1, <1>3, <1>4, LookingIdle DEF IInv

(* The bytes up to the end of the buffer lie in the buffer.                *)
LEMMA ContiguousIs ==
  ASSUME NEW u, Ring(u)
  PROVE  Contiguous(u) \in 0..Count(u) /\ u.rpos + Contiguous(u) <= u.size
<1>1. /\ u.size \in Nat \ {0, 1} /\ u.rpos \in Nat /\ u.wpos \in Nat /\ u.rpos < u.size /\ u.wpos < u.size
      /\ Count(u) = IF u.rpos <= u.wpos THEN u.wpos - u.rpos ELSE u.wpos + u.size - u.rpos
  BY CountIs
<1> QED BY <1>1 DEF Contiguous

(* peekAvailable() counts those after the FIFO is in the ring.             *)
LEMMA PeekAvailableStep == ASSUME IInv, PeekAvailable PROVE IInv'
<1>1. /\ pc = "idle" /\ open /\ uart' = Copied(uart) /\ fifo' = <<>>
      /\ n' = Contiguous(uart') /\ pc' \in {"idle", "peeked"} /\ lapped' = FALSE
      /\ UNCHANGED <<gdb, open, rx_size, uiff, uiof, sent, p, got>>
  BY DEF PeekAvailable
<1>2. Ring(uart') /\ uart'.rpos + Count(uart') <= sent /\ Count(uart') \in Nat /\ uart'.rpos \in Nat
  BY <1>1, CopyStep
<1>3. uart'.rpos + Count(uart') + Len(fifo') <= sent
  <2>1. uart'.rpos + Count(uart') + 0 = uart'.rpos + Count(uart')
    BY <1>2
  <2> QED BY <1>1, <1>2, <2>1, EmptyFifo
<1>4. uiff \in BOOLEAN /\ uiof \in BOOLEAN
  BY DEF IInv, Hardware
<1>5. Hardware'
  BY <1>1, <1>3, <1>4, EmptyFifo, HardwareOn
<1>6. n' \in 0..Count(uart') /\ uart'.rpos + n' <= uart'.size
  BY <1>1, <1>2, ContiguousIs
<1>7. n' \in 0..MaxByte /\ n' <= Count(uart')
  <2>1. sent \in Nat /\ MaxByte \in Nat /\ sent <= MaxByte
    BY Facts DEF IInv, Hardware
  <2> QED BY <1>2, <1>6, <2>1
<1>8. Looking'
  BY <1>1, <1>6, <1>7 DEF IInv, Looking
<1> QED BY <1>2, <1>5, <1>8 DEF IInv

(* peekBuffer() points to the next byte.                                   *)
LEMMA PeekBufferStep == ASSUME IInv, PeekBuffer PROVE IInv'
<1>1. /\ pc = "peeked" /\ p' = uart.rpos /\ pc' = "pointed"
      /\ UNCHANGED <<gdb, open, uart, rx_size, hwVars, n, got, lapped>>
  BY DEF PeekBuffer
<1>2. uart.rpos \in 0..MaxByte
  <2>1. /\ uart.rpos + Count(uart) + Len(fifo) <= sent /\ Len(fifo) \in Nat /\ sent \in Nat /\ uart.rpos \in Nat /\ Count(uart) \in Nat
        /\ sent <= MaxByte /\ MaxByte \in Nat
    BY Facts DEF IInv, Hardware
  <2> QED BY <2>1
<1>3. Hardware' /\ Ring(uart')
  BY <1>1 DEF IInv, Hardware, hwVars
<1>4. Looking'
  BY <1>1, <1>2 DEF IInv, Looking
<1> QED BY <1>3, <1>4 DEF IInv

(* What peekConsume() leaves.                                              *)
LEMMA ConsumedRing ==
  ASSUME IInv, NEW k \in Amounts, PeekConsume(k)
  PROVE  /\ k \in 0..Count(uart) /\ Ring(uart') /\ uart'.size = uart.size /\ uart'.overrun = uart.overrun
         /\ Count(uart') = Count(uart) - k
         /\ uart'.rpos + Count(uart') <= uart.rpos + Count(uart)
         /\ RingBytes(uart') = Rest(RingBytes(uart), k)
<1>1. /\ uart' = [uart EXCEPT !.rpos = Advanced(k)] /\ k <= n /\ pc = "pointed"
  BY DEF PeekConsume
<1>2. k \in Nat /\ Count(uart) \in Nat /\ n \in Nat /\ uart.rpos \in Nat /\ uart.size \in Nat /\ n <= Count(uart)
  <2>1. k \in Nat
    BY UartAssumption DEF Amounts
  <2>2. n \in Nat /\ n <= Count(uart)
    BY <1>1, UartAssumption DEF IInv, Looking
  <2> QED BY <2>1, <2>2, Facts
<1>3. k \in 0..Count(uart)
  BY <1>1, <1>2
<1>4. uart' = [uart EXCEPT !.rpos = IF uart.rpos + k < uart.size THEN uart.rpos + k ELSE uart.rpos + k - uart.size]
  BY <1>1, <1>2 DEF Advanced
<1>5. Ring(uart)
  BY DEF IInv
<1>6. /\ Ring(uart') /\ uart'.size = uart.size /\ uart'.overrun = uart.overrun
      /\ Count(uart') = Count(uart) - k
      /\ uart'.rpos + Count(uart') <= uart.rpos + Count(uart)
      /\ RingBytes(uart') = Rest(RingBytes(uart), k)
  <2>1. Advances(uart, uart', k)
    BY <1>4 DEF Advances
  <2> QED BY <1>3, <1>5, <2>1, Advance
<1> QED BY <1>3, <1>6

(* peekConsume() takes no more than was announced.                         *)
LEMMA PeekConsumeStep == ASSUME IInv, NEW k \in Amounts, PeekConsume(k) PROVE IInv'
<1>1. /\ pc = "pointed" /\ pc' = "idle" /\ n' = 0 /\ p' = 0
      /\ UNCHANGED <<gdb, open, rx_size, hwVars, lapped>>
  BY DEF PeekConsume
<1>2. open /\ Hardware
  BY <1>1 DEF IInv, Looking
<1>3. /\ Ring(uart') /\ uart'.rpos + Count(uart') <= uart.rpos + Count(uart)
  BY ConsumedRing
<1>4. uart'.rpos + Count(uart') + Len(fifo) <= sent
  <2>1. uart.rpos + Count(uart) + Len(fifo) <= sent /\ Len(fifo) \in Nat /\ sent \in Nat /\ uart.rpos \in Nat /\ Count(uart) \in Nat
    BY Facts DEF IInv, Hardware
  <2>2. uart'.rpos \in Nat /\ Count(uart') \in Nat
    BY <1>3, CountIs
  <2> QED BY <1>3, <2>1, <2>2
<1>5. Hardware'
  BY <1>1, <1>2, <1>4 DEF Hardware, hwVars
<1>6. Looking'
  BY <1>1, UartAssumption DEF Looking
<1> QED BY <1>3, <1>5, <1>6 DEF IInv

(* hasOverrun() clears the mark of the ring.                               *)
LEMMA HasOverrunStep == ASSUME IInv, HasOverrun PROVE IInv'
<1>1. /\ pc = "idle" /\ open /\ uart' = [uart EXCEPT !.overrun = FALSE]
      /\ UNCHANGED <<gdb, open, rx_size, hwVars, callVars, lapped>>
  BY DEF HasOverrun
<1>2. /\ Ring(uart') /\ uart'.rpos = uart.rpos /\ uart'.size = uart.size /\ uart'.wpos = uart.wpos /\ uart'.buffer = uart.buffer
  BY <1>1 DEF IInv, Ring
<1>3. Count(uart') = Count(uart)
  BY <1>2, SameRing
<1>4. Hardware'
  BY <1>1, <1>2, <1>3 DEF IInv, Hardware, hwVars
<1> QED BY <1>1, <1>2, <1>4, LookingIdle DEF IInv

-----------------------------------------------------------------------------
(* Every step keeps the inductive invariant.                               *)
LEMMA NextIInv == IInv /\ [Next]_vars => IInv'
<1> SUFFICES ASSUME IInv, [Next]_vars PROVE IInv'
  OBVIOUS
<1>1. CASE Receive
  BY <1>1, ReceiveStep
<1>2. CASE uart_isr
  BY <1>2, IsrStep
<1>3. CASE GdbByte
  BY <1>3, GdbByteStep
<1>4. CASE Begin
  BY <1>4, BeginStep
<1>5. CASE End
  BY <1>5, EndStep
<1>6. ASSUME NEW s \in Sizes, SetSizeClosed(s) \/ Resize(s) PROVE IInv'
  BY <1>6, SetSizeClosedStep, ResizeStep
<1>7. ASSUME NEW k \in Amounts, Read(k) \/ PeekConsume(k) PROVE IInv'
  BY <1>7, ReadStep, PeekConsumeStep
<1>8. CASE CountRing \/ CountFifo
  BY <1>8, CountRingStep, CountFifoStep
<1>9. CASE PeekChar \/ PeekAvailable \/ PeekBuffer \/ HasOverrun
  BY <1>9, PeekCharStep, PeekAvailableStep, PeekBufferStep, HasOverrunStep
<1>10. CASE UNCHANGED vars
  BY <1>10 DEF vars, hwVars, callVars, IInv, Ring, Hardware, Looking, Count
<1> QED BY <1>1, <1>2, <1>3, <1>4, <1>5, <1>6, <1>7, <1>8, <1>9, <1>10 DEF Next

(* It gives the types ...                                                  *)
LEMMA IInvImpliesTypeOK == IInv => TypeOK
<1> SUFFICES ASSUME IInv PROVE TypeOK
  OBVIOUS
<1>1. Ring(uart) /\ Hardware /\ Looking /\ MaxByte \in Nat /\ FifoSize \in Nat
  BY UartAssumption DEF IInv
<1>2. fifo \in Seq(Byte)
  <2>1. \A i \in 1..MaxByte : i \in Byte
    BY <1>1 DEF Byte, Unwritten
  <2>2. Len(fifo) \in Nat /\ \A i \in 1..Len(fifo) : fifo[i] \in 1..MaxByte
    BY <1>1, ElementOfSeq DEF Hardware
  <2>3. fifo = [i \in 1..Len(fifo) |-> fifo[i]]
    BY <1>1 DEF Hardware
  <2>4. \A i \in 1..Len(fifo) : fifo[i] \in Byte
    BY <2>1, <2>2
  <2> HIDE DEF Byte
  <2> QED BY <2>2, <2>3, <2>4
<1>3. n \in 0..(MaxByte + FifoSize)
  BY <1>1 DEF Looking
<1> QED BY <1>1, <1>2, <1>3 DEF TypeOK, Ring, Hardware, Looking, Content

(* ... and what a sketch looks at.                                         *)
LEMMA IInvImpliesPeek == IInv => PeekSeesPending
<1> SUFFICES ASSUME IInv, pc = "pointed", ~lapped, NEW i \in 1..n
             PROVE  p + i <= uart.size /\ uart.buffer[p + i - 1] = Pending[i]
  BY DEF PeekSeesPending
<1>1. /\ open /\ n <= Count(uart) /\ uart.rpos + n <= uart.size /\ p = uart.rpos /\ n \in Nat
  BY UartAssumption DEF IInv, Looking
<1>2. /\ uart.size \in Nat /\ uart.rpos \in Nat /\ Count(uart) \in Nat /\ fifo \in Seq(Content) /\ Len(fifo) \in Nat
      /\ RingBytes(uart) \in Seq(Content) /\ Len(RingBytes(uart)) = Count(uart)
  BY Facts
<1>3. i \in 1..Count(uart) /\ uart.rpos + i <= uart.size /\ Place(uart, i) = uart.rpos + i - 1
  BY <1>1, <1>2 DEF Place
<1>4. RingBytes(uart)[i] = uart.buffer[uart.rpos + i - 1]
  <2>1. RingBytes(uart)[i] = uart.buffer[Place(uart, i)]
    BY <1>3, RingBytesIs DEF IInv
  <2> QED BY <1>3, <2>1
<1>5. Pending[i] = RingBytes(uart)[i]
  <2>1. Pending = RingBytes(uart) \o fifo
    BY <1>1 DEF Pending
  <2>2. \A j \in 1..Len(RingBytes(uart)) : (RingBytes(uart) \o fifo)[j] = RingBytes(uart)[j]
    BY <1>2, ConcatProperties
  <2> QED BY <1>2, <1>3, <2>1, <2>2
<1> QED BY <1>1, <1>3, <1>4, <1>5

(* The invariant of the run, for every FIFO, trigger level, ring and number *)
(* of bytes: the positions stay inside the ring through every wrap, discard *)
(* and resize, and the bytes between peekBuffer() and peekConsume() lie    *)
(* inside the buffer and are those read() would give, unless an overrun has *)
(* moved the read position meanwhile (uart.cpp, HardwareSerial.cpp).       *)
THEOREM SpecInv == Spec => []Inv
<1>1. Spec => []IInv
  BY InitIInv, NextIInv, PTL DEF Spec
<1>2. IInv => Inv
  BY IInvImpliesTypeOK, IInvImpliesPeek DEF Inv
<1> QED BY <1>1, <1>2, PTL

-----------------------------------------------------------------------------
(* The room and the overrun that the pipe of SerialPipe has.               *)
Room == Least(uart.size - 1, FifoSize)
Overrun == open /\ (uart.overrun \/ uiof)

(* Leaving nothing out, or everything.                                     *)
LEMMA RestEnds ==
  ASSUME NEW S, NEW s \in Seq(S)
  PROVE  Rest(s, 0) = s /\ Rest(s, Len(s)) = <<>>
<1>1. Len(s) \in Nat
  OBVIOUS
<1>2. Rest(s, 0) = s
  <2>1. /\ Rest(s, 0) \in Seq(S) /\ Len(Rest(s, 0)) = Len(s) - 0
        /\ \A i \in 1..(Len(s) - 0) : Rest(s, 0)[i] = s[0 + i]
    BY <1>1, RestIs
  <2>2. Len(s) - 0 = Len(s) /\ \A i \in 1..Len(s) : 0 + i = i
    BY <1>1
  <2>3. Len(Rest(s, 0)) = Len(s) /\ \A i \in 1..Len(s) : Rest(s, 0)[i] = s[i]
    BY <2>1, <2>2
  <2> QED BY <2>1, <2>3, SameSeq
<1>3. Rest(s, Len(s)) = <<>>
  <2>1. Rest(s, Len(s)) \in Seq(S) /\ Len(Rest(s, Len(s))) = Len(s) - Len(s)
    BY <1>1, RestIs
  <2>2. Len(s) - Len(s) = 0
    BY <1>1
  <2> QED BY <2>1, <2>2, EmptySeq
<1> QED BY <1>2, <1>3

(* The pipe has room for what either of its two parts can hold.            *)
LEMMA RoomIs == ASSUME IInv PROVE Room \in Nat /\ Room <= uart.size - 1 /\ Room <= FifoSize
<1>1. uart.size \in Nat \ {0, 1} /\ FifoSize \in Nat
  BY Facts, UartAssumption
<1> QED BY <1>1 DEF Room, Least

(* Both ends of the pipe when the receiver is open.                        *)
LEMMA OpenPending == open => Pending = RingBytes(uart) \o fifo
  BY DEF Pending

LEMMA OpenPendingNext == open' => Pending' = RingBytes(uart') \o fifo'
  BY DEF Pending

(* Taking k bytes from the ring takes them from the pipe.                  *)
LEMMA RingRest ==
  ASSUME IInv, open, open', NEW k \in 0..Count(uart),
         RingBytes(uart') = Rest(RingBytes(uart), k), fifo' = fifo
  PROVE  Pending' = Rest(Pending, k) /\ k \in 0..Len(Pending)
<1>1. /\ RingBytes(uart) \in Seq(Content) /\ fifo \in Seq(Content) /\ Len(RingBytes(uart)) = Count(uart)
      /\ Count(uart) \in Nat /\ Len(fifo) \in Nat /\ Len(Pending) = Count(uart) + Len(fifo)
  BY Facts
<1>2. k \in Nat /\ k <= Len(RingBytes(uart))
  BY <1>1
<1>3. Rest(RingBytes(uart) \o fifo, k) = Rest(RingBytes(uart), k) \o fifo
  BY <1>1, <1>2, RestOfConcat
<1>4. Pending = RingBytes(uart) \o fifo /\ Pending' = RingBytes(uart') \o fifo'
  BY OpenPending, OpenPendingNext
<1> QED BY <1>1, <1>3, <1>4

(* Only the FIFO is left.                                                  *)
LEMMA FifoIsRest ==
  ASSUME IInv
  PROVE  \E d \in 0..Len(Pending) : fifo = Rest(Pending, d)
<1>1. /\ RingBytes(uart) \in Seq(Content) /\ fifo \in Seq(Content) /\ Len(RingBytes(uart)) = Count(uart)
      /\ Count(uart) \in Nat /\ Len(fifo) \in Nat /\ Len(Pending) = (IF open THEN Count(uart) ELSE 0) + Len(fifo)
  BY Facts
<1>2. CASE open
  <2>1. Rest(RingBytes(uart) \o fifo, Count(uart)) = Rest(RingBytes(uart), Count(uart)) \o fifo
    <3>1. Count(uart) <= Len(RingBytes(uart))
      BY <1>1
    <3> QED BY <1>1, <3>1, RestOfConcat
  <2>2. Rest(RingBytes(uart), Count(uart)) = <<>>
    BY <1>1, RestEnds
  <2>3. Rest(Pending, Count(uart)) = fifo
    BY <1>1, <1>2, <2>1, <2>2, OpenPending, ConcatEmptySeq
  <2>4. Count(uart) \in 0..Len(Pending)
    BY <1>1, <1>2
  <2> QED BY <2>3, <2>4
<1>3. CASE ~open
  <2>1. Pending = fifo
    BY <1>1, <1>3, ConcatEmptySeq DEF Pending
  <2>2. Rest(Pending, 0) = fifo
    BY <1>1, <2>1, RestEnds
  <2>3. 0 \in 0..Len(Pending)
    BY <1>1, <2>1
  <2> QED BY <2>2, <2>3
<1> QED BY <1>2, <1>3

(* Nothing is left.                                                        *)
LEMMA NothingIsRest == ASSUME IInv PROVE <<>> = Rest(Pending, Len(Pending)) /\ Len(Pending) \in 0..Len(Pending)
<1>1. Pending \in Seq(Content) /\ Len(Pending) \in Nat
  BY Facts
<1> QED BY <1>1, RestEnds

(* How much the ring has lost when it has taken the FIFO.                  *)
CopyLoss == Lost(Count(uart) + Len(fifo), uart.size)

(* Emptying the FIFO into the ring drops the oldest bytes of the pipe, and *)
(* only as many as the ring cannot hold.                                   *)
LEMMA CopiedPending ==
  ASSUME IInv, open
  PROVE  /\ CopyLoss \in 0..Len(Pending)
         /\ RingBytes(Copied(uart)) \o <<>> = Rest(Pending, CopyLoss)
         /\ Copied(uart).overrun = (uart.overrun \/ CopyLoss # 0)
         /\ Copied(uart).size = uart.size
         /\ CopyLoss # 0 => Len(Pending) - CopyLoss = uart.size - 1
<1>1. Ring(uart) /\ fifo \in Seq(1..MaxByte)
  BY DEF IInv, Hardware
<1>2. /\ Ring(Copied(uart)) /\ Copied(uart).size = uart.size
      /\ RingBytes(Copied(uart)) = Rest(RingBytes(uart) \o fifo, CopyLoss)
      /\ Copied(uart).overrun = (uart.overrun \/ CopyLoss # 0)
  BY <1>1, CopiedBytes DEF CopyLoss
<1>3. RingBytes(Copied(uart)) \in Seq(Content)
  BY <1>2, RingBytesIs
<1>4. RingBytes(Copied(uart)) \o <<>> = RingBytes(Copied(uart))
  BY <1>3, ConcatEmptySeq
<1>5. Pending = RingBytes(uart) \o fifo
  BY OpenPending
<1>6. CopyLoss \in 0..Len(Pending) /\ (CopyLoss # 0 => Len(Pending) - CopyLoss = uart.size - 1)
  <2>1. Len(Pending) = Count(uart) + Len(fifo) /\ Len(Pending) \in Nat /\ uart.size \in Nat \ {0, 1}
    BY Facts
  <2>2. CopyLoss = IF Len(Pending) > uart.size - 1 THEN Len(Pending) - (uart.size - 1) ELSE 0
    BY <2>1 DEF CopyLoss, Lost
  <2> QED BY <2>1, <2>2
<1> QED BY <1>2, <1>4, <1>5, <1>6

-----------------------------------------------------------------------------
(* The oldest bytes make room, or nothing happens.                         *)
LEMMA LosesOldest ==
  ASSUME IInv, NEW d \in 0..Len(Pending), Pending' = Rest(Pending, d),
         Overrun' = (Overrun \/ d # 0), d # 0 => Len(Pending) - d >= Room,
         Room' = Room, UNCHANGED <<sent, got>>
  PROVE  [Pipe!Next]_(Pipe!vars)
<1>1. Pending \in Seq(Content)
  BY Facts
<1>2. CASE d = 0
  <2>1. Pending' = Pending
    BY <1>1, <1>2, RestEnds
  <2>2. Overrun' = Overrun
    BY <1>2 DEF Overrun
  <2> QED BY <2>1, <2>2 DEF Pipe!vars, Room, Overrun
<1>3. CASE d # 0
  <2>1. Overrun'
    BY <1>3
  <2>2. Pipe!LoseOldest(d)
    BY <1>3, <2>1 DEF Pipe!LoseOldest, Pipe!Without, Rest, Room, Overrun
  <2> QED BY <2>2 DEF Pipe!Next
<1> QED BY <1>2, <1>3

(* begin(), end() and setRxBufferSize() may drop what is oldest.           *)
LEMMA Restarts ==
  ASSUME IInv, IInv', \E d \in 0..Len(Pending) : Pending' = Rest(Pending, d),
         sent' = sent, got' = Answer("restart", 0, <<>>)
  PROVE  [Pipe!Next]_(Pipe!vars)
<1>1. Room' \in Nat
  <2>1. uart'.size \in Nat \ {0, 1} /\ FifoSize \in Nat
    BY CountIs, UartAssumption DEF IInv
  <2> QED BY <2>1 DEF Room, Least
<1>2. Overrun' \in BOOLEAN
  BY DEF Overrun
<1>3. Pipe!Restart
  BY <1>1, <1>2 DEF Pipe!Restart, Pipe!Without, Pipe!Answer, Answer, Rest, Room, Overrun
<1> QED BY <1>3 DEF Pipe!Next

(* Steps the pipe does not see.                                            *)
LEMMA Stutters ==
  ASSUME UNCHANGED <<open, uart, fifo, uiof, sent, got>>
  PROVE  [Pipe!Next]_(Pipe!vars)
<1>1. Pending' = Pending
  BY DEF Pending, RingBytes, Count
<1> QED BY <1>1 DEF Pipe!vars

(* A byte joins the pipe at its end, or is the one that is lost.           *)
LEMMA ReceiveMaps == ASSUME IInv, Receive PROVE [Pipe!Next]_(Pipe!vars)
<1>1. /\ open /\ sent' = sent + 1 /\ UNCHANGED <<open, uart, got>>
      /\ \/ fifo' = Append(fifo, sent + 1) /\ UNCHANGED uiof
         \/ Len(fifo) = FifoSize /\ uiof' = TRUE /\ fifo' = fifo
  BY DEF Receive
<1>2. Pending = RingBytes(uart) \o fifo /\ Pending' = RingBytes(uart) \o fifo'
  <2>1. RingBytes(uart') = RingBytes(uart)
    BY <1>1
  <2> QED BY <1>1, <2>1, OpenPending, OpenPendingNext
<1>3. Room' = Room
  BY <1>1 DEF Room
<1>4. CASE fifo' = Append(fifo, sent + 1) /\ UNCHANGED uiof
  <2>1. RingBytes(uart) \in Seq(Content) /\ fifo \in Seq(Content) /\ sent + 1 \in Content
    <3>1. sent + 1 \in 1..MaxByte
      BY Facts DEF Receive
    <3>2. sent + 1 \in Content
      BY <3>1, UartAssumption DEF Content, Byte, Unwritten
    <3> QED BY <3>2, Facts
  <2>2. Pending' = Append(Pending, sent + 1)
    BY <1>2, <1>4, <2>1
  <2>3. Overrun' = Overrun
    BY <1>1, <1>4 DEF Overrun
  <2>4. Pipe!Arrive
    BY <1>1, <1>3, <2>2, <2>3 DEF Pipe!Arrive, Room, Overrun
  <2> QED BY <2>4 DEF Pipe!Next
<1>5. CASE Len(fifo) = FifoSize /\ uiof' = TRUE /\ fifo' = fifo
  <2>1. Pending' = Pending
    BY <1>2, <1>5
  <2>2. Overrun' = TRUE
    BY <1>1, <1>5 DEF Overrun
  <2>3. Len(Pending) >= Room
    <3>1. Len(Pending) = Count(uart) + Len(fifo) /\ Count(uart) \in Nat /\ Len(fifo) \in Nat /\ Room \in Nat /\ Room <= FifoSize
      BY <1>1, Facts, RoomIs
    <3> QED BY <1>5, <3>1
  <2>4. Pipe!LoseNewest
    BY <1>1, <1>3, <2>1, <2>2, <2>3 DEF Pipe!LoseNewest, Room, Overrun
  <2> QED BY <2>4 DEF Pipe!Next
<1> QED BY <1>1, <1>4, <1>5

(* The FIFO goes to the ring, and the interrupt is seen or is not.         *)
LEMMA CopyMaps ==
  ASSUME IInv, open, open', fifo' = <<>>, UNCHANGED <<sent, got>>,
         uart'.size = uart.size, RingBytes(uart') = RingBytes(Copied(uart)),
         (uart'.overrun \/ uiof') <=> (Copied(uart).overrun \/ uiof)
  PROVE  [Pipe!Next]_(Pipe!vars)
<1>1. /\ CopyLoss \in 0..Len(Pending)
      /\ RingBytes(Copied(uart)) \o <<>> = Rest(Pending, CopyLoss)
      /\ Copied(uart).overrun = (uart.overrun \/ CopyLoss # 0)
      /\ CopyLoss # 0 => Len(Pending) - CopyLoss = uart.size - 1
  BY CopiedPending
<1>2. Pending' = Rest(Pending, CopyLoss)
  BY <1>1, OpenPendingNext
<1>3. CopyLoss # 0 => Len(Pending) - CopyLoss >= Room
  <2>1. uart.size - 1 >= Room /\ uart.size \in Nat /\ Room \in Nat
    BY RoomIs, Facts
  <2> QED BY <1>1, <2>1
<1>4. Room' = Room
  BY DEF Room
<1>5. Overrun' = (Overrun \/ CopyLoss # 0)
  BY <1>1 DEF Overrun
<1> QED BY <1>1, <1>2, <1>3, <1>4, <1>5, LosesOldest

(* The interrupt moves bytes within the pipe, or drops the oldest.         *)
LEMMA IsrMaps == ASSUME IInv, uart_isr PROVE [Pipe!Next]_(Pipe!vars)
<1>1. /\ open /\ uiof' = FALSE /\ UNCHANGED <<open, sent, got>>
      /\ uiff \in BOOLEAN /\ uiof \in BOOLEAN /\ Ring(uart)
  BY DEF uart_isr, IInv, Hardware
<1>2. CASE uiff
  <2> DEFINE v == Copied(uart)
  <2>1. uart' = [v EXCEPT !.overrun = @ \/ uiof] /\ fifo' = <<>>
    BY <1>2 DEF uart_isr
  <2>2. Ring(v) /\ v.size = uart.size
    BY CopyStep
  <2> HIDE DEF v
  <2>3. /\ uart'.size = v.size /\ uart'.rpos = v.rpos /\ uart'.wpos = v.wpos /\ uart'.buffer = v.buffer
        /\ uart'.overrun = (v.overrun \/ uiof)
    BY <2>1, <2>2 DEF Ring
  <2>4. RingBytes(uart') = RingBytes(v)
    BY <2>3, SameRing
  <2>5. (uart'.overrun \/ uiof') <=> (v.overrun \/ uiof)
    BY <1>1, <2>3
  <2> QED BY <1>1, <2>1, <2>2, <2>3, <2>4, <2>5, CopyMaps DEF v
<1>3. CASE ~uiff
  <2>1. uart' = [uart EXCEPT !.overrun = @ \/ uiof] /\ fifo' = fifo
    BY <1>3 DEF uart_isr
  <2>2. /\ uart'.size = uart.size /\ uart'.rpos = uart.rpos /\ uart'.wpos = uart.wpos /\ uart'.buffer = uart.buffer
        /\ uart'.overrun = (uart.overrun \/ uiof)
    BY <1>1, <2>1 DEF Ring
  <2>3. RingBytes(uart') = RingBytes(uart)
    BY <2>2, SameRing
  <2>4. Pending' = Pending
    BY <1>1, <2>1, <2>3 DEF Pending
  <2>5. Overrun' = Overrun /\ Room' = Room
    BY <1>1, <2>2 DEF Overrun, Room
  <2> QED BY <1>1, <2>4, <2>5 DEF Pipe!vars, Overrun, Room
<1> QED BY <1>1, <1>2, <1>3

(* So does a byte of the stub; a closed receiver loses it.                 *)
LEMMA GdbByteMaps == ASSUME IInv, IInv', GdbByte PROVE [Pipe!Next]_(Pipe!vars)
<1>1. /\ fifo # <<>> /\ fifo' = Tail(fifo) /\ UNCHANGED <<open, sent, got>>
      /\ Ring(uart) /\ fifo \in Seq(Content) /\ Len(fifo) \in Nat
  BY Facts DEF GdbByte, IInv
<1>2. /\ Head(fifo) \in Content /\ Tail(fifo) \in Seq(Content) /\ Len(fifo) \in Nat \ {0}
  BY <1>1, HeadTailProperties, EmptySeq
<1>3. Tail(fifo) = Rest(fifo, 1)
  BY <1>1, TailIsSubSeq DEF Rest
<1>4. CASE open
  <2> DEFINE v == Put(uart, Head(fifo))
             d == IF Full(uart) THEN 1 ELSE 0
  <2>1. /\ uart' = [v EXCEPT !.overrun = @ \/ uiof] /\ uiof' = FALSE
    BY <1>4 DEF GdbByte
  <2>2. /\ Ring(v) /\ v.size = uart.size /\ v.overrun = (uart.overrun \/ Full(uart))
    BY <1>1, <1>2, PutFields
  <2>3. RingBytes(v) = Append(Rest(RingBytes(uart), d), Head(fifo))
    BY <1>1, <1>2, PutBytes
  <2>4. /\ Count(uart) \in Nat /\ Len(RingBytes(uart)) = Count(uart) /\ RingBytes(uart) \in Seq(Content)
        /\ uart.size \in Nat \ {0, 1} /\ (Full(uart) => Count(uart) = uart.size - 1)
        /\ Len(Pending) = Count(uart) + Len(fifo)
    BY <1>1, <1>4, Facts, CountIs
  <2>5. d \in Nat /\ d <= Count(uart) /\ d <= 1 /\ (d # 0 <=> Full(uart))
    BY <2>4
  <2> HIDE DEF v, d
  <2>6. /\ uart'.size = v.size /\ uart'.rpos = v.rpos /\ uart'.wpos = v.wpos /\ uart'.buffer = v.buffer
        /\ uart'.overrun = (v.overrun \/ uiof)
    BY <2>1, <2>2 DEF Ring
  <2>7. RingBytes(uart') = RingBytes(v)
    BY <2>6, SameRing
  <2>8. Pending' = Rest(Pending, d)
    <3> DEFINE s == Rest(RingBytes(uart), d)
    <3>1. s \in Seq(Content)
      BY <2>4, <2>5, RestIs
    <3>2. Rest(RingBytes(uart) \o fifo, d) = s \o fifo
      BY <1>1, <2>4, <2>5, RestOfConcat
    <3> HIDE DEF s
    <3>3. fifo = <<Head(fifo)>> \o Tail(fifo)
      BY <1>1
    <3>4. Append(s, Head(fifo)) \o Tail(fifo) = s \o fifo
      <4>1. Append(s, Head(fifo)) = s \o <<Head(fifo)>>
        BY <1>2, <3>1
      <4>2. <<Head(fifo)>> \in Seq(Content)
        BY <1>2
      <4>3. (s \o <<Head(fifo)>>) \o Tail(fifo) = s \o (<<Head(fifo)>> \o Tail(fifo))
        BY <1>2, <3>1, <4>2, ConcatAssociative
      <4> QED BY <3>3, <4>1, <4>3
    <3> QED BY <1>1, <1>4, <2>3, <2>7, <3>2, <3>4, OpenPending, OpenPendingNext DEF s
  <2>9. Overrun' = (Overrun \/ d # 0)
    BY <1>1, <1>4, <2>1, <2>2, <2>5, <2>6 DEF Overrun
  <2>10. Room' = Room
    BY <2>2, <2>6 DEF Room
  <2>11. d # 0 => Len(Pending) - d >= Room
    <3>1. Room \in Nat /\ Room <= uart.size - 1
      BY RoomIs
    <3> QED BY <1>2, <2>4, <2>5, <3>1
  <2>12. d \in 0..Len(Pending)
    BY <1>2, <2>4, <2>5
  <2> QED BY <1>1, <2>8, <2>9, <2>10, <2>11, <2>12, LosesOldest
<1>5. CASE ~open
  <2>1. Pending = fifo /\ Pending' = fifo'
    BY <1>1, <1>2, <1>5, ConcatEmptySeq DEF Pending
  <2>2. 1 \in 0..Len(Pending) /\ Pending' = Rest(Pending, 1)
    BY <1>1, <1>2, <1>3, <2>1
  <2>3. got' = Answer("restart", 0, <<>>)
    BY <1>1, <1>5 DEF IInv, Hardware
  <2> QED BY <1>1, <2>2, <2>3, Restarts
<1> QED BY <1>4, <1>5

-----------------------------------------------------------------------------
(* What begin() leaves of the pipe is in the FIFO.                         *)
LEMMA BeginMaps == ASSUME IInv, IInv', Begin PROVE [Pipe!Next]_(Pipe!vars)
<1>1. /\ sent' = sent /\ got' = Answer("restart", 0, <<>>)
      /\ \/ open' = TRUE /\ uart' = Empty(rx_size)
         \/ open' = FALSE
      /\ fifo' = fifo \/ fifo' = <<>>
      /\ rx_size \in Sizes
  BY DEF Begin, IInv, Hardware
<1>2. fifo' \in Seq(Content)
  BY <1>1, Facts, EmptySeq
<1>3. Pending' = fifo'
  <2>1. CASE open' = TRUE /\ uart' = Empty(rx_size)
    <3>1. Ring(uart') /\ Count(uart') = 0
      BY <1>1, <2>1, EmptyRing
    <3>2. RingBytes(uart') \in Seq(Content) /\ Len(RingBytes(uart')) = 0
      BY <3>1, RingBytesIs
    <3>3. RingBytes(uart') = <<>>
      BY <3>2, EmptySeq
    <3> QED BY <1>2, <2>1, <3>3, ConcatEmptySeq, OpenPendingNext
  <2>2. CASE open' = FALSE
    BY <1>2, <2>2, ConcatEmptySeq DEF Pending
  <2> QED BY <1>1, <2>1, <2>2
<1>4. \E d \in 0..Len(Pending) : Pending' = Rest(Pending, d)
  BY <1>1, <1>3, FifoIsRest, NothingIsRest
<1> QED BY <1>1, <1>4, Restarts

(* What end() leaves of the pipe is in the FIFO.                           *)
LEMMA EndMaps == ASSUME IInv, IInv', End PROVE [Pipe!Next]_(Pipe!vars)
<1>1. sent' = sent /\ got' = Answer("restart", 0, <<>>) /\ open' = FALSE /\ fifo' = fifo
  BY DEF End
<1>2. Pending' = fifo
  BY <1>1, Facts, ConcatEmptySeq DEF Pending
<1>3. \E d \in 0..Len(Pending) : Pending' = Rest(Pending, d)
  BY <1>2, FifoIsRest
<1> QED BY <1>1, <1>3, Restarts

(* The pipe of a closed receiver is the FIFO.                              *)
LEMMA SetSizeClosedMaps == ASSUME IInv, IInv', NEW s \in Sizes, SetSizeClosed(s) PROVE [Pipe!Next]_(Pipe!vars)
<1>1. sent' = sent /\ got' = Answer("restart", 0, <<>>) /\ open' = FALSE /\ fifo' = fifo
  BY DEF SetSizeClosed, hwVars, IInv, Hardware
<1>2. Pending' = fifo
  BY <1>1, Facts, ConcatEmptySeq DEF Pending
<1>3. \E d \in 0..Len(Pending) : Pending' = Rest(Pending, d)
  BY <1>2, FifoIsRest
<1> QED BY <1>1, <1>3, Restarts

(* setRxBufferSize() keeps the pipe, or what is in the FIFO.               *)
LEMMA ResizeMaps == ASSUME IInv, IInv', NEW s \in Sizes, Resize(s) PROVE [Pipe!Next]_(Pipe!vars)
<1>1. sent' = sent /\ got' = Answer("restart", 0, <<>>) /\ open /\ open' /\ fifo' = fifo
  BY DEF Resize, hwVars
<1>2. /\ Ring(uart') /\ uart'.size = s /\ uart'.rpos = 0 /\ Count(uart') \in Nat
      /\ Count(uart') = 0 \/ (Count(uart') = Count(uart) /\ fifo = <<>>)
      /\ \A i \in 1..Count(uart) : i <= s => uart'.buffer[i - 1] = RingBytes(uart)[i]
  BY ResizedRing
<1>3. /\ RingBytes(uart') \in Seq(Content) /\ Len(RingBytes(uart')) = Count(uart')
      /\ \A i \in 1..Count(uart') : RingBytes(uart')[i] = uart'.buffer[Place(uart', i)]
  BY <1>2, RingBytesIs
<1>4. Pending' = RingBytes(uart') \o fifo
  BY <1>1, OpenPendingNext
<1>5. CASE Count(uart') = 0
  <2>1. RingBytes(uart') = <<>>
    BY <1>3, <1>5, EmptySeq
  <2>2. Pending' = fifo
    BY <1>4, <2>1, Facts, ConcatEmptySeq
  <2>3. \E d \in 0..Len(Pending) : Pending' = Rest(Pending, d)
    BY <2>2, FifoIsRest
  <2> QED BY <1>1, <2>3, Restarts
<1>6. CASE Count(uart') = Count(uart)
  <2>1. Count(uart') < s /\ s \in Nat
    BY <1>2, CountIs, UartAssumption
  <2>2. RingBytes(uart) \in Seq(Content) /\ Len(RingBytes(uart)) = Count(uart)
    BY Facts
  <2>3. ASSUME NEW i \in 1..Count(uart') PROVE RingBytes(uart')[i] = RingBytes(uart)[i]
    <3>1. Place(uart', i) = i - 1 /\ i <= s /\ i \in 1..Count(uart)
      BY <1>2, <1>6, <2>1 DEF Place
    <3> QED BY <1>2, <1>3, <3>1
  <2>4. RingBytes(uart') = RingBytes(uart)
    BY <1>3, <1>6, <2>2, <2>3, SameSeq
  <2>5. Pending' = Pending
    BY <1>1, <1>4, <2>4, OpenPending
  <2>6. Pending = Rest(Pending, 0) /\ 0 \in 0..Len(Pending)
    BY Facts, RestEnds
  <2> QED BY <1>1, <2>5, <2>6, Restarts
<1> QED BY <1>2, <1>5, <1>6

(* The first k elements of a sequence ...                                  *)
LEMMA FirstsIs ==
  ASSUME NEW S, NEW s \in Seq(S), NEW k \in Nat, k <= Len(s)
  PROVE  /\ SubSeq(s, 1, k) \in Seq(S) /\ Len(SubSeq(s, 1, k)) = k
         /\ \A i \in 1..k : SubSeq(s, 1, k)[i] = s[i]
<1>1. Len(s) \in Nat /\ \A i \in 1..k : i \in 1..Len(s)
  OBVIOUS
<1>2. \A i \in 1..k : s[i] \in S
  BY <1>1, ElementOfSeq
<1>3. /\ SubSeq(s, 1, k) \in Seq(S)
      /\ Len(SubSeq(s, 1, k)) = IF 1 <= k THEN k - 1 + 1 ELSE 0
      /\ \A i \in 1..(k - 1 + 1) : SubSeq(s, 1, k)[i] = s[1 + i - 1]
  BY <1>2, SubSeqProperties
<1>4. (IF 1 <= k THEN k - 1 + 1 ELSE 0) = k /\ k - 1 + 1 = k
  OBVIOUS
<1>5. \A i \in 1..k : 1 + i - 1 = i
  OBVIOUS
<1> QED BY <1>3, <1>4, <1>5

(* The first a elements of s and b of t, and what is behind them.          *)
Splits(s, t, a, b) ==
  /\ SubSeq(s, 1, a) \o SubSeq(t, 1, b) = SubSeq(s \o t, 1, a + b)
  /\ Rest(s, a) \o Rest(t, b) = Rest(s \o t, a + b)

(* ... of two sequences that are read one after the other.                 *)
LEMMA FirstsOfConcat ==
  ASSUME NEW S, NEW s \in Seq(S), NEW t \in Seq(S), NEW a \in 0..Len(s), NEW b \in 0..Len(t),
         b # 0 => a = Len(s)
  PROVE  Splits(s, t, a, b)
<1>1. /\ Len(s) \in Nat /\ Len(t) \in Nat /\ a \in Nat /\ b \in Nat /\ a <= Len(s) /\ b <= Len(t)
  OBVIOUS
<1>2. /\ s \o t \in Seq(S) /\ Len(s \o t) = Len(s) + Len(t)
      /\ \A i \in 1..(Len(s) + Len(t)) : (s \o t)[i] = IF i <= Len(s) THEN s[i] ELSE t[i - Len(s)]
  BY ConcatProperties
<1>3. SubSeq(s, 1, a) \o SubSeq(t, 1, b) = SubSeq(s \o t, 1, a + b)
  <2> DEFINE u == SubSeq(s, 1, a)
             v == SubSeq(t, 1, b)
             w == s \o t
  <2>1. u \in Seq(S) /\ Len(u) = a /\ \A i \in 1..a : u[i] = s[i]
    BY <1>1, FirstsIs
  <2>2. v \in Seq(S) /\ Len(v) = b /\ \A i \in 1..b : v[i] = t[i]
    BY <1>1, FirstsIs
  <2> HIDE DEF u, v, w
  <2>3. w \in Seq(S) /\ Len(w) = Len(s) + Len(t) /\ a + b \in Nat /\ a + b <= Len(w)
    BY <1>1, <1>2 DEF w
  <2>4. /\ SubSeq(w, 1, a + b) \in Seq(S) /\ Len(SubSeq(w, 1, a + b)) = a + b
        /\ \A i \in 1..(a + b) : SubSeq(w, 1, a + b)[i] = w[i]
    <3> DEFINE k == a + b
    <3>1. k \in Nat /\ k <= Len(w)
      BY <2>3
    <3> HIDE DEF k
    <3>2. /\ SubSeq(w, 1, k) \in Seq(S) /\ Len(SubSeq(w, 1, k)) = k
          /\ \A i \in 1..k : SubSeq(w, 1, k)[i] = w[i]
      BY <2>3, <3>1, FirstsIs
    <3> QED BY <3>2 DEF k
  <2>5. /\ u \o v \in Seq(S) /\ Len(u \o v) = Len(u) + Len(v)
        /\ \A i \in 1..(Len(u) + Len(v)) : (u \o v)[i] = IF i <= Len(u) THEN u[i] ELSE v[i - Len(u)]
    <3>1. u \in Seq(S) /\ v \in Seq(S)
      BY <2>1, <2>2
    <3> QED BY <3>1, ConcatProperties
  <2>6. Len(u \o v) = a + b
    BY <2>1, <2>2, <2>5
  <2>7. ASSUME NEW i \in 1..(a + b) PROVE (u \o v)[i] = SubSeq(w, 1, a + b)[i]
    <3>1. i \in 1..(Len(s) + Len(t)) /\ i \in 1..(Len(u) + Len(v))
      BY <1>1, <2>1, <2>2
    <3>2. CASE i <= a
      <4>1. i \in 1..a /\ i <= Len(s) /\ i <= Len(u)
        BY <1>1, <2>1, <3>2
      <4> QED BY <1>2, <2>1, <2>4, <2>5, <3>1, <4>1 DEF w
    <3>3. CASE ~(i <= a)
      <4>1. b # 0 /\ i - a \in 1..b
        BY <1>1, <3>3
      <4>2. a = Len(s)
        BY <4>1
      <4>3. ~(i <= Len(s)) /\ ~(i <= Len(u)) /\ i - Len(s) = i - a /\ i - Len(u) = i - a
        BY <2>1, <3>3, <4>2
      <4> QED BY <1>2, <2>2, <2>4, <2>5, <3>1, <4>1, <4>3 DEF w
    <3> QED BY <3>2, <3>3
  <2>8. u \o v = SubSeq(w, 1, a + b)
    BY <2>4, <2>5, <2>6, <2>7, SameSeq
  <2> QED BY <2>8 DEF u, v, w
<1>4. Rest(s, a) \o Rest(t, b) = Rest(s \o t, a + b)
  <2>1. CASE b = 0
    <3>1. Rest(t, b) = t /\ a + b = a
      BY <1>1, <2>1, RestEnds
    <3>2. Rest(s \o t, a) = Rest(s, a) \o t
      BY <1>1, RestOfConcat
    <3> QED BY <3>1, <3>2
  <2>2. CASE b # 0
    <3>1. a = Len(s) /\ a + b \in Nat /\ Len(s) <= a + b /\ a + b <= Len(s) + Len(t) /\ (a + b) - Len(s) = b
      BY <1>1, <2>2
    <3>2. Rest(s \o t, a + b) = Rest(t, (a + b) - Len(s))
      BY <3>1, RestOfConcat
    <3>3. Rest(s, a) = <<>>
      BY <3>1, RestEnds
    <3>4. Rest(t, b) \in Seq(S)
      BY <1>1, RestIs
    <3> QED BY <3>1, <3>2, <3>3, <3>4, ConcatEmptySeq
  <2> QED BY <2>1, <2>2
<1> QED BY <1>3, <1>4 DEF Splits

(* read() takes the oldest bytes of the pipe, in order.                    *)
LEMMA ReadMaps == ASSUME IInv, NEW k \in Amounts, Read(k) PROVE [Pipe!Next]_(Pipe!vars)
<1> DEFINE a == FromRing(k)
           b == FromFifo(k)
           t == RingBytes(uart)
<1>1. /\ open /\ open' /\ UNCHANGED <<open, uiof, sent>>
      /\ got' = Answer("read", a + b, SubSeq(t, 1, a) \o SubSeq(fifo, 1, b))
  BY DEF Read
<1>2. /\ uart'.size = uart.size /\ uart'.overrun = uart.overrun
      /\ RingBytes(uart') = Rest(t, a) /\ fifo' = Rest(fifo, b)
  BY ReadRing
<1>3. /\ t \in Seq(Content) /\ Len(t) = Count(uart) /\ fifo \in Seq(Content)
      /\ Len(Pending) = Count(uart) + Len(fifo)
  BY <1>1, Facts
<1>4. a \in 0..Len(t) /\ b \in 0..Len(fifo) /\ (b # 0 => a = Len(t)) /\ a + b = Least(k, Len(Pending))
  BY <1>3, Taken
<1>5. Pending = t \o fifo /\ Pending' = RingBytes(uart') \o fifo'
  BY <1>1, OpenPending, OpenPendingNext
<1> HIDE DEF a, b, t
<1>6. /\ SubSeq(t, 1, a) \o SubSeq(fifo, 1, b) = SubSeq(Pending, 1, a + b)
      /\ Pending' = Rest(Pending, a + b)
  <2>1. Splits(t, fifo, a, b)
    <3>1. t \in Seq(Content) /\ fifo \in Seq(Content) /\ a \in 0..Len(t) /\ b \in 0..Len(fifo)
          /\ (b # 0 => a = Len(t))
      BY <1>3, <1>4
    <3> QED BY <3>1, FirstsOfConcat
  <2> QED BY <1>2, <1>5, <2>1 DEF Splits
<1>7. Room' = Room /\ Overrun' = Overrun
  BY <1>1, <1>2 DEF Room, Overrun
<1>8. Pipe!AtMost(k) = a + b
  BY <1>4 DEF Pipe!AtMost, Least
<1>9. Pipe!Read(k)
  BY <1>1, <1>6, <1>7, <1>8 DEF Pipe!Read, Pipe!Without, Pipe!Answer, Answer, Rest, Room, Overrun
<1>10. k \in 0..(MaxByte + FifoSize)
  BY UartAssumption DEF Amounts
<1> QED BY <1>9, <1>10 DEF Pipe!Next

(* What available() announces can be read: the ring was counted before the *)
(* FIFO, and can only have grown since.                                    *)
LEMMA CountFifoMaps == ASSUME IInv, CountFifo PROVE [Pipe!Next]_(Pipe!vars)
<1>1. /\ pc = "counted" /\ got' = Answer("available", n + Len(fifo), <<>>)
      /\ UNCHANGED <<open, uart, fifo, uiof, sent>>
  BY DEF CountFifo, InFifo, hwVars
<1>2. open /\ n <= Count(uart) /\ n \in 0..MaxByte
  BY <1>1 DEF IInv, Looking
<1>3. n + Len(fifo) <= Len(Pending) /\ n + Len(fifo) \in 0..(MaxByte + FifoSize)
  <2>1. /\ Len(Pending) = Count(uart) + Len(fifo) /\ Count(uart) \in Nat /\ Len(fifo) \in Nat /\ MaxByte \in Nat
        /\ Len(fifo) <= FifoSize /\ FifoSize \in Nat
    BY <1>2, Facts, UartAssumption DEF IInv, Hardware
  <2> QED BY <1>2, <2>1
<1>4. Pending' = Pending /\ Room' = Room /\ Overrun' = Overrun
  BY <1>1 DEF Pending, RingBytes, Count, Room, Overrun
<1>5. Pipe!Available(n + Len(fifo))
  BY <1>1, <1>3, <1>4 DEF Pipe!Available, Pipe!Answer, Answer, Room, Overrun
<1> QED BY <1>3, <1>5 DEF Pipe!Next

(* The byte at the read position is the first of the ring.                 *)
LEMMA FirstByte ==
  ASSUME NEW u, Ring(u), Count(u) # 0
  PROVE  RingBytes(u)[1] = u.buffer[u.rpos] /\ 1 \in 1..Count(u)
<1>1. Count(u) \in Nat /\ u.rpos \in Nat /\ u.rpos < u.size
  BY CountIs
<1>2. 1 \in 1..Count(u) /\ Place(u, 1) = u.rpos
  BY <1>1 DEF Place
<1> QED BY <1>2, RingBytesIs

(* peek() shows the oldest byte of the pipe.                               *)
LEMMA PeekCharMaps == ASSUME IInv, IInv', PeekChar PROVE [Pipe!Next]_(Pipe!vars)
<1>1. /\ open /\ open' /\ UNCHANGED <<open, uiof, sent>>
      /\ got' = IF Pending = <<>> THEN Answer("peek", 0, <<>>)
                ELSE Answer("peek", 1, <<uart'.buffer[uart'.rpos]>>)
  BY DEF PeekChar
<1> DEFINE d == IF Count(uart) = 0 THEN CopyLoss ELSE 0
<1>2. /\ CopyLoss \in 0..Len(Pending)
      /\ RingBytes(Copied(uart)) \o <<>> = Rest(Pending, CopyLoss)
      /\ Copied(uart).overrun = (uart.overrun \/ CopyLoss # 0)
      /\ Copied(uart).size = uart.size
      /\ CopyLoss # 0 => Len(Pending) - CopyLoss = uart.size - 1
  BY <1>1, CopiedPending
<1>3. /\ Pending \in Seq(Content) /\ Len(Pending) \in Nat
      /\ Len(Pending) = Count(uart) + Len(fifo) /\ uart.size \in Nat \ {0, 1}
      /\ Count(uart) \in Nat /\ Len(fifo) \in Nat
  BY <1>1, Facts
<1>4. /\ d \in 0..Len(Pending) /\ (d # 0 => Len(Pending) - d = uart.size - 1)
  BY <1>2, <1>3
<1>5. /\ Pending' = Rest(Pending, d) /\ uart'.overrun = (uart.overrun \/ d # 0) /\ uart'.size = uart.size
      /\ Count(uart) = 0 => fifo' = <<>>
      /\ Count(uart) # 0 => uart' = uart /\ fifo' = fifo /\ Pending' = Pending
  <2>1. CASE Count(uart) = 0
    <3>1. uart' = Copied(uart) /\ fifo' = <<>>
      BY <2>1 DEF PeekChar
    <3>2. Pending' = Rest(Pending, CopyLoss)
      BY <1>1, <1>2, <3>1, OpenPendingNext
    <3> QED BY <1>2, <2>1, <3>1, <3>2
  <2>2. CASE Count(uart) # 0
    <3>1. uart' = uart /\ fifo' = fifo
      BY <2>2 DEF PeekChar
    <3>2. Pending' = Pending
      BY <1>1, <3>1 DEF Pending
    <3>3. uart.overrun \in BOOLEAN
      BY DEF IInv, Ring
    <3>4. Rest(Pending, 0) = Pending
      BY <1>3, RestEnds
    <3> QED BY <2>2, <3>1, <3>2, <3>3, <3>4
  <2> QED BY <2>1, <2>2
<1> HIDE DEF d
<1>6. /\ Pending' \in Seq(Content) /\ Len(Pending') = Len(Pending) - d
  BY <1>3, <1>4, <1>5, RestIs
<1>7. Pending' = <<>> <=> Pending = <<>>
  <2>1. Len(Pending') = 0 <=> Len(Pending) = 0
    BY <1>3, <1>4, <1>6
  <2> QED BY <1>3, <1>6, <2>1, EmptySeq
<1>8. ASSUME Pending' # <<>> PROVE SubSeq(Pending', 1, 1) = <<uart'.buffer[uart'.rpos]>>
  <2>1. Ring(uart') /\ fifo' \in Seq(Content)
    <3>1. Ring(uart') /\ fifo' \in Seq(1..MaxByte)
      BY DEF IInv, Hardware
    <3>2. fifo \in Seq(Content) /\ <<>> \in Seq(Content)
      BY Facts, EmptySeq
    <3> QED BY <1>5, <3>1, <3>2
  <2>2. RingBytes(uart') \in Seq(Content) /\ Len(RingBytes(uart')) = Count(uart') /\ Count(uart') \in Nat
    BY <2>1, RingBytesIs, CountIs
  <2>3. Pending' = RingBytes(uart') \o fifo'
    BY <1>1, OpenPendingNext
  <2>4. Count(uart') # 0
    <3>1. CASE Count(uart) = 0
      <4>1. Pending' = RingBytes(uart')
        BY <1>5, <2>2, <2>3, <3>1, ConcatEmptySeq
      <4> QED BY <1>8, <2>2, <4>1, EmptySeq
    <3>2. CASE Count(uart) # 0
      BY <1>5, <3>2
    <3> QED BY <3>1, <3>2
  <2>5. RingBytes(uart')[1] = uart'.buffer[uart'.rpos] /\ 1 \in 1..Count(uart')
    BY <2>1, <2>4, FirstByte
  <2>6. Pending'[1] = RingBytes(uart')[1]
    <3>1. \A i \in 1..Len(RingBytes(uart')) : (RingBytes(uart') \o fifo')[i] = RingBytes(uart')[i]
      BY <2>1, <2>2, ConcatProperties
    <3> QED BY <2>2, <2>3, <2>5, <3>1
  <2>7. 1 <= Len(Pending')
    BY <1>6, <1>8, EmptySeq
  <2>8. /\ SubSeq(Pending', 1, 1) \in Seq(Content) /\ Len(SubSeq(Pending', 1, 1)) = 1
        /\ \A i \in 1..1 : SubSeq(Pending', 1, 1)[i] = Pending'[i]
    BY <1>6, <2>7, FirstsIs
  <2>9. SubSeq(Pending', 1, 1) = <<Pending'[1]>>
    <3>1. Pending'[1] \in Content
      BY <1>6, <2>7, ElementOfSeq
    <3>2. <<Pending'[1]>> \in Seq(Content) /\ Len(<<Pending'[1]>>) = 1 /\ \A i \in 1..1 : <<Pending'[1]>>[i] = Pending'[i]
      <4>1. \A i \in 1..1 : i = 1
        OBVIOUS
      <4>2. <<Pending'[1]>> \in Seq(Content) /\ Len(<<Pending'[1]>>) = 1 /\ <<Pending'[1]>>[1] = Pending'[1]
        BY <3>1
      <4> QED BY <4>1, <4>2
    <3> QED BY <2>8, <3>2, SameSeq
  <2> QED BY <2>5, <2>6, <2>9
<1>9. got' = IF Pending' = <<>> THEN Answer("peek", 0, <<>>) ELSE Answer("peek", 1, SubSeq(Pending', 1, 1))
  BY <1>1, <1>7, <1>8
<1>10. Room' = Room /\ Overrun' = (Overrun \/ d # 0)
  BY <1>1, <1>5 DEF Room, Overrun
<1>11. Overrun' \in {Overrun, TRUE}
  BY <1>10 DEF Overrun
<1>12. d = 0 => Pending' = Pending
  BY <1>3, <1>5, RestEnds
<1>13. d # 0 => Len(Pending) > Room /\ Overrun' /\ d \in 1..(Len(Pending) - Room)
  <2>1. Room \in Nat /\ Room <= uart.size - 1
    BY RoomIs
  <2>2. d # 0 => Len(Pending) > Room /\ d \in 1..(Len(Pending) - Room)
    BY <1>3, <1>4, <2>1
  <2> QED BY <1>10, <2>2
<1>14. \/ Pending' = Pending
       \/ Len(Pending) > Room /\ Overrun' /\ \E e \in 1..(Len(Pending) - Room) : Pending' = Rest(Pending, e)
  BY <1>5, <1>12, <1>13
<1>15. Pipe!Peek
  BY <1>1, <1>9, <1>10, <1>11, <1>14 DEF Pipe!Peek, Pipe!Without, Pipe!Answer, Answer, Rest, Room, Overrun
<1> QED BY <1>15 DEF Pipe!Next

(* peekAvailable() moves bytes within the pipe, or drops the oldest.       *)
LEMMA PeekAvailableMaps == ASSUME IInv, PeekAvailable PROVE [Pipe!Next]_(Pipe!vars)
<1>1. /\ open /\ open' /\ uart' = Copied(uart) /\ fifo' = <<>>
      /\ UNCHANGED <<uiof, sent, got>>
  BY DEF PeekAvailable
<1>2. uart'.size = uart.size
  BY <1>1, CopyStep
<1> QED BY <1>1, <1>2, CopyMaps

(* peekConsume() takes the oldest bytes of the pipe.                       *)
LEMMA PeekConsumeMaps == ASSUME IInv, NEW k \in Amounts, PeekConsume(k) PROVE [Pipe!Next]_(Pipe!vars)
<1>1. /\ pc = "pointed" /\ got' = Answer("consume", k, <<>>) /\ UNCHANGED <<open, fifo, uiof, sent>>
  BY DEF PeekConsume, hwVars
<1>2. open
  BY <1>1 DEF IInv, Looking
<1>3. /\ k \in 0..Count(uart) /\ uart'.size = uart.size /\ uart'.overrun = uart.overrun
      /\ RingBytes(uart') = Rest(RingBytes(uart), k)
  BY ConsumedRing
<1>4. Pending' = Rest(Pending, k) /\ k \in 0..Len(Pending)
  BY <1>1, <1>2, <1>3, RingRest
<1>5. Room' = Room /\ Overrun' = Overrun
  BY <1>1, <1>3 DEF Room, Overrun
<1>6. k <= Len(Pending) /\ k \in 0..(MaxByte + FifoSize)
  BY <1>4, Facts, UartAssumption DEF Amounts
<1>7. Pipe!Consume(k)
  BY <1>1, <1>4, <1>5, <1>6 DEF Pipe!Consume, Pipe!Without, Pipe!Answer, Answer, Rest, Room, Overrun
<1> QED BY <1>6, <1>7 DEF Pipe!Next

(* hasOverrun() tells of a lost byte, perhaps more than once.              *)
LEMMA HasOverrunMaps == ASSUME IInv, HasOverrun PROVE [Pipe!Next]_(Pipe!vars)
<1>1. /\ open /\ got' = Answer("overrun", IF uart.overrun THEN 1 ELSE 0, <<>>)
      /\ uart' = [uart EXCEPT !.overrun = FALSE] /\ UNCHANGED <<open, fifo, uiof, sent>>
      /\ uart.overrun \in BOOLEAN /\ uiof \in BOOLEAN
  BY DEF HasOverrun, hwVars, IInv, Hardware, Ring
<1>2. /\ uart'.rpos = uart.rpos /\ uart'.size = uart.size /\ uart'.wpos = uart.wpos /\ uart'.buffer = uart.buffer
      /\ uart'.overrun = FALSE
  BY <1>1 DEF IInv, Ring
<1>3. Pending' = Pending
  <2>1. RingBytes(uart') = RingBytes(uart)
    BY <1>2, SameRing
  <2> QED BY <1>1, <2>1 DEF Pending
<1>4. Room' = Room
  BY <1>2 DEF Room
<1>5. CASE uart.overrun
  <2>1. Overrun /\ Overrun' \in BOOLEAN
    BY <1>1, <1>5 DEF Overrun
  <2>2. Pipe!AskOverrun
    BY <1>1, <1>3, <1>4, <1>5, <2>1 DEF Pipe!AskOverrun, Pipe!Answer, Answer, Room, Overrun
  <2> QED BY <2>2 DEF Pipe!Next
<1>6. CASE ~uart.overrun
  <2>1. Overrun' = Overrun
    BY <1>1, <1>2, <1>6 DEF Overrun
  <2>2. Pipe!AskOverrun
    BY <1>1, <1>3, <1>4, <1>6, <2>1 DEF Pipe!AskOverrun, Pipe!Answer, Answer, Room, Overrun
  <2> QED BY <2>2 DEF Pipe!Next
<1> QED BY <1>5, <1>6

-----------------------------------------------------------------------------
(* The pipe starts empty.                                                  *)
LEMMA InitMaps == Init => Pipe!Init
<1> SUFFICES ASSUME Init PROVE Pipe!Init
  OBVIOUS
<1>1. Pending = <<>>
  BY ConcatEmptySeq DEF Init, Pending
<1>2. Room \in Nat
  BY InitIInv, RoomIs
<1>3. Overrun = FALSE
  BY DEF Init, Overrun
<1> QED BY <1>1, <1>2, <1>3 DEF Init, Pipe!Init, Pipe!Answer, Answer, Room, Overrun

(* Every step is one of the pipe, or none.                                 *)
LEMMA NextMaps == IInv /\ IInv' /\ [Next]_vars => [Pipe!Next]_(Pipe!vars)
<1> SUFFICES ASSUME IInv, IInv', [Next]_vars PROVE [Pipe!Next]_(Pipe!vars)
  OBVIOUS
<1>1. CASE Receive
  BY <1>1, ReceiveMaps
<1>2. CASE uart_isr
  BY <1>2, IsrMaps
<1>3. CASE GdbByte
  BY <1>3, GdbByteMaps
<1>4. CASE Begin \/ End
  BY <1>4, BeginMaps, EndMaps
<1>5. ASSUME NEW s \in Sizes, SetSizeClosed(s) \/ Resize(s) PROVE [Pipe!Next]_(Pipe!vars)
  BY <1>5, SetSizeClosedMaps, ResizeMaps
<1>6. ASSUME NEW k \in Amounts, Read(k) \/ PeekConsume(k) PROVE [Pipe!Next]_(Pipe!vars)
  BY <1>6, ReadMaps, PeekConsumeMaps
<1>7. CASE CountRing \/ PeekBuffer \/ UNCHANGED vars
  <2>1. UNCHANGED <<open, uart, fifo, uiof, sent, got>>
    BY <1>7 DEF CountRing, PeekBuffer, vars, hwVars
  <2> QED BY <2>1, Stutters
<1>8. CASE CountFifo \/ PeekChar \/ PeekAvailable \/ HasOverrun
  BY <1>8, CountFifoMaps, PeekCharMaps, PeekAvailableMaps, HasOverrunMaps
<1> QED BY <1>1, <1>2, <1>3, <1>4, <1>5, <1>6, <1>7, <1>8 DEF Next

(* Ring, FIFO and interrupt together are one pipe: bytes are read in the order *)
(* of the line, each once, one is lost only while the ring or the FIFO has no *)
(* room, and then hasOverrun() tells, for every FIFO, trigger level, ring and *)
(* number of bytes, under the interrupt and under the stub of GDB.         *)
THEOREM SpecImplementsSerialPipe == Spec => ImplementsSerialPipe
<1>1. Spec => []IInv
  BY InitIInv, NextIInv, PTL DEF Spec
<1> QED BY <1>1, InitMaps, NextMaps, PTL DEF Spec, ImplementsSerialPipe, Pipe!Spec
==============================================================================
