-------------------------- MODULE Recurrent_proofs --------------------------
(***************************************************************************)
(* The list of recurrent functions, the pass over it and the delay grain   *)
(* are consistent for every number of cells, every interval and with       *)
(* registrations by interrupt handlers between any two steps.              *)
(***************************************************************************)
EXTENDS Recurrent, FiniteSetTheorems, SequenceTheorems, WellFoundedInduction, TLAPS

LEMMA FunctionsAreChains ==
  ASSUME NEW n \in 0..MaxCell, NEW c \in [1..n -> Cell]
  PROVE  c \in Chains /\ Len(c) = n
<1> USE RecurrentAssumption
<1>1. c \in Chains
  BY DEF Chains
<1>2. c \in Seq(Cell) /\ DOMAIN c = 1..n
  OBVIOUS
<1>3. DOMAIN c = 1..Len(c) /\ Len(c) \in Nat
  BY <1>2, LenProperties
<1> QED BY <1>1, <1>2, <1>3

LEMMA ChainsAreFunctions ==
  ASSUME NEW c \in Chains
  PROVE  Len(c) \in 0..MaxCell /\ c \in [1..Len(c) -> Cell]
<1> USE RecurrentAssumption
<1>1. PICK n \in 0..MaxCell : c \in [1..n -> Cell]
  BY DEF Chains
<1>2. Len(c) = n
  BY <1>1, FunctionsAreChains
<1> QED BY <1>1, <1>2

(* The list, without sequences: c[1] to c[n] are its cells.                *)
Listed(n, c) ==
  /\ (rFirst = NULL /\ rLast = NULL /\ n = 0) \/ (n > 0 /\ rFirst = c[1] /\ rLast = c[n])
  /\ \A i \in 1..n : \/ i < n /\ rNext[c[i]] = c[i + 1]
                     \/ i = n /\ rNext[c[i]] = NULL
  /\ \A i, j \in 1..n : c[i] = c[j] => i = j
  /\ \A x : x \in live <=> \E i \in 1..n : x = c[i]

LEMMA ListIsListed ==
  ASSUME ListConserved
  PROVE  \E n \in 0..MaxCell : \E c \in [1..n -> Cell] : Listed(n, c)
<1>1. PICK c \in Chains : IsList(c) /\ CellsOf(c) = live
  BY DEF ListConserved
<1>2. PICK n \in 0..MaxCell : n = Len(c) /\ c \in [1..n -> Cell]
  BY ChainsAreFunctions
<1>3. c = <<>> => n = 0
  BY <1>2
<1>4. c # <<>> => n > 0
  <2>1. c \in Seq(Cell)
    BY <1>2, RecurrentAssumption
  <2> QED BY <1>2, <2>1, EmptySeq
<1> QED BY <1>1, <1>2, <1>3, <1>4 DEF IsList, CellsOf, Listed

LEMMA ListedIsList ==
  ASSUME NEW n \in 0..MaxCell, NEW c \in [1..n -> Cell], Listed(n, c)'
  PROVE  ListConserved'
<1>1. c \in Chains /\ Len(c) = n
  BY FunctionsAreChains
<1>2. n > 0 => c # <<>>
  BY <1>1
<1>3. n = 0 => c = <<>>
  <2>1. c \in Seq(Cell)
    BY RecurrentAssumption
  <2> QED BY <1>1, <2>1, EmptySeq
<1>4. IsList(c)'
  BY <1>1, <1>2, <1>3 DEF IsList, Listed
<1>5. (CellsOf(c) = live)'
  BY <1>1 DEF CellsOf, Listed
<1> QED BY <1>1, <1>4, <1>5 DEF ListConserved, Chains, Cell, CellsOf

(* How the pointers of a list hang together.                               *)
LEMMA ListFacts ==
  ASSUME ListConserved
  PROVE  /\ rFirst = NULL <=> rLast = NULL
         /\ rFirst # NULL => rFirst \in live /\ rLast \in live
         /\ \A x \in live : /\ x \in Cell /\ x # NULL
                            /\ rNext[x] # NULL => rNext[x] \in live
                            /\ rNext[x] # rFirst /\ rNext[x] # x
                            /\ rNext[x] = NULL <=> x = rLast
         /\ \A x, y \in live : rNext[x] = rNext[y] /\ rNext[x] # NULL => x = y
<1> USE DEF NULL
<1>1. PICK n \in 0..MaxCell : \E c \in [1..n -> Cell] : Listed(n, c)
  BY ListIsListed
<1>2. PICK c \in [1..n -> Cell] : Listed(n, c)
  BY <1>1
<1>3. /\ (rFirst = NULL /\ rLast = NULL /\ n = 0) \/ (n > 0 /\ rFirst = c[1] /\ rLast = c[n])
      /\ \A i \in 1..n : \/ i < n /\ rNext[c[i]] = c[i + 1]
                         \/ i = n /\ rNext[c[i]] = NULL
      /\ \A i, j \in 1..n : c[i] = c[j] => i = j
  BY <1>2 DEF Listed
<1>4. \A x : x \in live <=> \E i \in 1..n : x = c[i]
  BY <1>2 DEF Listed
<1>5. \A x \in Cell : x # NULL
  BY DEF Cell
<1>6. \A i \in 1..n : /\ c[i] \in Cell /\ c[i] \in live
                      /\ i < n => rNext[c[i]] = c[i + 1] /\ i + 1 \in 1..n
                      /\ i = n => rNext[c[i]] = NULL
                      /\ i < n \/ i = n
  <2> TAKE i \in 1..n
  <2>1. c[i] \in Cell /\ c[i] \in live
    BY <1>2, <1>4
  <2>2. i < n => i + 1 \in 1..n
    OBVIOUS
  <2>3. (i < n \/ i = n) /\ ~(i < n /\ i = n)
    OBVIOUS
  <2> QED BY <1>3, <2>1, <2>2, <2>3
<1>7. n > 0 => /\ 1 \in 1..n /\ n \in 1..n
               /\ rFirst = c[1] /\ rLast = c[n]
  <2>1. n > 0 => 1 \in 1..n /\ n \in 1..n /\ n # 0
    OBVIOUS
  <2> QED BY <1>3, <2>1
<1>8. n = 0 \/ n > 0
  OBVIOUS
<1>9. rFirst = NULL <=> rLast = NULL
  BY <1>3, <1>5, <1>6, <1>7, <1>8
<1>10. rFirst # NULL => rFirst \in live /\ rLast \in live
  BY <1>3, <1>6, <1>7, <1>8
<1>11. ASSUME NEW x \in live
       PROVE  /\ x \in Cell /\ x # NULL
              /\ rNext[x] # NULL => rNext[x] \in live
              /\ rNext[x] # rFirst /\ rNext[x] # x
              /\ rNext[x] = NULL <=> x = rLast
  <2>1. PICK i \in 1..n : x = c[i]
    BY <1>4
  <2>2. n > 0
    OBVIOUS
  <2>3. CASE i < n
    <3>1. rNext[x] = c[i + 1] /\ i + 1 \in 1..n /\ i + 1 # 1
      BY <1>6, <2>1, <2>3
    <3>2. c[i + 1] # c[1] /\ c[i + 1] # c[i] /\ c[i + 1] \in live /\ c[i + 1] \in Cell
      BY <1>3, <1>6, <1>7, <2>2, <3>1
    <3>3. x # rLast
      BY <1>3, <1>7, <2>1, <2>2, <2>3
    <3> QED BY <1>5, <1>6, <1>7, <2>1, <2>2, <3>1, <3>2, <3>3
  <2>4. CASE i = n
    BY <1>5, <1>6, <1>7, <2>1, <2>2, <2>4
  <2> QED BY <1>6, <2>3, <2>4
<1>12. ASSUME NEW x \in live, NEW y \in live, rNext[x] = rNext[y], rNext[x] # NULL PROVE x = y
  <2>1. PICK i \in 1..n : x = c[i]
    BY <1>4
  <2>2. PICK j \in 1..n : y = c[j]
    BY <1>4
  <2>3. /\ rNext[x] = c[i + 1] /\ i + 1 \in 1..n
        /\ rNext[y] = c[j + 1] /\ j + 1 \in 1..n
    BY <1>6, <1>12, <2>1, <2>2
  <2>4. i + 1 = j + 1
    BY <1>3, <1>12, <2>3
  <2> QED BY <2>1, <2>2, <2>4
<1> QED BY <1>9, <1>10, <1>11, <1>12

(* A new cell is linked behind the last one.                               *)
LEMMA RegisterAppends ==
  ASSUME TypeOK, ListConserved, NEW us \in Intervals, Register(us)
  PROVE  ListConserved'
<1> USE RecurrentAssumption DEF NULL
<1>1. PICK n \in 0..MaxCell : \E c \in [1..n -> Cell] : Listed(n, c)
  BY ListIsListed
<1>2. PICK cell \in Cell \ live :
        /\ live' = live \cup {cell}
        /\ rNext' = [d \in Cell |-> IF d = cell THEN NULL
                                    ELSE IF d = rLast THEN cell ELSE rNext[d]]
        /\ rFirst' = IF rLast = NULL THEN cell ELSE rFirst
        /\ rLast' = cell
  BY DEF Register
<1>3. PICK c \in [1..n -> Cell] : Listed(n, c)
  BY <1>1
<1>4. /\ (rFirst = NULL /\ rLast = NULL /\ n = 0) \/ (n > 0 /\ rFirst = c[1] /\ rLast = c[n])
      /\ \A i \in 1..n : \/ i < n /\ rNext[c[i]] = c[i + 1]
                         \/ i = n /\ rNext[c[i]] = NULL
      /\ \A i, j \in 1..n : c[i] = c[j] => i = j
      /\ \A x : x \in live <=> \E i \in 1..n : x = c[i]
  BY <1>3 DEF Listed
<1>5. n < MaxCell
  <2>1. \A i \in 1..n : c[i] \in Cell \ {cell}
    BY <1>2, <1>3, <1>4
  <2>2. IsFiniteSet(1..n) /\ Cardinality(1..n) = n
    BY <1>3, FS_Interval
  <2>3. IsFiniteSet(Cell) /\ Cardinality(Cell) = MaxCell
    BY FS_Interval DEF Cell
  <2>4. IsFiniteSet(Cell \ {cell}) /\ Cardinality(Cell \ {cell}) = MaxCell - 1
    BY <1>2, <2>3, FS_RemoveElement
  <2>5. c \in [1..n -> Cell \ {cell}]
    BY <1>3, <2>1
  <2>6. c \in Injection(1..n, Cell \ {cell})
    BY <1>4, <2>5 DEF Injection, IsInjective
  <2>7. Cardinality(1..n) <= Cardinality(Cell \ {cell})
    BY <2>2, <2>4, <2>6, FS_Injection DEF ExistsInjection
  <2>8. n <= MaxCell - 1
    BY <2>2, <2>4, <2>7
  <2> QED BY <1>3, <2>8
<1> DEFINE d == [i \in 1..(n + 1) |-> IF i = n + 1 THEN cell ELSE c[i]]
<1>6. n + 1 \in 0..MaxCell /\ d \in [1..(n + 1) -> Cell]
  BY <1>2, <1>3, <1>5
<1>7. d[n + 1] = cell /\ \A i \in 1..n : d[i] = c[i]
  BY <1>3
<1> HIDE DEF d
<1>8. /\ n \in Nat
      /\ \A i \in 1..(n + 1) : i \in 1..n \/ i = n + 1
      /\ \A i \in 1..n : i \in 1..(n + 1) /\ i # n + 1
      /\ n + 1 \in 1..(n + 1)
  BY <1>3
<1>9. \A i \in 1..n : c[i] \in Cell /\ c[i] \in live /\ c[i] # NULL /\ c[i] # cell
  BY <1>2, <1>3, <1>4 DEF Cell
<1>10. n > 0 => 1 \in 1..n /\ n \in 1..n /\ rLast = c[n] /\ rLast # NULL /\ rFirst = c[1]
  <2>1. n > 0 => 1 \in 1..n /\ n \in 1..n /\ n # 0
    BY <1>8
  <2> QED BY <1>4, <1>9, <2>1
<1>11. (rFirst' = d[1] /\ rLast' = d[n + 1])
  <2>1. CASE n = 0
    BY <1>2, <1>4, <1>7, <2>1
  <2>2. CASE n > 0
    BY <1>2, <1>7, <1>10, <2>2
  <2> QED BY <1>8, <2>1, <2>2
<1>12. \A i \in 1..(n + 1) : \/ i < n + 1 /\ rNext'[d[i]] = d[i + 1]
                             \/ i = n + 1 /\ rNext'[d[i]] = NULL
  <2> TAKE i \in 1..(n + 1)
  <2>1. CASE i = n + 1
    BY <1>2, <1>7, <2>1
  <2>2. CASE i \in 1..n /\ i = n
    <3>1. rNext'[c[n]] = cell
      BY <1>2, <1>9, <1>10, <2>2, <1>8
    <3> QED BY <1>7, <1>8, <2>2, <3>1
  <2>3. CASE i \in 1..n /\ i # n
    <3>1. i < n /\ i + 1 \in 1..n /\ n > 0
      BY <1>8, <2>3
    <3>2. c[i] # c[n]
      BY <1>4, <1>10, <2>3, <3>1
    <3>3. rNext'[c[i]] = c[i + 1]
      BY <1>2, <1>4, <1>9, <1>10, <2>3, <3>1, <3>2
    <3> QED BY <1>7, <1>8, <2>3, <3>1, <3>3
  <2> QED BY <1>8, <2>1, <2>2, <2>3
<1>13. \A i, j \in 1..(n + 1) : d[i] = d[j] => i = j
  BY <1>4, <1>7, <1>8, <1>9
<1>14. \A x : x \in live' <=> \E i \in 1..(n + 1) : x = d[i]
  BY <1>2, <1>4, <1>7, <1>8
<1>15. Listed(n + 1, d)'
  BY <1>8, <1>11, <1>12, <1>13, <1>14 DEF Listed
<1> QED BY <1>6, <1>15, ListedIsList

(* Behind its predecessor, the current cell is taken out.                  *)
LEMMA RemoveUnlinks ==
  ASSUME ListConserved, NEW cell \in live, NEW prev \in Pointer,
         rNext \in [Cell -> Pointer],
         IF prev = NULL THEN rFirst = cell ELSE prev \in live /\ rNext[prev] = cell,
         rLast' = IF rLast = cell THEN prev ELSE rLast,
         rNext' = [x \in Cell |-> IF x = prev THEN rNext[cell] ELSE rNext[x]],
         rFirst' = IF prev = NULL THEN rNext[cell] ELSE rFirst,
         live' = live \ {cell}
  PROVE  ListConserved'
<1> USE RecurrentAssumption DEF NULL
<1>1. PICK n \in 0..MaxCell : \E c \in [1..n -> Cell] : Listed(n, c)
  BY ListIsListed
<1>2. PICK c \in [1..n -> Cell] : Listed(n, c)
  BY <1>1
<1>3. /\ (rFirst = NULL /\ rLast = NULL /\ n = 0) \/ (n > 0 /\ rFirst = c[1] /\ rLast = c[n])
      /\ \A i \in 1..n : \/ i < n /\ rNext[c[i]] = c[i + 1]
                         \/ i = n /\ rNext[c[i]] = NULL
      /\ \A i, j \in 1..n : c[i] = c[j] => i = j
      /\ \A x : x \in live <=> \E i \in 1..n : x = c[i]
  BY <1>2 DEF Listed
<1>4. PICK k \in 1..n : cell = c[k]
  BY <1>3
(* k is the place of the cell, and prev the cell before it.                *)
<1>5. \A i \in 1..n : c[i] \in Cell /\ c[i] # NULL
  BY <1>2 DEF Cell
<1>6. n > 0 /\ 1 \in 1..n /\ n \in 1..n /\ rFirst = c[1] /\ rLast = c[n]
  <2>1. n > 0 /\ 1 \in 1..n /\ n \in 1..n /\ n # 0
    OBVIOUS
  <2> QED BY <1>3, <2>1
<1>7. /\ prev = NULL <=> k = 1
      /\ k # 1 => k - 1 \in 1..n /\ prev = c[k - 1]
  <2>1. CASE prev = NULL
    BY <1>3, <1>4, <1>6, <2>1
  <2>2. CASE prev # NULL
    <3>1. PICK i \in 1..n : prev = c[i]
      BY <1>3, <2>2
    <3>2. i < n /\ i + 1 \in 1..n /\ c[i + 1] = c[k]
      BY <1>3, <1>4, <1>5, <2>2, <3>1
    <3>3. i + 1 = k
      BY <1>3, <3>2
    <3> QED BY <2>2, <3>1, <3>3
  <2> QED BY <2>1, <2>2
<1> DEFINE m == n - 1
           d == [i \in 1..m |-> IF i < k THEN c[i] ELSE c[i + 1]]
<1>8. m \in 0..MaxCell /\ d \in [1..m -> Cell]
  OBVIOUS
<1>9. \A i \in 1..m : /\ i < k => i \in 1..n /\ i # k /\ d[i] = c[i]
                      /\ ~(i < k) => i + 1 \in 1..n /\ i + 1 # k /\ d[i] = c[i + 1]
  OBVIOUS
<1> HIDE DEF d
<1>10. rNext[cell] = IF k = n THEN NULL ELSE c[k + 1]
  BY <1>3, <1>4
<1>11. \A i, j \in 1..m : d[i] = d[j] => i = j
  <2> TAKE i, j \in 1..m
  <2>1. CASE i < k /\ j < k
    BY <1>3, <1>9, <2>1
  <2>2. CASE ~(i < k) /\ ~(j < k)
    <3>1. d[i] = d[j] => i + 1 = j + 1
      BY <1>3, <1>9, <2>2
    <3> QED BY <3>1
  <2>3. CASE i < k /\ ~(j < k)
    <3>1. d[i] = d[j] => i = j + 1
      BY <1>3, <1>9, <2>3
    <3> QED BY <2>3, <3>1
  <2>4. CASE ~(i < k) /\ j < k
    <3>1. d[i] = d[j] => i + 1 = j
      BY <1>3, <1>9, <2>4
    <3> QED BY <2>4, <3>1
  <2> QED BY <2>1, <2>2, <2>3, <2>4
<1>12. \A x : x \in live' <=> \E i \in 1..m : x = d[i]
  <2>1. ASSUME NEW i \in 1..m PROVE d[i] \in live'
    BY <1>3, <1>4, <1>9
  <2>2. ASSUME NEW x \in live' PROVE \E i \in 1..m : x = d[i]
    <3>1. PICK i \in 1..n : x = c[i] /\ i # k
      BY <1>3, <1>4
    <3>2. CASE i < k
      <4>1. i \in 1..m
        BY <3>2
      <4> QED BY <1>9, <3>1, <3>2, <4>1
    <3>3. CASE i > k
      <4>1. i - 1 \in 1..m /\ ~(i - 1 < k) /\ (i - 1) + 1 = i
        BY <3>3
      <4> QED BY <1>9, <3>1, <4>1
    <3> QED BY <3>1, <3>2, <3>3
  <2> QED BY <2>1, <2>2
<1>13. (rFirst' = NULL /\ rLast' = NULL /\ m = 0) \/ (m > 0 /\ rFirst' = d[1] /\ rLast' = d[m])
  <2>1. CASE n = 1
    <3>1. k = 1 /\ prev = NULL /\ m = 0 /\ cell = c[n]
      BY <1>4, <1>7, <2>1
    <3> QED BY <1>6, <1>10, <2>1, <3>1
  <2>2. CASE n > 1 /\ k = 1
    <3>1. m > 0 /\ 1 \in 1..m /\ m \in 1..m /\ m + 1 = n /\ ~(1 < k) /\ ~(m < k) /\ k + 1 = 1 + 1 /\ k # n
      BY <2>2
    <3>2. d[1] = c[k + 1] /\ d[m] = c[n]
      BY <1>9, <3>1
    <3>3. rFirst' = d[1]
      BY <1>7, <1>10, <2>2, <3>1, <3>2
    <3>4. c[n] # cell
      BY <1>3, <1>4, <1>6, <3>1
    <3> HIDE DEF m
    <3> QED BY <1>6, <3>1, <3>2, <3>3, <3>4
  <2>3. CASE n > 1 /\ k = n
    <3>1. m > 0 /\ 1 \in 1..m /\ m \in 1..m /\ 1 < k /\ m < k /\ k # 1 /\ m = k - 1
      BY <2>3
    <3>2. d[1] = c[1] /\ d[m] = c[k - 1]
      BY <1>9, <3>1
    <3>3. rFirst' = rFirst /\ rLast' = prev
      BY <1>4, <1>6, <1>7, <2>3, <3>1
    <3> HIDE DEF m
    <3> QED BY <1>6, <1>7, <3>1, <3>2, <3>3
  <2>4. CASE n > 1 /\ k # 1 /\ k # n
    <3>1. m > 0 /\ 1 \in 1..m /\ m \in 1..m /\ m + 1 = n /\ 1 < k /\ ~(m < k)
      BY <2>4
    <3>2. d[1] = c[1] /\ d[m] = c[n]
      BY <1>9, <3>1
    <3>3. rFirst' = rFirst /\ rLast' = rLast
      BY <1>3, <1>4, <1>6, <1>7, <2>4
    <3> HIDE DEF m
    <3> QED BY <1>6, <3>1, <3>2, <3>3
  <2> QED BY <1>6, <2>1, <2>2, <2>3, <2>4
<1>14. \A i \in 1..m : \/ i < m /\ rNext'[d[i]] = d[i + 1]
                       \/ i = m /\ rNext'[d[i]] = NULL
  <2> TAKE i \in 1..m
  <2>1. CASE i < k - 1
    <3>1. i < m /\ i + 1 \in 1..m /\ i + 1 < k /\ i \in 1..n /\ i # n /\ i < k /\ k # 1 /\ k - 1 \in 1..n /\ i # k - 1
      BY <2>1
    <3>2. d[i] = c[i] /\ d[i + 1] = c[i + 1]
      BY <1>9, <3>1
    <3>3. c[i] # prev
      BY <1>3, <1>7, <3>1
    <3>4. rNext'[c[i]] = c[i + 1]
      BY <1>3, <1>5, <3>1, <3>3
    <3> QED BY <3>1, <3>2, <3>4
  <2>2. CASE i = k - 1
    <3>1. k # 1 /\ i < k /\ i \in 1..n
      BY <2>2
    <3>2. d[i] = prev /\ prev \in Cell
      BY <1>5, <1>7, <1>9, <2>2, <3>1
    <3>3. rNext'[d[i]] = IF k = n THEN NULL ELSE c[k + 1]
      BY <1>10, <3>2
    <3>4. CASE k = n
      <4>1. i = m
        BY <2>2, <3>4
      <4> QED BY <3>3, <3>4, <4>1
    <3>5. CASE k # n
      <4>1. i < m /\ i + 1 \in 1..m /\ ~(i + 1 < k) /\ (i + 1) + 1 = k + 1
        BY <2>2, <3>5
      <4>2. d[i + 1] = c[k + 1]
        BY <1>9, <4>1
      <4> QED BY <3>3, <3>5, <4>1, <4>2
    <3> QED BY <3>4, <3>5
  <2>3. CASE i > k - 1
    <3>1. ~(i < k) /\ i + 1 \in 1..n /\ i + 1 # k - 1
      BY <2>3
    <3>2. d[i] = c[i + 1]
      BY <1>9, <3>1
    <3>3. c[i + 1] # prev
      BY <1>3, <1>5, <1>7, <3>1
    <3>4. rNext'[d[i]] = rNext[c[i + 1]]
      BY <1>5, <3>1, <3>2, <3>3
    <3>5. CASE i = m
      <4>1. i + 1 = n
        BY <3>5
      <4> QED BY <1>3, <3>1, <3>4, <3>5, <4>1
    <3>6. CASE i # m
      <4>1. i < m /\ i + 1 \in 1..m /\ ~(i + 1 < k) /\ i + 1 # n
        BY <3>1, <3>6
      <4>2. d[i + 1] = c[(i + 1) + 1]
        BY <1>9, <4>1
      <4> QED BY <1>3, <3>1, <3>4, <4>1, <4>2
    <3> QED BY <3>5, <3>6
  <2> QED BY <2>1, <2>2, <2>3
<1>15. Listed(m, d)'
  BY <1>11, <1>12, <1>13, <1>14 DEF Listed
<1> QED BY <1>8, <1>15, ListedIsList

-----------------------------------------------------------------------------
(* Gcd(a, b) is a common divisor, and so at most either; Gcd(0, b) is b.   *)
LEMMA GcdProperties ==
  ASSUME NEW a \in Nat, NEW b \in Nat
  PROVE  /\ Gcd(a, b) \in Nat
         /\ a = 0 => Gcd(a, b) = b
         /\ a # 0 => Gcd(a, b) # 0 /\ Gcd(a, b) <= a /\ (b # 0 => Gcd(a, b) <= b)
<1>1. CASE a = 0
  BY <1>1 DEF Gcd
<1>2. CASE a # 0
  <2> DEFINE common == {d \in 1..a : Divides(d, a) /\ Divides(d, b)}
             above == {d..a : d \in common}
  <2>1. 1 \in common
    <3>1. Divides(1, a) /\ Divides(1, b)
      <4>1. a \in 0..a /\ a = 1 * a /\ b \in 0..b /\ b = 1 * b
        OBVIOUS
      <4> QED BY <4>1 DEF Divides
    <3> QED BY <1>2, <3>1
  <2>2. IsFiniteSet(1..a)
    BY FS_Interval
  <2>3. IsWellFoundedOn(StrictSubsetOrdering(1..a), SUBSET (1..a))
    BY <2>2, FS_StrictSubsetOrderingWellFounded, FS_FiniteSubsetsOfFinite
  <2>4. above \subseteq SUBSET (1..a) /\ above # {}
    BY <2>1
  <2>5. PICK s \in above : \A t \in above : ~(<<t, s>> \in StrictSubsetOrdering(1..a))
    <3> HIDE DEF above
    <3> QED BY <2>3, <2>4, WFMin
  <2>6. PICK d \in common : s = d..a
    OBVIOUS
  <2>7. \A e \in (d + 1)..a : ~(Divides(e, a) /\ Divides(e, b))
    <3> SUFFICES ASSUME NEW e \in (d + 1)..a, Divides(e, a), Divides(e, b) PROVE FALSE
      OBVIOUS
    <3>1. e..a \in above
      <4>1. e \in common
        OBVIOUS
      <4> QED BY <4>1
    <3>2. e..a \subseteq d..a /\ d \in d..a /\ d \notin e..a
      OBVIOUS
    <3>3. <<e..a, d..a>> \in StrictSubsetOrdering(1..a)
      <4>1. e..a \subseteq 1..a /\ d..a \subseteq 1..a
        OBVIOUS
      <4> QED BY <3>2, <4>1 DEF StrictSubsetOrdering
    <3> QED BY <2>5, <2>6, <3>1, <3>3
  <2>8. /\ Gcd(a, b) \in 1..a
        /\ Divides(Gcd(a, b), b)
    <3> DEFINE greatest(x) == /\ Divides(x, a) /\ Divides(x, b)
                              /\ \A e \in (x + 1)..a : ~(Divides(e, a) /\ Divides(e, b))
    <3>1. d \in 1..a /\ greatest(d)
      BY <2>7
    <3>2. Gcd(a, b) = CHOOSE x \in 1..a : greatest(x)
      BY <1>2 DEF Gcd
    <3>3. (CHOOSE x \in 1..a : greatest(x)) \in 1..a /\ greatest(CHOOSE x \in 1..a : greatest(x))
      <4> HIDE DEF greatest
      <4> QED BY <3>1
    <3> QED BY <3>2, <3>3
  <2>9. b # 0 => Gcd(a, b) <= b
    <3>1. \A x \in Nat, k \in Nat : x * k # 0 => x <= x * k
      <4> TAKE x \in Nat, k \in Nat
      <4>1. k = 0 => x * k = 0
        OBVIOUS
      <4>2. k # 0 => k - 1 \in Nat /\ x * k = x + x * (k - 1)
        OBVIOUS
      <4>3. k # 0 => x * (k - 1) \in Nat
        OBVIOUS
      <4> QED BY <4>1, <4>2, <4>3
    <3>2. PICK k \in 0..b : b = Gcd(a, b) * k
      BY <2>8 DEF Divides
    <3> QED BY <2>8, <3>1, <3>2
  <2> QED BY <1>2, <2>8, <2>9
<1> QED BY <1>1, <1>2

-----------------------------------------------------------------------------
(* The fence admits one pass at a time; while it has a cell to work on,    *)
(* that cell is listed behind prev.                                        *)
InPass == pc \in {"head", "calling", "slice"}
OnePass == top = IF InPass THEN 1 ELSE 0

HasCell == pc \in {"head", "calling"} \/ (pc = "slice" /\ this.current # NULL)
AtCell == HasCell => /\ this.current \in live
                     /\ IF this.prev = NULL THEN rFirst = this.current
                        ELSE this.prev \in live /\ rNext[this.prev] = this.current

(* The pass, about to go on at `at', has its last cell still ahead of it.   *)
StopAhead(frame, at) == /\ frame.done \/ frame.stop \in live
                        /\ at = "head" => ~frame.done
                        /\ at = "calling" /\ ~frame.done => frame.stop # frame.current
StopListed == InPass => StopAhead(this, pc)

IInv == TypeOK /\ ListConserved /\ OnePass /\ AtCell /\ StopListed

LEMMA InitIInv == Init => IInv
<1> SUFFICES ASSUME Init PROVE IInv
  OBVIOUS
<1> USE RecurrentAssumption DEF Init, NULL
<1>1. TypeOK
  <2>1. NULL \in Pointer /\ Idle \in [it : Pointer, us : Nat]
    BY DEF Pointer, Idle
  <2>2. <<>> \in Seq(Frame)
    OBVIOUS
  <2> QED BY <2>1, <2>2 DEF TypeOK
<1>2. ListConserved
  <2>1. <<>> \in Chains /\ Len(<<>>) = 0
    <3>1. <<>> \in [1..0 -> Cell]
      OBVIOUS
    <3>2. 0 \in 0..MaxCell
      OBVIOUS
    <3> QED BY <3>1, <3>2, FunctionsAreChains
  <2> QED BY <2>1 DEF ListConserved, IsList, CellsOf
<1> QED BY <1>1, <1>2 DEF IInv, OnePass, InPass, AtCell, StopListed, HasCell, top

(* The one frame, as a record.                                             *)
LEMMA TheFrame ==
  ASSUME TypeOK, OnePass, InPass
  PROVE  /\ top = 1 /\ this \in Frame /\ this = frames[1]
         /\ this.current \in Pointer /\ this.prev \in Pointer /\ this.stop \in Pointer
         /\ this.done \in BOOLEAN
<1>1. top = 1 /\ frames \in Seq(Frame)
  BY DEF OnePass, TypeOK
<1>2. this \in Frame /\ this = frames[1]
  BY <1>1 DEF top, this
<1> QED BY <1>1, <1>2 DEF Frame

(* A step that changes the frame and nothing of the list.                  *)
LEMMA ReplacesFrame ==
  ASSUME TypeOK, OnePass, InPass, NEW f \in Frame, frames' = [frames EXCEPT ![top] = f], InPass'
  PROVE  /\ frames' \in Seq(Frame) /\ OnePass' /\ this' = f
         /\ frames # <<>> /\ frames' # <<>>
<1>1. top = 1 /\ frames \in Seq(Frame) /\ Len(frames) = 1
  BY TheFrame DEF TypeOK, top
<1>2. frames' \in Seq(Frame) /\ Len(frames') = 1 /\ frames'[1] = f
  BY <1>1, ExceptSeq, SMTT(30)
<1>3. top' = 1 /\ this' = f
  BY <1>2 DEF top, this
<1> QED BY <1>1, <1>2, <1>3 DEF OnePass

(* The list, whatever else changes.                                        *)
LEMMA ListUntouched ==
  ASSUME ListConserved, UNCHANGED list
  PROVE  ListConserved'
BY DEF ListConserved, IsList, CellsOf, Chains, Cell, list

LEMMA RegisterPreserves ==
  ASSUME IInv, NEW us \in Intervals, Register(us)
  PROVE  IInv'
<1> USE RecurrentAssumption DEF NULL
<1>1. PICK cell \in Cell \ live :
        /\ live' = live \cup {cell}
        /\ interval' = [interval EXCEPT ![cell] = us]
        /\ rNext' = [d \in Cell |-> IF d = cell THEN NULL
                                    ELSE IF d = rLast THEN cell ELSE rNext[d]]
        /\ rFirst' = IF rLast = NULL THEN cell ELSE rFirst
        /\ rLast' = cell
  BY DEF Register
<1>2. UNCHANGED <<due, cont>> /\ grain' = 0
  BY DEF Register, ForgetGrain
<1>3. TypeOK
  BY DEF IInv
<1>4. TypeOK'
  <2>1. us \in Nat
    OBVIOUS
  <2>2. rFirst' \in Pointer /\ rLast' \in Pointer /\ rNext' \in [Cell -> Pointer]
    <3>1. cell \in Pointer /\ NULL \in Pointer
      BY <1>1 DEF Pointer, Cell
    <3> QED BY <1>1, <1>3, <3>1 DEF TypeOK
  <2>3. interval' \in [Cell -> Nat] /\ live' \subseteq Cell /\ due' \subseteq live' /\ grain' \in Nat
    BY <1>1, <1>2, <1>3, <2>1 DEF TypeOK
  <2> QED BY <1>2, <1>3, <2>2, <2>3 DEF TypeOK, cont
<1>5. ListConserved'
  BY <1>3, RegisterAppends DEF IInv
<1>6. OnePass'
  BY <1>2 DEF IInv, OnePass, InPass, top, cont
<1>7. AtCell'
  <2>1. this' = this /\ HasCell' = HasCell
    BY <1>2 DEF this, top, HasCell, cont
  <2>2. SUFFICES ASSUME HasCell PROVE /\ this.current \in live'
                                      /\ IF this.prev = NULL THEN rFirst' = this.current
                                         ELSE this.prev \in live' /\ rNext'[this.prev] = this.current
    BY <2>1 DEF AtCell
  <2>3. /\ this.current \in live
        /\ IF this.prev = NULL THEN rFirst = this.current
           ELSE this.prev \in live /\ rNext[this.prev] = this.current
    BY <2>2 DEF IInv, AtCell
  <2>4. /\ rFirst = NULL <=> rLast = NULL
        /\ \A x \in live : x \in Cell /\ x # NULL /\ (rNext[x] = NULL <=> x = rLast)
    BY ListFacts DEF IInv
  <2> QED BY <1>1, <2>3, <2>4
<1>8. StopListed'
  <2>1. this' = this /\ pc' = pc /\ InPass' = InPass
    BY <1>2 DEF this, top, InPass, cont
  <2> QED BY <1>1, <2>1 DEF IInv, StopListed, StopAhead
<1> QED BY <1>4, <1>5, <1>6, <1>7, <1>8 DEF IInv

LEMMA RemovePreserves ==
  ASSUME IInv, Remove
  PROVE  IInv'
<1> USE RecurrentAssumption DEF NULL
<1> DEFINE cell == this.current
           prev == this.prev
<1>1. /\ rLast' = IF rLast = cell THEN prev ELSE rLast
      /\ rNext' = [x \in Cell |-> IF x = prev THEN rNext[cell] ELSE rNext[x]]
      /\ rFirst' = IF prev = NULL THEN rNext[cell] ELSE rFirst
      /\ live' = live \ {cell}
      /\ interval' = [interval EXCEPT ![cell] = 0]
      /\ due' = due \ {cell}
      /\ frames' = [frames EXCEPT ![top].current = rNext[cell]]
      /\ grain' = 0 /\ pc = "calling" /\ pc' = "slice"
      /\ UNCHANGED <<fence, scan, isrCallers>>
  BY DEF Remove, LastWithout, ForgetGrain
<1>2. TypeOK /\ OnePass /\ InPass /\ ListConserved
  BY <1>1 DEF IInv, InPass
<1>3. /\ top = 1 /\ this \in Frame /\ this = frames[1]
      /\ prev \in Pointer
  BY <1>2, TheFrame
<1>4. /\ cell \in live /\ cell \in Cell
      /\ IF prev = NULL THEN rFirst = cell ELSE prev \in live /\ rNext[prev] = cell
  BY <1>1 DEF IInv, AtCell, HasCell, TypeOK
<1> HIDE DEF cell, prev
<1>5. ListConserved'
  <2>1. rNext \in [Cell -> Pointer]
    BY <1>2 DEF TypeOK
  <2> QED BY <1>1, <1>2, <1>3, <1>4, <2>1, RemoveUnlinks
<1>6. /\ frames' \in Seq(Frame) /\ OnePass' /\ frames # <<>> /\ frames' # <<>>
      /\ this'.current = rNext[cell] /\ this'.prev = prev
      /\ this'.stop = this.stop /\ this'.done = this.done
  <2> DEFINE f == [this EXCEPT !.current = rNext[cell]]
  <2>1. /\ f \in Frame /\ f.current = rNext[cell] /\ f.prev = prev
        /\ f.stop = this.stop /\ f.done = this.done
    BY <1>2, <1>3, <1>4 DEF Frame, TypeOK, prev
  <2>2. frames' = [frames EXCEPT ![top] = f]
    BY <1>1 DEF this
  <2>3. InPass'
    BY <1>1 DEF InPass
  <2> HIDE DEF f
  <2> QED BY <1>2, <2>1, <2>2, <2>3, ReplacesFrame
<1>7. TypeOK'
  <2>1. rFirst' \in Pointer /\ rLast' \in Pointer /\ rNext' \in [Cell -> Pointer]
    BY <1>1, <1>2, <1>3, <1>4 DEF TypeOK
  <2>2. interval' \in [Cell -> Nat] /\ live' \subseteq Cell /\ due' \subseteq live' /\ grain' \in Nat
    BY <1>1, <1>2 DEF TypeOK
  <2>3. fence' = (frames' # <<>>)
    BY <1>1, <1>2, <1>6 DEF TypeOK
  <2> QED BY <1>1, <1>2, <1>6, <2>1, <2>2, <2>3 DEF TypeOK
<1>8. AtCell'
  <2>1. SUFFICES ASSUME rNext[cell] # NULL
                 PROVE  /\ rNext[cell] \in live'
                        /\ IF prev = NULL THEN rFirst' = rNext[cell]
                           ELSE prev \in live' /\ rNext'[prev] = rNext[cell]
    BY <1>1, <1>6 DEF AtCell, HasCell
  <2>2. /\ rNext[cell] \in live
        /\ \A x \in live : x \in Cell /\ rNext[x] # rFirst /\ rNext[x] # x
        /\ \A x, y \in live : rNext[x] = rNext[y] /\ rNext[x] # NULL => x = y
    BY <1>2, <1>4, <2>1, ListFacts
  <2>3. rNext[cell] # cell
    BY <1>4, <2>2
  <2>4. prev # NULL => prev # cell
    BY <1>4, <2>2, <2>3
  <2> QED BY <1>1, <1>4, <2>2, <2>3, <2>4
<1>9. StopListed'
  <2>1. this.done \/ (this.stop \in live /\ this.stop # cell)
    BY <1>1, <1>2 DEF IInv, StopListed, StopAhead, cell
  <2> QED BY <1>1, <1>6, <2>1 DEF StopListed, StopAhead
<1> QED BY <1>5, <1>6, <1>7, <1>8, <1>9 DEF IInv

(* The turns of the pass that move on and leave the list alone.            *)
LEMMA PassPreserves ==
  ASSUME IInv, Call \/ Skip \/ Keep \/ Continue
  PROVE  IInv'
<1> USE RecurrentAssumption DEF NULL
<1>1. TypeOK /\ OnePass /\ AtCell /\ ListConserved /\ StopListed
  BY DEF IInv
<1>2. UNCHANGED list /\ UNCHANGED <<grain, fence, scan, isrCallers>> /\ due' \subseteq due
  BY DEF Call, Skip, Keep, Continue
<1>3. InPass /\ InPass'
  BY DEF Call, Skip, Keep, Continue, InPass
<1>4. ListConserved'
  BY <1>1, <1>2, ListUntouched
<1>5. /\ top = 1 /\ this \in Frame /\ this = frames[1]
      /\ this.current \in Pointer /\ this.prev \in Pointer
      /\ StopAhead(this, pc)
  BY <1>1, <1>3, TheFrame DEF StopListed
(* The frame that replaces it.                                             *)
<1>6. \E f \in Frame : /\ frames' = [frames EXCEPT ![top] = f]
                       /\ HasCell' => /\ f.current \in live
                                      /\ IF f.prev = NULL THEN rFirst = f.current
                                         ELSE f.prev \in live /\ rNext[f.prev] = f.current
                       /\ StopAhead(f, pc')
  <2>1. CASE Call
    <3> DEFINE f == [this EXCEPT !.done = ReachesStop(this)]
    <3>1. frames' = [frames EXCEPT ![top] = f]
      BY <2>1 DEF Call, this
    <3>2. f \in Frame /\ f.current = this.current /\ f.prev = this.prev
      BY <1>5 DEF Frame, ReachesStop
    <3>3. HasCell /\ pc = "head" /\ pc' = "calling"
      BY <2>1 DEF Call, HasCell
    <3>4. f.stop = this.stop /\ f.done = (this.current = this.stop)
      BY <1>5 DEF Frame, ReachesStop
    <3> HIDE DEF f
    <3>5. StopAhead(f, pc')
      BY <1>5, <3>2, <3>3, <3>4 DEF StopAhead
    <3> QED BY <1>1, <3>1, <3>2, <3>3, <3>5 DEF AtCell
  <2>2. CASE Skip \/ Keep
    <3>1. HasCell /\ pc' = "slice"
      BY <2>2 DEF Skip, Keep, HasCell
    <3>2. this.current \in live /\ this.current \in Cell /\ this.current # NULL
      <4>1. this.current \in live
        BY <1>1, <3>1 DEF AtCell
      <4> QED BY <1>1, <4>1, ListFacts
    <3>3. rNext[this.current] \in Pointer
      BY <1>1, <3>2 DEF TypeOK
    <3>4. rNext[this.current] # NULL => rNext[this.current] \in live
      BY <1>1, <3>2, ListFacts
    <3>5. \E f \in Frame : /\ frames' = [frames EXCEPT ![top] = f]
                           /\ f.current = rNext[this.current] /\ f.prev = this.current
                           /\ f.done \/ f.stop \in live
      <4>1. CASE Skip
        <5> DEFINE f == [current |-> rNext[this.current], prev |-> this.current,
                         stop |-> this.stop, done |-> ReachesStop(this)]
        <5>1. f \in Frame
          BY <1>5, <3>3 DEF Frame, ReachesStop
        <5>2. frames' = [frames EXCEPT ![top] = f]
          BY <4>1 DEF Skip, this
        <5>3. f.stop \in live
          BY <1>5, <4>1 DEF Skip, StopAhead
        <5> QED BY <5>1, <5>2, <5>3
      <4>2. CASE Keep
        <5> DEFINE f == [this EXCEPT !.current = rNext[this.current], !.prev = this.current]
        <5>1. f \in Frame /\ f.current = rNext[this.current] /\ f.prev = this.current
          BY <1>5, <3>3 DEF Frame
        <5>2. frames' = [frames EXCEPT ![top] = f]
          <6>1. frames' = [frames EXCEPT ![top].current = rNext[this.current], ![top].prev = this.current]
            BY <4>2 DEF Keep
          <6>2. top \in DOMAIN frames /\ frames \in Seq(Frame)
            BY <1>1, <1>5 DEF TypeOK, top
          <6> QED BY <6>1, <6>2 DEF this
        <5>3. f.done = this.done /\ f.stop = this.stop
          BY <1>5 DEF Frame
        <5> HIDE DEF f
        <5> QED BY <1>5, <5>1, <5>2, <5>3 DEF StopAhead
      <4> QED BY <2>2, <4>1, <4>2
    <3>6. PICK f \in Frame : /\ frames' = [frames EXCEPT ![top] = f]
                             /\ f.current = rNext[this.current] /\ f.prev = this.current
                             /\ f.done \/ f.stop \in live
      BY <3>5
    <3>7. this' = f
      BY <1>1, <1>3, <3>6, ReplacesFrame
    <3>8. HasCell' => f.current # NULL
      BY <3>1, <3>7 DEF HasCell
    <3>9. StopAhead(f, pc')
      BY <3>1, <3>6 DEF StopAhead
    <3> QED BY <3>2, <3>4, <3>6, <3>8, <3>9
  <2>3. CASE Continue
    <3>1. frames' = [frames EXCEPT ![top] = this]
      BY <1>1, <2>3 DEF Continue, this, TypeOK
    <3>2. HasCell
      BY <2>3 DEF Continue, HasCell
    <3>3. StopAhead(this, pc')
      BY <1>5, <2>3 DEF Continue, StopAhead
    <3> QED BY <1>1, <1>5, <3>1, <3>2, <3>3 DEF AtCell
  <2> QED BY <2>1, <2>2, <2>3
<1>7. PICK f \in Frame : /\ frames' = [frames EXCEPT ![top] = f]
                         /\ HasCell' => /\ f.current \in live
                                        /\ IF f.prev = NULL THEN rFirst = f.current
                                           ELSE f.prev \in live /\ rNext[f.prev] = f.current
                         /\ StopAhead(f, pc')
  BY <1>6
<1>8. frames' \in Seq(Frame) /\ OnePass' /\ this' = f /\ frames # <<>> /\ frames' # <<>>
  BY <1>1, <1>3, <1>7, ReplacesFrame
<1>9. TypeOK'
  <2>1. pc' \in {"user", "head", "calling", "slice", "scan"}
    BY <1>3 DEF InPass
  <2> QED BY <1>1, <1>2, <1>8, <2>1 DEF TypeOK, list
<1>10. AtCell'
  BY <1>2, <1>7, <1>8 DEF AtCell, list
<1>11. StopListed'
  BY <1>2, <1>7, <1>8 DEF StopListed, StopAhead, list
<1> QED BY <1>4, <1>8, <1>9, <1>10, <1>11 DEF IInv

LEMMA EnterPreserves ==
  ASSUME IInv, Enter
  PROVE  IInv'
<1> USE RecurrentAssumption DEF NULL
<1> DEFINE f == [current |-> rFirst, prev |-> NULL, stop |-> StopCell, done |-> FALSE]
<1>1. TypeOK /\ ListConserved
  BY DEF IInv
<1>2. /\ UNCHANGED list /\ UNCHANGED <<due, grain, scan, isrCallers>>
      /\ fence' = TRUE /\ pc' = "head" /\ frames' = Append(frames, f)
      /\ rFirst # NULL /\ ~fence
  BY DEF Enter, MayEnter
<1>3. frames = <<>>
  BY <1>1, <1>2 DEF TypeOK
<1>4. /\ f \in Frame /\ f.current = rFirst /\ f.prev = NULL
      /\ f.stop = rLast /\ f.done = FALSE
  BY <1>1 DEF Frame, TypeOK, StopCell, Pointer
<1> HIDE DEF f
<1>5. frames' \in Seq(Frame) /\ Len(frames') = 1 /\ frames'[1] = f /\ frames' # <<>>
  BY <1>2, <1>3, <1>4
<1>6. OnePass' /\ this' = f
  BY <1>2, <1>5 DEF OnePass, InPass, top, this
<1>7. AtCell'
  <2>1. rFirst \in live
    BY <1>1, <1>2, ListFacts
  <2> QED BY <1>2, <1>4, <1>6, <2>1 DEF AtCell, list
<1>8. StopListed'
  <2>1. rLast \in live
    BY <1>1, <1>2, ListFacts
  <2> QED BY <1>2, <1>4, <1>6, <2>1 DEF StopListed, StopAhead, list
<1>9. TypeOK'
  BY <1>1, <1>2, <1>5 DEF TypeOK, list
<1>10. ListConserved'
  BY <1>1, <1>2, ListUntouched
<1> QED BY <1>6, <1>7, <1>8, <1>9, <1>10 DEF IInv

LEMMA LeavePreserves ==
  ASSUME IInv, Leave
  PROVE  IInv'
<1>1. TypeOK /\ OnePass /\ ListConserved
  BY DEF IInv
<1>2. /\ UNCHANGED list /\ UNCHANGED <<due, grain, scan, isrCallers>>
      /\ fence' = FALSE /\ pc = "slice"
      /\ frames' = SubSeq(frames, 1, top - 1)
      /\ pc' = IF top = 1 THEN "user" ELSE "calling"
  BY DEF Leave, LowerFence
<1>3. top = 1
  BY <1>1, <1>2 DEF OnePass, InPass
<1>4. frames' = <<>>
  <2>1. frames' = SubSeq(frames, 1, 0)
    BY <1>2, <1>3
  <2> QED BY <2>1, SubSeqEmpty
<1>5. pc' = "user"
  BY <1>2, <1>3
<1>6. TypeOK'
  <2>1. frames' \in Seq(Frame) /\ fence' = (frames' # <<>>)
    <3>1. frames' \in Seq(Frame)
      BY <1>4
    <3>2. fence' = (frames' # <<>>)
      BY <1>2, <1>4, Zenon
    <3> QED BY <3>1, <3>2
  <2> QED BY <1>1, <1>2, <1>5, <2>1 DEF TypeOK, list
<1>7. OnePass' /\ AtCell' /\ StopListed'
  BY <1>4, <1>5 DEF OnePass, InPass, AtCell, StopListed, HasCell, top
<1>8. ListConserved'
  BY <1>1, <1>2, ListUntouched
<1> QED BY <1>6, <1>7, <1>8 DEF IInv

LEMMA ScanPreserves ==
  ASSUME IInv, Scan
  PROVE  IInv'
<1> USE RecurrentAssumption DEF NULL
<1>1. TypeOK /\ OnePass /\ ListConserved
  BY DEF IInv
<1>2. /\ UNCHANGED list /\ UNCHANGED <<due, fence, frames, isrCallers>>
      /\ pc \in {"user", "scan"} /\ pc' \in {"user", "scan"}
  BY DEF Scan, StartScan, Visit, StoreGrain
<1>3. \A x \in Pointer : x # NULL => x \in Cell
  BY DEF Pointer, Cell
<1>4. scan' \in [it : Pointer, us : Nat] /\ grain' \in Nat
  <2>1. CASE StartScan
    <3>1. rFirst \in Cell
      BY <1>1, <1>3, <2>1 DEF StartScan, TypeOK
    <3> QED BY <1>1, <2>1, <3>1 DEF StartScan, TypeOK
  <2>2. CASE Visit
    <3>1. scan.it \in Cell /\ scan.us \in Nat
      BY <1>1, <1>3, <2>2 DEF Visit, TypeOK
    <3>2. interval[scan.it] \in Nat /\ rNext[scan.it] \in Pointer
      BY <1>1, <3>1 DEF TypeOK
    <3>3. Gcd(scan.us, interval[scan.it]) \in Nat
      BY <3>1, <3>2, GcdProperties
    <3> QED BY <1>1, <2>2, <3>2, <3>3 DEF Visit, TypeOK
  <2>3. CASE StoreGrain
    <3>1. scan' = Idle /\ Idle \in [it : Pointer, us : Nat]
      BY <2>3 DEF StoreGrain, Idle, Pointer
    <3>2. scan.us \in Nat
      BY <1>1 DEF TypeOK
    <3>3. ToMillis(scan.us) \in Nat
      BY <3>2 DEF ToMillis
    <3> QED BY <2>3, <3>1, <3>3 DEF StoreGrain
  <2> QED BY <2>1, <2>2, <2>3 DEF Scan
<1>5. TypeOK'
  BY <1>1, <1>2, <1>4 DEF TypeOK, list
<1>6. OnePass' /\ AtCell' /\ StopListed'
  BY <1>1, <1>2 DEF OnePass, InPass, AtCell, StopListed, HasCell, top
<1>7. ListConserved'
  BY <1>1, <1>2, ListUntouched
<1> QED BY <1>5, <1>6, <1>7 DEF IInv

LEMMA StepIInv == IInv /\ [Next]_vars => IInv'
<1> SUFFICES ASSUME IInv, [Next]_vars PROVE IInv'
  OBVIOUS
<1>1. ASSUME NEW us \in Intervals, Register(us) PROVE IInv'
  BY <1>1, RegisterPreserves
<1>2. ASSUME NEW c \in Cell, Elapse(c) PROVE IInv'
  <2>1. UNCHANGED list /\ UNCHANGED <<grain, fence, pc, frames, scan, isrCallers>> /\ due' \subseteq live
    BY <1>2 DEF Elapse, cont, IInv, TypeOK
  <2>2. ListConserved'
    BY <2>1, ListUntouched DEF IInv
  <2> QED BY <2>1, <2>2 DEF IInv, TypeOK, OnePass, InPass, AtCell, StopListed, StopAhead, HasCell, this, top, list
<1>3. CASE Enter
  BY <1>3, EnterPreserves
<1>4. CASE Pass
  BY <1>4, PassPreserves, RemovePreserves, LeavePreserves DEF Pass
<1>5. CASE Scan
  BY <1>5, ScanPreserves
<1>6. CASE UNCHANGED vars
  <2>1. ListConserved'
    BY <1>6, ListUntouched DEF IInv, vars
  <2> QED BY <1>6, <2>1 DEF vars, cont, IInv, TypeOK, OnePass, InPass, AtCell, StopListed, StopAhead, HasCell, this, top, list
<1> QED BY <1>1, <1>2, <1>3, <1>4, <1>5, <1>6 DEF Next

(* Whoever registers and removes functions, and whenever: exactly the      *)
(* allocated cells are listed, and every pointer has its type.             *)
THEOREM SpecInv == Spec => []Inv
<1>1. IInv => Inv
  BY DEF IInv, Inv
<1> QED BY InitIInv, StepIInv, <1>1, PTL DEF Spec

(* The pass never works on, nor unlinks behind, a cell that has been       *)
(* deleted, and the cell it is to end with stays listed.                   *)
THEOREM SpecPassStaysOnList == Spec => []PassStaysOnList
<1>1. IInv => PassStaysOnList
  <2> SUFFICES ASSUME IInv, NEW i \in 1..top
               PROVE  /\ frames[i].stop \in live \/ frames[i].done
                      /\ i < top \/ pc \in {"head", "calling"} =>
                           /\ frames[i].current \in live
                           /\ IF frames[i].prev = NULL THEN rFirst = frames[i].current
                              ELSE frames[i].prev \in live /\ rNext[frames[i].prev] = frames[i].current
    BY DEF PassStaysOnList
  <2>1. InPass /\ top = 1 /\ i = 1
    BY DEF IInv, OnePass
  <2>2. this = frames[i]
    BY <2>1 DEF this
  <2>3. frames[i].stop \in live \/ frames[i].done
    BY <2>1, <2>2 DEF IInv, StopListed, StopAhead
  <2>4. ASSUME pc \in {"head", "calling"} PROVE HasCell
    BY <2>4 DEF HasCell
  <2> QED BY <2>1, <2>2, <2>3, <2>4 DEF IInv, AtCell
<1> QED BY InitIInv, StepIInv, <1>1, PTL DEF Spec

-----------------------------------------------------------------------------
(* The upper millisecond of a shorter interval is not a later one.         *)
LEMMA DivMonotone ==
  ASSUME NEW u \in Nat \ {0}, NEW x \in Nat, NEW y \in Nat, x <= y
  PROVE  x \div u <= y \div u
<1> DEFINE p == x \div u
           q == y \div u
<1>1. p \in Nat /\ u * p <= x
  <2>1. \A v \in Int, z \in Int : v > 0 => v * (z \div v) <= z
    BY SMT
  <2> QED BY <2>1
<1>2. q \in Nat /\ y < u * q + u
  <2>1. \A v \in Int, z \in Int : v > 0 => z < v * (z \div v) + v
    BY SMT
  <2> QED BY <2>1
<1>3. u * p \in Nat /\ u * q \in Nat
  BY <1>1, <1>2
<1>4. p >= q + 1 => u * p >= u * q + u
  <2> HIDE DEF p, q
  <2>1. p >= q + 1 => p - q - 1 \in Nat /\ u * (p - q - 1) \in Nat
    BY <1>1, <1>2
  <2>2. u * (p - q - 1) = u * p - u * q - u
    BY <1>1, <1>2
  <2> QED BY <1>3, <2>1, <2>2
<1>5. ~(p >= q + 1)
  <2> HIDE DEF p, q
  <2>1. \A a, b \in Nat : a <= x /\ y < b + u => ~(a >= b + u)
    OBVIOUS
  <2> QED BY <1>1, <1>2, <1>3, <1>4, <2>1
<1> HIDE DEF p, q
<1>6. p <= q
  BY <1>1, <1>2, <1>5
<1> QED BY <1>6 DEF p, q

LEMMA ToMillisMonotone ==
  ASSUME NEW a \in Nat, NEW b \in Nat, a <= b
  PROVE  ToMillis(a) <= ToMillis(b)
<1>1. UsPerMs \in Nat \ {0}
  BY RecurrentAssumption
<1>2. a + UsPerMs - 1 \in Nat /\ b + UsPerMs - 1 \in Nat /\ a + UsPerMs - 1 <= b + UsPerMs - 1
  BY <1>1
<1> QED BY <1>1, <1>2, DivMonotone DEF ToMillis

(* us is at most every interval of the cells before it.                    *)
Suits(us, n, c, k) ==
  \A i \in 1..(k - 1) : interval[c[i]] # 0 => us # 0 /\ us <= interval[c[i]]
ScanSound ==
  \E n \in 0..MaxCell : \E c \in [1..n -> Cell] :
    /\ Listed(n, c)
    /\ \E k \in 1..(n + 1) : /\ scan.it = IF k = n + 1 THEN NULL ELSE c[k]
                             /\ Suits(scan.us, n, c, k)

GInv == ~isrCallers => GrainSuitsAll /\ (pc = "scan" => ScanSound)

LEMMA StartScanSound ==
  ASSUME IInv, StartScan
  PROVE  ScanSound'
<1> USE DEF NULL
<1>1. PICK n \in 0..MaxCell : \E c \in [1..n -> Cell] : Listed(n, c)
  BY ListIsListed DEF IInv
<1>2. PICK c \in [1..n -> Cell] : Listed(n, c)
  BY <1>1
<1>3. rFirst # NULL /\ scan' = [it |-> rNext[rFirst], us |-> interval[rFirst]] /\ UNCHANGED list
  BY DEF StartScan
<1>4. n > 0 /\ rFirst = c[1]
  BY <1>2, <1>3 DEF Listed
<1>5. 1 \in 1..n /\ 2 \in 1..(n + 1) /\ (1 = n <=> 2 = n + 1) /\ (1 < n \/ 1 = n)
  BY <1>4
<1>6. rNext[c[1]] = IF 2 = n + 1 THEN NULL ELSE c[2]
  <2>1. \/ 1 < n /\ rNext[c[1]] = c[1 + 1]
        \/ 1 = n /\ rNext[c[1]] = NULL
    BY <1>2, <1>5 DEF Listed
  <2> QED BY <1>5, <2>1
<1>7. interval[c[1]] \in Nat
  BY <1>5 DEF IInv, TypeOK
<1>8. Suits(interval[rFirst], n, c, 2)'
  <2>1. \A i \in 1..(2 - 1) : interval'[c[i]] # 0 => interval'[c[1]] # 0 /\ interval'[c[1]] <= interval'[c[i]]
    <3>1. \A i \in 1..(2 - 1) : i = 1
      OBVIOUS
    <3>2. interval' = interval
      BY <1>3 DEF list
    <3> QED BY <1>7, <3>1, <3>2
  <2> QED BY <1>3, <1>4, <2>1 DEF Suits, list
<1>9. Listed(n, c)'
  BY <1>2, <1>3 DEF Listed, list
<1>10. (scan.it = IF 2 = n + 1 THEN NULL ELSE c[2])' /\ Suits(scan.us, n, c, 2)'
  BY <1>3, <1>4, <1>6, <1>8 DEF Suits, list
<1> QED BY <1>5, <1>9, <1>10 DEF ScanSound, Cell

LEMMA VisitSound ==
  ASSUME IInv, ScanSound, Visit
  PROVE  ScanSound'
<1> USE DEF NULL
<1>1. PICK n \in 0..MaxCell : \E c \in [1..n -> Cell] :
             /\ Listed(n, c)
             /\ \E k \in 1..(n + 1) : /\ scan.it = IF k = n + 1 THEN NULL ELSE c[k]
                                      /\ Suits(scan.us, n, c, k)
  BY DEF ScanSound
<1>2. PICK c \in [1..n -> Cell] :
             /\ Listed(n, c)
             /\ \E k \in 1..(n + 1) : /\ scan.it = IF k = n + 1 THEN NULL ELSE c[k]
                                      /\ Suits(scan.us, n, c, k)
  BY <1>1
<1>3. PICK k \in 1..(n + 1) : /\ scan.it = IF k = n + 1 THEN NULL ELSE c[k]
                              /\ Suits(scan.us, n, c, k)
  BY <1>2
<1>4. /\ scan.it # NULL /\ UNCHANGED list
      /\ scan' = [it |-> rNext[scan.it], us |-> Gcd(scan.us, interval[scan.it])]
  BY DEF Visit
<1>5. scan.it = c[k] /\ k # n + 1
  BY <1>3, <1>4
<1>6. k \in 1..n /\ k + 1 \in 1..(n + 1) /\ (k = n <=> k + 1 = n + 1)
  BY <1>5
<1>7. rNext[c[k]] = IF k + 1 = n + 1 THEN NULL ELSE c[k + 1]
  <2>1. \/ k < n /\ rNext[c[k]] = c[k + 1]
        \/ k = n /\ rNext[c[k]] = NULL
    BY <1>2, <1>6 DEF Listed
  <2> QED BY <1>6, <2>1
<1>8. scan.us \in Nat /\ \A i \in 1..n : interval[c[i]] \in Nat
  BY DEF IInv, TypeOK
<1> DEFINE a == scan.us
           b == interval[c[k]]
           g == Gcd(a, b)
<1>9. /\ g \in Nat /\ (a = 0 => g = b)
      /\ a # 0 => g # 0 /\ g <= a /\ (b # 0 => g <= b)
  BY <1>6, <1>8, GcdProperties
<1>10. \A i \in 1..((k + 1) - 1) : interval[c[i]] # 0 => g # 0 /\ g <= interval[c[i]]
  <2> SUFFICES ASSUME NEW i \in 1..((k + 1) - 1), interval[c[i]] # 0
               PROVE  g # 0 /\ g <= interval[c[i]]
    OBVIOUS
  <2>1. CASE i = k
    <3>1. b \in Nat /\ b # 0 /\ interval[c[i]] = b /\ a \in Nat
      BY <1>6, <1>8, <2>1
    <3> HIDE DEF a, b, g
    <3> QED BY <1>9, <3>1
  <2>2. CASE i # k
    <3>1. i \in 1..(k - 1) /\ i \in 1..n
      BY <1>6, <2>2
    <3>2. a # 0 /\ a <= interval[c[i]] /\ a \in Nat /\ interval[c[i]] \in Nat
      BY <1>3, <1>8, <3>1 DEF Suits
    <3> HIDE DEF a, b, g
    <3> QED BY <1>9, <3>2
  <2> QED BY <2>1, <2>2
<1>11. scan'.it = (IF k + 1 = n + 1 THEN NULL ELSE c[k + 1]) /\ scan'.us = g
  BY <1>4, <1>5, <1>7
<1> HIDE DEF g
<1>12. Suits(scan.us, n, c, k + 1)'
  BY <1>4, <1>10, <1>11 DEF Suits, list
<1>13. Listed(n, c)'
  BY <1>2, <1>4 DEF Listed, list
<1> QED BY <1>6, <1>11, <1>12, <1>13 DEF ScanSound, Cell

LEMMA StoredSuits ==
  ASSUME IInv, ScanSound, StoreGrain
  PROVE  GrainSuitsAll'
<1> USE DEF NULL
<1>1. PICK n \in 0..MaxCell : \E c \in [1..n -> Cell] :
             /\ Listed(n, c)
             /\ \E k \in 1..(n + 1) : /\ scan.it = IF k = n + 1 THEN NULL ELSE c[k]
                                      /\ Suits(scan.us, n, c, k)
  BY DEF ScanSound
<1>2. PICK c \in [1..n -> Cell] :
             /\ Listed(n, c)
             /\ \E k \in 1..(n + 1) : /\ scan.it = IF k = n + 1 THEN NULL ELSE c[k]
                                      /\ Suits(scan.us, n, c, k)
  BY <1>1
<1>3. PICK k \in 1..(n + 1) : /\ scan.it = IF k = n + 1 THEN NULL ELSE c[k]
                              /\ Suits(scan.us, n, c, k)
  BY <1>2
<1>4. scan.it = NULL /\ grain' = ToMillis(scan.us) /\ UNCHANGED list
  BY DEF StoreGrain
<1>5. k = n + 1 /\ k - 1 = n
  <2>1. k # n + 1 => c[k] \in Cell
    OBVIOUS
  <2> QED BY <1>3, <1>4, <2>1 DEF Cell
<1>6. ASSUME NEW x \in live, interval[x] # 0 PROVE ToMillis(scan.us) <= ToMillis(interval[x])
  <2>1. PICK i \in 1..n : x = c[i]
    BY <1>2 DEF Listed
  <2>2. scan.us <= interval[x]
    BY <1>3, <1>5, <1>6, <2>1 DEF Suits
  <2>3. scan.us \in Nat /\ interval[x] \in Nat
    BY <2>1 DEF IInv, TypeOK
  <2> QED BY <2>2, <2>3, ToMillisMonotone
<1> QED BY <1>4, <1>6 DEF GrainSuitsAll, list, ToMillis

LEMMA StepGInv == IInv /\ GInv /\ [Next]_vars => GInv'
<1> SUFFICES ASSUME IInv, GInv, [Next]_vars, ~isrCallers PROVE GrainSuitsAll' /\ (pc' = "scan" => ScanSound')
  <2>1. ASSUME [Next]_vars PROVE isrCallers' = isrCallers
    <3>1. ASSUME NEW us \in Intervals, Register(us) PROVE isrCallers' = isrCallers
      BY <3>1 DEF Register, cont
    <3>2. ASSUME NEW c \in Cell, Elapse(c) PROVE isrCallers' = isrCallers
      BY <3>2 DEF Elapse, cont
    <3>3. CASE Enter \/ Scan \/ UNCHANGED vars
      BY <3>3 DEF Enter, Scan, StartScan, Visit, StoreGrain, vars, cont
    <3>4. CASE Pass
      BY <3>4 DEF Pass, Call, Skip, Keep, Remove, Continue, Leave
    <3> QED BY <2>1, <3>1, <3>2, <3>3, <3>4 DEF Next
  <2> QED BY <2>1 DEF GInv
<1>0. GrainSuitsAll /\ (pc = "scan" => ScanSound)
  BY DEF GInv
<1>1. ASSUME grain' = 0, pc' # "scan" PROVE GrainSuitsAll' /\ (pc' = "scan" => ScanSound')
  BY <1>1 DEF GrainSuitsAll
<1>2. ASSUME UNCHANGED list, UNCHANGED grain, pc' # "scan"
      PROVE  GrainSuitsAll' /\ (pc' = "scan" => ScanSound')
  BY <1>0, <1>2 DEF GrainSuitsAll, list, ToMillis
<1>3. ASSUME UNCHANGED list, UNCHANGED <<grain, pc, scan>>
      PROVE  GrainSuitsAll' /\ (pc' = "scan" => ScanSound')
  BY <1>0, <1>3 DEF GrainSuitsAll, list, ToMillis, ScanSound, Listed, Suits, Cell
<1>4. ASSUME NEW us \in Intervals, Register(us) PROVE GrainSuitsAll' /\ (pc' = "scan" => ScanSound')
  BY <1>1, <1>4 DEF Register, ForgetGrain, CallerRuns, cont
<1>5. ASSUME NEW c \in Cell, Elapse(c) PROVE GrainSuitsAll' /\ (pc' = "scan" => ScanSound')
  BY <1>3, <1>5 DEF Elapse, cont
<1>6. CASE Enter \/ Call \/ Skip \/ Keep \/ Continue \/ Leave
  BY <1>2, <1>6 DEF Enter, Call, Skip, Keep, Continue, Leave
<1>7. CASE Remove
  BY <1>1, <1>7 DEF Remove, ForgetGrain
<1>8. CASE StartScan
  <2>1. UNCHANGED list /\ UNCHANGED grain
    BY <1>8 DEF StartScan
  <2>2. GrainSuitsAll'
    BY <1>0, <2>1 DEF GrainSuitsAll, list, ToMillis
  <2> QED BY <1>8, <2>2, StartScanSound
<1>9. CASE Visit
  <2>1. UNCHANGED list /\ UNCHANGED grain /\ pc = "scan"
    BY <1>9 DEF Visit
  <2>2. GrainSuitsAll'
    BY <1>0, <2>1 DEF GrainSuitsAll, list, ToMillis
  <2> QED BY <1>0, <1>9, <2>1, <2>2, VisitSound
<1>10. CASE StoreGrain
  <2>1. pc = "scan" /\ pc' = "user"
    BY <1>10 DEF StoreGrain
  <2> QED BY <1>0, <1>10, <2>1, StoredSuits
<1>11. CASE UNCHANGED vars
  BY <1>3, <1>11 DEF vars, cont
<1> QED BY <1>4, <1>5, <1>6, <1>7, <1>8, <1>9, <1>10, <1>11 DEF Next, Pass, Scan

(* Without interrupt handlers that register functions, delay() never       *)
(* sleeps past the interval of a listed function, also while a grain is    *)
(* being computed, and after every registration and removal.               *)
THEOREM SpecGrainSuitsAll == Spec => []GrainSuitsAllBarIsr
<1>1. Init => GInv
  BY DEF Init, GInv, GrainSuitsAll
<1>2. IInv /\ GInv /\ [Next]_vars => (IInv /\ GInv)'
  BY StepIInv, StepGInv
<1>3. GInv => GrainSuitsAllBarIsr
  BY DEF GInv, GrainSuitsAllBarIsr
<1> QED BY InitIInv, <1>1, <1>2, <1>3, PTL DEF Spec
=============================================================================
