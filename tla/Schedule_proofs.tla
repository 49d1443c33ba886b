-------------------------- MODULE Schedule_proofs --------------------------
(***************************************************************************)
(* The pool of cells is conserved for every limit, every set of functions, *)
(* every depth of nested runs, and with or without interrupt handlers.     *)
(* Without nested runs every function is called once, a run keeps the cell *)
(* it stops at ahead of it, and the linked list is the FIFO of FnQueue.    *)
(***************************************************************************)
EXTENDS Schedule, SequenceTheorems, WellFoundedInduction, TLAPS

LEMMA ChainsAreSequences ==
  \A q : q \in Chains <=> q \in Seq(Item) /\ Len(q) <= MaxCount
<1> USE ScheduleAssumption
<1>1. ASSUME NEW q \in Chains PROVE q \in Seq(Item) /\ Len(q) <= MaxCount
  BY <1>1 DEF Chains
<1>2. ASSUME NEW q \in Seq(Item), Len(q) <= MaxCount PROVE q \in Chains
  BY <1>2 DEF Chains
<1> QED BY <1>1, <1>2

LEMMA FunctionsAreChains ==
  ASSUME NEW n \in 0..MaxCount, NEW c \in [1..n -> Item]
  PROVE  c \in Chains /\ Len(c) = n /\ DOMAIN c = 1..n
<1> USE ScheduleAssumption
<1>1. c \in Chains
  BY DEF Chains
<1>2. c \in Seq(Item)
  BY <1>1, ChainsAreSequences
<1>3. DOMAIN c = 1..n /\ DOMAIN c = 1..Len(c) /\ Len(c) \in Nat
  BY <1>2, LenProperties
<1> QED BY <1>1, <1>3

LEMMA ChainsAreFunctions ==
  ASSUME NEW c \in Chains
  PROVE  /\ Len(c) \in 0..MaxCount
         /\ c \in [1..Len(c) -> Item]
         /\ DOMAIN c = 1..Len(c)
<1>1. c \in Seq(Item) /\ Len(c) <= MaxCount
  BY ChainsAreSequences
<1> QED BY <1>1, LenProperties, ScheduleAssumption

(* Some activation exists whenever CONT is inside the run.                 *)
InRun == pc # "loop" => top > 0

Inv == TypeOK /\ InRun /\ PoolConserved

LEMMA InitInv == Init => Inv
<1> SUFFICES ASSUME Init PROVE Inv
  OBVIOUS
<1> USE ScheduleAssumption DEF Init, NULL
<1>1. TypeOK
  BY DEF TypeOK, Pointer, Item, Frame
<1>2. InRun
  BY DEF InRun
<1>3. <<>> \in Chains
  <2>1. <<>> \in Seq(Item) /\ Len(<<>>) <= MaxCount
    OBVIOUS
  <2> QED BY <2>1, ChainsAreSequences
<1>4. Lists(<<>>, <<>>)
  BY DEF Lists, IsChain, CellsOf, Item
<1> QED BY <1>1, <1>2, <1>3, <1>4 DEF Inv, PoolConserved

(* Who holds no cell and links none leaves the lists alone.                *)
LEMMA ListsUntouched ==
  ASSUME PoolConserved, UNCHANGED queue PROVE PoolConserved'
<1>1. PICK q \in Chains, u \in Chains : Lists(q, u)
  BY DEF PoolConserved
<1>2. Lists(q, u)'
  BY <1>1 DEF Lists, IsChain, CellsOf, queue, Item
<1> QED BY <1>2 DEF PoolConserved, Chains, Item

LEMMA TypePreserved == TypeOK /\ InRun /\ [Next]_vars => TypeOK' /\ InRun'
<1> SUFFICES ASSUME TypeOK, InRun, [Next]_vars PROVE TypeOK' /\ InRun'
  OBVIOUS
<1> USE ScheduleAssumption DEF NULL
<1>1. ASSUME NEW f \in Fn, Accept(f) PROVE TypeOK' /\ InRun'
  <2>1. PICK item \in Item : Grant(item) /\ Enqueue(item, f)
    BY <1>1 DEF Accept
  <2>2. sUnused' \in Pointer /\ sCount' \in 0..MaxCount
    BY <2>1 DEF Grant, TypeOK, Pointer, Item
  <2>3. mFunc' \in [Item -> Fn \cup {NoFn}]
    BY <2>1 DEF Enqueue, TypeOK
  <2>4. mNext' \in [Item -> Pointer]
    BY <2>1 DEF Enqueue, TypeOK, Pointer, Item
  <2>5. sFirst' \in Pointer /\ sLast' \in Pointer
    BY <2>1 DEF Enqueue, TypeOK, Pointer, Item
  <2> QED BY <1>1, <2>2, <2>3, <2>4, <2>5 DEF Accept, TypeOK, InRun, top
<1>2. ASSUME NEW f \in Fn \cup {NoFn}, Refuse(f) PROVE TypeOK' /\ InRun'
  BY <1>2 DEF Refuse, TypeOK, InRun, top, queue
<1>3. CASE Enter
  BY <1>3 DEF Enter, TypeOK, InRun, top, queue, Frame, Pointer
<1>4. CASE Call
  <2>1. frames[top] \in Frame /\ top \in 1..Len(frames)
    BY <1>4 DEF Call, TypeOK, InRun, top
  <2>2. frames' \in Seq(Frame) /\ Len(frames') = Len(frames)
    <3> DEFINE fr == [stop |-> frames[top].stop, done |-> ReachesStop(frames[top]), cur |-> sFirst]
    <3>1. fr \in Frame
      BY <2>1 DEF Frame, ReachesStop, TypeOK
    <3>2. frames' = [frames EXCEPT ![top] = fr]
      BY <1>4 DEF Call, ReachesStop
    <3> HIDE DEF fr
    <3> QED BY <2>1, <3>1, <3>2, ExceptSeq DEF TypeOK
  <2> QED BY <1>4, <2>2 DEF Call, TypeOK, InRun, top, queue
<1>5. CASE Unlink
  <2>1. sFirst \in Item
    BY <1>5 DEF Unlink, TypeOK, Pointer, Item
  <2>2. sFirst' \in Pointer /\ sLast' \in Pointer /\ sUnused' \in Pointer
    BY <1>5, <2>1 DEF Unlink, LastBehind, Recycle, TypeOK, Pointer, Item
  <2>3. mFunc' \in [Item -> Fn \cup {NoFn}] /\ mNext' \in [Item -> Pointer]
    BY <1>5, <2>1 DEF Unlink, Recycle, TypeOK
  <2> QED BY <1>5, <2>2, <2>3 DEF Unlink, TypeOK, InRun, top
<1>6. CASE Resume
  BY <1>6 DEF Resume, TypeOK, InRun, top, queue
<1>7. CASE Leave
  <2>1. top \in Nat /\ top >= 1
    BY <1>7 DEF Leave, TypeOK, InRun, top
  <2>2. frames' \in Seq(Frame) /\ Len(frames') = top - 1
    <3>1. \A i \in 1..(top - 1) : frames[i] \in Frame
      BY <2>1 DEF TypeOK, top
    <3>2. top - 1 \in Int /\ (IF 1 <= top - 1 THEN (top - 1) - 1 + 1 ELSE 0) = top - 1
      BY <2>1
    <3>3. SubSeq(frames, 1, top - 1) \in Seq(Frame) /\ Len(SubSeq(frames, 1, top - 1)) = IF 1 <= top - 1 THEN (top - 1) - 1 + 1 ELSE 0
      BY <3>1, <3>2, SubSeqProperties
    <3>4. frames' = SubSeq(frames, 1, top - 1)
      BY <1>7 DEF Leave
    <3> QED BY <3>2, <3>3, <3>4
  <2> QED BY <1>7, <2>1, <2>2 DEF Leave, TypeOK, InRun, top, queue
<1>8. CASE UNCHANGED vars
  BY <1>8 DEF vars, queue, TypeOK, InRun, top
<1> QED BY <1>1, <1>2, <1>3, <1>4, <1>5, <1>6, <1>7, <1>8 DEF Next, Cont

(* Cells whose links do not change stay a chain.                           *)
LEMMA ChainFrame ==
  ASSUME NEW c \in Chains, NEW first, IsChain(first, c),
         \A x \in CellsOf(c) : mNext'[x] = mNext[x]
  PROVE  /\ (first = NULL /\ Len(c) = 0) \/ (Len(c) > 0 /\ first = c[1])
         /\ \A i \in 1..Len(c) : \/ i < Len(c) /\ mNext'[c[i]] = c[i + 1]
                                 \/ i = Len(c) /\ mNext'[c[i]] = NULL
         /\ \A i, j \in 1..Len(c) : c[i] = c[j] => i = j
BY DEF IsChain, CellsOf

(* Without its first cell, a chain is the chain from the second one.       *)
LEMMA TailOfChain ==
  ASSUME TypeOK, NEW c \in Chains, NEW first \in Item, IsChain(first, c)
  PROVE  /\ Len(c) > 0 /\ first = c[1] /\ first \in CellsOf(c)
         /\ \E d \in Chains : /\ Len(d) = Len(c) - 1
                              /\ IsChain(mNext[first], d)
                              /\ CellsOf(d) = CellsOf(c) \ {first}
                              /\ Len(d) > 0 => d[Len(d)] = c[Len(c)]
                              /\ \A i \in 1..Len(d) : d[i] = c[i + 1]
<1> USE ScheduleAssumption DEF NULL
<1>1. /\ Len(c) \in 0..MaxCount /\ c \in [1..Len(c) -> Item] /\ DOMAIN c = 1..Len(c)
  BY ChainsAreFunctions
<1>2. Len(c) > 0 /\ c[1] = first
  <2>1. (first = NULL /\ Len(c) = 0) \/ (Len(c) > 0 /\ first = c[1])
    BY DEF IsChain
  <2> QED BY <2>1 DEF Item
<1> DEFINE d == [i \in 1..(Len(c) - 1) |-> c[i + 1]]
<1>3. d \in Chains /\ Len(d) = Len(c) - 1
  <2>1. Len(c) - 1 \in 0..MaxCount /\ d \in [1..(Len(c) - 1) -> Item]
    BY <1>1, <1>2
  <2> QED BY <2>1, FunctionsAreChains
<1>4. \A i \in 1..(Len(c) - 1) : d[i] = c[i + 1]
  OBVIOUS
<1> HIDE DEF d
<1>5. /\ \A i \in 1..Len(c) : \/ i < Len(c) /\ mNext[c[i]] = c[i + 1]
                              \/ i = Len(c) /\ mNext[c[i]] = NULL
      /\ \A i, j \in 1..Len(c) : c[i] = c[j] => i = j
  BY DEF IsChain
<1>6. 1 \in 1..Len(c)
  BY <1>1, <1>2
<1>7. IsChain(mNext[first], d)
  <2>1. (mNext[first] = NULL /\ Len(d) = 0) \/ (Len(d) > 0 /\ mNext[first] = d[1])
    <3>1. CASE Len(c) = 1
      BY <1>2, <1>3, <1>5, <1>6, <3>1
    <3>2. CASE Len(c) # 1
      <4>1. 1 < Len(c) /\ 1 \in 1..(Len(c) - 1)
        BY <1>1, <1>2, <3>2
      <4> QED BY <1>2, <1>3, <1>4, <1>5, <1>6, <4>1
    <3> QED BY <3>1, <3>2
  <2>2. \A i \in 1..Len(d) : \/ i < Len(d) /\ mNext[d[i]] = d[i + 1]
                             \/ i = Len(d) /\ mNext[d[i]] = NULL
    <3> TAKE i \in 1..Len(d)
    <3>1. i + 1 \in 1..Len(c) /\ d[i] = c[i + 1]
      BY <1>1, <1>3, <1>4
    <3>2. i < Len(d) => d[i + 1] = c[(i + 1) + 1]
      BY <1>1, <1>3, <1>4
    <3>3. \/ i + 1 < Len(c) /\ mNext[c[i + 1]] = c[(i + 1) + 1]
          \/ i + 1 = Len(c) /\ mNext[c[i + 1]] = NULL
      BY <1>5, <3>1
    <3>4. /\ i < Len(d) <=> i + 1 < Len(c)
          /\ i = Len(d) <=> i + 1 = Len(c)
      BY <1>1, <1>3
    <3> QED BY <3>1, <3>2, <3>3, <3>4
  <2>3. \A i, j \in 1..Len(d) : d[i] = d[j] => i = j
    <3> TAKE i, j \in 1..Len(d)
    <3>1. /\ i + 1 \in 1..Len(c) /\ d[i] = c[i + 1]
          /\ j + 1 \in 1..Len(c) /\ d[j] = c[j + 1]
      BY <1>1, <1>3, <1>4
    <3>2. d[i] = d[j] => i + 1 = j + 1
      BY <1>5, <3>1
    <3> QED BY <1>1, <1>3, <3>2
  <2> QED BY <2>1, <2>2, <2>3 DEF IsChain
<1>8. CellsOf(d) = CellsOf(c) \ {first}
  <2>1. \A i \in 1..Len(c) : c[i] = first <=> i = 1
    BY <1>2, <1>5, <1>6
  <2>2. ASSUME NEW x \in CellsOf(d) PROVE x \in CellsOf(c) /\ x # first
    <3>1. PICK i \in 1..Len(d) : x = d[i]
      BY DEF CellsOf
    <3>2. i + 1 \in 1..Len(c) /\ i + 1 # 1 /\ d[i] = c[i + 1]
      BY <1>1, <1>3, <1>4
    <3> QED BY <2>1, <3>1, <3>2 DEF CellsOf
  <2>3. ASSUME NEW x \in CellsOf(c), x # first PROVE x \in CellsOf(d)
    <3>1. PICK i \in 1..Len(c) : x = c[i]
      BY DEF CellsOf
    <3>2. i # 1
      BY <2>1, <2>3, <3>1
    <3>3. i - 1 \in 1..Len(d) /\ (i - 1) + 1 = i
      BY <1>1, <1>3, <3>2
    <3>4. d[i - 1] = c[i]
      BY <1>3, <1>4, <3>3
    <3> QED BY <3>1, <3>3, <3>4 DEF CellsOf
  <2> QED BY <2>2, <2>3
<1>9. Len(d) > 0 => d[Len(d)] = c[Len(c)]
  <2>1. Len(d) > 0 => Len(d) \in 1..(Len(c) - 1) /\ Len(d) + 1 = Len(c)
    BY <1>1, <1>3
  <2> QED BY <1>4, <2>1
<1>10. first \in CellsOf(c)
  BY <1>2, <1>6 DEF CellsOf
<1>11. \A i \in 1..Len(d) : d[i] = c[i + 1]
  BY <1>3, <1>4
<1> QED BY <1>2, <1>3, <1>7, <1>8, <1>9, <1>10, <1>11

(* A cell linked to the head of a chain becomes its new head.              *)
LEMMA ConsOfChain ==
  ASSUME NEW c \in Chains, NEW first, NEW item \in Item, IsChain(first, c),
         item \notin CellsOf(c), Len(c) < MaxCount,
         mNext'[item] = first, \A x \in CellsOf(c) : mNext'[x] = mNext[x],
         sUnused' = item
  PROVE  \E d \in Chains : /\ Len(d) = Len(c) + 1
                           /\ IsChain(sUnused, d)'
                           /\ CellsOf(d) = CellsOf(c) \cup {item}
<1> USE ScheduleAssumption DEF NULL
<1>1. /\ Len(c) \in 0..MaxCount /\ c \in [1..Len(c) -> Item] /\ DOMAIN c = 1..Len(c)
  BY ChainsAreFunctions
<1> DEFINE d == [i \in 1..(Len(c) + 1) |-> IF i = 1 THEN item ELSE c[i - 1]]
<1>2. d \in Chains /\ Len(d) = Len(c) + 1
  <2>1. Len(c) + 1 \in 0..MaxCount /\ d \in [1..(Len(c) + 1) -> Item]
    BY <1>1
  <2> QED BY <2>1, FunctionsAreChains
<1>3. d[1] = item /\ \A i \in 1..Len(c) : d[i + 1] = c[i]
  BY <1>1
<1> HIDE DEF d
<1>4. /\ (first = NULL /\ Len(c) = 0) \/ (Len(c) > 0 /\ first = c[1])
      /\ \A i \in 1..Len(c) : \/ i < Len(c) /\ mNext'[c[i]] = c[i + 1]
                              \/ i = Len(c) /\ mNext'[c[i]] = NULL
      /\ \A i, j \in 1..Len(c) : c[i] = c[j] => i = j
  BY ChainFrame
<1>5. \A i \in 1..Len(d) : \/ i = 1 /\ d[i] = item
                           \/ i - 1 \in 1..Len(c) /\ d[i] = c[i - 1] /\ d[i] # item
  <2> TAKE i \in 1..Len(d)
  <2>1. CASE i = 1
    BY <1>3, <2>1
  <2>2. CASE i # 1
    <3>1. i - 1 \in 1..Len(c) /\ (i - 1) + 1 = i
      BY <1>1, <1>2, <2>2
    <3>2. d[i] = c[i - 1]
      BY <1>3, <3>1
    <3> QED BY <3>1, <3>2 DEF CellsOf
  <2> QED BY <2>1, <2>2
<1>6. \A i \in 1..Len(d) : \/ i < Len(d) /\ mNext'[d[i]] = d[i + 1]
                           \/ i = Len(d) /\ mNext'[d[i]] = NULL
  <2> TAKE i \in 1..Len(d)
  <2>1. CASE i = 1 /\ d[i] = item
    <3>1. mNext'[d[i]] = first
      BY <2>1
    <3>2. Len(c) > 0 => d[i + 1] = c[1]
      BY <1>1, <1>3, <2>1
    <3>3. Len(d) = Len(c) + 1 /\ Len(c) \in Nat /\ i = 1
      BY <1>1, <1>2, <2>1
    <3>4. (first = NULL /\ Len(c) = 0) \/ (Len(c) > 0 /\ first = c[1])
      BY <1>4
    <3>5. CASE Len(c) = 0
      BY <3>1, <3>3, <3>4, <3>5
    <3>6. CASE Len(c) > 0
      BY <3>1, <3>2, <3>3, <3>4, <3>6
    <3> QED BY <3>3, <3>5, <3>6
  <2>2. CASE i - 1 \in 1..Len(c) /\ d[i] = c[i - 1]
    <3>1. mNext'[d[i]] = mNext'[c[i - 1]]
      BY <2>2
    <3>2. i < Len(d) => i \in 1..Len(c) /\ d[i + 1] = c[i] /\ (i - 1) + 1 = i
      BY <1>1, <1>2, <1>3
    <3>3. i - 1 = Len(c) <=> i = Len(d)
      BY <1>1, <1>2
    <3>4. \/ i - 1 < Len(c) /\ mNext'[c[i - 1]] = c[(i - 1) + 1]
          \/ i - 1 = Len(c) /\ mNext'[c[i - 1]] = NULL
      BY <1>4, <2>2
    <3> QED BY <1>1, <1>2, <2>2, <3>1, <3>2, <3>3, <3>4
  <2> QED BY <1>5, <2>1, <2>2
<1>7. \A i, j \in 1..Len(d) : d[i] = d[j] => i = j
  <2> TAKE i, j \in 1..Len(d)
  <2>1. CASE i - 1 \in 1..Len(c) /\ j - 1 \in 1..Len(c)
    <3>1. d[i] = c[i - 1] /\ d[j] = c[j - 1]
      BY <1>1, <1>5, <2>1
    <3>2. d[i] = d[j] => i - 1 = j - 1
      BY <1>4, <2>1, <3>1
    <3> QED BY <1>1, <1>2, <3>2
  <2> QED BY <1>5, <2>1
<1>8. CellsOf(d) = CellsOf(c) \cup {item}
  <2>1. ASSUME NEW x \in CellsOf(d) PROVE x \in CellsOf(c) \cup {item}
    <3>1. PICK i \in 1..Len(d) : x = d[i]
      BY DEF CellsOf
    <3> QED BY <1>5, <3>1 DEF CellsOf
  <2>2. ASSUME NEW x \in CellsOf(c) PROVE x \in CellsOf(d)
    <3>1. PICK i \in 1..Len(c) : x = c[i]
      BY DEF CellsOf
    <3>2. i + 1 \in 1..Len(d) /\ d[i + 1] = c[i]
      BY <1>1, <1>2, <1>3
    <3> QED BY <3>1, <3>2 DEF CellsOf
  <2>3. 1 \in 1..Len(d)
    BY <1>1, <1>2
  <2>4. item \in CellsOf(d)
    BY <1>3, <2>3 DEF CellsOf
  <2> QED BY <2>1, <2>2, <2>4
<1>9. IsChain(sUnused, d)'
  <2>1. Len(d) > 0 /\ sUnused' = d[1]
    BY <1>1, <1>2, <1>3
  <2> QED BY <1>6, <1>7, <2>1 DEF IsChain
<1> QED BY <1>2, <1>8, <1>9

(* The head goes from the queue to the free list.                          *)
LEMMA UnlinkConserves ==
  ASSUME TypeOK, PoolConserved, Unlink PROVE PoolConserved'
<1> USE ScheduleAssumption DEF NULL
<1>1. PICK q \in Chains, u \in Chains : Lists(q, u)
  BY DEF PoolConserved
<1>2. Len(q) \in 0..MaxCount /\ Len(u) \in 0..MaxCount
  BY ChainsAreFunctions
<1>3. sFirst \in Item /\ sCount \in 0..MaxCount
  BY DEF Unlink, TypeOK, Pointer, Item
<1>4. /\ mFunc' = [mFunc EXCEPT ![sFirst] = NoFn]
      /\ mNext' = [mNext EXCEPT ![sFirst] = sUnused]
      /\ sUnused' = sFirst /\ sFirst' = mNext[sFirst] /\ sCount' = sCount
      /\ sLast' = IF sLast = sFirst THEN NULL ELSE sLast
      /\ mNext \in [Item -> Pointer] /\ mFunc \in [Item -> Fn \cup {NoFn}]
  BY DEF Unlink, Recycle, LastBehind, TypeOK
<1>5. /\ IsChain(sFirst, q) /\ IsChain(sUnused, u)
      /\ (sLast = NULL /\ Len(q) = 0) \/ (Len(q) > 0 /\ sLast = q[Len(q)])
      /\ CellsOf(q) \cap CellsOf(u) = {}
      /\ CellsOf(q) \cup CellsOf(u) = 1..sCount
      /\ Len(q) + Len(u) = sCount
      /\ \A i \in Item : mFunc[i] # NoFn <=> i \in CellsOf(q)
  BY <1>1 DEF Lists
<1>6. Len(q) > 0 /\ sFirst = q[1] /\ sFirst \in CellsOf(q) /\ sLast = q[Len(q)]
  BY <1>2, <1>3, <1>5, TailOfChain
<1>7. PICK q2 \in Chains : /\ Len(q2) = Len(q) - 1
                           /\ IsChain(mNext[sFirst], q2)
                           /\ CellsOf(q2) = CellsOf(q) \ {sFirst}
                           /\ Len(q2) > 0 => q2[Len(q2)] = q[Len(q)]
  BY <1>3, <1>5, TailOfChain
<1>8. CellsOf(q2) \subseteq Item /\ CellsOf(u) \subseteq Item
  <2>1. q2 \in [1..Len(q2) -> Item] /\ u \in [1..Len(u) -> Item]
    BY ChainsAreFunctions
  <2> QED BY <2>1 DEF CellsOf
<1>9. IsChain(sFirst, q2)'
  <2>1. \A x \in CellsOf(q2) : mNext'[x] = mNext[x]
    BY <1>4, <1>7, <1>8
  <2>2. /\ (sFirst' = NULL /\ Len(q2) = 0) \/ (Len(q2) > 0 /\ sFirst' = q2[1])
        /\ \A i \in 1..Len(q2) : \/ i < Len(q2) /\ mNext'[q2[i]] = q2[i + 1]
                                 \/ i = Len(q2) /\ mNext'[q2[i]] = NULL
        /\ \A i, j \in 1..Len(q2) : q2[i] = q2[j] => i = j
    BY <1>4, <1>7, <2>1, ChainFrame
  <2> QED BY <2>2 DEF IsChain
<1>10. PICK u2 \in Chains : /\ Len(u2) = Len(u) + 1
                            /\ IsChain(sUnused, u2)'
                            /\ CellsOf(u2) = CellsOf(u) \cup {sFirst}
  <2>1. \A x \in CellsOf(u) : mNext'[x] = mNext[x]
    BY <1>4, <1>5, <1>6, <1>8
  <2>2. mNext'[sFirst] = sUnused /\ sFirst \notin CellsOf(u)
    BY <1>3, <1>4, <1>5, <1>6
  <2>3. Len(u) < MaxCount
    BY <1>2, <1>3, <1>5, <1>6
  <2> QED BY <1>3, <1>4, <1>5, <2>1, <2>2, <2>3, ConsOfChain
<1>11. ((sLast = NULL /\ Len(q2) = 0) \/ (Len(q2) > 0 /\ sLast = q2[Len(q2)]))'
  <2>1. CASE Len(q2) = 0
    <3>1. Len(q) = 1
      BY <1>2, <1>7, <2>1
    <3> QED BY <1>4, <1>6, <2>1, <3>1
  <2>2. CASE Len(q2) > 0
    <3>1. q2[Len(q2)] \in CellsOf(q2)
      <4>1. Len(q2) \in 1..Len(q2)
        BY <1>2, <1>7, <2>2
      <4> QED BY <4>1 DEF CellsOf
    <3> QED BY <1>4, <1>6, <1>7, <2>2, <3>1
  <2> QED BY <1>2, <1>6, <1>7, <2>1, <2>2
<1>12. (CellsOf(q2) \cap CellsOf(u2) = {} /\ CellsOf(q2) \cup CellsOf(u2) = 1..sCount)'
  <2>1. CellsOf(q2) \cap CellsOf(u2) = {} /\ CellsOf(q2) \cup CellsOf(u2) = 1..sCount'
    BY <1>4, <1>5, <1>6, <1>7, <1>10
  <2> QED BY <2>1 DEF CellsOf
<1>13. (\A i \in Item : mFunc[i] # NoFn <=> i \in CellsOf(q2))'
  <2>1. \A i \in Item : mFunc'[i] # NoFn <=> i \in CellsOf(q2)
    BY <1>3, <1>4, <1>5, <1>7
  <2> QED BY <2>1 DEF CellsOf, Item
<1>14. Lists(q2, u2)'
  <2>1. (Len(q2) + Len(u2) = sCount)'
    BY <1>2, <1>4, <1>5, <1>7, <1>10
  <2> QED BY <1>9, <1>10, <1>11, <1>12, <1>13, <2>1 DEF Lists
<1> QED BY <1>14 DEF PoolConserved, Chains, Item

(* A cell outside the queue becomes its last cell.                         *)
LEMMA EnqueueAppends ==
  ASSUME TypeOK, NEW q \in Chains, NEW item \in Item, NEW f \in Fn,
         IsChain(sFirst, q),
         (sLast = NULL /\ Len(q) = 0) \/ (Len(q) > 0 /\ sLast = q[Len(q)]),
         item \notin CellsOf(q), Len(q) < MaxCount,
         Enqueue(item, f)
  PROVE  \E q2 \in Chains :
           /\ Len(q2) = Len(q) + 1
           /\ IsChain(sFirst, q2)'
           /\ sLast' = q2[Len(q2)]
           /\ CellsOf(q2) = CellsOf(q) \cup {item}
           /\ q2[Len(q2)] = item /\ \A i \in 1..Len(q) : q2[i] = q[i]
<1> USE ScheduleAssumption DEF NULL
<1> DEFINE n == Len(q)
           q2 == [i \in 1..(n + 1) |-> IF i = n + 1 THEN item ELSE q[i]]
<1>1. n \in 0..MaxCount /\ q \in [1..n -> Item] /\ DOMAIN q = 1..n
  BY ChainsAreFunctions
<1>2. q2 \in Chains /\ Len(q2) = n + 1
  <2>1. n + 1 \in 0..MaxCount /\ q2 \in [1..(n + 1) -> Item]
    BY <1>1
  <2> QED BY <2>1, FunctionsAreChains
<1>3. q2[n + 1] = item /\ \A i \in 1..n : q2[i] = q[i]
  BY <1>1
<1> HIDE DEF q2
<1>4. /\ (sFirst = NULL /\ n = 0) \/ (n > 0 /\ sFirst = q[1])
      /\ \A i \in 1..n : \/ i < n /\ mNext[q[i]] = q[i + 1]
                         \/ i = n /\ mNext[q[i]] = NULL
      /\ \A i, j \in 1..n : q[i] = q[j] => i = j
      /\ \A i \in 1..n : q[i] # item
  BY DEF IsChain, CellsOf
<1>5. /\ mNext' = [i \in Item |-> IF i = item THEN NULL
                                  ELSE IF sFirst # NULL /\ i = sLast THEN item
                                  ELSE mNext[i]]
      /\ sFirst' = IF sFirst # NULL THEN sFirst ELSE item
      /\ sLast' = item
  BY DEF Enqueue
<1>6. n > 0 => sFirst # NULL /\ 1 \in 1..n /\ n \in 1..n /\ sLast = q[n]
  <2>1. n > 0 => 1 \in 1..n /\ n \in 1..n
    BY <1>1
  <2>2. \A i \in Item : i # NULL
    BY DEF Item
  <2>3. n > 0 => q[1] \in Item
    BY <1>1, <2>1
  <2>4. n > 0 => sFirst = q[1] /\ sLast = q[n]
    <3>1. (sLast = NULL /\ n = 0) \/ (n > 0 /\ sLast = q[n])
      OBVIOUS
    <3>2. n > 0 => n # 0
      BY <1>1
    <3> HIDE DEF n
    <3> QED BY <1>4, <3>1, <3>2
  <2> QED BY <2>1, <2>2, <2>3, <2>4
<1>7. (sFirst' = NULL /\ Len(q2) = 0) \/ (Len(q2) > 0 /\ sFirst' = q2[1])
  <2>1. CASE n = 0
    BY <1>2, <1>3, <1>4, <1>5, <2>1
  <2>2. CASE n > 0
    <3>1. sFirst' = q[1] /\ q2[1] = q[1]
      BY <1>3, <1>4, <1>5, <1>6, <2>2
    <3> QED BY <1>1, <1>2, <2>2, <3>1
  <2> QED BY <1>1, <2>1, <2>2
<1>8. \A i \in 1..Len(q2) : \/ i < Len(q2) /\ mNext'[q2[i]] = q2[i + 1]
                            \/ i = Len(q2) /\ mNext'[q2[i]] = NULL
  <2> TAKE i \in 1..Len(q2)
  <2>1. CASE i = n + 1
    BY <1>2, <1>3, <1>5, <2>1
  <2>2. CASE i = n /\ n > 0
    <3>0. i \in 1..n /\ i = n /\ sFirst # NULL /\ sLast = q[n]
      BY <1>6, <2>2
    <3>1. q2[i] = sLast /\ q2[i] # item /\ q2[i] \in Item /\ sFirst # NULL
      BY <1>1, <1>3, <1>4, <3>0
    <3>2. mNext'[q2[i]] = item
      BY <1>5, <3>1
    <3>3. Len(q2) = n + 1 /\ n \in Nat /\ q2[n + 1] = item
      BY <1>1, <1>2, <1>3
    <3> HIDE DEF n
    <3> QED BY <3>0, <3>2, <3>3
  <2>3. CASE i < n
    <3>1. i \in 1..n /\ i + 1 \in 1..n /\ n > 0 /\ n \in 1..n /\ i # n
      <4>1. n \in Nat /\ i \in 1..(n + 1)
        BY <1>1, <1>2
      <4> HIDE DEF n
      <4> QED BY <2>3, <4>1
    <3>0. q2[i] = q[i] /\ q2[i + 1] = q[i + 1] /\ q[i] # item
      BY <1>3, <1>4, <3>1
    <3>2. q2[i] = q[i] /\ q[i] # item /\ q[i] # sLast /\ q[i] \in Item
      BY <1>1, <1>4, <1>6, <3>0, <3>1
    <3>3. mNext'[q2[i]] = mNext[q[i]]
      BY <1>5, <3>2
    <3>4. mNext[q[i]] = q[i + 1]
      BY <1>4, <3>1
    <3>5. i < Len(q2)
      <4>1. Len(q2) = n + 1 /\ n \in Nat /\ i \in Nat
        BY <1>1, <1>2
      <4> QED BY <2>3, <4>1
    <3> QED BY <3>0, <3>3, <3>4, <3>5
  <2>4. i = n + 1 \/ (i = n /\ n > 0) \/ i < n
    <3>1. n \in Nat /\ i \in 1..(n + 1)
      BY <1>1, <1>2
    <3> HIDE DEF n
    <3> QED BY <3>1
  <2> QED BY <2>1, <2>2, <2>3, <2>4
<1>9. \A i, j \in 1..Len(q2) : q2[i] = q2[j] => i = j
  <2> TAKE i, j \in 1..Len(q2)
  <2>1. /\ i = n + 1 \/ i \in 1..n
        /\ j = n + 1 \/ j \in 1..n
    BY <1>1, <1>2
  <2> QED BY <1>3, <1>4, <2>1
<1>10. CellsOf(q2) = CellsOf(q) \cup {item}
  <2>1. ASSUME NEW x \in CellsOf(q2) PROVE x \in CellsOf(q) \cup {item}
    <3>1. PICK i \in 1..Len(q2) : x = q2[i]
      BY DEF CellsOf
    <3>2. i = n + 1 \/ i \in 1..n
      BY <1>1, <1>2
    <3> QED BY <1>3, <3>1, <3>2 DEF CellsOf
  <2>2. ASSUME NEW x \in CellsOf(q) PROVE x \in CellsOf(q2)
    <3>1. PICK i \in 1..n : x = q[i]
      BY DEF CellsOf
    <3>2. i \in 1..Len(q2)
      BY <1>1, <1>2
    <3> QED BY <1>3, <3>1, <3>2 DEF CellsOf
  <2>3. n + 1 \in 1..Len(q2)
    BY <1>1, <1>2
  <2>4. item \in CellsOf(q2)
    BY <1>3, <2>3 DEF CellsOf
  <2> QED BY <2>1, <2>2, <2>4
<1>11. IsChain(sFirst, q2)'
  BY <1>7, <1>8, <1>9 DEF IsChain
<1>12. q2[Len(q2)] = item
  BY <1>2, <1>3
<1> QED BY <1>2, <1>3, <1>5, <1>10, <1>11, <1>12

LEMMA AcceptConserves ==
  ASSUME TypeOK, PoolConserved, NEW f \in Fn, Accept(f) PROVE PoolConserved'
<1> USE ScheduleAssumption DEF NULL
<1>1. PICK q \in Chains, u \in Chains : Lists(q, u)
  BY DEF PoolConserved
<1>2. /\ Len(q) \in 0..MaxCount
      /\ Len(u) \in 0..MaxCount /\ u \in [1..Len(u) -> Item]
  BY ChainsAreFunctions
<1>3. PICK item \in Item : Grant(item) /\ Enqueue(item, f)
  BY DEF Accept
<1>4. /\ IsChain(sFirst, q) /\ IsChain(sUnused, u)
      /\ (sLast = NULL /\ Len(q) = 0) \/ (Len(q) > 0 /\ sLast = q[Len(q)])
      /\ CellsOf(q) \cap CellsOf(u) = {}
      /\ CellsOf(q) \cup CellsOf(u) = 1..sCount
      /\ Len(q) + Len(u) = sCount
      /\ \A i \in Item : mFunc[i] # NoFn <=> i \in CellsOf(q)
  BY <1>1 DEF Lists
<1>5. sCount \in 0..MaxCount /\ f # NoFn
  BY DEF TypeOK, Accept
(* What is left of the free list.                                          *)
<1>6. \E u2 \in Chains : /\ IsChain(sUnused', u2)
                         /\ item \notin CellsOf(q) \cup CellsOf(u2)
                         /\ CellsOf(u2) \subseteq CellsOf(u)
                         /\ CellsOf(u2) \cup {item} \cup CellsOf(q) = 1..sCount'
                         /\ Len(q) + 1 + Len(u2) = sCount'
                         /\ sCount' <= MaxCount
  <2>1. CASE sUnused # NULL /\ item = sUnused /\ sUnused' = mNext[sUnused] /\ UNCHANGED sCount
    <3>1. PICK u2 \in Chains : /\ Len(u2) = Len(u) - 1
                               /\ IsChain(mNext[item], u2)
                               /\ CellsOf(u2) = CellsOf(u) \ {item}
      BY <1>4, <2>1, TailOfChain
    <3>2. item \in CellsOf(u)
      BY <1>4, <2>1, TailOfChain
    <3>3. Len(q) + 1 + Len(u2) = sCount' /\ sCount' <= MaxCount
      BY <1>2, <1>4, <1>5, <2>1, <3>1
    <3> QED BY <1>4, <2>1, <3>1, <3>2, <3>3
  <2>2. CASE sUnused = NULL /\ sCount < MaxCount /\ item = sCount + 1 /\ sCount' = sCount + 1 /\ UNCHANGED sUnused
    <3>1. Len(u) = 0
      <4>1. (sUnused = NULL /\ Len(u) = 0) \/ (Len(u) > 0 /\ sUnused = u[1])
        BY <1>4 DEF IsChain
      <4>2. Len(u) > 0 => u[1] \in Item
        BY <1>2
      <4>3. \A i \in Item : i # NULL
        BY DEF Item
      <4> QED BY <2>2, <4>1, <4>2, <4>3
    <3>2. CellsOf(u) = {} /\ CellsOf(q) = 1..sCount
      BY <1>4, <3>1 DEF CellsOf
    <3>3. item \notin 1..sCount /\ 1..(sCount + 1) = (1..sCount) \cup {item}
      BY <1>5, <2>2
    <3>4. Len(q) + 1 + Len(u) = sCount' /\ sCount' <= MaxCount
      BY <1>2, <1>4, <1>5, <2>2
    <3> QED BY <1>4, <2>2, <3>2, <3>3, <3>4
  <2> QED BY <1>3, <2>1, <2>2 DEF Grant
<1>7. PICK u2 \in Chains : /\ IsChain(sUnused', u2)
                           /\ item \notin CellsOf(q) \cup CellsOf(u2)
                           /\ CellsOf(u2) \subseteq CellsOf(u)
                           /\ CellsOf(u2) \cup {item} \cup CellsOf(q) = 1..sCount'
                           /\ Len(q) + 1 + Len(u2) = sCount'
                           /\ sCount' <= MaxCount
  BY <1>6
<1>8. Len(u2) \in 0..MaxCount /\ u2 \in [1..Len(u2) -> Item]
  BY ChainsAreFunctions
<1>9. PICK q2 \in Chains :
           /\ Len(q2) = Len(q) + 1
           /\ IsChain(sFirst, q2)'
           /\ sLast' = q2[Len(q2)]
           /\ CellsOf(q2) = CellsOf(q) \cup {item}
  <2>1. Len(q) < MaxCount
    <3>1. \A a, b, c, m \in Int : b >= 0 /\ a + 1 + b = c /\ c <= m => a < m
      OBVIOUS
    <3> QED BY <1>2, <1>7, <1>8, <3>1
  <2>2. item \notin CellsOf(q)
    BY <1>7
  <2> QED BY <1>3, <1>4, <2>1, <2>2, EnqueueAppends
<1>10. IsChain(sUnused, u2)'
  <2>1. CellsOf(u2) \subseteq Item
    BY <1>8 DEF CellsOf
  <2>2. sFirst # NULL => sLast \in CellsOf(q)
    <3>1. (sFirst = NULL /\ Len(q) = 0) \/ (Len(q) > 0 /\ sFirst = q[1])
      BY <1>4 DEF IsChain
    <3>2. Len(q) > 0 => Len(q) \in 1..Len(q) /\ sLast = q[Len(q)]
      BY <1>2, <1>4
    <3> QED BY <3>1, <3>2 DEF CellsOf
  <2>3. \A x \in CellsOf(u2) : x # item /\ (sFirst # NULL => x # sLast)
    BY <1>4, <1>7, <2>2
  <2>4. \A x \in CellsOf(u2) : mNext'[x] = mNext[x]
    BY <1>3, <2>1, <2>3 DEF Enqueue
  <2>5. /\ (sUnused' = NULL /\ Len(u2) = 0) \/ (Len(u2) > 0 /\ sUnused' = u2[1])
        /\ \A i \in 1..Len(u2) : \/ i < Len(u2) /\ mNext'[u2[i]] = u2[i + 1]
                                 \/ i = Len(u2) /\ mNext'[u2[i]] = NULL
        /\ \A i, j \in 1..Len(u2) : u2[i] = u2[j] => i = j
    BY <1>7, <2>4, ChainFrame
  <2> QED BY <2>5 DEF IsChain
<1>11. (\A i \in Item : mFunc[i] # NoFn <=> i \in CellsOf(q2))'
  <2>1. \A i \in Item : mFunc'[i] # NoFn <=> i \in CellsOf(q) \cup {item}
    BY <1>3, <1>4, <1>5 DEF Enqueue, TypeOK
  <2> QED BY <1>9, <2>1 DEF CellsOf, Item
<1>12. Lists(q2, u2)'
  <2>1. ((sLast = NULL /\ Len(q2) = 0) \/ (Len(q2) > 0 /\ sLast = q2[Len(q2)]))'
    BY <1>2, <1>9
  <2>2. CellsOf(q2) \cap CellsOf(u2) = {} /\ CellsOf(q2) \cup CellsOf(u2) = 1..sCount'
    BY <1>4, <1>7, <1>9
  <2>3. (CellsOf(q2) \cap CellsOf(u2) = {} /\ CellsOf(q2) \cup CellsOf(u2) = 1..sCount)'
    BY <2>2 DEF CellsOf
  <2>4. (Len(q2) + Len(u2) = sCount)'
    BY <1>7, <1>9
  <2> QED BY <1>9, <1>10, <1>11, <2>1, <2>3, <2>4 DEF Lists
<1> QED BY <1>12 DEF PoolConserved, Chains, Item

LEMMA StepConserves == TypeOK /\ PoolConserved /\ [Next]_vars => PoolConserved'
<1> SUFFICES ASSUME TypeOK, PoolConserved, [Next]_vars PROVE PoolConserved'
  OBVIOUS
<1>1. ASSUME NEW f \in Fn, Accept(f) PROVE PoolConserved'
  BY <1>1, AcceptConserves
<1>2. ASSUME NEW f \in Fn \cup {NoFn}, Refuse(f) PROVE PoolConserved'
  BY <1>2, ListsUntouched DEF Refuse
<1>3. CASE Enter
  BY <1>3, ListsUntouched DEF Enter
<1>4. CASE Call
  BY <1>4, ListsUntouched DEF Call
<1>5. CASE Unlink
  BY <1>5, UnlinkConserves
<1>6. CASE Resume
  BY <1>6, ListsUntouched DEF Resume
<1>7. CASE Leave
  BY <1>7, ListsUntouched DEF Leave
<1>8. CASE UNCHANGED vars
  BY <1>8, ListsUntouched DEF vars
<1> QED BY <1>1, <1>2, <1>3, <1>4, <1>5, <1>6, <1>7, <1>8 DEF Next, Cont

(* Whatever schedules functions and whenever, also from interrupts and     *)
(* with nested runs: no cell of the pool is lost, none is on both lists.   *)
THEOREM SpecPoolConserved == Spec => []PoolConserved
<1>1. Init => Inv
  BY InitInv
<1>2. Inv /\ [Next]_vars => Inv'
  BY TypePreserved, StepConserves DEF Inv
<1>3. Inv => PoolConserved
  BY DEF Inv
<1> QED BY <1>1, <1>2, <1>3, PTL DEF Spec

-----------------------------------------------------------------------------
(* Without nested runs there is one activation, and while its function     *)
(* runs, interrupts append behind the cell at the head.                    *)
SingleRun == /\ top <= 1
             /\ pc = "loop" => top = 0
             /\ pc = "calling" => sFirst # NULL /\ sFirst = frames[1].cur

LEMMA SingleRunPreserved ==
  ASSUME MaxDepth = 1, TypeOK, InRun, SingleRun, [Next]_vars PROVE SingleRun'
<1> USE ScheduleAssumption DEF NULL
<1>0. top \in Nat
  BY DEF TypeOK, top
<1>1. ASSUME NEW f \in Fn, Accept(f) PROVE SingleRun'
  <2>1. sFirst # NULL => sFirst' = sFirst
    BY <1>1 DEF Accept, Enqueue
  <2> QED BY <1>1, <2>1 DEF Accept, SingleRun, top
<1>2. ASSUME NEW f \in Fn \cup {NoFn}, Refuse(f) PROVE SingleRun'
  BY <1>2 DEF Refuse, queue, SingleRun, top
<1>3. CASE Enter
  <2>1. top < 1 /\ pc' = "test" /\ Len(frames') = top + 1
    BY <1>3 DEF Enter, TypeOK, top
  <2>2. top + 1 <= 1
    BY <1>0, <2>1
  <2> QED BY <2>1, <2>2 DEF SingleRun, top
<1>4. CASE Call
  <2>1. top = 1 /\ frames \in Seq(Frame)
    BY <1>0, <1>4 DEF Call, InRun, SingleRun, TypeOK
  <2>2. /\ frames' = [frames EXCEPT ![top] = [stop |-> frames[top].stop,
                                              done |-> ReachesStop(frames[top]),
                                              cur |-> sFirst]]
        /\ sFirst' = sFirst /\ sFirst # NULL /\ pc' = "calling"
    BY <1>4 DEF Call, queue, ReachesStop
  <2>3. [stop |-> frames[top].stop, done |-> ReachesStop(frames[top]), cur |-> sFirst] \in Frame
    <3>1. frames[top] \in Frame
      BY <2>1 DEF top
    <3> QED BY <3>1 DEF Frame, ReachesStop, TypeOK
  <2>4. Len(frames') = 1 /\ frames'[1].cur = sFirst
    <3>1. 1 \in 1..Len(frames)
      BY <2>1 DEF top
    <3> QED BY <2>1, <2>2, <2>3, <3>1, ExceptSeq DEF top
  <2> QED BY <2>2, <2>4 DEF SingleRun, top
<1>5. CASE Unlink
  BY <1>5 DEF Unlink, SingleRun, top
<1>6. CASE Resume
  BY <1>6 DEF Resume, queue, SingleRun, top
<1>7. CASE Leave
  <2>1. top = 1
    BY <1>0, <1>7 DEF Leave, InRun, SingleRun
  <2>2. frames' = SubSeq(frames, 1, 0) /\ pc' = "loop"
    BY <1>7, <2>1 DEF Leave
  <2>3. Len(frames') = 0
    BY <2>2, SubSeqEmpty
  <2> QED BY <2>2, <2>3 DEF SingleRun, top
<1>8. CASE UNCHANGED vars
  BY <1>8 DEF vars, queue, SingleRun, top
<1> QED BY <1>1, <1>2, <1>3, <1>4, <1>5, <1>6, <1>7, <1>8 DEF Next, Cont

(* Every variable keeps its type, sCount the limit and every pointer the   *)
(* pool, whatever is scheduled by whom between two steps of the run.       *)
THEOREM SpecTypeOK == Spec => []TypeOK
<1>1. Init => TypeOK /\ InRun
  BY InitInv DEF Inv
<1>2. TypeOK /\ InRun /\ [Next]_vars => (TypeOK /\ InRun)'
  BY TypePreserved
<1> QED BY <1>1, <1>2, PTL DEF Spec

(* A function that does not run the queue itself is called once, and it is *)
(* its own cell that is unlinked when it returns.                          *)
THEOREM SpecRunsOnce == ASSUME MaxDepth = 1 PROVE Spec => []RunsOnce
<1>1. Init => TypeOK /\ InRun /\ SingleRun
  <2>1. Init => SingleRun
    BY DEF Init, SingleRun, top
  <2> QED BY <2>1, InitInv DEF Inv
<1>2. TypeOK /\ InRun /\ SingleRun /\ [Next]_vars => (TypeOK /\ InRun /\ SingleRun)'
  BY TypePreserved, SingleRunPreserved
<1>3. TypeOK /\ InRun /\ SingleRun => RunsOnce
  <2> SUFFICES ASSUME TypeOK, InRun, SingleRun PROVE RunsOnce
    OBVIOUS
  <2>1. top \in Nat /\ top <= 1 /\ (pc = "calling" => top = 1)
    <3>1. top \in Nat
      BY DEF TypeOK, top
    <3> QED BY <3>1 DEF InRun, SingleRun
  <2>2. \A i, j \in 1..top : i = j
    BY <2>1
  <2>3. pc = "calling" => sFirst = frames[top].cur
    BY <2>1 DEF SingleRun
  <2> QED BY <2>2, <2>3 DEF RunsOnce
<1> QED BY <1>1, <1>2, <1>3, PTL DEF Spec

-----------------------------------------------------------------------------
(* The queue as a value: Queued.                                           *)

LEMMA SetInduction ==
  ASSUME NEW T \in SUBSET Nat, 0 \in T, \A n \in T : n + 1 \in T
  PROVE  T = Nat
<1> SUFFICES ASSUME Nat \ T # {} PROVE FALSE
  OBVIOUS
<1>1. PICK m \in Nat \ T : \A k \in Nat \ T : ~(<<k, m>> \in OpToRel(<, Nat))
  BY NatLessThanWellFounded, WFMin
<1>2. m # 0 /\ m - 1 \in Nat /\ (m - 1) + 1 = m
  OBVIOUS
<1>3. <<m - 1, m>> \in OpToRel(<, Nat)
  BY <1>2 DEF OpToRel
<1> QED BY <1>1, <1>2, <1>3

(* The links leave no choice: of two chains from the same cell, each is a  *)
(* prefix of the other.                                                    *)
LEMMA ChainPrefix ==
  ASSUME NEW first, NEW c \in Chains, NEW d \in Chains, IsChain(first, c), IsChain(first, d)
  PROVE  Len(c) <= Len(d) /\ \A i \in 1..Len(c) : c[i] = d[i]
<1> USE DEF NULL
<1>1. /\ Len(c) \in Nat /\ c \in [1..Len(c) -> Item]
      /\ Len(d) \in Nat /\ d \in [1..Len(d) -> Item]
  BY ChainsAreFunctions
<1>2. /\ (first = NULL /\ Len(c) = 0) \/ (Len(c) > 0 /\ first = c[1])
      /\ (first = NULL /\ Len(d) = 0) \/ (Len(d) > 0 /\ first = d[1])
      /\ \A i \in 1..Len(c) : \/ i < Len(c) /\ mNext[c[i]] = c[i + 1]
                              \/ i = Len(c) /\ mNext[c[i]] = NULL
      /\ \A i \in 1..Len(d) : \/ i < Len(d) /\ mNext[d[i]] = d[i + 1]
                              \/ i = Len(d) /\ mNext[d[i]] = NULL
  BY DEF IsChain
<1>3. \A i \in Item : i # NULL
  BY DEF Item
<1> DEFINE Same == {i \in Nat : i < Len(c) => i < Len(d) /\ c[i + 1] = d[i + 1]}
<1>4. 0 \in Same
  <2>1. Len(c) > 0 => 1 \in 1..Len(c) /\ c[1] \in Item
    BY <1>1
  <2>2. Len(c) > 0 => Len(d) > 0 /\ c[1] = d[1]
    <3> SUFFICES ASSUME Len(c) > 0 PROVE Len(d) > 0 /\ c[1] = d[1]
      OBVIOUS
    <3>1. first = c[1] /\ first # NULL
      <4>1. Len(c) # 0
        BY <1>1
      <4> QED BY <1>2, <1>3, <2>1, <4>1
    <3> QED BY <1>2, <3>1
  <2> QED BY <1>1, <2>2
<1>5. ASSUME NEW n \in Same PROVE n + 1 \in Same
  <2> SUFFICES ASSUME n + 1 < Len(c) PROVE n + 1 < Len(d) /\ c[(n + 1) + 1] = d[(n + 1) + 1]
    OBVIOUS
  <2>1. n < Len(c) /\ n < Len(d) /\ c[n + 1] = d[n + 1]
    <3>1. n \in Nat /\ (n < Len(c) => n < Len(d) /\ c[n + 1] = d[n + 1])
      OBVIOUS
    <3>2. n < Len(c)
      BY <1>1, <3>1
    <3> QED BY <3>1, <3>2
  <2>2. n + 1 \in 1..Len(c) /\ n + 1 \in 1..Len(d) /\ n + 1 # Len(c) /\ (n + 1) + 1 \in 1..Len(c)
    <3>1. \A k, a, b \in Nat : k + 1 < a /\ k < b =>
             k + 1 \in 1..a /\ k + 1 \in 1..b /\ k + 1 # a /\ (k + 1) + 1 \in 1..a
      OBVIOUS
    <3>2. n \in Nat
      OBVIOUS
    <3> HIDE DEF Same
    <3> QED BY <1>1, <2>1, <3>1, <3>2
  <2>3. mNext[c[n + 1]] = c[(n + 1) + 1] /\ c[(n + 1) + 1] # NULL
    BY <1>1, <1>2, <1>3, <2>2
  <2>4. mNext[d[n + 1]] # NULL
    BY <2>1, <2>3
  <2>5. n + 1 < Len(d) /\ mNext[d[n + 1]] = d[(n + 1) + 1]
    BY <1>2, <2>2, <2>4
  <2> QED BY <2>1, <2>3, <2>5
<1>6. Same = Nat
  <2> HIDE DEF Same
  <2>1. Same \in SUBSET Nat
    BY DEF Same
  <2> QED BY <1>4, <1>5, <2>1, SetInduction
<1>7. ASSUME NEW i \in 1..Len(c) PROVE i <= Len(d) /\ c[i] = d[i]
  <2>1. i - 1 \in Nat /\ i - 1 < Len(c) /\ (i - 1) + 1 = i
    BY <1>1
  <2>2. i - 1 < Len(d) /\ c[(i - 1) + 1] = d[(i - 1) + 1]
    BY <1>6, <2>1
  <2> QED BY <1>1, <2>1, <2>2
<1>8. Len(c) <= Len(d)
  <2>1. Len(c) > 0 => Len(c) \in 1..Len(c)
    BY <1>1
  <2> QED BY <1>1, <1>7, <2>1
<1> QED BY <1>7, <1>8

LEMMA ChainUnique ==
  ASSUME NEW first, NEW c \in Chains, NEW d \in Chains, IsChain(first, c), IsChain(first, d)
  PROVE  c = d
<1>1. c \in Seq(Item) /\ d \in Seq(Item) /\ Len(c) \in Nat /\ Len(d) \in Nat
  BY ChainsAreSequences, ChainsAreFunctions
<1>2. Len(c) <= Len(d) /\ \A i \in 1..Len(c) : c[i] = d[i]
  BY ChainPrefix
<1>3. Len(d) <= Len(c)
  BY ChainPrefix
<1>4. Len(c) = Len(d)
  BY <1>1, <1>2, <1>3
<1> QED BY <1>1, <1>2, <1>4, SeqEqual

LEMMA QueuedIs == \A q \in Chains : IsChain(sFirst, q) => Queued = q
<1> TAKE q \in Chains
<1> HAVE IsChain(sFirst, q)
<1>1. Queued \in Chains /\ IsChain(sFirst, Queued)
  BY DEF Queued
<1> QED BY <1>1, ChainUnique

(* Every state of the pool is Lists(Queued, u) for some free list u.       *)
LEMMA QueuedFacts ==
  ASSUME PoolConserved
  PROVE  /\ Queued \in Chains /\ Queued \in Seq(Item) /\ Len(Queued) \in 0..MaxCount
         /\ IsChain(sFirst, Queued)
         /\ sFirst = NULL <=> Queued = <<>>
         /\ sFirst # NULL => Len(Queued) > 0 /\ sFirst = Queued[1] /\ sFirst \in CellsOf(Queued)
         /\ sLast # NULL => sLast \in CellsOf(Queued)
         /\ \A i \in Item : mFunc[i] # NoFn <=> i \in CellsOf(Queued)
         /\ \E u \in Chains : Lists(Queued, u)
<1> USE DEF NULL
<1>1. PICK q \in Chains, u \in Chains : Lists(q, u)
  BY DEF PoolConserved
<1>2. Queued = q
  BY <1>1, QueuedIs DEF Lists
<1>3. q \in Seq(Item) /\ Len(q) \in 0..MaxCount /\ q \in [1..Len(q) -> Item]
  BY ChainsAreSequences, ChainsAreFunctions
<1>4. /\ (sFirst = NULL /\ Len(q) = 0) \/ (Len(q) > 0 /\ sFirst = q[1])
      /\ (sLast = NULL /\ Len(q) = 0) \/ (Len(q) > 0 /\ sLast = q[Len(q)])
      /\ \A i \in Item : mFunc[i] # NoFn <=> i \in CellsOf(q)
      /\ IsChain(sFirst, q)
  BY <1>1 DEF Lists, IsChain
<1>5. Len(q) > 0 => 1 \in 1..Len(q) /\ Len(q) \in 1..Len(q)
  BY <1>3
<1>6. \A i \in Item : i # NULL
  BY DEF Item
<1>7. Len(q) > 0 => q[1] \in Item /\ q[1] \in CellsOf(q) /\ q[Len(q)] \in CellsOf(q)
  BY <1>3, <1>5 DEF CellsOf
<1>8. sFirst = NULL <=> q = <<>>
  <2>1. Len(q) = 0 <=> q = <<>>
    BY <1>3, EmptySeq
  <2>2. Len(q) = 0 <=> ~(Len(q) > 0)
    BY <1>3
  <2> QED BY <1>4, <1>6, <1>7, <2>1, <2>2
<1>9. sFirst # NULL => Len(q) > 0 /\ sFirst = q[1] /\ sFirst \in CellsOf(q)
  BY <1>4, <1>7
<1>10. sLast # NULL => sLast \in CellsOf(q)
  BY <1>4, <1>7
<1> QED BY <1>1, <1>2, <1>3, <1>4, <1>8, <1>9, <1>10

LEMMA QueuedStays == ASSUME UNCHANGED queue PROVE Queued' = Queued
  BY DEF queue, Queued, IsChain

(* schedule_function() appends to the queue a cell that was not in it.     *)
LEMMA AcceptQueued ==
  ASSUME TypeOK, PoolConserved, NEW f \in Fn, Accept(f)
  PROVE  /\ \E item \in Item : /\ item \notin CellsOf(Queued)
                               /\ mFunc' = [mFunc EXCEPT ![item] = f]
                               /\ Queued' = Append(Queued, item)
         /\ Len(Queued) < MaxCount
         /\ sCount' = IF Len(Queued) < sCount THEN sCount ELSE sCount + 1
<1> USE ScheduleAssumption DEF NULL
<1>1. PICK u \in Chains : Lists(Queued, u)
  BY QueuedFacts
<1>2. /\ Queued \in Chains /\ Queued \in Seq(Item) /\ Len(Queued) \in 0..MaxCount
      /\ Len(u) \in 0..MaxCount /\ u \in [1..Len(u) -> Item]
  BY QueuedFacts, ChainsAreFunctions
<1>3. PICK item \in Item : Grant(item) /\ Enqueue(item, f)
  BY DEF Accept
<1>4. /\ IsChain(sFirst, Queued) /\ IsChain(sUnused, u)
      /\ (sLast = NULL /\ Len(Queued) = 0) \/ (Len(Queued) > 0 /\ sLast = Queued[Len(Queued)])
      /\ CellsOf(Queued) \cap CellsOf(u) = {}
      /\ CellsOf(Queued) \cup CellsOf(u) = 1..sCount
      /\ Len(Queued) + Len(u) = sCount
  BY <1>1 DEF Lists
<1>5. sCount \in 0..MaxCount
  BY DEF TypeOK
<1>6. /\ item \notin CellsOf(Queued)
      /\ Len(Queued) < MaxCount
      /\ sCount' = IF Len(Queued) < sCount THEN sCount ELSE sCount + 1
  <2>1. CASE sUnused # NULL /\ item = sUnused /\ UNCHANGED sCount
    <3>1. Len(u) > 0 /\ item \in CellsOf(u)
      BY <1>4, <2>1, TailOfChain
    <3>2. Len(Queued) < sCount /\ Len(Queued) < MaxCount
      BY <1>2, <1>4, <1>5, <3>1
    <3> QED BY <1>4, <2>1, <3>1, <3>2
  <2>2. CASE sUnused = NULL /\ sCount < MaxCount /\ item = sCount + 1 /\ sCount' = sCount + 1
    <3>1. Len(u) = 0
      <4>1. (sUnused = NULL /\ Len(u) = 0) \/ (Len(u) > 0 /\ sUnused = u[1])
        BY <1>4 DEF IsChain
      <4>2. Len(u) > 0 => u[1] \in Item
        BY <1>2
      <4>3. \A i \in Item : i # NULL
        BY DEF Item
      <4> QED BY <2>2, <4>1, <4>2, <4>3
    <3>2. Len(Queued) = sCount
      BY <1>2, <1>4, <1>5, <3>1
    <3>3. item \notin 1..sCount
      BY <1>5, <2>2
    <3> QED BY <1>4, <1>5, <2>2, <3>2, <3>3
  <2> QED BY <1>3, <2>1, <2>2 DEF Grant
<1>7. PICK q2 \in Chains :
           /\ Len(q2) = Len(Queued) + 1
           /\ IsChain(sFirst, q2)'
           /\ q2[Len(q2)] = item /\ \A i \in 1..Len(Queued) : q2[i] = Queued[i]
  BY <1>2, <1>3, <1>4, <1>6, EnqueueAppends
<1>8. q2 = Append(Queued, item)
  <2>1. q2 \in Seq(Item) /\ Len(q2) \in Nat
    BY <1>2, <1>7, ChainsAreSequences
  <2>2. /\ Append(Queued, item) \in Seq(Item)
        /\ Len(Append(Queued, item)) = Len(Queued) + 1
        /\ \A i \in 1..Len(Queued) : Append(Queued, item)[i] = Queued[i]
        /\ Append(Queued, item)[Len(Queued) + 1] = item
    BY <1>2, AppendProperties
  <2>3. \A i \in 1..Len(q2) : q2[i] = Append(Queued, item)[i]
    <3>1. ASSUME NEW i \in 1..Len(q2) PROVE i \in 1..Len(Queued) \/ i = Len(Queued) + 1
      BY <1>2, <1>7
    <3> QED BY <1>7, <2>2, <3>1
  <2> QED BY <1>7, <2>1, <2>2, <2>3, SeqEqual
<1>9. Queued' = q2
  <2>1. (\A q \in Chains : IsChain(sFirst, q) => Queued = q)'
    BY QueuedIs, PTL
  <2> QED BY <1>7, <2>1 DEF Chains, Item
<1>10. mFunc' = [mFunc EXCEPT ![item] = f]
  BY <1>3 DEF Enqueue
<1> QED BY <1>6, <1>8, <1>9, <1>10

(* A function that returns costs the queue its head, and nothing else.     *)
LEMMA UnlinkQueued ==
  ASSUME TypeOK, PoolConserved, Unlink
  PROVE  /\ Len(Queued) > 0 /\ sFirst = Queued[1] /\ sFirst \in CellsOf(Queued)
         /\ Queued' = Tail(Queued)
         /\ CellsOf(Queued)' = CellsOf(Queued) \ {sFirst}
         /\ mFunc' = [mFunc EXCEPT ![sFirst] = NoFn]
<1> USE ScheduleAssumption DEF NULL
<1>1. sFirst \in Item
  BY DEF Unlink, TypeOK, Pointer, Item
<1>2. /\ Queued \in Chains /\ Queued \in Seq(Item) /\ Len(Queued) \in 0..MaxCount
      /\ IsChain(sFirst, Queued)
  BY QueuedFacts
<1>3. Len(Queued) > 0 /\ sFirst = Queued[1] /\ sFirst \in CellsOf(Queued)
  BY <1>1, <1>2, TailOfChain
<1>4. PICK q2 \in Chains : /\ Len(q2) = Len(Queued) - 1
                           /\ IsChain(mNext[sFirst], q2)
                           /\ CellsOf(q2) = CellsOf(Queued) \ {sFirst}
                           /\ \A i \in 1..Len(q2) : q2[i] = Queued[i + 1]
  BY <1>1, <1>2, TailOfChain
<1>5. IsChain(sFirst, q2)'
  <2>1. CellsOf(q2) \subseteq Item
    <3>1. q2 \in [1..Len(q2) -> Item]
      BY ChainsAreFunctions
    <3> QED BY <3>1 DEF CellsOf
  <2>2. \A x \in CellsOf(q2) : mNext'[x] = mNext[x]
    BY <1>4, <2>1 DEF Unlink, Recycle, TypeOK
  <2>3. sFirst' = mNext[sFirst]
    BY DEF Unlink
  <2>4. /\ (sFirst' = NULL /\ Len(q2) = 0) \/ (Len(q2) > 0 /\ sFirst' = q2[1])
        /\ \A i \in 1..Len(q2) : \/ i < Len(q2) /\ mNext'[q2[i]] = q2[i + 1]
                                 \/ i = Len(q2) /\ mNext'[q2[i]] = NULL
        /\ \A i, j \in 1..Len(q2) : q2[i] = q2[j] => i = j
    BY <1>4, <2>2, <2>3, ChainFrame
  <2> QED BY <2>4 DEF IsChain
<1>6. Queued' = q2
  <2>1. (\A q \in Chains : IsChain(sFirst, q) => Queued = q)'
    BY QueuedIs, PTL
  <2> QED BY <1>5, <2>1 DEF Chains, Item
<1>7. q2 = Tail(Queued)
  <2>1. q2 \in Seq(Item) /\ Len(q2) \in Nat
    BY <1>2, <1>3, <1>4, ChainsAreSequences
  <2>2. /\ Tail(Queued) \in Seq(Item)
        /\ Len(Tail(Queued)) = Len(Queued) - 1
        /\ \A i \in 1..(Len(Queued) - 1) : Tail(Queued)[i] = Queued[i + 1]
    BY <1>2, <1>3
  <2> QED BY <1>4, <2>1, <2>2, SeqEqual
<1>8. CellsOf(Queued)' = CellsOf(Queued) \ {sFirst}
  BY <1>4, <1>6 DEF CellsOf
<1>9. mFunc' = [mFunc EXCEPT ![sFirst] = NoFn]
  BY DEF Unlink, Recycle
<1> QED BY <1>3, <1>6, <1>7, <1>8, <1>9

-----------------------------------------------------------------------------
(* Until the run is done, the cell that it stops at is in the queue, and   *)
(* it is not the one whose function is being called.                       *)
Ahead == (top > 0 /\ frames[1].stop # NULL /\ ~frames[1].done)
            => /\ frames[1].stop \in CellsOf(Queued)
               /\ pc = "calling" => frames[1].stop # sFirst

RunInv == Inv /\ SingleRun /\ Ahead

LEMMA InitRunInv == Init => RunInv
<1> SUFFICES ASSUME Init PROVE RunInv
  OBVIOUS
<1>1. SingleRun /\ Ahead
  BY DEF Init, SingleRun, Ahead, top
<1> QED BY <1>1, InitInv DEF RunInv

(* Who changes neither the queue nor the run leaves Ahead alone.           *)
LEMMA AheadStays ==
  ASSUME Ahead, UNCHANGED <<queue, frames>>, pc' = "calling" => pc = "calling"
  PROVE  Ahead'
<1>1. Queued' = Queued
  BY QueuedStays
<1> QED BY <1>1 DEF Ahead, CellsOf, queue, top

LEMMA AheadPreserved == RunInv /\ [Next]_vars => Ahead'
<1> SUFFICES ASSUME RunInv, [Next]_vars PROVE Ahead'
  OBVIOUS
<1> USE ScheduleAssumption DEF NULL
<1>0. /\ TypeOK /\ InRun /\ PoolConserved /\ SingleRun /\ Ahead
      /\ top \in Nat /\ top <= 1
  BY DEF RunInv, Inv, TypeOK, top, SingleRun
<1>1. ASSUME NEW f \in Fn, Accept(f) PROVE Ahead'
  <2> SUFFICES ASSUME top > 0, frames[1].stop # NULL, ~frames[1].done
               PROVE  /\ frames[1].stop \in CellsOf(Queued)'
                      /\ pc = "calling" => frames[1].stop # sFirst'
    BY <1>1 DEF Accept, Ahead, top
  <2>1. PICK item \in Item : Queued' = Append(Queued, item)
    BY <1>0, <1>1, AcceptQueued
  <2>2. frames[1].stop \in CellsOf(Queued)
    BY <1>0 DEF Ahead
  <2>3. PICK i \in 1..Len(Queued) : frames[1].stop = Queued[i]
    BY <2>2 DEF CellsOf
  <2>4. Queued \in Seq(Item) /\ Len(Queued) \in Nat
    BY <1>0, QueuedFacts
  <2>5. Len(Queued') = Len(Queued) + 1 /\ Queued'[i] = Queued[i]
    BY <2>1, <2>4, AppendProperties
  <2>6. frames[1].stop \in CellsOf(Queued)'
    BY <2>3, <2>4, <2>5 DEF CellsOf
  <2>7. pc = "calling" => sFirst' = sFirst
    BY <1>0, <1>1 DEF Accept, Enqueue, SingleRun
  <2> QED BY <1>0, <2>6, <2>7 DEF Ahead
<1>2. ASSUME NEW f \in Fn \cup {NoFn}, Refuse(f) PROVE Ahead'
  BY <1>0, <1>2, AheadStays DEF Refuse
<1>3. CASE Enter
  <2>1. /\ frames' = Append(frames, [stop |-> sLast, done |-> FALSE, cur |-> NULL])
        /\ pc' = "test" /\ UNCHANGED queue
    BY <1>3 DEF Enter
  <2>2. Queued' = Queued
    BY <2>1, QueuedStays
  <2>3. CASE top = 0
    <3>1. frames'[1].stop = sLast
      <4>1. frames'[1] = [stop |-> sLast, done |-> FALSE, cur |-> NULL]
        BY <1>0, <2>1, <2>3 DEF TypeOK, top
      <4> QED BY <4>1
    <3>2. sLast # NULL => sLast \in CellsOf(Queued)
      BY <1>0, QueuedFacts
    <3> QED BY <2>1, <2>2, <3>1, <3>2 DEF Ahead, CellsOf
  <2>4. CASE top = 1
    <3>1. frames'[1] = frames[1]
      BY <2>1, <2>4 DEF top
    <3> QED BY <1>0, <2>1, <2>2, <2>4, <3>1 DEF Ahead, CellsOf
  <2> QED BY <1>0, <2>3, <2>4
<1>4. CASE Call
  <2>1. /\ top = 1 /\ frames \in Seq(Frame) /\ 1 \in 1..Len(frames)
        /\ sFirst # NULL /\ ~frames[1].done
    <3>1. top = 1
      BY <1>0, <1>4 DEF Call, InRun
    <3> QED BY <1>0, <1>4, <3>1 DEF Call, TypeOK, top
  <2>2. frames' = [frames EXCEPT ![1] = [stop |-> frames[1].stop,
                                         done |-> sFirst = frames[1].stop,
                                         cur |-> sFirst]]
    BY <1>4, <2>1 DEF Call, ReachesStop
  <2>3. frames'[1].stop = frames[1].stop /\ frames'[1].done = (sFirst = frames[1].stop)
    BY <2>1, <2>2
  <2>4. CellsOf(Queued)' = CellsOf(Queued) /\ sFirst' = sFirst
    BY <1>4, QueuedStays DEF Call, queue, CellsOf
  <2>5. frames[1].stop # NULL => frames[1].stop \in CellsOf(Queued)
    BY <1>0, <2>1 DEF Ahead
  <2> QED BY <2>3, <2>4, <2>5 DEF Ahead
<1>5. CASE Unlink
  <2>1. CellsOf(Queued)' = CellsOf(Queued) \ {sFirst} /\ pc = "calling"
    BY <1>0, <1>5, UnlinkQueued DEF Unlink
  <2>2. frames' = frames /\ pc' = "yielding"
    BY <1>5 DEF Unlink
  <2> QED BY <1>0, <2>1, <2>2 DEF Ahead, top
<1>6. CASE Resume
  BY <1>0, <1>6, AheadStays DEF Resume
<1>7. CASE Leave
  <2>1. top = 1 /\ frames' = SubSeq(frames, 1, 0)
    BY <1>0, <1>7 DEF Leave, InRun
  <2>2. Len(frames') = 0
    BY <2>1, SubSeqEmpty
  <2> QED BY <2>2 DEF Ahead, top
<1>8. CASE UNCHANGED vars
  BY <1>0, <1>8, AheadStays DEF vars
<1> QED BY <1>1, <1>2, <1>3, <1>4, <1>5, <1>6, <1>7, <1>8 DEF Next, Cont

LEMMA NextRunInv == ASSUME MaxDepth = 1 PROVE RunInv /\ [Next]_vars => RunInv'
  BY TypePreserved, StepConserves, SingleRunPreserved, AheadPreserved DEF RunInv, Inv

(* A run that found functions in the queue keeps the last of them ahead of *)
(* it until it gets there, whatever interrupts and the functions schedule  *)
(* behind it: it runs those that were scheduled before it, and no others.  *)
THEOREM SpecStopStaysAhead == ASSUME MaxDepth = 1 PROVE Spec => []StopStaysAhead
<1>1. RunInv => StopStaysAhead
  <2> SUFFICES ASSUME RunInv, top > 0, frames[top].stop # NULL, ~frames[top].done
               PROVE  \E q \in Chains : IsChain(sFirst, q) /\ frames[top].stop \in CellsOf(q)
    BY DEF StopStaysAhead, StopBoundsRun
  <2>1. top = 1
    <3>1. top \in Nat /\ top <= 1
      BY DEF RunInv, Inv, TypeOK, SingleRun, top
    <3> QED BY <3>1
  <2>2. frames[1].stop \in CellsOf(Queued)
    BY <2>1 DEF RunInv, Ahead
  <2>3. Queued \in Chains /\ IsChain(sFirst, Queued)
    BY QueuedFacts DEF RunInv, Inv
  <2> QED BY <2>1, <2>2, <2>3
<1> QED BY <1>1, InitRunInv, NextRunInv, PTL DEF Spec

-----------------------------------------------------------------------------
(* The linked list refines the FIFO of FnQueue: the refinement mapping of  *)
(* FIFO reads the queue with Queued, and the running function is its head. *)

LEMMA ListIsFIFO ==
  ASSUME TypeOK, PoolConserved
  PROVE  /\ DOMAIN Queued = 1..Len(Queued) /\ Len(Queued) \in Nat
         /\ [i \in DOMAIN Queued |-> mFunc[Queued[i]]] \in Seq(Fn)
         /\ Len([i \in DOMAIN Queued |-> mFunc[Queued[i]]]) = Len(Queued)
<1>1. Queued \in Seq(Item) /\ Len(Queued) \in Nat /\ DOMAIN Queued = 1..Len(Queued)
  BY QueuedFacts, LenProperties
<1>2. \A i \in 1..Len(Queued) : mFunc[Queued[i]] \in Fn
  <2> TAKE i \in 1..Len(Queued)
  <2>1. Queued[i] \in Item /\ Queued[i] \in CellsOf(Queued)
    BY <1>1 DEF CellsOf
  <2>2. mFunc[Queued[i]] # NoFn
    BY <2>1, QueuedFacts
  <2> QED BY <2>1, <2>2 DEF TypeOK
<1>3. [i \in 1..Len(Queued) |-> mFunc[Queued[i]]] \in Seq(Fn)
  BY <1>1, <1>2, IsASeq
<1>4. Len([i \in 1..Len(Queued) |-> mFunc[Queued[i]]]) = Len(Queued)
  BY <1>1, <1>3, LenProperties
<1> QED BY <1>1, <1>3, <1>4

LEMMA StepImplementsFIFO ==
  ASSUME MaxDepth = 1, RunInv, [Next]_vars
  PROVE  [FIFO!Next]_FIFO!vars
<1> USE ScheduleAssumption DEF NULL
<1> DEFINE pend == [i \in DOMAIN Queued |-> mFunc[Queued[i]]]
           runs == IF pc = "calling" THEN mFunc[frames[top].cur] ELSE NoFn
<1>0. /\ TypeOK /\ InRun /\ PoolConserved /\ SingleRun
      /\ top \in Nat /\ top <= 1
  BY DEF RunInv, Inv, TypeOK, top, SingleRun
<1>1. /\ DOMAIN Queued = 1..Len(Queued) /\ Len(Queued) \in Nat
      /\ Queued \in Seq(Item)
      /\ pend \in Seq(Fn) /\ Len(pend) = Len(Queued)
  BY <1>0, ListIsFIFO, QueuedFacts
(* The function that runs is the one at the head of the queue.             *)
<1>2. pc = "calling" => /\ runs = mFunc[sFirst] /\ runs # NoFn
                        /\ sFirst \in CellsOf(Queued)
  <2> SUFFICES ASSUME pc = "calling"
               PROVE  /\ mFunc[frames[top].cur] = mFunc[sFirst] /\ mFunc[sFirst] # NoFn
                      /\ sFirst \in CellsOf(Queued)
    OBVIOUS
  <2>1. top = 1 /\ sFirst # NULL /\ sFirst = frames[1].cur
    BY <1>0 DEF InRun, SingleRun
  <2>2. sFirst \in Item
    BY <1>0, <2>1 DEF TypeOK, Pointer, Item
  <2> QED BY <1>0, <2>1, <2>2, QueuedFacts
<1>3. UNCHANGED <<queue, pc, frames>> => pend' = pend /\ runs' = runs
  BY QueuedStays DEF queue, top
<1>4. ASSUME NEW f \in Fn, Accept(f) PROVE FIFO!Accept(f)
  <2>1. PICK item \in Item : /\ item \notin CellsOf(Queued)
                             /\ mFunc' = [mFunc EXCEPT ![item] = f]
                             /\ Queued' = Append(Queued, item)
    BY <1>0, <1>4, AcceptQueued
  <2>2. /\ Len(Queued) < MaxCount
        /\ sCount' = IF Len(Queued) < sCount THEN sCount ELSE sCount + 1
    BY <1>0, <1>4, AcceptQueued
  <2>3. pend' = Append(pend, f)
    <3>1. /\ Queued' \in Seq(Item) /\ Len(Queued') = Len(Queued) + 1
          /\ DOMAIN Queued' = 1..(Len(Queued) + 1)
          /\ \A i \in 1..Len(Queued) : Queued'[i] = Queued[i]
          /\ Queued'[Len(Queued) + 1] = item
      BY <1>1, <2>1, AppendProperties, LenProperties
    <3>2. \A i \in 1..Len(Queued) : mFunc'[Queued[i]] = mFunc[Queued[i]]
      BY <1>0, <1>1, <2>1 DEF CellsOf, TypeOK
    <3>3. mFunc'[item] = f
      BY <1>0, <2>1 DEF TypeOK
    <3>4. /\ Append(pend, f) \in Seq(Fn) /\ Len(Append(pend, f)) = Len(Queued) + 1
          /\ DOMAIN Append(pend, f) = 1..(Len(Queued) + 1)
          /\ \A i \in 1..Len(Queued) : Append(pend, f)[i] = pend[i]
          /\ Append(pend, f)[Len(Queued) + 1] = f
      BY <1>1, AppendProperties, LenProperties
    <3>5. pend' = [i \in 1..(Len(Queued) + 1) |-> mFunc'[Queued'[i]]]
      BY <3>1
    <3>6. \A i \in 1..Len(Queued) : pend[i] = mFunc[Queued[i]]
      BY <1>1
    <3>7. \A i \in 1..(Len(Queued) + 1) : pend'[i] = Append(pend, f)[i]
      <4> TAKE i \in 1..(Len(Queued) + 1)
      <4>1. i \in 1..Len(Queued) \/ i = Len(Queued) + 1
        BY <1>1
      <4>2. pend'[i] = mFunc'[Queued'[i]]
        BY <3>5
      <4> HIDE DEF pend
      <4> QED BY <3>1, <3>2, <3>3, <3>4, <3>6, <4>1, <4>2
    <3>8. pend' \in Seq(Fn) /\ Len(pend') = Len(Queued) + 1
      <4>1. \A i \in 1..(Len(Queued) + 1) : mFunc'[Queued'[i]] \in Fn
        <5> TAKE i \in 1..(Len(Queued) + 1)
        <5>1. i \in 1..Len(Queued) \/ i = Len(Queued) + 1
          BY <1>1
        <5>2. i \in 1..Len(Queued) => pend[i] \in Fn
          BY <1>1, ElementOfSeq
        <5> HIDE DEF pend
        <5> QED BY <3>1, <3>2, <3>3, <3>6, <5>1, <5>2
      <4>2. Len(Queued) + 1 \in Nat
        BY <1>1
      <4>3. [i \in 1..(Len(Queued) + 1) |-> mFunc'[Queued'[i]]] \in Seq(Fn)
        BY <4>1, <4>2, IsASeq
      <4> QED BY <3>5, <4>2, <4>3, LenProperties
    <3> HIDE DEF pend
    <3> QED BY <3>4, <3>7, <3>8, SeqEqual
  <2>4. runs' = runs
    <3>1. pc' = pc /\ frames' = frames
      BY <1>4 DEF Accept
    <3>2. pc = "calling" => mFunc'[sFirst] = mFunc[sFirst] /\ frames[top].cur = sFirst
      <4>1. pc = "calling" => top = 1 /\ sFirst = frames[1].cur /\ sFirst # NULL
        BY <1>0 DEF InRun, SingleRun
      <4>2. pc = "calling" => sFirst \in Item
        BY <1>0, <4>1 DEF TypeOK, Pointer, Item
      <4> QED BY <1>0, <1>2, <2>1, <4>1, <4>2 DEF TypeOK
    <3> QED BY <3>1, <3>2 DEF top
  <2>5. answer' = [fn |-> f, ok |-> TRUE]
    BY <1>4 DEF Accept
  <2> HIDE DEF pend, runs
  <2>6. /\ Len(pend) < MaxCount
        /\ pend' = Append(pend, f)
        /\ sCount' = IF Len(pend) < sCount THEN sCount ELSE sCount + 1
        /\ answer' = [fn |-> f, ok |-> TRUE]
        /\ runs' = runs
    BY <1>1, <2>2, <2>3, <2>4, <2>5
  <2> QED BY <2>6 DEF FIFO!Accept, pend, runs
<1>5. ASSUME NEW f \in Fn \cup {NoFn}, Refuse(f) PROVE FIFO!Refuse(f)
  <2>1. PICK u \in Chains : Lists(Queued, u)
    BY <1>0, QueuedFacts
  <2>2. f = NoFn \/ Len(Queued) = sCount
    <3> SUFFICES ASSUME sUnused = NULL PROVE Len(Queued) = sCount
      BY <1>5 DEF Refuse
    <3>1. (sUnused = NULL /\ Len(u) = 0) \/ (Len(u) > 0 /\ sUnused = u[1])
      BY <2>1 DEF Lists, IsChain
    <3>2. Len(u) \in Nat /\ (Len(u) > 0 => u[1] \in Item)
      BY ChainsAreFunctions
    <3>3. Len(u) = 0
      BY <3>1, <3>2 DEF Item
    <3> QED BY <1>1, <2>1, <3>3 DEF Lists
  <2>3. pend' = pend /\ runs' = runs /\ sCount' = sCount /\ answer' = [fn |-> f, ok |-> FALSE]
    BY <1>3, <1>5 DEF Refuse, queue
  <2> HIDE DEF pend, runs
  <2>4. f = NoFn \/ Len(pend) = sCount
    BY <1>1, <2>2
  <2> QED BY <2>3, <2>4 DEF FIFO!Refuse, pend, runs
<1>6. CASE Enter
  <2>1. pc = "loop" /\ pc' = "test" /\ UNCHANGED <<queue, answer>>
    BY <1>0, <1>6 DEF Enter, InRun
  <2>2. pend' = pend /\ runs' = runs /\ sCount' = sCount
    BY <2>1, QueuedStays DEF queue
  <2> HIDE DEF pend, runs
  <2> QED BY <2>1, <2>2 DEF FIFO!vars, pend, runs
<1>7. CASE Call
  <2>1. /\ pc = "test" /\ pc' = "calling" /\ top = 1 /\ sFirst # NULL
        /\ UNCHANGED <<queue, answer>>
    BY <1>0, <1>7 DEF Call, InRun
  <2>2. pend' = pend /\ sCount' = sCount /\ runs = NoFn
    BY <2>1, QueuedStays DEF queue
  <2>3. Len(Queued) > 0 /\ sFirst = Queued[1]
    BY <1>0, <2>1, QueuedFacts
  <2>4. pend # <<>> /\ Head(pend) = mFunc[sFirst]
    <3>1. pend[1] = mFunc[Queued[1]]
      BY <1>1, <2>3
    <3>2. pend # <<>> /\ Head(pend) = pend[1]
      <4> HIDE DEF pend
      <4> QED BY <1>1, <2>3
    <3> QED BY <2>3, <3>1, <3>2
  <2>5. runs' = mFunc[sFirst]
    <3>1. /\ frames' = [frames EXCEPT ![1] = [stop |-> frames[1].stop,
                                              done |-> sFirst = frames[1].stop,
                                              cur |-> sFirst]]
          /\ frames \in Seq(Frame) /\ 1 \in 1..Len(frames) /\ Len(frames) = 1
      BY <1>0, <1>7, <2>1 DEF Call, ReachesStop, TypeOK, top
    <3>2. Len(frames') = 1 /\ frames'[1].cur = sFirst
      BY <3>1
    <3> QED BY <2>1, <3>2 DEF top, queue
  <2> HIDE DEF pend, runs
  <2>6. runs' = Head(pend)
    BY <2>4, <2>5
  <2>7. FIFO!Start
    BY <2>1, <2>2, <2>4, <2>6 DEF FIFO!Start, pend, runs
  <2> QED BY <2>7 DEF FIFO!Next
<1>8. CASE Unlink
  <2>1. /\ Len(Queued) > 0 /\ sFirst = Queued[1]
        /\ Queued' = Tail(Queued)
        /\ mFunc' = [mFunc EXCEPT ![sFirst] = NoFn]
    BY <1>0, <1>8, UnlinkQueued
  <2>2. pc = "calling" /\ pc' = "yielding" /\ sCount' = sCount /\ answer' = answer
    BY <1>8 DEF Unlink
  <2>3. runs # NoFn /\ runs' = NoFn
    BY <1>2, <2>2
  <2>4. pend' = Tail(pend)
    <3>1. /\ Tail(Queued) \in Seq(Item) /\ Len(Tail(Queued)) = Len(Queued) - 1
          /\ DOMAIN Tail(Queued) = 1..(Len(Queued) - 1)
          /\ \A i \in 1..(Len(Queued) - 1) : Tail(Queued)[i] = Queued[i + 1]
      BY <1>1, <2>1
    <3>2. /\ Tail(pend) \in Seq(Fn) /\ DOMAIN Tail(pend) = 1..(Len(Queued) - 1)
          /\ Len(Tail(pend)) = Len(Queued) - 1
          /\ \A i \in 1..(Len(Queued) - 1) : Tail(pend)[i] = pend[i + 1]
      <4> HIDE DEF pend
      <4> QED BY <1>1, <2>1
    <3>3. \A i \in 1..(Len(Queued) - 1) : pend[i + 1] = mFunc[Queued[i + 1]]
      BY <1>1
    <3>4. \A i \in 1..(Len(Queued) - 1) : mFunc'[Queued[i + 1]] = mFunc[Queued[i + 1]]
      <4> TAKE i \in 1..(Len(Queued) - 1)
      <4>1. i + 1 \in 1..Len(Queued) /\ 1 \in 1..Len(Queued) /\ i + 1 # 1
        BY <1>1, <2>1
      <4>2. \A j, k \in 1..Len(Queued) : Queued[j] = Queued[k] => j = k
        BY <1>0, QueuedFacts DEF IsChain
      <4>3. Queued[i + 1] # sFirst /\ Queued[i + 1] \in Item
        BY <1>1, <2>1, <4>1, <4>2
      <4> QED BY <1>0, <2>1, <4>3 DEF TypeOK
    <3>5. pend' = [i \in 1..(Len(Queued) - 1) |-> mFunc'[Tail(Queued)[i]]]
      BY <2>1, <3>1
    <3>6. \A i \in 1..(Len(Queued) - 1) : mFunc'[Tail(Queued)[i]] = Tail(pend)[i]
      <4> HIDE DEF pend
      <4> QED BY <3>1, <3>2, <3>3, <3>4
    <3>7. Tail(pend) = [i \in 1..(Len(Queued) - 1) |-> Tail(pend)[i]]
      <4>1. Tail(pend) \in [1..(Len(Queued) - 1) -> Fn]
        <5>1. \A s \in Seq(Fn) : s \in [1..Len(s) -> Fn]
          BY LenProperties
        <5> HIDE DEF pend
        <5> QED BY <3>2, <5>1
      <4> HIDE DEF pend
      <4> QED BY <4>1
    <3> HIDE DEF pend
    <3> QED BY <3>5, <3>6, <3>7
  <2> HIDE DEF pend, runs
  <2>5. FIFO!Finish
    BY <2>2, <2>3, <2>4 DEF FIFO!Finish, pend, runs
  <2> QED BY <2>5 DEF FIFO!Next
<1>9. CASE Resume \/ Leave
  <2>1. pc # "calling" /\ pc' # "calling" /\ UNCHANGED <<queue, answer>>
    BY <1>0, <1>9 DEF Resume, Leave, InRun
  <2>2. pend' = pend /\ runs' = runs /\ sCount' = sCount
    BY <2>1, QueuedStays DEF queue
  <2> HIDE DEF pend, runs
  <2> QED BY <2>1, <2>2 DEF FIFO!vars, pend, runs
<1>10. CASE UNCHANGED vars
  <2>1. pend' = pend /\ runs' = runs /\ sCount' = sCount /\ answer' = answer
    BY <1>3, <1>10 DEF vars, queue
  <2> HIDE DEF pend, runs
  <2> QED BY <2>1 DEF FIFO!vars, pend, runs
<1> QED BY <1>4, <1>5, <1>6, <1>7, <1>8, <1>9, <1>10 DEF Next, Cont, FIFO!Next

(* schedule_function() and run_scheduled_functions() are the FIFO that     *)
(* Schedule.h promises: each accepted function is called once, in the      *)
(* order of acceptance, and one is refused only for want of a cell.        *)
THEOREM SpecImplementsFIFO == ASSUME MaxDepth = 1 PROVE Spec => ImplementsFIFO
<1>1. Init => FIFO!Init
  <2> SUFFICES ASSUME Init PROVE FIFO!Init
    OBVIOUS
  <2>1. PoolConserved /\ sFirst = NULL
    BY InitInv DEF Inv, Init
  <2>2. Queued = <<>>
    BY <2>1, QueuedFacts
  <2>3. [i \in DOMAIN Queued |-> mFunc[Queued[i]]] = <<>>
    BY <2>2
  <2> QED BY <2>3 DEF Init, FIFO!Init
<1>2. RunInv /\ [Next]_vars => [FIFO!Next]_FIFO!vars
  BY StepImplementsFIFO
<1> QED BY <1>1, <1>2, InitRunInv, NextRunInv, PTL DEF Spec, ImplementsFIFO, FIFO!Spec

=============================================================================
