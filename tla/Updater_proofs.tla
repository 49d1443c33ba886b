--------------------------- MODULE Updater_proofs ---------------------------
(***************************************************************************)
(* What the write calls say they took is what end() stages, for every      *)
(* layout of the flash, sector size, buffer size and sequence of calls,    *)
(* with every flash access that may fail.                                  *)
(***************************************************************************)
EXTENDS Updater, SequenceTheorems, TLAPS

-----------------------------------------------------------------------------
(* Sectors *)

LEMMA Division ==
  ASSUME NEW u \in Nat \ {0}, NEW x \in Nat
  PROVE  /\ x \div u \in Nat /\ u * (x \div u) \in Nat
         /\ u * (x \div u) <= x /\ x < u * (x \div u) + u
         /\ x % u = 0 => x = u * (x \div u)
<1>1. \A v \in Int, z \in Int : v > 0 => v * (z \div v) <= z /\ z < v * (z \div v) + v
  BY SMT
<1>2. \A v \in Int, z \in Int : v > 0 /\ z % v = 0 => z = v * (z \div v)
  BY SMT
<1>3. x \div u \in Nat
  OBVIOUS
<1>4. u * (x \div u) \in Nat
  <2>1. \A q \in Nat : u * q \in Nat
    OBVIOUS
  <2> QED BY <1>3, <2>1
<1> QED BY <1>1, <1>2, <1>3, <1>4

LEMMA Quotient ==
  ASSUME NEW u \in Nat \ {0}, NEW x \in Nat, NEW k \in Int, u * k <= x, x < u * k + u
  PROVE  x \div u = k
<1>1. u \in Int /\ u > 0 /\ x \in Int
  OBVIOUS
<1> QED BY <1>1, Z3

LEMMA MultipleMod ==
  ASSUME NEW u \in Nat \ {0}, NEW k \in Int
  PROVE  (u * k) % u = 0
<1>1. u \in Int /\ u > 0
  OBVIOUS
<1> QED BY <1>1, Z3

LEMMA SumOfMultiples ==
  ASSUME NEW u \in Nat \ {0}, NEW x \in Nat, NEW y \in Nat, x % u = 0, y % u = 0
  PROVE  (x + y) % u = 0 /\ (x - y) % u = 0
<1>1. PICK j \in Nat : x = u * j
  BY Division
<1>2. PICK k \in Nat : y = u * k
  BY Division
<1>3. x + y = u * (j + k) /\ x - y = u * (j - k)
  BY <1>1, <1>2
<1>4. (u * (j + k)) % u = 0 /\ (u * (j - k)) % u = 0
  BY MultipleMod
<1> QED BY <1>3, <1>4

(* A multiple of the sector size is one of the buffer size.                *)
LEMMA MultipleOfMultiple ==
  ASSUME NEW u \in Nat \ {0}, NEW v \in Nat \ {0}, NEW x \in Nat, u % v = 0, x % u = 0
  PROVE  x % v = 0
<1>1. PICK j \in Nat : x = u * j
  BY Division
<1>2. PICK k \in Nat : u = v * k
  BY Division
<1>3. x = v * (k * j) /\ k * j \in Nat
  BY <1>1, <1>2
<1> QED BY <1>3, MultipleMod

(* Between two multiples there are s units.                                *)
LEMMA NextMultiple ==
  ASSUME NEW u \in Nat \ {0}, NEW j \in Nat, NEW k \in Nat, u * j < u * k
  PROVE  u * j + u <= u * k
<1>1. j < k
  <2>1. k <= j => u * k <= u * j
    <3>1. k <= j => j - k \in Nat /\ u * (j - k) \in Nat
      OBVIOUS
    <3>2. u * (j - k) = u * j - u * k /\ u * j \in Nat /\ u * k \in Nat
      OBVIOUS
    <3> QED BY <3>1, <3>2
  <2>2. u * j \in Nat /\ u * k \in Nat
    OBVIOUS
  <2> QED BY <2>1, <2>2
<1>2. k - j - 1 \in Nat /\ u * (k - j - 1) \in Nat
  BY <1>1
<1>3. u * (k - j - 1) = u * k - u * j - u /\ u * j \in Nat /\ u * k \in Nat
  OBVIOUS
<1> QED BY <1>2, <1>3

(* A buffer that starts at a multiple of its size ends in the same sector. *)
LEMMA SectorRoom ==
  ASSUME NEW s \in Nat \ {0}, NEW b \in Nat \ {0}, NEW c \in Nat, s % b = 0, c % b = 0
  PROVE  c + b <= s * (c \div s) + s
<1>1. PICK j \in Nat : c = b * j
  BY Division
<1>2. PICK m \in Nat : s = b * m
  BY Division
<1>3. PICK q \in Nat : q = c \div s /\ s * q <= c /\ c < s * q + s
  BY Division
<1>4. s * q + s = b * (m * q + m) /\ m * q + m \in Nat
  BY <1>2
<1>5. b * j < b * (m * q + m)
  BY <1>1, <1>3, <1>4
<1>6. b * j + b <= b * (m * q + m)
  BY <1>4, <1>5, NextMultiple
<1> QED BY <1>1, <1>3, <1>4, <1>6

LEMMA RoundedUp ==
  ASSUME NEW n \in Nat
  PROVE  Rounded(n) \in Nat /\ n <= Rounded(n) /\ Rounded(n) % SectorSize = 0
<1> DEFINE s == SectorSize
           q == (n + s - 1) \div s
<1>1. s \in Nat \ {0} /\ n + s - 1 \in Nat
  BY UpdaterAssumption
<1>2. q \in Nat /\ s * q \in Nat /\ n + s - 1 < s * q + s
  BY <1>1, Division
<1>3. Rounded(n) = s * q
  <2>1. Rounded(n) = q * s
    BY DEF Rounded
  <2> HIDE DEF q, s
  <2> QED BY <1>1, <1>2, <2>1
<1>4. (s * q) % s = 0
  BY <1>1, <1>2, MultipleMod
<1> HIDE DEF q, s
<1>5. n <= s * q
  BY <1>1, <1>2
<1> QED BY <1>2, <1>3, <1>4, <1>5 DEF s

-----------------------------------------------------------------------------
(* The update in progress *)

Target == {"flash", "fs"}
Error == {"ok", "refused", "space", "oom", "erase", "write", "read", "stream",
          "magic", "md5", "no data"}

UpdType(u) ==
  /\ u \in [size : Nat, start : Nat, cur : Nat, buffer : Seq(Content), bufSize : Nat \ {0},
            target : Target, error : Error]
  /\ len(u) <= u.bufSize /\ u.bufSize \in Buffers \cup {1}

Md5Type(m) == m \in [n : Nat, good : BOOLEAN, expected : Nat \cup {NoMd5}]

(* Whole sectors, between the sketch and the file system or in the latter. *)
Reserved(u) ==
  /\ u.start % SectorSize = 0
  /\ u.target = "flash" => SketchEnd <= u.start /\ u.start + Rounded(u.size) <= FsStart
  /\ u.target = "fs" => FsStart <= u.start /\ u.start + Rounded(u.size) <= FsEnd

(* The unit i of the update, or one damaged on its way.                    *)
Sent(x, i) == x \in {Data(i), Damaged}

(* Behind start is what has been written, behind cur in its sector what has*)
(* been erased, and the buffer goes on where the flash ends.               *)
Image(u, f, m) ==
  /\ u.start <= u.cur /\ progress(u) + len(u) <= u.size
  /\ \A i \in 0..(progress(u) - 1) : Sent(f[u.start + i], i) /\ (m.good => f[u.start + i] = Data(i))
  /\ \A a \in Unit : a >= u.cur /\ a \div SectorSize = u.cur \div SectorSize /\ ~EraseDue(u)
                       => f[a] = Erased
  /\ \A i \in 1..len(u) : Sent(u.buffer[i], progress(u) + i - 1)
  /\ m.n = progress(u)

Aligned(u) == isFinished(u) \/ progress(u) % u.bufSize = 0

LEMMA Constants ==
  /\ SectorSize \in Nat \ {0}
  /\ SketchEnd \in Nat /\ FsStart \in Nat /\ FsEnd \in Nat
  /\ SketchEnd % SectorSize = 0 /\ FsStart % SectorSize = 0 /\ FsEnd % SectorSize = 0
  /\ 0 < SketchEnd /\ SketchEnd <= FsStart /\ FsStart <= FsEnd
  /\ MaxBegin \in Nat /\ MaxChunk \in Nat /\ Sizes \subseteq Nat
  /\ \A b \in Buffers \cup {1} : b \in Nat \ {0} /\ SectorSize % b = 0 /\ b <= SectorSize
<1>1. /\ SectorSize \in Nat \ {0}
      /\ SketchEnd \in Nat /\ FsStart \in Nat /\ FsEnd \in Nat
      /\ SketchEnd % SectorSize = 0 /\ FsStart % SectorSize = 0 /\ FsEnd % SectorSize = 0
  BY UpdaterAssumption
<1>2. \A b \in Buffers : b \in Nat \ {0} /\ SectorSize % b = 0 /\ b <= SectorSize
  <2> TAKE b \in Buffers
  <2>1. b \in 1..SectorSize /\ SectorSize % b = 0
    BY UpdaterAssumption
  <2> QED BY <1>1, <2>1
<1>3. SectorSize % 1 = 0 /\ 1 <= SectorSize
  BY <1>1
<1> QED BY <1>1, <1>2, <1>3, UpdaterAssumption

(* The numbers that _writeBuffer() works with: the units it writes lie in  *)
(* the sector of cur, and in the area.                                     *)
LEMMA WriteFits ==
  ASSUME NEW u, UpdType(u), Reserved(u), Aligned(u), ~isFinished(u),
         u.start <= u.cur, progress(u) + len(u) <= u.size
  PROVE  /\ u.cur % u.bufSize = 0
         /\ \A a \in u.cur..(u.cur + len(u) - 1) : a \div SectorSize = u.cur \div SectorSize
         /\ (u.cur + len(u)) % SectorSize # 0
               => (u.cur + len(u)) \div SectorSize = u.cur \div SectorSize
<1> DEFINE s == SectorSize
           b == u.bufSize
           c == u.cur
<1>1. s \in Nat \ {0} /\ b \in Nat \ {0} /\ c \in Nat /\ s % b = 0 /\ u.start \in Nat /\ len(u) \in 0..b
  BY Constants DEF UpdType, len
<1>2. c % b = 0
  <2>1. (c - u.start) % b = 0 /\ c - u.start \in Nat
    BY <1>1 DEF Aligned, progress
  <2>2. u.start % b = 0
    BY <1>1, MultipleOfMultiple DEF Reserved
  <2>3. ((c - u.start) + u.start) % b = 0
    BY <1>1, <2>1, <2>2, SumOfMultiples
  <2>4. (c - u.start) + u.start = c
    BY <1>1
  <2> QED BY <2>3, <2>4
<1>3. c + b <= s * (c \div s) + s
  BY <1>1, <1>2, SectorRoom
<1>4. PICK q \in Nat : q = c \div s /\ s * q \in Nat /\ s * q <= c /\ c < s * q + s
  BY <1>1, Division
<1> HIDE DEF s, b, c
<1>5. ASSUME NEW a \in c..(c + len(u) - 1) PROVE a \div s = c \div s
  <2>1. a \in Nat /\ s * q <= a /\ a < s * q + s
    BY <1>1, <1>3, <1>4
  <2>2. q \in Int
    OBVIOUS
  <2>3. a \div s = q
    BY <1>1, <2>1, <2>2, Quotient, Zenon
  <2> QED BY <1>4, <2>3
<1>6. ASSUME (c + len(u)) % s # 0 PROVE (c + len(u)) \div s = c \div s
  <2>1. c + len(u) \in Nat /\ s * q <= c + len(u) /\ c + len(u) <= s * q + s
    BY <1>1, <1>3, <1>4
  <2>2. s * q + s = s * (q + 1)
    BY <1>1
  <2>3. (s * (q + 1)) % s = 0
    BY <1>1, MultipleMod
  <2>4. c + len(u) # s * q + s
    BY <1>6, <2>2, <2>3
  <2>5. c + len(u) < s * q + s
    BY <1>1, <2>1, <2>4
  <2>6. q \in Int
    OBVIOUS
  <2>7. (c + len(u)) \div s = q
    BY <1>1, <2>1, <2>5, <2>6, Quotient, Zenon
  <2> QED BY <1>4, <2>7
<1> QED BY <1>2, <1>5, <1>6 DEF s, b, c

(* What an erase or a write of it changes lies in the area.                *)
LEMMA ChangesInArea ==
  ASSUME NEW u, UpdType(u), Reserved(u), ~isFinished(u),
         u.start <= u.cur, progress(u) + len(u) <= u.size,
         NEW a \in Unit,
         a \in u.cur..(u.cur + len(u) - 1) \/ (EraseDue(u) /\ a \in SectorOf(u.cur))
  PROVE  a \in Area(u)
<1> DEFINE s == SectorSize
           c == u.cur
           e == u.start + Rounded(u.size)
<1>1. /\ s \in Nat \ {0} /\ c \in Nat /\ u.start \in Nat /\ len(u) \in Nat /\ u.size \in Nat /\ a \in Nat
      /\ u.target \in Target
  BY Constants DEF UpdType, len, Unit
<1>2. Rounded(u.size) \in Nat /\ u.size <= Rounded(u.size) /\ Rounded(u.size) % s = 0
  BY <1>1, RoundedUp
<1>3. e \in Nat /\ e % s = 0
  BY <1>1, <1>2, SumOfMultiples DEF Reserved
<1>4. c < e /\ c + len(u) <= e
  <2>1. c <= u.start + u.size /\ c # u.start + u.size /\ c + len(u) <= u.start + u.size
    BY <1>1 DEF isFinished, progress
  <2> QED BY <1>1, <1>2, <2>1
<1>5. u.start <= a /\ a < e
  <2>1. CASE a \in u.cur..(u.cur + len(u) - 1)
    <3> HIDE DEF e
    <3> QED BY <1>1, <1>3, <1>4, <2>1
  <2>2. CASE EraseDue(u) /\ a \in SectorOf(u.cur)
    <3>1. c % s = 0 /\ a \div s = c \div s
      BY <2>2 DEF EraseDue, SectorOf
    <3>2. PICK q \in Nat : q = c \div s /\ c = s * q
      BY <1>1, <3>1, Division
    <3>3. PICK k \in Nat : e = s * k
      BY <1>1, <1>3, Division
    <3>4. s * q <= a /\ a < s * q + s
      BY <1>1, <3>1, <3>2, Division
    <3>5. s * q + s <= s * k
      <4> HIDE DEF e, s
      <4>1. s * q < s * k
        BY <1>4, <3>2, <3>3
      <4> QED BY <1>1, <4>1, NextMultiple
    <3> HIDE DEF e, s, c
    <3>6. u.start <= c /\ c <= a
      BY <3>2, <3>4 DEF c
    <3>7. s * q \in Nat /\ s * k \in Nat
      BY <1>1
    <3> QED BY <1>1, <3>3, <3>4, <3>5, <3>6, <3>7
  <2> QED BY <2>1, <2>2
<1>6. CASE u.target = "flash"
  BY <1>1, <1>3, <1>5, <1>6, Constants DEF Area, Reserved
<1>7. CASE u.target # "flash"
  <2>1. u.target = "fs"
    BY <1>1, <1>7 DEF Target
  <2> QED BY <1>1, <1>3, <1>5, <2>1, Constants DEF Area, Reserved
<1> QED BY <1>6, <1>7

-----------------------------------------------------------------------------
(* The invariant *)

CallType ==
  /\ call.op \in {"none", "write", "available", "stream"}
  /\ call.op = "write" => /\ call = [op |-> "write", len |-> call.len, rest |-> call.rest]
                          /\ call.len \in Nat /\ call.rest \in Seq(Content) /\ left <= call.len
  /\ call.op = "available" =>
       /\ call = [op |-> "available", available |-> call.available, written |-> call.written]
       /\ call.available \in Nat /\ call.written \in Nat
  /\ call.op = "stream" =>
       /\ call = [op |-> "stream", written |-> call.written, want |-> call.want]
       /\ call.written \in Nat /\ call.want \in Int

TypeInv ==
  /\ flash \in [Unit -> Content]
  /\ command \in [src : Nat, size : Nat, n : 0..MaxBegin]
  /\ UpdType(upd) /\ Md5Type(md5) /\ CallType
  /\ update \in [n : 0..MaxBegin, taken : Nat]

(* What the call in progress has put in and not yet told.                  *)
Untold == IF call.op = "write" THEN call.len - left
          ELSE IF call.op = "none" THEN 0
          ELSE call.written

Told == progress(upd) + len(upd) = update.taken + Untold

(* How far the call in progress may still go.                              *)
CallFits ==
  /\ call.op \in {"write", "available"} => ~isFinished(upd)
  /\ call.op = "write" => /\ progress(upd) + len(upd) + left <= upd.size
                          /\ \A i \in 1..left : Sent(call.rest[i], progress(upd) + len(upd) + i - 1)
  /\ call.op = "stream" => call.want - call.written = upd.size - progress(upd) - len(upd)

RunInv ==
  isRunning(upd) => /\ update.n \in 1..MaxBegin /\ upd.error = "ok" /\ command = NoCommand
                    /\ Reserved(upd) /\ Image(upd, flash, md5) /\ Aligned(upd)
                    /\ Told /\ CallFits

IInv == /\ TypeInv /\ RunInv
        /\ call.op # "none" => isRunning(upd)
        /\ StagedIsTaken /\ Md5Guards

-----------------------------------------------------------------------------
(* _writeBuffer() *)

Written(u) == [u EXCEPT !.cur = u.cur + len(u), !.buffer = <<>>]
Success(u) == [ok |-> TRUE, flash |-> AfterWrite(u), md5 |-> Fed(u), upd |-> Written(u)]

LEMMA Outcomes ==
  ASSUME NEW u, NEW r \in WriteBuffer(u)
  PROVE  \/ r = Success(u) /\ ~(u.cur + len(u) > FsEnd)
         \/ \E e \in {"erase", "write"} :
              \/ r = [ok |-> FALSE, flash |-> flash, md5 |-> md5, upd |-> Fail(u, e)]
              \/ r = [ok |-> FALSE, flash |-> AfterErase(u), md5 |-> md5, upd |-> Fail(u, e)]
<1> DEFINE past == u.cur + len(u) > FsEnd \/ (EraseDue(u) /\ u.cur = FsEnd)
           failed(f, e) == [ok |-> FALSE, flash |-> f, md5 |-> md5, upd |-> Fail(u, e)]
<1>1. WriteBuffer(u) = (IF past THEN {} ELSE {Success(u)})
                       \cup (IF EraseDue(u) THEN {failed(flash, "erase")} ELSE {})
                       \cup {failed(AfterErase(u), "write")}
  BY DEF WriteBuffer, Success, Written, Advance, Emptied
<1>2. CASE ~past /\ r = Success(u)
  <2>1. ~(u.cur + len(u) > FsEnd)
    BY <1>2
  <2> QED BY <1>2, <2>1
<1>3. CASE r = failed(flash, "erase")
  BY <1>3
<1>4. CASE r = failed(AfterErase(u), "write")
  BY <1>4
<1> HIDE DEF past, failed
<1>5. (r = Success(u) /\ ~past) \/ r = failed(flash, "erase") \/ r = failed(AfterErase(u), "write")
  BY <1>1
<1> QED BY <1>2, <1>3, <1>4, <1>5

LEMMA FailType ==
  ASSUME NEW u, UpdType(u), NEW e \in Error
  PROVE  /\ UpdType(Fail(u, e)) /\ UpdType(Clear(u))
         /\ ~isRunning(Fail(u, e)) /\ ~isRunning(Clear(u))
         /\ Fail(u, e).error = e /\ Clear(u).error = u.error
         /\ Fail(u, e).size = 0 /\ Fail(u, e).start = 0 /\ Fail(u, e).cur = 0
         /\ Fail(u, e).bufSize = u.bufSize
<1> DEFINE Upds == [size : Nat, start : Nat, cur : Nat, buffer : Seq(Content), bufSize : Nat \ {0},
                    target : Target, error : Error]
<1>1. u \in Upds /\ u.bufSize \in Buffers \cup {1} /\ u.bufSize \in Nat \ {0}
  BY DEF UpdType
<1>2. <<>> \in Seq(Content) /\ Len(<<>>) = 0
  OBVIOUS
<1>3. /\ Clear(u) \in Upds /\ Clear(u).buffer = <<>> /\ Clear(u).size = 0 /\ Clear(u).error = u.error
      /\ Clear(u).bufSize = u.bufSize /\ Clear(u).start = 0 /\ Clear(u).cur = 0
  BY <1>1, <1>2 DEF Clear, Target
<1>4. /\ Fail(u, e) \in Upds /\ Fail(u, e).buffer = <<>> /\ Fail(u, e).size = 0 /\ Fail(u, e).error = e
      /\ Fail(u, e).bufSize = u.bufSize /\ Fail(u, e).start = 0 /\ Fail(u, e).cur = 0
  BY <1>3 DEF Fail
<1> QED BY <1>1, <1>2, <1>3, <1>4 DEF UpdType, len, isRunning

LEMMA ErasedOrKept ==
  ASSUME NEW u, flash \in [Unit -> Content]
  PROVE  /\ AfterErase(u) \in [Unit -> Content]
         /\ \A a \in Unit : /\ EraseDue(u) /\ a \in SectorOf(u.cur) => AfterErase(u)[a] = Erased
                            /\ ~(EraseDue(u) /\ a \in SectorOf(u.cur)) => AfterErase(u)[a] = flash[a]
<1>1. Erased \in Content
  BY DEF Content
<1> QED BY <1>1 DEF AfterErase

LEMMA WriteBufferWorks ==
  ASSUME flash \in [Unit -> Content], Md5Type(md5),
         NEW u, UpdType(u), Reserved(u), Aligned(u), ~isFinished(u), Image(u, flash, md5),
         len(u) > 0, NEW r \in WriteBuffer(u)
  PROVE  /\ r.ok \in BOOLEAN
         /\ r.flash \in [Unit -> Content] /\ Md5Type(r.md5) /\ UpdType(r.upd)
         /\ \A a \in Unit : r.flash[a] # flash[a] => a \in Area(u)
         /\ r.ok => /\ r.upd = Written(u) /\ Image(r.upd, r.flash, r.md5)
                    /\ len(u) \in {u.bufSize, remaining(u)} => Aligned(r.upd)
         /\ ~r.ok => r.md5 = md5 /\ \E e \in {"erase", "write"} : r.upd = Fail(u, e)
<1> DEFINE s == SectorSize
           c == u.cur
           n == len(u)
           p == progress(u)
<1>1. /\ s \in Nat \ {0} /\ c \in Nat /\ u.start \in Nat /\ n \in Nat /\ u.size \in Nat
      /\ u.buffer \in Seq(Content) /\ n = Len(u.buffer) /\ n <= u.bufSize /\ u.bufSize \in Nat \ {0}
  BY Constants DEF UpdType, len
<1>2. u.start <= c /\ p = c - u.start /\ p \in Nat /\ p + n <= u.size
  BY <1>1 DEF Image, progress
<1>3. /\ c % u.bufSize = 0
      /\ \A a \in c..(c + n - 1) : a \div s = c \div s
      /\ (c + n) % s # 0 => (c + n) \div s = c \div s
  BY <1>2, WriteFits
<1>4. \A a \in Unit : a \in c..(c + n - 1) \/ (EraseDue(u) /\ a \in SectorOf(c)) => a \in Area(u)
  BY <1>2, ChangesInArea
<1>5. /\ AfterErase(u) \in [Unit -> Content]
      /\ \A a \in Unit : /\ EraseDue(u) /\ a \in SectorOf(c) => AfterErase(u)[a] = Erased
                         /\ ~(EraseDue(u) /\ a \in SectorOf(c)) => AfterErase(u)[a] = flash[a]
  BY ErasedOrKept
<1>6. CASE ~(r = Success(u))
  <2>1. PICK e \in {"erase", "write"} :
          \/ r = [ok |-> FALSE, flash |-> flash, md5 |-> md5, upd |-> Fail(u, e)]
          \/ r = [ok |-> FALSE, flash |-> AfterErase(u), md5 |-> md5, upd |-> Fail(u, e)]
    BY <1>6, Outcomes
  <2>2. UpdType(Fail(u, e))
    BY FailType DEF Error
  <2>3. r.ok = FALSE /\ r.md5 = md5 /\ r.upd = Fail(u, e) /\ r.flash \in {flash, AfterErase(u)}
    BY <2>1
  <2>4. r.flash \in [Unit -> Content] /\ \A a \in Unit : r.flash[a] # flash[a] => a \in Area(u)
    BY <1>4, <1>5, <2>3
  <2> QED BY <2>2, <2>3, <2>4
<1>7. CASE r = Success(u) /\ ~(c + n > FsEnd)
  <2>1. r.ok = TRUE /\ r.flash = AfterWrite(u) /\ r.md5 = Fed(u) /\ r.upd = Written(u)
    BY <1>7 DEF Success
(* The units written, the sector they are in, and the rest.                *)
  <2>2. \A a \in Unit : a \in c..(c + n - 1) =>
          a \in SectorOf(c) /\ AfterErase(u)[a] = Erased
    <3> SUFFICES ASSUME NEW a \in Unit, a \in c..(c + n - 1)
                 PROVE  a \in SectorOf(c) /\ AfterErase(u)[a] = Erased
      OBVIOUS
    <3>1. a \in SectorOf(c) /\ a >= c /\ a \div s = c \div s
      BY <1>1, <1>3 DEF SectorOf
    <3>2. ~EraseDue(u) => flash[a] = Erased
      BY <3>1 DEF Image
    <3> QED BY <1>5, <3>1, <3>2
  <2>3. \A a \in Unit :
          /\ a \in c..(c + n - 1) => /\ a - c + 1 \in 1..n
                                     /\ AfterWrite(u)[a] = u.buffer[a - c + 1]
          /\ a \notin c..(c + n - 1) => AfterWrite(u)[a] = AfterErase(u)[a]
    <3> TAKE a \in Unit
    <3>1. a \in c..(c + n - 1) => a - c + 1 \in 1..n
      BY <1>1
    <3> QED BY <2>2, <3>1 DEF AfterWrite
  <2>4. AfterWrite(u) \in [Unit -> Content]
    <3>1. \A a \in Unit : AfterWrite(u)[a] \in Content
      <4> TAKE a \in Unit
      <4>1. CASE a \in c..(c + n - 1)
        BY <1>1, <2>3, <4>1
      <4>2. CASE a \notin c..(c + n - 1)
        BY <1>5, <2>3, <4>2
      <4> QED BY <4>1, <4>2
    <3> QED BY <3>1 DEF AfterWrite
  <2>5. \A a \in Unit : AfterWrite(u)[a] # flash[a] => a \in Area(u)
    BY <1>4, <1>5, <2>3
  <2>6. /\ Md5Type(Fed(u)) /\ Fed(u).n = p + n
        /\ Fed(u).good => md5.good /\ \A i \in 1..n : u.buffer[i] = Data(p + i - 1)
    <3>1. md5.n = p
      BY DEF Image
    <3>2. DOMAIN u.buffer = 1..n
      BY <1>1
    <3>3. md5.n + n \in Nat
      BY <1>1, <1>2, <3>1
    <3> HIDE DEF n, p
    <3>4. Fed(u) = [md5 EXCEPT !.n = @ + n,
                               !.good = @ /\ \A i \in DOMAIN u.buffer : u.buffer[i] = Data(md5.n + i - 1)]
      BY DEF Fed, n
    <3>5. (md5.good /\ \A i \in DOMAIN u.buffer : u.buffer[i] = Data(md5.n + i - 1)) \in BOOLEAN
      OBVIOUS
    <3> QED BY <3>1, <3>2, <3>3, <3>4, <3>5 DEF Md5Type
  <2>7. /\ UpdType(Written(u)) /\ Written(u).cur = c + n /\ Written(u).start = u.start
        /\ Written(u).size = u.size /\ Written(u).bufSize = u.bufSize /\ len(Written(u)) = 0
    <3>1. <<>> \in Seq(Content) /\ Len(<<>>) = 0 /\ c + n \in Nat
      BY <1>1
    <3>2. u \in [size : Nat, start : Nat, cur : Nat, buffer : Seq(Content), bufSize : Nat \ {0},
                 target : Target, error : Error]
      BY DEF UpdType
    <3> DEFINE w == [u EXCEPT !.cur = c + n, !.buffer = <<>>]
    <3>3. /\ w \in [size : Nat, start : Nat, cur : Nat, buffer : Seq(Content), bufSize : Nat \ {0},
                    target : Target, error : Error]
          /\ w.cur = c + n /\ w.start = u.start /\ w.size = u.size /\ w.bufSize = u.bufSize
          /\ w.buffer = <<>>
      <4> HIDE DEF c, n
      <4> QED BY <3>1, <3>2
    <3>4. Written(u) = w
      BY DEF Written
    <3> HIDE DEF w
    <3>5. u.bufSize \in Buffers \cup {1}
      BY DEF UpdType
    <3> QED BY <1>1, <3>1, <3>3, <3>4, <3>5 DEF UpdType, len
  <2>8. progress(Written(u)) = p + n
    BY <1>1, <1>2, <2>7 DEF progress
  <2>9. Image(Written(u), AfterWrite(u), Fed(u))
    <3>1. u.start <= c + n
      BY <1>1, <1>2
    <3>2. ASSUME NEW i \in 0..(p + n - 1)
          PROVE  Sent(AfterWrite(u)[u.start + i], i) /\ (Fed(u).good => AfterWrite(u)[u.start + i] = Data(i))
      <4> DEFINE a == u.start + i
      <4>1. a \in Unit
        <5>1. c + n <= FsEnd /\ FsEnd \in Nat
          BY <1>1, <1>7, Constants
        <5>2. u.start + i \in Nat /\ u.start + i < c + n
          <6>1. \A st, cc, pp, nn \in Nat : \A j \in 0..(pp + nn - 1) :
                  pp = cc - st => st + j \in Nat /\ st + j < cc + nn
            OBVIOUS
          <6>2. i \in 0..(p + n - 1)
            OBVIOUS
          <6> HIDE DEF c, n, p
          <6> QED BY <1>1, <1>2, <6>1, <6>2
        <5>3. \A x, y, z \in Nat : x < y /\ y <= z => x \in 0..(z - 1)
          OBVIOUS
        <5>4. c + n \in Nat
          BY <1>1
        <5> QED BY <5>1, <5>2, <5>3, <5>4 DEF Unit
      <4>2. CASE i < p
        <5>1. i \in 0..(p - 1) /\ a < c /\ a \notin c..(c + n - 1)
          BY <1>1, <1>2, <4>2
        <5>2. ~(EraseDue(u) /\ a \in SectorOf(c))
          <6>1. EraseDue(u) => c = s * (c \div s)
            BY <1>1, Division DEF EraseDue
          <6>2. a \in Nat
            BY <1>1
          <6>3. s * (a \div s) <= a
            BY <1>1, <6>2, Division
          <6>4. a \in Nat /\ a < s * (a \div s) + s
            BY <1>1, <6>2, Division
          <6>5. EraseDue(u) /\ a \div s = c \div s => a >= c
            BY <6>1, <6>3
          <6> QED BY <1>1, <5>1, <6>2, <6>5 DEF SectorOf
        <5>3. AfterWrite(u)[a] = flash[a]
          BY <1>5, <2>3, <4>1, <5>1, <5>2
        <5> QED BY <2>6, <5>1, <5>3 DEF Image
      <4>3. CASE ~(i < p)
        <5>1. a \in c..(c + n - 1) /\ a - c + 1 = i - p + 1 /\ i - p + 1 \in 1..n /\ p + (i - p + 1) - 1 = i
          <6>1. \A st, cc, pp, nn \in Nat : \A j \in 0..(pp + nn - 1) :
                  pp = cc - st /\ ~(j < pp) =>
                    /\ st + j \in cc..(cc + nn - 1) /\ st + j - cc + 1 = j - pp + 1
                    /\ j - pp + 1 \in 1..nn /\ pp + (j - pp + 1) - 1 = j
            OBVIOUS
          <6>2. i \in 0..(p + n - 1)
            OBVIOUS
          <6>3. c \in Nat /\ n \in Nat /\ p \in Nat /\ u.start \in Nat /\ p = c - u.start
            BY <1>1, <1>2
          <6> HIDE DEF c, n, p
          <6>4. \A j \in 0..(p + n - 1) : ~(j < p) =>
                    /\ u.start + j \in c..(c + n - 1) /\ u.start + j - c + 1 = j - p + 1
                    /\ j - p + 1 \in 1..n /\ p + (j - p + 1) - 1 = j
            BY <6>1, <6>3
          <6> QED BY <4>3, <6>2, <6>3, <6>4
        <5>2. AfterWrite(u)[a] = u.buffer[i - p + 1]
          BY <2>3, <4>1, <5>1
        <5>3. Sent(u.buffer[i - p + 1], i)
          <6>1. \A j \in 1..len(u) : Sent(u.buffer[j], progress(u) + j - 1)
            BY DEF Image
          <6>2. Sent(u.buffer[i - p + 1], p + (i - p + 1) - 1)
            BY <5>1, <6>1
          <6> QED BY <5>1, <6>2
        <5>4. Fed(u).good => u.buffer[i - p + 1] = Data(i)
          BY <2>6, <5>1
        <5> QED BY <5>2, <5>3, <5>4
      <4> QED BY <4>2, <4>3
    <3>3. ASSUME NEW a \in Unit, a >= c + n, a \div s = (c + n) \div s, (c + n) % s # 0
          PROVE  AfterWrite(u)[a] = Erased
      <4>1. a \div s = c \div s /\ a >= c /\ a \notin c..(c + n - 1)
        <5>1. a \in Nat
          BY Constants DEF Unit
        <5>2. a \div s = c \div s
          BY <1>3, <3>3
        <5> HIDE DEF c, n, s
        <5> QED BY <1>1, <3>3, <5>1, <5>2
      <4>2. AfterErase(u)[a] = Erased
        <5>1. CASE EraseDue(u)
          BY <1>5, <4>1, <5>1 DEF SectorOf
        <5>2. CASE ~EraseDue(u)
          BY <1>5, <4>1, <5>2 DEF Image
        <5> QED BY <5>1, <5>2
      <4> QED BY <2>3, <4>1, <4>2
    <3>4. \A i \in 1..len(Written(u)) : Sent(Written(u).buffer[i], progress(Written(u)) + i - 1)
      BY <2>7
    <3>5. p + n + 0 <= u.size
      <4> HIDE DEF n, p
      <4> QED BY <1>1, <1>2
    <3>6. \A i \in 0..(progress(Written(u)) - 1) :
             /\ Sent(AfterWrite(u)[Written(u).start + i], i)
             /\ Fed(u).good => AfterWrite(u)[Written(u).start + i] = Data(i)
      <4>1. \A i \in 0..(p + n - 1) :
               /\ Sent(AfterWrite(u)[u.start + i], i)
               /\ Fed(u).good => AfterWrite(u)[u.start + i] = Data(i)
        BY <3>2
      <4> HIDE DEF p, n
      <4>2. Written(u).start = u.start /\ progress(Written(u)) = p + n
        BY <2>7, <2>8
      <4> TAKE i \in 0..(progress(Written(u)) - 1)
      <4>3. i \in 0..(p + n - 1)
        BY <1>1, <1>2, <4>2
      <4>4. Sent(AfterWrite(u)[u.start + i], i) /\ (Fed(u).good => AfterWrite(u)[u.start + i] = Data(i))
        BY <4>1, <4>3, Zenon
      <4> QED BY <4>2, <4>4, Zenon
    <3>7. \A a \in Unit : /\ a >= Written(u).cur
                          /\ a \div SectorSize = Written(u).cur \div SectorSize /\ ~EraseDue(Written(u))
                         => AfterWrite(u)[a] = Erased
      BY <2>7, <3>3 DEF EraseDue
    <3>8. /\ Written(u).start <= Written(u).cur
          /\ progress(Written(u)) + len(Written(u)) <= Written(u).size
          /\ Fed(u).n = progress(Written(u))
      BY <2>6, <2>7, <2>8, <3>1, <3>5
    <3> HIDE DEF c, n, p, s
    <3> QED BY <3>4, <3>6, <3>7, <3>8 DEF Image
  <2>10. ASSUME n \in {u.bufSize, remaining(u)} PROVE Aligned(Written(u))
    <3>1. CASE n = remaining(u)
      <4>1. c + n = u.start + u.size
        BY <1>1, <1>2, <3>1 DEF remaining
      <4> QED BY <2>7, <4>1 DEF Aligned, isFinished
    <3>2. CASE n = u.bufSize
      <4>1. p % u.bufSize = 0
        BY DEF Aligned
      <4>2. u.bufSize % u.bufSize = 0
        <5>1. u.bufSize * 1 = u.bufSize
          BY <1>1
        <5> QED BY <1>1, <5>1, MultipleMod
      <4>3. (p + u.bufSize) % u.bufSize = 0
        BY <1>1, <1>2, <4>1, <4>2, SumOfMultiples
      <4> QED BY <2>7, <2>8, <3>2, <4>3 DEF Aligned
    <3> QED BY <2>10, <3>1, <3>2
  <2> QED BY <2>1, <2>4, <2>5, <2>6, <2>7, <2>9, <2>10
<1>8. r = Success(u) => ~(c + n > FsEnd)
  BY Outcomes DEF Success
<1> QED BY <1>6, <1>7, <1>8

-----------------------------------------------------------------------------
(* What the steps have in common *)

(* What a step with an update in progress changes of the flash.            *)
Contains == command = NoCommand => \A a \in Unit : flash'[a] # flash[a] => a \in Area(upd)

LEMMA StaysRunning ==
  ASSUME TypeInv', isRunning(upd)', update'.n \in 1..MaxBegin, upd'.error = "ok", command' = NoCommand,
         Reserved(upd)', Image(upd, flash, md5)', Aligned(upd)', Told', CallFits'
  PROVE  IInv'
BY DEF IInv, RunInv, StagedIsTaken, Md5Guards, NoCommand

LEMMA StopsRunning ==
  ASSUME flash' \in [Unit -> Content], UpdType(upd)', Md5Type(md5)',
         update' \in [n : 0..MaxBegin, taken : Nat],
         command' = command, command \in [src : Nat, size : Nat, n : 0..MaxBegin],
         ~isRunning(upd)', Return, command = NoCommand
  PROVE  IInv'
<1>1. call'.op = "none"
  BY DEF Return
<1>2. TypeInv'
  BY <1>1 DEF TypeInv, CallType
<1>3. RunInv' /\ (call.op # "none" => isRunning(upd))'
  BY <1>1 DEF RunInv
<1>4. StagedIsTaken' /\ Md5Guards'
  BY DEF StagedIsTaken, Md5Guards
<1> QED BY <1>2, <1>3, <1>4 DEF IInv

(* The updater whose buffer takes data in.                                 *)
With(data) == [upd EXCEPT !.buffer = @ \o data]

LEMMA Filled ==
  ASSUME TypeInv, RunInv, isRunning(upd),
         NEW data \in Seq(Content),
         \A i \in 1..Len(data) : Sent(data[i], progress(upd) + len(upd) + i - 1),
         len(upd) + Len(data) <= upd.bufSize,
         progress(upd) + len(upd) + Len(data) <= upd.size
  PROVE  LET u == With(data)
         IN  /\ UpdType(u) /\ Reserved(u) /\ Image(u, flash, md5) /\ Aligned(u)
             /\ len(u) = len(upd) + Len(data)
             /\ u.size = upd.size /\ u.start = upd.start /\ u.cur = upd.cur /\ u.bufSize = upd.bufSize
             /\ u.target = upd.target /\ u.error = upd.error
             /\ progress(u) = progress(upd) /\ Area(u) = Area(upd)
<1> DEFINE u == With(data)
<1>1. /\ upd \in [size : Nat, start : Nat, cur : Nat, buffer : Seq(Content), bufSize : Nat \ {0},
                  target : Target, error : Error]
      /\ upd.bufSize \in Buffers \cup {1}
  BY DEF TypeInv, UpdType
<1>2. upd.buffer \o data \in Seq(Content) /\ Len(upd.buffer \o data) = Len(upd.buffer) + Len(data)
  BY <1>1
<1>3. /\ u \in [size : Nat, start : Nat, cur : Nat, buffer : Seq(Content), bufSize : Nat \ {0},
                target : Target, error : Error]
      /\ u.size = upd.size /\ u.start = upd.start /\ u.cur = upd.cur /\ u.bufSize = upd.bufSize
      /\ u.target = upd.target /\ u.error = upd.error /\ u.buffer = upd.buffer \o data
  BY <1>1, <1>2 DEF With
<1> HIDE DEF u
<1>4. len(u) = len(upd) + Len(data) /\ progress(u) = progress(upd) /\ (EraseDue(u) <=> EraseDue(upd))
  BY <1>2, <1>3 DEF len, progress, EraseDue
<1>5. UpdType(u)
  BY <1>1, <1>3, <1>4 DEF UpdType
<1>6. Reserved(u) /\ Aligned(u) /\ Area(u) = Area(upd)
  BY <1>3, <1>4 DEF RunInv, Reserved, Aligned, isFinished, Area
<1>7. Image(upd, flash, md5)
  BY DEF RunInv
<1>8. \A i \in 1..len(u) : Sent(u.buffer[i], progress(u) + i - 1)
  <2> TAKE i \in 1..len(u)
  <2> DEFINE l == len(upd)
  <2>0. l = Len(upd.buffer) /\ l \in Nat /\ Len(data) \in Nat /\ progress(upd) \in Int /\ i \in 1..(l + Len(data))
    BY <1>1, <1>4 DEF len, progress
  <2>1. CASE i \in 1..l
    <3>1. u.buffer[i] = upd.buffer[i]
      BY <1>1, <1>3, <2>0, <2>1
    <3>2. Sent(upd.buffer[i], progress(upd) + i - 1)
      BY <1>7, <2>1 DEF Image
    <3> QED BY <1>4, <3>1, <3>2
  <2>2. CASE i \notin 1..l
    <3>1. i - l \in 1..Len(data)
      BY <2>0, <2>2
    <3>2. u.buffer[i] = data[i - l]
      BY <1>1, <1>3, <2>0, <2>2, <3>1
    <3>3. Sent(data[i - l], progress(upd) + l + (i - l) - 1)
      BY <3>1
    <3>4. progress(upd) + l + (i - l) - 1 = progress(u) + i - 1
      BY <1>4, <2>0
    <3> QED BY <3>2, <3>3, <3>4
  <2> QED BY <2>1, <2>2
<1>9. progress(u) + len(u) <= u.size
  <2>1. len(upd) \in Nat /\ Len(data) \in Nat /\ progress(upd) \in Int
    BY <1>1 DEF len, progress
  <2> QED BY <1>3, <1>4, <2>1
<1>10. Image(u, flash, md5)
  BY <1>3, <1>4, <1>7, <1>8, <1>9 DEF Image
<1> QED BY <1>3, <1>4, <1>5, <1>6, <1>10 DEF u

(* The buffer is written while the update goes on.                         *)
LEMMA BufferWritten ==
  ASSUME TypeInv, RunInv, isRunning(upd), ~isFinished(upd),
         NEW data \in Seq(Content),
         \A i \in 1..Len(data) : Sent(data[i], progress(upd) + len(upd) + i - 1),
         len(upd) + Len(data) <= upd.bufSize,
         progress(upd) + len(upd) + Len(data) <= upd.size,
         len(upd) + Len(data) > 0,
         NEW r \in WriteBuffer(With(data)), Took(r),
         update'.n = update.n
  PROVE  /\ r.ok \in BOOLEAN
         /\ flash' \in [Unit -> Content] /\ Md5Type(md5)' /\ UpdType(upd)'
         /\ Contains
         /\ r.ok => /\ upd'.size = upd.size /\ upd'.error = "ok" /\ upd'.start = upd.start
                    /\ upd'.bufSize = upd.bufSize /\ upd'.target = upd.target
                    /\ len(upd)' = 0
                    /\ progress(upd)' = progress(upd) + len(upd) + Len(data)
                    /\ Reserved(upd)' /\ Image(upd, flash, md5)'
                    /\ len(upd) + Len(data) \in {upd.bufSize, remaining(upd)} => Aligned(upd)'
         /\ ~r.ok => ~isRunning(upd)' /\ upd'.error # "ok" /\ md5' = md5
<1> DEFINE u == With(data)
<1>1. /\ UpdType(u) /\ Reserved(u) /\ Image(u, flash, md5) /\ Aligned(u)
      /\ len(u) = len(upd) + Len(data)
      /\ u.size = upd.size /\ u.start = upd.start /\ u.cur = upd.cur /\ u.bufSize = upd.bufSize
      /\ u.target = upd.target /\ u.error = upd.error
      /\ progress(u) = progress(upd) /\ Area(u) = Area(upd)
  BY Filled
<1> HIDE DEF u
<1>2. ~isFinished(u) /\ len(u) > 0 /\ r \in WriteBuffer(u)
  BY <1>1 DEF isFinished, u
<1>3. /\ r.ok \in BOOLEAN
      /\ r.flash \in [Unit -> Content] /\ Md5Type(r.md5) /\ UpdType(r.upd)
      /\ \A a \in Unit : r.flash[a] # flash[a] => a \in Area(u)
      /\ r.ok => /\ r.upd = Written(u) /\ Image(r.upd, r.flash, r.md5)
                 /\ len(u) \in {u.bufSize, remaining(u)} => Aligned(r.upd)
      /\ ~r.ok => r.md5 = md5 /\ \E e \in {"erase", "write"} : r.upd = Fail(u, e)
  BY <1>1, <1>2, WriteBufferWorks DEF TypeInv
<1>4. flash' = r.flash /\ md5' = r.md5 /\ upd' = r.upd
  BY DEF Took
<1>5. flash' \in [Unit -> Content] /\ Md5Type(md5)' /\ UpdType(upd)' /\ Contains
  BY <1>1, <1>3, <1>4 DEF Contains, Md5Type, UpdType, Content, len
<1>6. ASSUME r.ok
      PROVE  /\ upd'.size = upd.size /\ upd'.error = "ok" /\ upd'.start = upd.start
             /\ upd'.bufSize = upd.bufSize /\ upd'.target = upd.target
             /\ len(upd)' = 0
             /\ progress(upd)' = progress(upd) + len(upd) + Len(data)
             /\ Reserved(upd)' /\ Image(upd, flash, md5)'
             /\ len(upd) + Len(data) \in {upd.bufSize, remaining(upd)} => Aligned(upd)'
  <2>1. upd' = Written(u) /\ Image(upd', flash', md5')
    BY <1>3, <1>4, <1>6
  <2>2. /\ upd'.size = u.size /\ upd'.start = u.start /\ upd'.bufSize = u.bufSize
        /\ upd'.target = u.target /\ upd'.error = u.error
        /\ upd'.cur = u.cur + len(u) /\ upd'.buffer = <<>>
    BY <1>1, <2>1 DEF Written, UpdType
  <2>3. len(upd)' = 0
    BY <2>2 DEF len
  <2>4. progress(upd)' = progress(upd) + len(upd) + Len(data)
    <3>1. upd.cur \in Nat /\ upd.start \in Nat /\ len(upd) \in Nat /\ Len(data) \in Nat
      BY DEF TypeInv, UpdType, len
    <3> QED BY <1>1, <2>2, <3>1 DEF progress
  <2>5. Reserved(upd)'
    BY <1>1, <2>2 DEF Reserved, Rounded
  <2>6. Image(upd, flash, md5)'
    BY <2>1 DEF Image, Sent, Data, progress, len, EraseDue, Unit, Erased, Damaged
  <2>7. upd.error = "ok"
    BY DEF RunInv
  <2>8. ASSUME len(upd) + Len(data) \in {upd.bufSize, remaining(upd)} PROVE Aligned(upd)'
    <3>1. len(u) \in {u.bufSize, remaining(u)}
      BY <1>1, <2>8 DEF remaining
    <3>2. Aligned(upd')
      BY <1>3, <1>4, <1>6, <3>1
    <3> QED BY <3>2 DEF Aligned, isFinished, progress
  <2> QED BY <1>1, <2>2, <2>3, <2>4, <2>5, <2>6, <2>7, <2>8
<1>7. ASSUME ~r.ok PROVE ~isRunning(upd)' /\ upd'.error # "ok" /\ md5' = md5
  <2>1. PICK e \in {"erase", "write"} : upd' = Fail(u, e)
    BY <1>3, <1>4, <1>7
  <2>2. ~isRunning(Fail(u, e)) /\ Fail(u, e).error = e
    <3>1. e \in Error
      BY DEF Error
    <3>2. UpdType(u)
      BY <1>1
    <3> QED BY <3>1, <3>2, FailType, Zenon
  <2> QED BY <1>3, <1>4, <1>7, <2>1, <2>2 DEF isRunning
<1> QED BY <1>3, <1>5, <1>6, <1>7

(* A step that puts k units into an update that goes on; one that ends it. *)
OnWith(k) ==
  /\ flash' \in [Unit -> Content] /\ Md5Type(md5)' /\ UpdType(upd)' /\ Contains
  /\ upd'.size = upd.size /\ upd'.error = "ok"
  /\ Reserved(upd)' /\ Image(upd, flash, md5)' /\ Aligned(upd)'
  /\ progress(upd)' + len(upd)' = progress(upd) + len(upd) + k

Broken ==
  /\ flash' \in [Unit -> Content] /\ Md5Type(md5)' /\ UpdType(upd)' /\ Contains
  /\ ~isRunning(upd)' /\ upd'.error # "ok"

(* The numbers of an update in progress.                                   *)
LEMMA Numbers ==
  ASSUME IInv, isRunning(upd)
  PROVE  /\ upd.size \in Nat /\ upd.start \in Nat /\ upd.cur \in Nat /\ upd.start <= upd.cur
         /\ upd.bufSize \in Nat \ {0} /\ len(upd) \in Nat /\ len(upd) <= upd.bufSize
         /\ progress(upd) \in Nat /\ progress(upd) + len(upd) <= upd.size
         /\ remaining(upd) = upd.size - progress(upd)
         /\ isFinished(upd) <=> progress(upd) = upd.size
         /\ update.n \in 1..MaxBegin /\ update.taken \in Nat /\ command = NoCommand
<1>1. /\ upd.size \in Nat /\ upd.start \in Nat /\ upd.cur \in Nat
      /\ upd.bufSize \in Nat \ {0} /\ len(upd) \in Nat /\ len(upd) <= upd.bufSize
      /\ update.taken \in Nat
  BY DEF IInv, TypeInv, UpdType, len
<1>2. upd.start <= upd.cur /\ progress(upd) + len(upd) <= upd.size
  BY DEF IInv, RunInv, Image
<1>3. update.n \in 1..MaxBegin /\ command = NoCommand
  BY DEF IInv, RunInv
<1>4. progress(upd) \in Nat /\ (isFinished(upd) <=> progress(upd) = upd.size)
  BY <1>1, <1>2 DEF progress, isFinished
<1> QED BY <1>1, <1>2, <1>3, <1>4 DEF remaining

LEMMA GoesOn ==
  ASSUME IInv, isRunning(upd), NEW k \in Nat, OnWith(k), command' = command,
         update' \in [n : 0..MaxBegin, taken : Nat], update'.n = update.n,
         CallType', Told', CallFits'
  PROVE  IInv' /\ Contains
<1>1. update.n \in 1..MaxBegin /\ command = NoCommand
  BY Numbers
<1>2. isRunning(upd)'
  BY DEF OnWith, isRunning
<1>3. TypeInv'
  BY DEF OnWith, TypeInv, IInv
<1> QED BY <1>1, <1>2, <1>3, StaysRunning DEF OnWith

LEMMA GivesUp ==
  ASSUME IInv, isRunning(upd), Broken, command' = command,
         update' \in [n : 0..MaxBegin, taken : Nat], Return
  PROVE  IInv' /\ Contains
<1>1. command \in [src : Nat, size : Nat, n : 0..MaxBegin] /\ command = NoCommand
  BY Numbers DEF IInv, TypeInv
<1> QED BY <1>1, StopsRunning DEF Broken

(* A step that only moves on in the call.                                  *)
LEMMA Quiet ==
  ASSUME IInv, isRunning(upd), UNCHANGED <<flash, upd>>,
         Md5Type(md5)', md5'.n = md5.n, md5'.good = md5.good, update'.n = update.n
  PROVE  OnWith(0)
<1>1. /\ Reserved(upd) /\ Image(upd, flash, md5) /\ Aligned(upd) /\ upd.error = "ok"
      /\ flash \in [Unit -> Content] /\ UpdType(upd)
  BY DEF IInv, RunInv, TypeInv
<1>2. Image(upd, flash, md5)'
  BY <1>1 DEF Image, Sent, Data, progress, len, EraseDue, Unit, Erased, Damaged
<1>3. Reserved(upd)' /\ Aligned(upd)' /\ UpdType(upd)' /\ flash' \in [Unit -> Content]
  BY <1>1 DEF Reserved, Rounded, Aligned, isFinished, progress, UpdType, len, Content
<1>4. progress(upd)' + len(upd)' = progress(upd) + len(upd) + 0
  BY Numbers DEF progress, len
<1> QED BY <1>1, <1>2, <1>3, <1>4 DEF OnWith, Contains

(* One that fills the buffer.                                              *)
LEMMA Fills ==
  ASSUME IInv, isRunning(upd),
         NEW data \in Seq(Content),
         \A i \in 1..Len(data) : Sent(data[i], progress(upd) + len(upd) + i - 1),
         len(upd) + Len(data) <= upd.bufSize,
         progress(upd) + len(upd) + Len(data) <= upd.size,
         upd' = With(data), UNCHANGED <<flash, md5>>, update'.n = update.n
  PROVE  OnWith(Len(data))
<1> DEFINE u == With(data)
<1>1. /\ UpdType(u) /\ Reserved(u) /\ Image(u, flash, md5) /\ Aligned(u)
      /\ len(u) = len(upd) + Len(data) /\ u.size = upd.size /\ u.error = upd.error
      /\ progress(u) = progress(upd)
  BY Filled DEF IInv
<1>2. upd' = u /\ upd.error = "ok" /\ flash \in [Unit -> Content] /\ Md5Type(md5)
  BY DEF IInv, RunInv, TypeInv
<1> HIDE DEF u
<1>3. Image(upd, flash, md5)'
  BY <1>1, <1>2 DEF Image, Sent, Data, progress, len, EraseDue, Unit, Erased, Damaged
<1>4. Reserved(upd)' /\ Aligned(upd)' /\ UpdType(upd)' /\ flash' \in [Unit -> Content] /\ Md5Type(md5)'
  BY <1>1, <1>2 DEF Reserved, Rounded, Aligned, isFinished, progress, UpdType, len, Content, Md5Type
<1>5. progress(upd)' + len(upd)' = progress(upd) + len(upd) + Len(data)
  <2>1. progress(upd)' = progress(upd) /\ len(upd)' = len(upd) + Len(data)
    BY <1>1, <1>2 DEF progress, len
  <2>2. progress(upd) \in Nat /\ len(upd) \in Nat /\ Len(data) \in Nat
    BY Numbers
  <2> QED BY <2>1, <2>2
<1> QED BY <1>1, <1>2, <1>3, <1>4, <1>5 DEF OnWith, Contains

(* One that fills the buffer and writes it.                                *)
LEMMA Writes ==
  ASSUME IInv, isRunning(upd), ~isFinished(upd),
         NEW data \in Seq(Content),
         \A i \in 1..Len(data) : Sent(data[i], progress(upd) + len(upd) + i - 1),
         len(upd) + Len(data) <= upd.bufSize,
         progress(upd) + len(upd) + Len(data) <= upd.size,
         len(upd) + Len(data) \in {upd.bufSize, remaining(upd)},
         NEW r \in WriteBuffer(With(data)), Took(r), update'.n = update.n
  PROVE  /\ r.ok \in BOOLEAN
         /\ r.ok => OnWith(Len(data))
         /\ ~r.ok => Broken
<1>1. len(upd) + Len(data) > 0
  <2>1. Len(data) \in Nat
    OBVIOUS
  <2> QED BY <2>1, Numbers
<1>2. TypeInv /\ RunInv
  BY DEF IInv
<1>3. /\ r.ok \in BOOLEAN
      /\ flash' \in [Unit -> Content] /\ Md5Type(md5)' /\ UpdType(upd)' /\ Contains
      /\ r.ok => /\ upd'.size = upd.size /\ upd'.error = "ok" /\ len(upd)' = 0
                 /\ progress(upd)' = progress(upd) + len(upd) + Len(data)
                 /\ Reserved(upd)' /\ Image(upd, flash, md5)'
                 /\ Aligned(upd)'
      /\ ~r.ok => ~isRunning(upd)' /\ upd'.error # "ok"
  BY <1>1, <1>2, BufferWritten
<1>4. r.ok => progress(upd)' + len(upd)' = progress(upd) + len(upd) + Len(data)
  <2>1. progress(upd) \in Nat /\ len(upd) \in Nat /\ Len(data) \in Nat
    BY Numbers
  <2> QED BY <1>3, <2>1
<1> QED BY <1>3, <1>4 DEF OnWith, Broken

LEMMA ArrivesSent ==
  ASSUME update.n \in 1..MaxBegin, NEW from \in Nat, NEW k \in Nat, NEW data \in Arrives(from, k)
  PROVE  /\ data \in Seq(Content) /\ Len(data) = k
         /\ \A i \in 1..Len(data) : Sent(data[i], from + i - 1)
<1>1. \A i \in 1..k : Data(from + i - 1) \in Content
  BY DEF Data, Content
<1>2. Damaged \in Content
  BY DEF Content
<1>3. CASE data = [i \in 1..k |-> Data(from + i - 1)]
  <2>1. data \in [1..k -> Content] /\ \A i \in 1..k : data[i] = Data(from + i - 1)
    BY <1>1, <1>3
  <2>2. data \in Seq(Content) /\ Len(data) = k
    BY <1>1, <1>3
  <2> QED BY <2>1, <2>2 DEF Sent
<1>4. CASE data = [i \in 1..k |-> Damaged]
  <2>1. data \in [1..k -> Content] /\ \A i \in 1..k : data[i] = Damaged
    BY <1>2, <1>4
  <2>2. data \in Seq(Content) /\ Len(data) = k
    BY <1>2, <1>4
  <2> QED BY <2>1, <2>2 DEF Sent
<1> QED BY <1>3, <1>4 DEF Arrives

LEMMA TakenType ==
  ASSUME update \in [n : 0..MaxBegin, taken : Nat], NEW k \in Nat, Taken(k)
  PROVE  /\ update' \in [n : 0..MaxBegin, taken : Nat]
         /\ update'.n = update.n /\ update'.taken = update.taken + k
BY DEF Taken

-----------------------------------------------------------------------------
(* begin(), setMD5() and the calls that return at once *)

LEMMA InitIInv == Init => IInv
<1> SUFFICES ASSUME Init PROVE IInv
  OBVIOUS
<1> USE DEF Init
<1>1. flash \in [Unit -> Content]
  BY DEF Content
<1>2. /\ <<>> \in Seq(Content) /\ Len(<<>>) = 0
      /\ upd.size = 0 /\ upd.buffer = <<>> /\ upd.bufSize = 1
  OBVIOUS
<1>3. UpdType(upd)
  BY <1>2 DEF UpdType, len, Target, Error
<1>4. Md5Type(md5) /\ CallType
  BY DEF Md5Type, CallType
<1>5. /\ command \in [src : Nat, size : Nat, n : 0..MaxBegin] /\ update \in [n : 0..MaxBegin, taken : Nat]
      /\ command = NoCommand
  BY Constants DEF NoCommand
<1>6. ~isRunning(upd) /\ call.op = "none"
  BY <1>2 DEF isRunning
<1> QED BY <1>1, <1>3, <1>4, <1>5, <1>6 DEF IInv, TypeInv, RunInv, StagedIsTaken, Md5Guards

(* An update that is reserved lies in whole sectors outside of the sketch. *)
LEMMA BeginPreserves ==
  ASSUME IInv, NEW size \in Sizes, NEW target \in Target, Begin(size, target)
  PROVE  IInv' /\ Contains
<1> DEFINE start == IF target = "flash" THEN StartFor(size) ELSE FsStart
<1>1. PICK b \in Buffers :
        upd' = [size |-> size, start |-> start, cur |-> start, buffer |-> <<>>,
                bufSize |-> b, target |-> target, error |-> "ok"]
  BY DEF Begin
<1>2. /\ size > 0 /\ command = NoCommand /\ HasSpace(size, target) /\ update.n < MaxBegin
      /\ md5' = [n |-> 0, good |-> TRUE, expected |-> NoMd5]
      /\ update' = [n |-> update.n + 1, taken |-> 0]
      /\ call' = [op |-> "none"] /\ UNCHANGED <<flash, command>>
  BY DEF Begin, Return
<1>3. size \in Nat /\ size > 0 /\ b \in Nat \ {0} /\ SectorSize % b = 0
  BY <1>2, Constants
<1>4. Rounded(size) \in Nat /\ Rounded(size) % SectorSize = 0
  BY <1>3, RoundedUp
<1>5. /\ start \in Nat /\ start % SectorSize = 0
      /\ target = "flash" => SketchEnd <= start /\ start + Rounded(size) <= FsStart
      /\ target = "fs" => FsStart <= start /\ start + Rounded(size) <= FsEnd
  <2>1. CASE target = "fs"
    BY <1>2, <2>1, Constants DEF HasSpace
  <2>2. CASE target = "flash"
    <3>1. start = StartFor(size) /\ start >= SketchEnd
      BY <1>2, <2>2 DEF HasSpace
    <3>2. FsStart > Rounded(size) /\ start = FsStart - Rounded(size)
      BY <3>1, Constants DEF StartFor
    <3>3. (FsStart - Rounded(size)) % SectorSize = 0
      BY <1>4, Constants, SumOfMultiples
    <3> QED BY <1>4, <2>2, <3>1, <3>2, <3>3, Constants
  <2> QED BY <2>1, <2>2 DEF Target
<1> HIDE DEF start
<1>6. /\ upd'.size = size /\ upd'.start = start /\ upd'.cur = start /\ upd'.buffer = <<>>
      /\ upd'.bufSize = b /\ upd'.target = target /\ upd'.error = "ok"
  BY <1>1
<1>7. <<>> \in Seq(Content) /\ Len(<<>>) = 0 /\ "ok" \in Error
  BY DEF Error
<1>8. UpdType(upd') /\ len(upd') = 0 /\ progress(upd') = 0 /\ isRunning(upd')
  BY <1>1, <1>3, <1>5, <1>6, <1>7 DEF UpdType, len, progress, isRunning
<1>9. Reserved(upd')
  BY <1>5, <1>6 DEF Reserved
<1>10. EraseDue(upd')
  BY <1>5, <1>6 DEF EraseDue
<1>11. update.n \in 0..MaxBegin /\ flash \in [Unit -> Content]
  BY DEF IInv, TypeInv
<1>12. Image(upd, flash, md5)'
  BY <1>2, <1>3, <1>5, <1>6, <1>8, <1>10 DEF Image
<1>13. Aligned(upd')
  BY <1>3, <1>8, <1>6 DEF Aligned
<1>14. TypeInv'
  <2>1. UpdType(upd)' /\ flash' \in [Unit -> Content]
    BY <1>2, <1>8, <1>11 DEF UpdType, Content, len
  <2>2. Md5Type(md5)' /\ CallType'
    BY <1>2 DEF Md5Type, CallType
  <2>3. update' \in [n : 0..MaxBegin, taken : Nat] /\ command' \in [src : Nat, size : Nat, n : 0..MaxBegin]
    BY <1>2, <1>11, Constants DEF IInv, TypeInv
  <2> QED BY <2>1, <2>2, <2>3 DEF TypeInv
<1>15. Told' /\ CallFits'
  BY <1>2, <1>8 DEF Told, Untold, CallFits
<1>16. update'.n \in 1..MaxBegin
  BY <1>2, <1>11, Constants
<1>17. isRunning(upd)' /\ upd'.error = "ok" /\ command' = NoCommand /\ Reserved(upd)' /\ Aligned(upd)'
  BY <1>2, <1>6, <1>8, <1>9, <1>13 DEF isRunning, Reserved, Rounded, Aligned, isFinished, progress
<1>18. IInv'
  BY <1>12, <1>14, <1>15, <1>16, <1>17, StaysRunning
<1> QED BY <1>2, <1>18 DEF Contains

LEMMA SetMD5Preserves ==
  ASSUME IInv, NEW size \in Sizes, SetMD5(size)
  PROVE  IInv' /\ Contains
<1>1. /\ isRunning(upd) /\ call.op = "none" /\ UNCHANGED <<flash, command, upd, call, update>>
      /\ md5' = [md5 EXCEPT !.expected = size] /\ size \in Nat /\ Md5Type(md5)
  BY Constants DEF SetMD5, Idle, IInv, TypeInv
<1>2. Md5Type(md5)' /\ md5'.n = md5.n /\ md5'.good = md5.good
  BY <1>1 DEF Md5Type
<1>3. OnWith(0)
  BY <1>1, <1>2, Quiet
<1>4. CallType' /\ Told' /\ CallFits'
  BY <1>1 DEF CallType, Told, Untold, CallFits, progress, len, IInv, RunInv, TypeInv
<1> QED BY <1>1, <1>3, <1>4, GoesOn DEF IInv, TypeInv

(* A call that fails at once.                                              *)
LEMMA FailsAtOnce ==
  ASSUME IInv, NEW e \in Error, upd' = Fail(upd, e), command = NoCommand,
         flash' = flash, command' = command, Md5Type(md5)',
         update' \in [n : 0..MaxBegin, taken : Nat], Return
  PROVE  IInv' /\ Contains
<1>1. UpdType(Fail(upd, e)) /\ ~isRunning(Fail(upd, e)) /\ Fail(upd, e).error = e
  BY FailType DEF IInv, TypeInv
<1>2. flash' \in [Unit -> Content] /\ UpdType(upd)' /\ ~isRunning(upd)' /\ upd'.error = e
  BY <1>1 DEF IInv, TypeInv, UpdType, len, isRunning, Content
<1>3. command \in [src : Nat, size : Nat, n : 0..MaxBegin]
  BY DEF IInv, TypeInv
<1>4. IInv'
  BY <1>2, <1>3, StopsRunning
<1> QED BY <1>4 DEF Contains

LEMMA FailuresPreserve ==
  ASSUME IInv,
         \/ BeginRefused
         \/ \E size \in Sizes, target \in Target : BeginFails(size, target)
         \/ \E k \in 0..MaxChunk : WriteTooMuch(k)
         \/ StreamRefused \/ EndNoData \/ StreamTimeout
  PROVE  IInv' /\ Contains
<1>1. Md5Type(md5) /\ update \in [n : 0..MaxBegin, taken : Nat]
  BY DEF IInv, TypeInv
<1>0. isRunning(upd) => command = NoCommand
  BY DEF IInv, RunInv
<1>2. CASE BeginRefused
  <2>1. /\ upd' = Fail(upd, "refused") /\ call'.op = "none"
        /\ UNCHANGED <<flash, command, md5, update>>
    BY <1>2 DEF BeginRefused, Return
  <2>2. /\ UpdType(Fail(upd, "refused")) /\ ~isRunning(Fail(upd, "refused"))
        /\ Fail(upd, "refused").error = "refused"
    <3>1. "refused" \in Error
      BY DEF Error
    <3> QED BY <3>1, FailType DEF IInv, TypeInv
  <2>3. UpdType(upd)' /\ ~isRunning(upd)' /\ upd'.error = "refused"
    BY <2>1, <2>2 DEF UpdType, len, isRunning, Content
  <2>4. TypeInv' /\ RunInv'
    BY <2>1, <2>3 DEF TypeInv, RunInv, CallType, IInv, Md5Type
(* A command that is there stays as it is, next to the new error.          *)
  <2>5. StagedIsTaken'
    <3>1. WholeImage => WholeImage'
      BY <2>1, <2>3 DEF WholeImage, Data, Damaged
    <3>2. FlushLost => FlushLost'
      BY <2>1, <2>3 DEF FlushLost
    <3> QED BY <2>1, <3>1, <3>2 DEF IInv, StagedIsTaken, NoCommand
  <2>6. Md5Guards'
    BY <2>3 DEF Md5Guards
  <2> QED BY <2>1, <2>4, <2>5, <2>6 DEF IInv, Contains
<1>3. ASSUME NEW size \in Sizes, NEW target \in Target, BeginFails(size, target)
      PROVE  IInv' /\ Contains
  <2>1. PICK e \in {"oom", "space"} : upd' = Fail(upd, e)
    BY <1>3 DEF BeginFails
  <2>2. e \in Error
    BY DEF Error
  <2>3. Md5Type(md5)'
    BY <1>3 DEF BeginFails, Md5Type
  <2> QED BY <1>1, <1>3, <2>1, <2>2, <2>3, FailsAtOnce DEF BeginFails
<1>4. ASSUME NEW k \in 0..MaxChunk, WriteTooMuch(k) PROVE IInv' /\ Contains
  <2>1. "space" \in Error
    BY DEF Error
  <2>2. command = NoCommand
    BY <1>0, <1>4 DEF WriteTooMuch, MayWrite
  <2> QED BY <2>2, <1>1, <1>4, <2>1, FailsAtOnce DEF WriteTooMuch
<1>5. CASE StreamRefused
  <2>1. "magic" \in Error
    BY DEF Error
  <2>2. command = NoCommand
    BY <1>0, <1>5 DEF StreamRefused, MayWrite
  <2> QED BY <2>2, <1>1, <1>5, <2>1, FailsAtOnce DEF StreamRefused
<1>6. CASE EndNoData
  <2>1. "no data" \in Error
    BY DEF Error
  <2>2. command = NoCommand
    BY <1>0, <1>6 DEF EndNoData
  <2> QED BY <2>2, <1>1, <1>6, <2>1, FailsAtOnce DEF EndNoData
<1>7. CASE StreamTimeout
  <2>1. "stream" \in Error /\ command = NoCommand
    BY <1>0, <1>7 DEF Error, StreamTimeout, IInv
  <2>2. call.written \in Nat
    BY <1>7 DEF StreamTimeout, IInv, TypeInv, CallType
  <2>3. update' \in [n : 0..MaxBegin, taken : Nat]
    BY <1>1, <1>7, <2>2, TakenType DEF StreamTimeout
  <2> QED BY <1>1, <1>7, <2>1, <2>3, FailsAtOnce DEF StreamTimeout
<1> QED BY <1>2, <1>3, <1>4, <1>5, <1>6, <1>7

-----------------------------------------------------------------------------
(* write(data, len) *)

LEMMA WritePreserves ==
  ASSUME IInv, NEW k \in 0..MaxChunk, Write(k)
  PROVE  IInv' /\ Contains
<1>1. /\ call.op = "none" /\ isRunning(upd) /\ ~isFinished(upd) /\ Fits(k) /\ k \in Nat
      /\ UNCHANGED <<flash, command, upd, md5, update>>
  BY Constants DEF Write, Idle, MayWrite, Unfinished
<1>2. PICK data \in Arrives(update.taken, k) : call' = [op |-> "write", len |-> k, rest |-> data]
  BY DEF Write
<1>3. update.n \in 1..MaxBegin /\ update.taken \in Nat
  BY <1>1, Numbers
<1>4. data \in Seq(Content) /\ Len(data) = k /\ \A i \in 1..Len(data) : Sent(data[i], update.taken + i - 1)
  BY <1>1, <1>3, ArrivesSent
<1>5. Told /\ Untold = 0 /\ Md5Type(md5)
  BY <1>1 DEF IInv, RunInv, Untold, TypeInv
<1>6. progress(upd) + len(upd) = update.taken
  BY <1>3, <1>5 DEF Told
<1>7. OnWith(0)
  BY <1>1, <1>5, Quiet DEF Md5Type
<1>8. /\ call'.op = "write" /\ call'.len = k /\ call'.rest = data
      /\ call' = [op |-> "write", len |-> call'.len, rest |-> call'.rest]
  BY <1>2
<1>9. left' = k
  BY <1>4, <1>8 DEF left
<1>10. CallType'
  BY <1>1, <1>4, <1>8, <1>9 DEF CallType, Content
<1>11. Told'
  BY <1>1, <1>3, <1>6, <1>8, <1>9 DEF Told, Untold, progress, len
<1>12. CallFits'
  <2>1. progress(upd)' = progress(upd) /\ len(upd)' = len(upd) /\ upd' = upd /\ update' = update
    BY <1>1 DEF progress, len
  <2>2. \A i \in 1..k : data[i] \in {<<update.n, update.taken + i - 1>>, Damaged}
    BY <1>1, <1>4 DEF Sent, Data
  <2>3. \A i \in 1..left' : call'.rest[i] \in {<<update'.n, progress(upd)' + len(upd)' + i - 1>>, Damaged}
    BY <1>6, <1>8, <1>9, <2>1, <2>2
  <2>4. progress(upd)' + len(upd)' + left' <= upd'.size
    BY <1>1, <1>9, <2>1 DEF Fits
  <2>5. ~isFinished(upd)'
    BY <1>1 DEF isFinished
  <2> QED BY <1>8, <2>3, <2>4, <2>5 DEF CallFits, Sent, Data, Damaged
<1> QED BY <1>1, <1>7, <1>10, <1>11, <1>12, GoesOn DEF IInv, TypeInv

(* What a write() in progress has left.                                    *)
LEMMA WriteFacts ==
  ASSUME IInv, call.op = "write"
  PROVE  /\ isRunning(upd) /\ ~isFinished(upd)
         /\ call = [op |-> "write", len |-> call.len, rest |-> call.rest]
         /\ call.len \in Nat /\ call.rest \in Seq(Content) /\ left = Len(call.rest) /\ left \in 0..call.len
         /\ progress(upd) + len(upd) + left <= upd.size
         /\ \A i \in 1..left : Sent(call.rest[i], progress(upd) + len(upd) + i - 1)
         /\ progress(upd) + len(upd) = update.taken + (call.len - left)
<1>1. isRunning(upd) /\ CallType
  BY DEF IInv, TypeInv
<1>2. Told /\ CallFits
  BY <1>1 DEF IInv, RunInv
<1> QED BY <1>1, <1>2 DEF CallType, CallFits, Told, Untold, left

LEMMA Cut ==
  ASSUME NEW s \in Seq(Content), NEW k \in 0..Len(s)
  PROVE  /\ SubSeq(s, 1, k) \in Seq(Content) /\ Len(SubSeq(s, 1, k)) = k
         /\ \A i \in 1..k : SubSeq(s, 1, k)[i] = s[i]
         /\ SubSeq(s, k + 1, Len(s)) \in Seq(Content) /\ Len(SubSeq(s, k + 1, Len(s))) = Len(s) - k
         /\ \A i \in 1..(Len(s) - k) : SubSeq(s, k + 1, Len(s))[i] = s[k + i]
<1> DEFINE n == Len(s)
<1>1. n \in Nat /\ k \in Nat /\ k <= n /\ \A i \in 1..n : s[i] \in Content
  OBVIOUS
<1>2. /\ SubSeq(s, 1, k) \in Seq(Content) /\ Len(SubSeq(s, 1, k)) = (IF 1 <= k THEN k - 1 + 1 ELSE 0)
      /\ \A i \in 1..(k - 1 + 1) : SubSeq(s, 1, k)[i] = s[1 + i - 1]
  <2>1. \A i \in 1..k : s[i] \in Content
    BY <1>1
  <2> HIDE DEF n
  <2> QED BY <1>1, <2>1, SubSeqProperties
<1>3. /\ SubSeq(s, k + 1, n) \in Seq(Content)
      /\ Len(SubSeq(s, k + 1, n)) = (IF k + 1 <= n THEN n - (k + 1) + 1 ELSE 0)
      /\ \A i \in 1..(n - (k + 1) + 1) : SubSeq(s, k + 1, n)[i] = s[(k + 1) + i - 1]
  <2>1. \A i \in (k + 1)..n : s[i] \in Content
    BY <1>1
  <2> HIDE DEF n
  <2> QED BY <1>1, <2>1, SubSeqProperties
<1> HIDE DEF n
<1>4. Len(SubSeq(s, 1, k)) = k /\ Len(SubSeq(s, k + 1, n)) = n - k
  BY <1>1, <1>2, <1>3
<1>5. k - 1 + 1 = k /\ n - (k + 1) + 1 = n - k
  BY <1>1
<1>6. ASSUME NEW i \in 1..k PROVE SubSeq(s, 1, k)[i] = s[i]
  <2>1. 1 + i - 1 = i
    BY <1>1
  <2> QED BY <1>2, <1>5, <2>1
<1>7. ASSUME NEW i \in 1..(n - k) PROVE SubSeq(s, k + 1, n)[i] = s[k + i]
  <2>1. (k + 1) + i - 1 = k + i
    BY <1>1
  <2> QED BY <1>3, <1>5, <2>1
<1> QED BY <1>2, <1>3, <1>4, <1>6, <1>7 DEF n

LEMMA WriteTurnPreserves ==
  ASSUME IInv, WriteTurn
  PROVE  IInv' /\ Contains
<1> DEFINE toBuff == upd.bufSize - len(upd)
           data == SubSeq(call.rest, 1, toBuff)
           rest == SubSeq(call.rest, toBuff + 1, left)
<1>1. call.op = "write" /\ len(upd) + left > upd.bufSize /\ command' = command
  BY DEF WriteTurn
<1>2. /\ isRunning(upd) /\ ~isFinished(upd)
      /\ call = [op |-> "write", len |-> call.len, rest |-> call.rest]
      /\ call.len \in Nat /\ call.rest \in Seq(Content) /\ left = Len(call.rest) /\ left \in 0..call.len
      /\ progress(upd) + len(upd) + left <= upd.size
      /\ \A i \in 1..left : Sent(call.rest[i], progress(upd) + len(upd) + i - 1)
      /\ progress(upd) + len(upd) = update.taken + (call.len - left)
  BY <1>1, WriteFacts
<1>2a. /\ call.len \in Nat /\ left \in Nat /\ left <= call.len
       /\ progress(upd) + len(upd) + left <= upd.size
       /\ progress(upd) + len(upd) = update.taken + (call.len - left)
  BY <1>2
<1>3. /\ len(upd) \in Nat /\ progress(upd) \in Nat /\ upd.size \in Nat /\ upd.bufSize \in Nat \ {0}
      /\ toBuff \in Nat /\ toBuff < left /\ update.taken \in Nat
  <2>1. /\ len(upd) \in Nat /\ progress(upd) \in Nat /\ upd.size \in Nat /\ upd.bufSize \in Nat \ {0}
        /\ len(upd) <= upd.bufSize /\ update.taken \in Nat
    BY <1>2, Numbers
  <2>2. left \in Nat /\ len(upd) + left > upd.bufSize
    BY <1>1, <1>2a
  <2> QED BY <2>1, <2>2
<1>4. PICK r \in WriteBuffer(With(data)) :
        /\ Took(r)
        /\ IF r.ok THEN /\ call' = [call EXCEPT !.rest = SubSeq(@, toBuff + 1, Len(@))]
                        /\ UNCHANGED update
           ELSE Return /\ Taken(call.len - left)
  BY DEF WriteTurn, With
<1>5. data \in Seq(Content) /\ Len(data) = toBuff /\ \A i \in 1..toBuff : data[i] = call.rest[i]
  <2>1. toBuff \in 0..Len(call.rest)
    <3>1. toBuff \in 0..left
      BY <1>2a, <1>3
    <3> HIDE DEF toBuff
    <3> QED BY <1>2, <3>1
  <2> HIDE DEF toBuff
  <2> QED BY <1>2, <2>1, Cut
<1>6. /\ rest \in Seq(Content) /\ Len(rest) = left - toBuff
      /\ \A i \in 1..(left - toBuff) : rest[i] = call.rest[toBuff + i]
  <2>1. toBuff \in 0..Len(call.rest)
    <3>1. toBuff \in 0..left
      BY <1>2a, <1>3
    <3> HIDE DEF toBuff
    <3> QED BY <1>2, <3>1
  <2> HIDE DEF toBuff
  <2> QED BY <1>2, <2>1, Cut
<1> HIDE DEF data, rest
<1>7. update \in [n : 0..MaxBegin, taken : Nat]
  BY DEF IInv, TypeInv
<1>8. /\ update' \in [n : 0..MaxBegin, taken : Nat] /\ update'.n = update.n
      /\ ~r.ok => update'.taken = update.taken + (call.len - left)
  <2>1. call.len - left \in Nat
    BY <1>2a
  <2> QED BY <1>4, <1>7, <2>1, TakenType
<1>9. /\ r.ok \in BOOLEAN
      /\ r.ok => OnWith(Len(data))
      /\ ~r.ok => Broken
  <2>1. \A i \in 1..Len(data) : Sent(data[i], progress(upd) + len(upd) + i - 1)
    <3>1. \A i \in 1..toBuff : i \in 1..left
      BY <1>2a, <1>3
    <3> HIDE DEF toBuff
    <3> QED BY <1>2, <1>5, <3>1
  <2>2. /\ len(upd) + Len(data) <= upd.bufSize
        /\ progress(upd) + len(upd) + Len(data) <= upd.size
        /\ len(upd) + Len(data) \in {upd.bufSize, remaining(upd)}
    <3>1. len(upd) + toBuff = upd.bufSize
      BY <1>3
    <3>2. progress(upd) + len(upd) + toBuff <= upd.size
      <4> HIDE DEF toBuff
      <4> QED BY <1>2a, <1>3
    <3> QED BY <1>3, <1>5, <3>1, <3>2
  <2> QED BY <1>2, <1>4, <1>5, <1>8, <2>1, <2>2, Writes
<1>10. CASE ~r.ok
  BY <1>1, <1>2, <1>4, <1>8, <1>9, <1>10, GivesUp
<1>11. CASE r.ok
  <2>1. call' = [op |-> "write", len |-> call.len, rest |-> rest] /\ update' = update
    BY <1>2, <1>4, <1>11 DEF rest
  <2>2. call'.op = "write" /\ call'.len = call.len /\ call'.rest = rest
    BY <2>1
  <2>3. left' = left - toBuff
    BY <1>6, <2>2 DEF left
  <2>4. CallType'
    <3>1. left' <= call'.len
      BY <1>2a, <1>3, <2>2, <2>3
    <3> QED BY <1>2, <1>6, <2>1, <2>2, <3>1 DEF CallType, Content
  <2>5. OnWith(toBuff)
    BY <1>5, <1>9, <1>11
  <2> HIDE DEF toBuff
  <2>6. /\ progress(upd)' + len(upd)' = progress(upd) + len(upd) + toBuff
        /\ upd'.size = upd.size
    BY <2>5 DEF OnWith
  <2>7. Told'
    BY <1>2a, <1>3, <2>1, <2>2, <2>3, <2>6 DEF Told, Untold
  <2>8. /\ upd'.cur \in Nat /\ upd'.start \in Nat /\ len(upd)' \in Nat /\ upd'.size \in Nat
        /\ progress(upd)' \in Int
    BY <2>5 DEF OnWith, UpdType, len, progress
  <2>9. CallFits'
    <3>1. progress(upd)' + len(upd)' + left' <= upd'.size /\ left' > 0
      BY <1>2a, <1>3, <2>3, <2>6
    <3>2. ~isFinished(upd)'
      <4>1. left' \in Nat
        BY <1>2a, <1>3, <2>3
      <4>2. progress(upd)' < upd'.size
        <5>1. \A a, c, z \in Nat : \A b \in Int : b + a + c <= z /\ c > 0 => b < z
          OBVIOUS
        <5> QED BY <2>8, <3>1, <4>1, <5>1
      <4>3. \A a, b, c \in Nat : a - b < c => a # b + c
        OBVIOUS
      <4> QED BY <2>8, <4>2, <4>3 DEF isFinished, progress
    <3>3. ASSUME NEW i \in 1..left'
          PROVE  Sent(call.rest[toBuff + i], progress(upd) + len(upd) + (toBuff + i) - 1)
      <4>1. toBuff + i \in 1..left
        <5>1. \A a, b \in Nat : \A j \in 1..(b - a) : a + j \in 1..b
          OBVIOUS
        <5>2. toBuff \in Nat /\ left \in Nat /\ i \in 1..(left - toBuff)
          BY <1>2a, <1>3, <2>3, <3>3
        <5> QED BY <5>1, <5>2
      <4> QED BY <1>2, <4>1
    <3>4. ASSUME NEW i \in 1..left'
          PROVE  call'.rest[i] \in {<<update'.n, progress(upd)' + len(upd)' + i - 1>>, Damaged}
      <4>1. call'.rest[i] = call.rest[toBuff + i]
        BY <1>6, <2>2, <2>3
      <4>2. progress(upd)' + len(upd)' + i - 1 = progress(upd) + len(upd) + (toBuff + i) - 1
        <5>1. i \in Nat
          BY <1>2, <1>3, <2>3
        <5> QED BY <1>3, <2>6, <5>1
      <4>3. update'.n = update.n
        BY <1>8
      <4> QED BY <3>3, <4>1, <4>2, <4>3 DEF Sent, Data
    <3> QED BY <2>2, <3>1, <3>2, <3>4 DEF CallFits, Sent, Data, Damaged
  <2> QED BY <1>1, <1>2, <1>3, <1>8, <2>4, <2>5, <2>7, <2>9, GoesOn
<1> QED BY <1>9, <1>10, <1>11

LEMMA WriteRestPreserves ==
  ASSUME IInv, WriteRest
  PROVE  IInv' /\ Contains
<1>1. call.op = "write" /\ len(upd) + left <= upd.bufSize /\ command' = command
  BY DEF WriteRest
<1>2. /\ isRunning(upd) /\ ~isFinished(upd)
      /\ call.len \in Nat /\ call.rest \in Seq(Content) /\ left = Len(call.rest) /\ left \in 0..call.len
      /\ progress(upd) + len(upd) + left <= upd.size
      /\ \A i \in 1..left : Sent(call.rest[i], progress(upd) + len(upd) + i - 1)
      /\ progress(upd) + len(upd) = update.taken + (call.len - left)
  BY <1>1, WriteFacts
<1>2a. /\ call.len \in Nat /\ left \in Nat /\ left <= call.len
       /\ progress(upd) + len(upd) + left <= upd.size
       /\ progress(upd) + len(upd) = update.taken + (call.len - left)
  BY <1>2
<1>3. /\ len(upd) \in Nat /\ progress(upd) \in Nat /\ upd.size \in Nat /\ update.taken \in Nat
      /\ update \in [n : 0..MaxBegin, taken : Nat]
  BY <1>2, Numbers DEF IInv, TypeInv
<1>4. len(With(call.rest)) = len(upd) + left /\ remaining(With(call.rest)) = remaining(upd)
  <2>1. /\ With(call.rest).buffer = upd.buffer \o call.rest
        /\ With(call.rest).size = upd.size /\ With(call.rest).cur = upd.cur /\ With(call.rest).start = upd.start
    BY DEF With, IInv, TypeInv, UpdType
  <2>2. upd.buffer \in Seq(Content)
    BY DEF IInv, TypeInv, UpdType
  <2> QED BY <1>2, <2>1, <2>2 DEF len, remaining, progress
<1>5. /\ Return
      /\ \/ /\ len(upd) + left = remaining(upd)
            /\ \E r \in WriteBuffer(With(call.rest)) :
                 Took(r) /\ Taken(IF r.ok THEN call.len ELSE call.len - left)
         \/ /\ upd' = With(call.rest) /\ Taken(call.len) /\ UNCHANGED <<flash, md5>>
  BY <1>4 DEF WriteRest, With
<1>6. PICK k \in {call.len, call.len - left} : Taken(k)
  BY <1>5
<1>7. k \in Nat
  BY <1>2
<1>8. /\ update' \in [n : 0..MaxBegin, taken : Nat] /\ update'.n = update.n
      /\ \A j \in Nat : Taken(j) => update'.taken = update.taken + j
  BY <1>3, <1>6, <1>7, TakenType
<1>9. \A i \in 1..Len(call.rest) : Sent(call.rest[i], progress(upd) + len(upd) + i - 1)
  BY <1>2
<1>10. /\ len(upd) + Len(call.rest) <= upd.bufSize
       /\ progress(upd) + len(upd) + Len(call.rest) <= upd.size
  BY <1>1, <1>2
<1>11. ASSUME OnWith(left), Taken(call.len) PROVE IInv' /\ Contains
  <2>1. call'.op = "none"
    BY <1>5 DEF Return
  <2>2. update'.taken = update.taken + call.len
    BY <1>2, <1>8, <1>11
  <2>3. progress(upd)' + len(upd)' = progress(upd) + len(upd) + left
    BY <1>11 DEF OnWith
  <2>4. Told'
    BY <1>2a, <1>3, <2>1, <2>2, <2>3 DEF Told, Untold
  <2>5. CallType' /\ CallFits'
    BY <2>1 DEF CallType, CallFits
  <2> QED BY <1>1, <1>2, <1>8, <1>11, <2>4, <2>5, GoesOn
<1>12. ASSUME len(upd) + left = remaining(upd), NEW r \in WriteBuffer(With(call.rest)), Took(r),
              Taken(IF r.ok THEN call.len ELSE call.len - left)
       PROVE  IInv' /\ Contains
  <2>1. len(upd) + Len(call.rest) \in {upd.bufSize, remaining(upd)}
    BY <1>2, <1>12
  <2>2. /\ r.ok \in BOOLEAN
        /\ r.ok => OnWith(Len(call.rest))
        /\ ~r.ok => Broken
    BY <1>2, <1>8, <1>9, <1>10, <1>12, <2>1, Writes
  <2>3. CASE r.ok
    BY <1>2, <1>11, <1>12, <2>2, <2>3
  <2>4. CASE ~r.ok
    BY <1>1, <1>2, <1>5, <1>8, <2>2, <2>4, GivesUp
  <2> QED BY <2>2, <2>3, <2>4
<1>13. ASSUME upd' = With(call.rest), Taken(call.len), UNCHANGED <<flash, md5>>
       PROVE  IInv' /\ Contains
  <2>1. OnWith(Len(call.rest))
    BY <1>2, <1>8, <1>9, <1>10, <1>13, Fills
  <2> QED BY <1>2, <1>11, <1>13, <2>1
<1> QED BY <1>5, <1>12, <1>13

-----------------------------------------------------------------------------
(* write(T &data) and writeStream() *)

(* Both count in written what they have taken over.                        *)
LEMMA LoopFacts ==
  ASSUME IInv, call.op \in {"available", "stream"}
  PROVE  /\ isRunning(upd) /\ call.written \in Nat
         /\ progress(upd) + len(upd) = update.taken + call.written
         /\ call.op = "available" => ~isFinished(upd) /\ call.available \in Nat
         /\ call.op = "stream" => call.want - call.written = upd.size - progress(upd) - len(upd)
         /\ call.op = "available" =>
              call = [op |-> "available", available |-> call.available, written |-> call.written]
         /\ call.op = "stream" =>
              call = [op |-> "stream", written |-> call.written, want |-> call.want] /\ call.want \in Int
<1>1. isRunning(upd) /\ CallType
  BY DEF IInv, TypeInv
<1>2. Told /\ CallFits
  BY <1>1 DEF IInv, RunInv
<1> QED BY <1>1, <1>2 DEF CallType, CallFits, Told, Untold

(* A call that returns with k units taken.                                 *)
LEMMA Returns ==
  ASSUME IInv, isRunning(upd), NEW k \in Nat, NEW j \in Nat, OnWith(j), command' = command,
         Return, Taken(k), progress(upd) + len(upd) + j = update.taken + k
  PROVE  IInv' /\ Contains
<1>1. update \in [n : 0..MaxBegin, taken : Nat]
  BY DEF IInv, TypeInv
<1>2. update' \in [n : 0..MaxBegin, taken : Nat] /\ update'.n = update.n /\ update'.taken = update.taken + k
  BY <1>1, TakenType
<1>3. call'.op = "none"
  BY DEF Return
<1>4. CallType' /\ CallFits'
  BY <1>3 DEF CallType, CallFits
<1>5. progress(upd)' + len(upd)' = progress(upd) + len(upd) + j
  BY DEF OnWith
<1>6. Told'
  BY <1>2, <1>3, <1>5 DEF Told, Untold
<1> QED BY <1>2, <1>4, <1>6, GoesOn

LEMMA LoopStarts ==
  ASSUME IInv, WriteAvailable \/ WriteStream
  PROVE  IInv' /\ Contains
<1>1. /\ call.op = "none" /\ isRunning(upd) /\ UNCHANGED <<flash, command, upd, md5, update>>
  BY DEF WriteAvailable, WriteStream, Idle, MayWrite
<1>2. Told /\ Untold = 0 /\ Md5Type(md5) /\ update \in [n : 0..MaxBegin, taken : Nat]
  BY <1>1 DEF IInv, RunInv, Untold, TypeInv
<1>3. OnWith(0)
  BY <1>1, <1>2, Quiet DEF Md5Type
<1>4. progress(upd)' = progress(upd) /\ len(upd)' = len(upd)
  BY <1>1 DEF progress, len
<1>5. progress(upd) \in Nat /\ len(upd) \in Nat /\ upd.size \in Nat /\ remaining(upd) = upd.size - progress(upd)
  BY <1>1, Numbers
<1>6. CASE WriteAvailable
  <2>1. PICK k \in 0..MaxChunk : call' = [op |-> "available", available |-> k, written |-> 0]
    BY <1>6 DEF WriteAvailable
  <2>2. k \in Nat
    BY Constants
  <2>3. call'.op = "available" /\ call'.available = k /\ call'.written = 0
    BY <2>1
  <2>4. CallType'
    BY <2>1, <2>2, <2>3 DEF CallType
  <2>5. Told'
    BY <1>1, <1>2, <1>4, <2>3 DEF Told, Untold
  <2>6. CallFits'
    BY <1>1, <1>6, <2>3 DEF CallFits, WriteAvailable, Unfinished, isFinished
  <2> QED BY <1>1, <1>2, <1>3, <2>4, <2>5, <2>6, GoesOn
<1>7. CASE WriteStream
  <2>1. call' = [op |-> "stream", written |-> 0, want |-> remaining(upd) - len(upd)]
    BY <1>7 DEF WriteStream
  <2>2. remaining(upd) - len(upd) \in Int
    BY <1>5
  <2>3. call'.op = "stream" /\ call'.want = remaining(upd) - len(upd) /\ call'.written = 0
    BY <2>1
  <2>4. CallType'
    BY <2>1, <2>2, <2>3 DEF CallType
  <2>5. Told'
    BY <1>1, <1>2, <1>4, <2>3 DEF Told, Untold
  <2>6. CallFits'
    <3>1. call'.want - call'.written = upd.size - progress(upd) - len(upd)
      BY <1>5, <2>3
    <3> QED BY <1>1, <1>4, <2>3, <3>1 DEF CallFits
  <2> QED BY <1>1, <1>2, <1>3, <2>4, <2>5, <2>6, GoesOn
<1> QED BY <1>6, <1>7

LEMMA LoopEnds ==
  ASSUME IInv, AvailableDone \/ StreamDone
  PROVE  IInv' /\ Contains
<1>1. /\ call.op \in {"available", "stream"} /\ UNCHANGED <<flash, command, upd, md5>>
      /\ Return /\ Taken(call.written)
  BY DEF AvailableDone, StreamDone
<1>2. /\ isRunning(upd) /\ call.written \in Nat
      /\ progress(upd) + len(upd) = update.taken + call.written
  BY <1>1, LoopFacts
<1>3. Md5Type(md5) /\ update \in [n : 0..MaxBegin, taken : Nat]
  BY DEF IInv, TypeInv
<1>4. update'.n = update.n
  BY <1>1, <1>2, <1>3, TakenType
<1>5. OnWith(0)
  BY <1>1, <1>2, <1>3, <1>4, Quiet DEF Md5Type
<1>6. progress(upd) + len(upd) + 0 = update.taken + call.written
  BY <1>2, Numbers
<1> QED BY <1>1, <1>2, <1>5, <1>6, Returns

LEMMA AvailableTurnPreserves ==
  ASSUME IInv, AvailableTurn
  PROVE  IInv' /\ Contains
<1> DEFINE room == remaining(upd) - len(upd)
           some == IF call.available > room THEN room ELSE call.available
           full == len(upd) + some > upd.bufSize
           count == IF full THEN upd.bufSize - len(upd) ELSE some
           ongoing(u, k) ==
             IF remaining(u) = 0 THEN Return /\ Taken(k)
             ELSE /\ \E more \in 0..MaxChunk :
                       call' = [call EXCEPT !.available = more, !.written = k]
                  /\ UNCHANGED update
<1>1. call.op = "available" /\ command' = command
  BY DEF AvailableTurn
<1>2. /\ isRunning(upd) /\ ~isFinished(upd) /\ call.available \in Nat /\ call.written \in Nat
      /\ progress(upd) + len(upd) = update.taken + call.written
      /\ call = [op |-> "available", available |-> call.available, written |-> call.written]
  BY <1>1, LoopFacts
<1>3. /\ len(upd) \in Nat /\ len(upd) <= upd.bufSize /\ upd.bufSize \in Nat \ {0}
      /\ progress(upd) \in Nat /\ upd.size \in Nat /\ progress(upd) + len(upd) <= upd.size
      /\ remaining(upd) = upd.size - progress(upd)
      /\ update.n \in 1..MaxBegin /\ update.taken \in Nat
      /\ update \in [n : 0..MaxBegin, taken : Nat]
  BY <1>2, Numbers DEF IInv, TypeInv
<1>4. PICK data \in Arrives(update.taken + call.written, count) :
        \/ /\ full \/ len(With(data)) = remaining(With(data))
           /\ \E r \in WriteBuffer(With(data)) :
                /\ Took(r)
                /\ IF r.ok THEN ongoing(r.upd, call.written + count)
                   ELSE Return /\ Taken(IF full THEN call.written ELSE call.written + count)
        \/ /\ upd' = With(data)
           /\ ongoing(With(data), call.written + count)
           /\ UNCHANGED <<flash, md5>>
  BY DEF AvailableTurn, With
<1>5. /\ room \in Nat /\ some \in Nat /\ some <= room /\ full \in BOOLEAN
  BY <1>2, <1>3
<1>6. /\ count \in Nat /\ len(upd) + count <= upd.bufSize
      /\ progress(upd) + len(upd) + count <= upd.size
      /\ full => len(upd) + count = upd.bufSize
  <2>1. progress(upd) + len(upd) + room = upd.size
    BY <1>3
  <2> HIDE DEF room, some
  <2>2. CASE full
    BY <1>3, <1>5, <2>1, <2>2
  <2>3. CASE ~full
    BY <1>3, <1>5, <2>1, <2>3
  <2> QED BY <2>2, <2>3
<1> HIDE DEF room, some, full, count
<1>7. /\ data \in Seq(Content) /\ Len(data) = count
      /\ \A i \in 1..Len(data) : Sent(data[i], progress(upd) + len(upd) + i - 1)
  <2>1. update.taken + call.written \in Nat
    BY <1>2, <1>3
  <2> QED BY <1>2, <1>3, <1>6, <2>1, ArrivesSent
<1>8. len(With(data)) = len(upd) + count /\ remaining(With(data)) = remaining(upd)
  <2>1. /\ With(data).buffer = upd.buffer \o data /\ upd.buffer \in Seq(Content)
        /\ With(data).size = upd.size /\ With(data).cur = upd.cur /\ With(data).start = upd.start
    BY DEF With, IInv, TypeInv, UpdType
  <2>2. Len(With(data).buffer) = Len(upd.buffer) + Len(data)
    <3>1. \A a, b \in Seq(Content) : Len(a \o b) = Len(a) + Len(b)
      OBVIOUS
    <3> QED BY <1>7, <2>1, <3>1, Zenon
  <2> QED BY <1>7, <2>1, <2>2 DEF len, remaining, progress
<1>9. ASSUME OnWith(count), ongoing(upd', call.written + count) PROVE IInv' /\ Contains
  <2>1. call.written + count \in Nat
    BY <1>2, <1>6
  <2>2. progress(upd) + len(upd) + count = update.taken + (call.written + count)
    BY <1>2, <1>3, <1>6
  <2>3. CASE remaining(upd') = 0
    BY <1>1, <1>2, <1>6, <1>9, <2>1, <2>2, <2>3, Returns
  <2>4. CASE remaining(upd') # 0
    <3>1. PICK more \in 0..MaxChunk : call' = [call EXCEPT !.available = more, !.written = call.written + count]
      BY <1>9, <2>4
    <3>2. update' = update
      BY <1>9, <2>4
    <3>3. /\ call' = [op |-> "available", available |-> more, written |-> call.written + count]
          /\ more \in Nat
      <4>1. more \in Nat
        BY Constants
      <4>2. call = [op |-> "available", available |-> call.available, written |-> call.written]
        BY <1>2
      <4>3. [call EXCEPT !.available = more, !.written = call.written + count]
              = [op |-> "available", available |-> more, written |-> call.written + count]
        <5>1. PICK c, k : c = call /\ k = call.written + count
          OBVIOUS
        <5>2. [c EXCEPT !.available = more, !.written = k] = [[c EXCEPT !.available = more] EXCEPT !.written = k]
          OBVIOUS
        <5>3. [c EXCEPT !.available = more] = [op |-> "available", available |-> more, written |-> c.written]
          BY <4>2, <5>1
        <5>4. [[op |-> "available", available |-> more, written |-> c.written] EXCEPT !.written = k]
                = [op |-> "available", available |-> more, written |-> k]
          OBVIOUS
        <5> QED BY <5>1, <5>2, <5>3, <5>4, Zenon
      <4> QED BY <3>1, <4>1, <4>3, Zenon
    <3>4. call'.op = "available" /\ call'.available = more /\ call'.written = call.written + count
      BY <3>3
    <3>5. CallType'
      BY <2>1, <3>3, <3>4 DEF CallType
    <3>6. progress(upd)' + len(upd)' = progress(upd) + len(upd) + count
      BY <1>9 DEF OnWith
    <3>7. Told'
      BY <2>2, <3>2, <3>4, <3>6 DEF Told, Untold
    <3>8. upd'.size \in Nat /\ upd'.cur \in Nat /\ upd'.start \in Nat
      BY <1>9 DEF OnWith, UpdType
    <3>9. CallFits'
      <4>1. ~isFinished(upd)'
        BY <2>4, <3>8 DEF isFinished, remaining, progress
      <4> QED BY <3>4, <4>1 DEF CallFits
    <3> QED BY <1>1, <1>2, <1>3, <1>6, <1>9, <3>2, <3>5, <3>7, <3>9, GoesOn
  <2> QED BY <2>3, <2>4
<1>10. ASSUME full \/ len(With(data)) = remaining(With(data)),
              NEW r \in WriteBuffer(With(data)), Took(r),
              IF r.ok THEN ongoing(r.upd, call.written + count)
              ELSE Return /\ Taken(IF full THEN call.written ELSE call.written + count)
       PROVE  IInv' /\ Contains
  <2>1. call.written \in Nat /\ call.written + count \in Nat
    BY <1>2, <1>6
  <2>2. update' \in [n : 0..MaxBegin, taken : Nat] /\ update'.n = update.n
    <3>1. \/ UNCHANGED update
          \/ \E k \in {call.written, call.written + count} : Taken(k)
      BY <1>10
    <3> QED BY <1>3, <2>1, <3>1, TakenType
  <2>3. len(upd) + Len(data) \in {upd.bufSize, remaining(upd)}
    BY <1>6, <1>7, <1>8, <1>10
  <2>4. /\ r.ok \in BOOLEAN
        /\ r.ok => OnWith(Len(data))
        /\ ~r.ok => Broken
    BY <1>2, <1>6, <1>7, <1>10, <2>2, <2>3, Writes
  <2>5. CASE r.ok
    <3>1. upd' = r.upd
      BY <1>10 DEF Took
    <3> QED BY <1>7, <1>9, <1>10, <2>4, <2>5, <3>1
  <2>6. CASE ~r.ok
    BY <1>1, <1>2, <1>10, <2>2, <2>4, <2>6, GivesUp
  <2> QED BY <2>4, <2>5, <2>6
<1>11. ASSUME upd' = With(data), ongoing(With(data), call.written + count), UNCHANGED <<flash, md5>>
       PROVE  IInv' /\ Contains
  <2>1. call.written + count \in Nat
    BY <1>2, <1>6
  <2>2. update'.n = update.n
    <3>1. UNCHANGED update \/ Taken(call.written + count)
      BY <1>11
    <3> QED BY <1>3, <2>1, <3>1, TakenType
  <2>3. OnWith(Len(data))
    BY <1>2, <1>6, <1>7, <1>11, <2>2, Fills
  <2> QED BY <1>7, <1>9, <1>11, <2>3
<1> QED BY <1>4, <1>10, <1>11

LEMMA StreamTurnPreserves ==
  ASSUME IInv, StreamTurn
  PROVE  IInv' /\ Contains
<1>1. call.op = "stream" /\ remaining(upd) # 0 /\ command' = command
  BY DEF StreamTurn
<1>2. /\ isRunning(upd) /\ call.written \in Nat
      /\ progress(upd) + len(upd) = update.taken + call.written
      /\ call.want - call.written = upd.size - progress(upd) - len(upd)
      /\ call = [op |-> "stream", written |-> call.written, want |-> call.want] /\ call.want \in Int
  BY <1>1, LoopFacts
<1>3. /\ len(upd) \in Nat /\ len(upd) <= upd.bufSize /\ upd.bufSize \in Nat \ {0}
      /\ progress(upd) \in Nat /\ upd.size \in Nat /\ progress(upd) + len(upd) <= upd.size
      /\ remaining(upd) = upd.size - progress(upd)
      /\ isFinished(upd) <=> progress(upd) = upd.size
      /\ update.n \in 1..MaxBegin /\ update.taken \in Nat
      /\ update \in [n : 0..MaxBegin, taken : Nat]
  BY <1>2, Numbers DEF IInv, TypeInv
<1>4. PICK k \in 1..BytesToRead :
        /\ k <= call.want - call.written
        /\ \E data \in Arrives(update.taken + call.written, k) :
             \/ /\ len(With(data)) \in {remaining(With(data)), With(data).bufSize}
                /\ \E r \in WriteBuffer(With(data)) :
                     /\ Took(r)
                     /\ IF r.ok THEN call' = [call EXCEPT !.written = @ + k] /\ UNCHANGED update
                        ELSE Return /\ Taken(call.written)
             \/ /\ upd' = With(data)
                /\ call' = [call EXCEPT !.written = @ + k]
                /\ UNCHANGED <<flash, md5, update>>
  BY DEF StreamTurn, With
<1>5. /\ k \in Nat /\ k > 0 /\ len(upd) + k <= upd.bufSize
      /\ progress(upd) + len(upd) + k <= upd.size
  <2>1. upd.bufSize - len(upd) \in Nat /\ remaining(upd) \in Nat
    <3>1. \A a, b \in Nat : a <= b => b - a \in Nat
      OBVIOUS
    <3>2. upd.bufSize \in Nat /\ progress(upd) <= upd.size
      <4>1. \A a, b, c \in Nat : a + b <= c => a <= c
        OBVIOUS
      <4> QED BY <1>3, <4>1
    <3>3. upd.bufSize - len(upd) \in Nat /\ upd.size - progress(upd) \in Nat
      BY <1>3, <3>1, <3>2, Zenon
    <3> QED BY <1>3, <3>3
  <2>2. BytesToRead \in Nat /\ BytesToRead <= upd.bufSize - len(upd)
    BY <2>1 DEF BytesToRead
  <2>3. k \in Nat /\ k > 0 /\ k <= BytesToRead
    BY <1>4, <2>2
  <2> QED BY <1>2, <1>3, <1>4, <2>2, <2>3
<1>6. PICK data \in Arrives(update.taken + call.written, k) :
        \/ /\ len(With(data)) \in {remaining(With(data)), With(data).bufSize}
           /\ \E r \in WriteBuffer(With(data)) :
                /\ Took(r)
                /\ IF r.ok THEN call' = [call EXCEPT !.written = @ + k] /\ UNCHANGED update
                   ELSE Return /\ Taken(call.written)
        \/ /\ upd' = With(data)
           /\ call' = [call EXCEPT !.written = @ + k]
           /\ UNCHANGED <<flash, md5, update>>
  BY <1>4
<1>7. /\ data \in Seq(Content) /\ Len(data) = k
      /\ \A i \in 1..Len(data) : Sent(data[i], progress(upd) + len(upd) + i - 1)
  <2>1. update.taken + call.written \in Nat
    BY <1>2, <1>3
  <2> QED BY <1>2, <1>3, <1>5, <2>1, ArrivesSent
<1>8. /\ len(With(data)) = len(upd) + k /\ remaining(With(data)) = remaining(upd)
      /\ With(data).bufSize = upd.bufSize
  <2>1. /\ With(data).buffer = upd.buffer \o data /\ upd.buffer \in Seq(Content)
        /\ With(data).size = upd.size /\ With(data).cur = upd.cur /\ With(data).start = upd.start
        /\ With(data).bufSize = upd.bufSize
    BY DEF With, IInv, TypeInv, UpdType
  <2>2. Len(With(data).buffer) = Len(upd.buffer) + Len(data)
    <3>1. \A a, b \in Seq(Content) : Len(a \o b) = Len(a) + Len(b)
      OBVIOUS
    <3> QED BY <1>7, <2>1, <3>1, Zenon
  <2> QED BY <1>7, <2>1, <2>2 DEF len, remaining, progress
<1>9. ASSUME OnWith(k), call' = [call EXCEPT !.written = @ + k], update' = update
      PROVE  IInv' /\ Contains
  <2>1. call' = [op |-> "stream", written |-> call.written + k, want |-> call.want]
    BY <1>2, <1>9
  <2>2. call'.op = "stream" /\ call'.written = call.written + k /\ call'.want = call.want
    BY <2>1
  <2>3. CallType'
    BY <1>2, <1>5, <2>1, <2>2 DEF CallType
  <2>4. progress(upd)' + len(upd)' = progress(upd) + len(upd) + k /\ upd'.size = upd.size
    BY <1>9 DEF OnWith
  <2>5. Told'
    BY <1>2, <1>3, <1>5, <1>9, <2>2, <2>4 DEF Told, Untold
  <2>6. CallFits'
    <3>1. progress(upd)' \in Int /\ len(upd)' \in Nat
      BY <1>9 DEF OnWith, UpdType, progress, len
    <3>2. call'.want - call'.written = upd'.size - progress(upd)' - len(upd)'
      BY <1>2, <1>3, <1>5, <2>2, <2>4, <3>1
    <3> QED BY <2>2, <3>2 DEF CallFits
  <2> QED BY <1>1, <1>2, <1>3, <1>5, <1>9, <2>3, <2>5, <2>6, GoesOn
<1>10. ASSUME len(With(data)) \in {remaining(With(data)), With(data).bufSize},
              NEW r \in WriteBuffer(With(data)), Took(r),
              IF r.ok THEN call' = [call EXCEPT !.written = @ + k] /\ UNCHANGED update
              ELSE Return /\ Taken(call.written)
       PROVE  IInv' /\ Contains
  <2>1. update' \in [n : 0..MaxBegin, taken : Nat] /\ update'.n = update.n
    <3>1. UNCHANGED update \/ Taken(call.written)
      BY <1>10
    <3> QED BY <1>2, <1>3, <3>1, TakenType
  <2>2. len(upd) + Len(data) \in {upd.bufSize, remaining(upd)} /\ ~isFinished(upd)
    BY <1>1, <1>3, <1>7, <1>8, <1>10
  <2>3. /\ r.ok \in BOOLEAN
        /\ r.ok => OnWith(Len(data))
        /\ ~r.ok => Broken
    BY <1>2, <1>5, <1>7, <1>10, <2>1, <2>2, Writes
  <2>4. CASE r.ok
    BY <1>7, <1>9, <1>10, <2>3, <2>4
  <2>5. CASE ~r.ok
    BY <1>1, <1>2, <1>10, <2>1, <2>3, <2>5, GivesUp
  <2> QED BY <2>3, <2>4, <2>5
<1>11. ASSUME upd' = With(data), call' = [call EXCEPT !.written = @ + k],
              UNCHANGED <<flash, md5, update>>
       PROVE  IInv' /\ Contains
  <2>1. OnWith(Len(data))
    BY <1>2, <1>5, <1>7, <1>11, Fills
  <2> QED BY <1>7, <1>9, <1>11, <2>1
<1> QED BY <1>6, <1>10, <1>11

-----------------------------------------------------------------------------
(* end() and the restart *)

(* What is checked and staged: the flash as it is after the flush.         *)
EndsWith(r) ==
  LET wrong == IF ~Md5Matches(r.md5) THEN {"md5"}
               ELSE IF r.upd.target = "fs" THEN {}
               ELSE (IF HasMagic(r.flash[r.upd.start]) THEN {} ELSE {"magic"}) \cup {"read"}
  IN  /\ flash' = r.flash /\ md5' = r.md5
      /\ \/ \E e \in wrong : upd' = Fail(r.upd, e) /\ UNCHANGED command
         \/ /\ Md5Matches(r.md5)
            /\ upd' = Clear(r.upd)
            /\ command' = IF r.upd.target = "flash"
                          THEN [src |-> r.upd.start, size |-> r.upd.size, n |-> update.n]
                          ELSE command

(* Nothing is staged but what has been taken, or the error is kept.        *)
LEMMA EndsWell ==
  ASSUME IInv, isRunning(upd), call.op = "none",
         NEW r, EndsWith(r), Return, update' = update,
         r.flash \in [Unit -> Content], Md5Type(r.md5), UpdType(r.upd),
         \A a \in Unit : r.flash[a] # flash[a] => a \in Area(upd),
         \/ r.upd.error \in {"erase", "write"} /\ r.upd.size = 0 /\ r.upd.start = 0
         \/ /\ r.upd.error = "ok"
            /\ r.upd.size = update.taken /\ r.md5.n = r.upd.size
            /\ \A i \in 0..(r.upd.size - 1) : /\ Sent(r.flash[r.upd.start + i], i)
                                              /\ r.md5.good => r.flash[r.upd.start + i] = Data(i)
  PROVE  IInv' /\ Contains
<1>1. /\ flash' = r.flash /\ md5' = r.md5 /\ call'.op = "none"
  BY DEF EndsWith, Return
<1>2. update.n \in 1..MaxBegin /\ command = NoCommand /\ update \in [n : 0..MaxBegin, taken : Nat]
  BY Numbers DEF IInv, TypeInv
<1>3. Contains
  BY <1>1 DEF Contains
<1>4. command \in [src : Nat, size : Nat, n : 0..MaxBegin]
  BY DEF IInv, TypeInv
<1>5. flash' \in [Unit -> Content] /\ Md5Type(md5)'
  BY <1>1 DEF Md5Type
<1>6. ASSUME NEW e \in {"md5", "magic", "read"}, upd' = Fail(r.upd, e), UNCHANGED command
      PROVE  IInv'
  <2>1. e \in Error
    BY DEF Error
  <2>2. UpdType(Fail(r.upd, e)) /\ ~isRunning(Fail(r.upd, e)) /\ Fail(r.upd, e).error = e
    BY <2>1, FailType
  <2>3. UpdType(upd)' /\ ~isRunning(upd)' /\ upd'.error # "ok"
    BY <1>6, <2>2 DEF UpdType, len, isRunning, Content
  <2> QED BY <1>2, <1>4, <1>5, <1>6, <2>3, StopsRunning
<1>7. ASSUME Md5Matches(r.md5), upd' = Clear(r.upd),
             command' = IF r.upd.target = "flash"
                        THEN [src |-> r.upd.start, size |-> r.upd.size, n |-> update.n]
                        ELSE command
      PROVE  IInv'
  <2>1. UpdType(Clear(r.upd)) /\ ~isRunning(Clear(r.upd)) /\ Clear(r.upd).error = r.upd.error
    <3>1. "ok" \in Error
      BY DEF Error
    <3> QED BY <3>1, FailType
  <2>2. UpdType(upd)' /\ ~isRunning(upd)' /\ upd'.error = r.upd.error
    BY <1>7, <2>1 DEF UpdType, len, isRunning, Content
  <2>3. CASE r.upd.target # "flash" \/ r.upd.error # "ok"
    <3>1. CASE r.upd.target # "flash"
      BY <1>2, <1>4, <1>5, <1>7, <2>2, <3>1, StopsRunning
    <3>2. CASE r.upd.error # "ok"
      <4>1. command' \in [src : Nat, size : Nat, n : 0..MaxBegin]
        BY <1>2, <1>4, <1>7 DEF UpdType
      <4>2. TypeInv' /\ RunInv'
        BY <1>1, <1>2, <1>5, <2>2, <4>1 DEF TypeInv, CallType, RunInv
      <4>3. StagedIsTaken'
        <5>1. CASE r.upd.target = "flash"
          <6>1. command'.src = 0 /\ command'.size = 0 /\ upd'.error \in {"erase", "write"}
            BY <1>7, <2>2, <3>2, <5>1
          <6> QED BY <6>1 DEF StagedIsTaken, FlushLost
        <5>2. CASE r.upd.target # "flash"
          BY <1>2, <1>7, <5>2 DEF StagedIsTaken, NoCommand
        <5> QED BY <5>1, <5>2
      <4>4. Md5Guards'
        BY <2>2, <3>2 DEF Md5Guards
      <4> QED BY <1>1, <4>2, <4>3, <4>4 DEF IInv
    <3> QED BY <2>3, <3>1, <3>2
  <2>4. CASE r.upd.target = "flash" /\ r.upd.error = "ok"
    <3>1. command' = [src |-> r.upd.start, size |-> r.upd.size, n |-> update.n]
      BY <1>7, <2>4
    <3>2. r.upd.start \in Nat /\ r.upd.size \in Nat
      BY DEF UpdType
    <3>3. command' \in [src : Nat, size : Nat, n : 0..MaxBegin]
      BY <1>2, <3>1, <3>2
    <3>4. command'.src = r.upd.start /\ command'.size = r.upd.size /\ command'.n = update.n
      BY <3>1
    <3>5. /\ r.upd.size = update.taken /\ r.md5.n = r.upd.size
          /\ \A i \in 0..(r.upd.size - 1) : /\ Sent(r.flash[r.upd.start + i], i)
                                            /\ r.md5.good => r.flash[r.upd.start + i] = Data(i)
      BY <2>4
    <3>6. StagedIsTaken'
      BY <1>1, <2>2, <2>4, <3>4, <3>5 DEF StagedIsTaken, WholeImage, Sent, Data, Damaged
    <3>7. Md5Guards'
      <4>1. r.md5.expected # NoMd5 => r.md5.good /\ r.md5.n = r.md5.expected
        BY <1>7 DEF Md5Matches
      <4> QED BY <1>1, <3>4, <3>5, <4>1 DEF Md5Guards, Data, NoMd5
    <3>8. TypeInv' /\ RunInv'
      BY <1>1, <1>2, <1>5, <2>2, <3>3 DEF TypeInv, CallType, RunInv
    <3> QED BY <1>1, <3>6, <3>7, <3>8 DEF IInv
  <2> QED BY <2>3, <2>4
<1>8. \/ \E e \in {"md5", "magic", "read"} : upd' = Fail(r.upd, e) /\ UNCHANGED command
      \/ /\ Md5Matches(r.md5) /\ upd' = Clear(r.upd)
         /\ command' = IF r.upd.target = "flash"
                       THEN [src |-> r.upd.start, size |-> r.upd.size, n |-> update.n]
                       ELSE command
  BY DEF EndsWith
<1> QED BY <1>3, <1>6, <1>7, <1>8

(* end(true) flushes what is in the buffer, end() what nothing is in.      *)
LEMMA EndPreserves ==
  ASSUME IInv, NEW even \in BOOLEAN, End(even)
  PROVE  IInv' /\ Contains
<1>1. /\ call.op = "none" /\ isRunning(upd) /\ (even \/ isFinished(upd))
      /\ Return /\ update' = update
  BY DEF End, Idle
<1>2. PICK r \in IF even THEN Flushed ELSE {Unflushed} : EndsWith(r)
  BY DEF End, EndsWith
<1>3. /\ upd.size \in Nat /\ upd.start \in Nat /\ upd.cur \in Nat /\ upd.start <= upd.cur
      /\ len(upd) \in Nat /\ len(upd) <= upd.bufSize
      /\ progress(upd) \in Nat /\ progress(upd) + len(upd) <= upd.size
      /\ remaining(upd) = upd.size - progress(upd)
      /\ isFinished(upd) <=> progress(upd) = upd.size
      /\ update.taken \in Nat
  BY <1>1, Numbers
<1>4. /\ progress(upd) + len(upd) = update.taken
      /\ Reserved(upd) /\ Image(upd, flash, md5) /\ Aligned(upd)
      /\ flash \in [Unit -> Content] /\ Md5Type(md5) /\ UpdType(upd)
  <2>1. Told /\ Untold = 0
    BY <1>1 DEF IInv, RunInv, Untold
  <2> QED BY <1>1, <1>3, <2>1 DEF IInv, RunInv, TypeInv, Told
(* What is there when the buffer is empty.                                 *)
<1>5. ASSUME NEW u, NEW f, NEW m, Image(u, f, m), UpdType(u), len(u) = 0,
             progress(u) = update.taken
      PROVE  /\ progress(u) \in Nat /\ m.n = progress(u)
             /\ \A i \in 0..(progress(u) - 1) : /\ Sent(f[u.start + i], i)
                                                /\ m.good => f[u.start + i] = Data(i)
  BY <1>3, <1>5 DEF Image
<1>6. CASE ~even
  <2>1. isFinished(upd) /\ len(upd) = 0 /\ progress(upd) = upd.size /\ upd.size = update.taken
    <3>1. isFinished(upd)
      BY <1>1, <1>6
    <3> QED BY <1>3, <1>4, <3>1
  <2>2. r = Unflushed
    BY <1>2, <1>6
  <2>3. r.flash = flash /\ r.md5 = md5 /\ r.upd = upd
    BY <2>2 DEF Unflushed
  <2>4. /\ md5.n = upd.size
        /\ \A i \in 0..(upd.size - 1) : /\ Sent(flash[upd.start + i], i)
                                        /\ md5.good => flash[upd.start + i] = Data(i)
    BY <1>4, <2>1 DEF Image
  <2>5. upd.error = "ok"
    BY <1>1 DEF IInv, RunInv
  <2> QED BY <1>1, <1>2, <1>4, <2>1, <2>3, <2>4, <2>5, EndsWell
<1>7. CASE even
  <2>1. PICK w \in IF len(upd) > 0 THEN WriteBuffer(upd) ELSE {Unflushed} :
          r = [w EXCEPT !.upd.size = progress(w.upd)]
    BY <1>2, <1>7 DEF Flushed
  <2>2. ASSUME w = [ok |-> w.ok, flash |-> w.flash, md5 |-> w.md5, upd |-> w.upd],
               w.flash \in [Unit -> Content], Md5Type(w.md5), UpdType(w.upd),
               \A a \in Unit : w.flash[a] # flash[a] => a \in Area(upd),
               w.upd.start <= w.upd.cur,
               \/ w.upd.error \in {"erase", "write"} /\ w.upd.start = 0 /\ w.upd.cur = 0
               \/ w.upd.error = "ok" /\ Image(w.upd, w.flash, w.md5) /\ len(w.upd) = 0 /\ progress(w.upd) = update.taken
        PROVE  IInv' /\ Contains
    <3>1. w.upd \in [size : Nat, start : Nat, cur : Nat, buffer : Seq(Content), bufSize : Nat \ {0},
                     target : Target, error : Error]
      BY <2>2 DEF UpdType
    <3>2. progress(w.upd) \in Nat
      BY <2>2, <3>1 DEF progress
    <3>3. /\ r.flash = w.flash /\ r.md5 = w.md5
          /\ r.upd = [w.upd EXCEPT !.size = progress(w.upd)]
      BY <2>1, <2>2
    <3>4. /\ r.upd \in [size : Nat, start : Nat, cur : Nat, buffer : Seq(Content), bufSize : Nat \ {0},
                        target : Target, error : Error]
          /\ r.upd.size = progress(w.upd) /\ r.upd.start = w.upd.start /\ r.upd.error = w.upd.error
          /\ r.upd.bufSize = w.upd.bufSize /\ r.upd.buffer = w.upd.buffer
      BY <3>1, <3>2, <3>3
    <3>5. UpdType(r.upd)
      BY <2>2, <3>4 DEF UpdType, len
    <3>6. \/ r.upd.error \in {"erase", "write"} /\ r.upd.size = 0 /\ r.upd.start = 0
          \/ /\ r.upd.error = "ok"
             /\ r.upd.size = update.taken /\ r.md5.n = r.upd.size
             /\ \A i \in 0..(r.upd.size - 1) : /\ Sent(r.flash[r.upd.start + i], i)
                                               /\ r.md5.good => r.flash[r.upd.start + i] = Data(i)
      <4>1. CASE w.upd.error \in {"erase", "write"} /\ w.upd.start = 0 /\ w.upd.cur = 0
        <5>1. progress(w.upd) = 0
          BY <4>1 DEF progress
        <5> QED BY <3>4, <4>1, <5>1
      <4>2. CASE w.upd.error = "ok" /\ Image(w.upd, w.flash, w.md5) /\ len(w.upd) = 0 /\ progress(w.upd) = update.taken
        <5>1. /\ w.md5.n = progress(w.upd)
              /\ \A i \in 0..(progress(w.upd) - 1) : /\ Sent(w.flash[w.upd.start + i], i)
                                                     /\ w.md5.good => w.flash[w.upd.start + i] = Data(i)
          BY <1>5, <2>2, <4>2
        <5> QED BY <3>3, <3>4, <4>2, <5>1
      <4> QED BY <2>2, <4>1, <4>2
    <3> QED BY <1>1, <1>2, <2>2, <3>3, <3>5, <3>6, EndsWell
  <2>3. CASE len(upd) = 0
    <3>1. w = Unflushed
      BY <2>1, <2>3
    <3>2. /\ w.flash = flash /\ w.md5 = md5 /\ w.upd = upd
          /\ w = [ok |-> w.ok, flash |-> w.flash, md5 |-> w.md5, upd |-> w.upd]
      BY <3>1 DEF Unflushed
    <3>3. progress(upd) = update.taken
      BY <1>3, <1>4, <2>3
    <3>4. upd.error = "ok"
      BY <1>1 DEF IInv, RunInv
    <3> QED BY <1>3, <1>4, <2>2, <2>3, <3>2, <3>3, <3>4
  <2>4. CASE len(upd) > 0
    <3>1. w \in WriteBuffer(upd) /\ ~isFinished(upd)
      BY <1>3, <2>1, <2>4
    <3>2. /\ w.ok \in BOOLEAN
          /\ w.flash \in [Unit -> Content] /\ Md5Type(w.md5) /\ UpdType(w.upd)
          /\ \A a \in Unit : w.flash[a] # flash[a] => a \in Area(upd)
          /\ w.ok => w.upd = Written(upd) /\ Image(w.upd, w.flash, w.md5)
          /\ ~w.ok => w.md5 = md5 /\ \E e \in {"erase", "write"} : w.upd = Fail(upd, e)
      BY <1>4, <2>4, <3>1, WriteBufferWorks
    <3>3. w = [ok |-> w.ok, flash |-> w.flash, md5 |-> w.md5, upd |-> w.upd]
      BY <3>1, Outcomes DEF Success
    <3>4. CASE w.ok
      <4>1. /\ w.upd.start = upd.start /\ w.upd.cur = upd.cur + len(upd) /\ w.upd.buffer = <<>>
            /\ w.upd.error = upd.error
        BY <1>4, <3>2, <3>4 DEF Written, UpdType
      <4>2. len(w.upd) = 0 /\ w.upd.start <= w.upd.cur /\ progress(w.upd) = update.taken
        <5>1. len(w.upd) = 0
          BY <4>1 DEF len
        <5>2. w.upd.start <= w.upd.cur /\ progress(w.upd) = progress(upd) + len(upd)
          BY <1>3, <4>1 DEF progress
        <5> QED BY <1>4, <5>1, <5>2
      <4>3. w.upd.error = "ok"
        BY <1>1, <4>1 DEF IInv, RunInv
      <4> QED BY <2>2, <3>2, <3>3, <3>4, <4>2, <4>3
    <3>5. CASE ~w.ok
      <4>1. PICK e \in {"erase", "write"} : w.upd = Fail(upd, e)
        BY <3>2, <3>5
      <4>2. e \in Error /\ e # "ok"
        BY DEF Error
      <4>3. w.upd.start = 0 /\ w.upd.cur = 0 /\ w.upd.error = e
        BY <1>4, <4>1, <4>2, FailType
      <4>4. w.upd.start <= w.upd.cur
        BY <4>3
      <4> QED BY <2>2, <3>2, <3>3, <4>1, <4>3, <4>4
    <3> QED BY <3>2, <3>4, <3>5
  <2> QED BY <1>3, <2>3, <2>4
<1> QED BY <1>6, <1>7

(* Calls of end() that change no more than the members, and the restart.   *)
LEMMA EndsQuietly ==
  ASSUME IInv, EndNothing \/ EndPremature
  PROVE  IInv' /\ Contains
<1>1. /\ upd' = Clear(upd) /\ Return /\ UNCHANGED <<flash, command, md5, update>>
      /\ call'.op = "none"
  BY DEF EndNothing, EndPremature, Return
<1>2. UpdType(Clear(upd)) /\ ~isRunning(Clear(upd)) /\ Clear(upd).error = upd.error
  <2>1. "ok" \in Error /\ UpdType(upd)
    BY DEF Error, IInv, TypeInv
  <2> QED BY <2>1, FailType
<1>3. UpdType(upd)' /\ ~isRunning(upd)' /\ upd'.error = upd.error
  BY <1>1, <1>2 DEF UpdType, len, isRunning, Content
<1>4. TypeInv' /\ RunInv'
  BY <1>1, <1>3 DEF TypeInv, RunInv, CallType, IInv, Md5Type
<1>5. StagedIsTaken' /\ Md5Guards'
  BY <1>1, <1>3 DEF IInv, StagedIsTaken, WholeImage, FlushLost, Md5Guards, Data, Damaged, NoCommand, NoMd5
<1> QED BY <1>1, <1>4, <1>5 DEF IInv, Contains

LEMMA RestartPreserves ==
  ASSUME IInv, Restart
  PROVE  IInv' /\ Contains
<1>1. /\ call.op = "none" /\ command # NoCommand /\ command' = NoCommand
      /\ flash' = [a \in Unit |-> IF a = 0 THEN Sketch ELSE Old]
      /\ upd' = Fail(upd, "ok") /\ md5' = [n |-> 0, good |-> TRUE, expected |-> NoMd5]
      /\ UNCHANGED <<call, update>>
  BY DEF Restart, Idle
<1>2. UpdType(Fail(upd, "ok")) /\ ~isRunning(Fail(upd, "ok"))
  <2>1. "ok" \in Error /\ UpdType(upd)
    BY DEF Error, IInv, TypeInv
  <2> QED BY <2>1, FailType
<1>3. UpdType(upd)' /\ ~isRunning(upd)'
  BY <1>1, <1>2 DEF UpdType, len, isRunning, Content
<1>4. flash' \in [Unit -> Content] /\ Md5Type(md5)'
  BY <1>1 DEF Content, Md5Type
<1>5. command' \in [src : Nat, size : Nat, n : 0..MaxBegin]
  BY <1>1, Constants DEF NoCommand
<1>6. TypeInv' /\ RunInv'
  BY <1>1, <1>3, <1>4, <1>5 DEF TypeInv, RunInv, CallType, IInv
<1> QED BY <1>1, <1>6 DEF IInv, StagedIsTaken, Md5Guards, Contains, NoCommand

-----------------------------------------------------------------------------
(* The theorems *)

LEMMA StepIInv == IInv /\ [Next]_vars => IInv' /\ Contains
<1> SUFFICES ASSUME IInv, [Next]_vars PROVE IInv' /\ Contains
  OBVIOUS
<1> USE DEF Target
<1>1. ASSUME NEW size \in Sizes, NEW target \in Target, BeginFails(size, target) \/ Begin(size, target)
      PROVE  IInv' /\ Contains
  BY <1>1, BeginPreserves, FailuresPreserve
<1>2. ASSUME NEW size \in Sizes, SetMD5(size) PROVE IInv' /\ Contains
  BY <1>2, SetMD5Preserves
<1>3. ASSUME NEW k \in 0..MaxChunk, Write(k) \/ WriteTooMuch(k) PROVE IInv' /\ Contains
  BY <1>3, WritePreserves, FailuresPreserve
<1>4. CASE BeginRefused \/ StreamRefused \/ EndNoData \/ StreamTimeout
  BY <1>4, FailuresPreserve
<1>5. CASE WriteTurn \/ WriteRest
  BY <1>5, WriteTurnPreserves, WriteRestPreserves
<1>6. CASE WriteAvailable \/ WriteStream \/ AvailableDone \/ StreamDone
  BY <1>6, LoopStarts, LoopEnds
<1>7. CASE AvailableTurn \/ StreamTurn
  BY <1>7, AvailableTurnPreserves, StreamTurnPreserves
<1>8. ASSUME NEW even \in BOOLEAN, End(even) PROVE IInv' /\ Contains
  BY <1>8, EndPreserves
<1>9. CASE EndNothing \/ EndPremature \/ Restart
  BY <1>9, EndsQuietly, RestartPreserves
<1>10. CASE UNCHANGED vars
  <2>1. /\ flash' = flash /\ command' = command /\ upd' = upd /\ md5' = md5
        /\ call' = call /\ update' = update
    BY <1>10 DEF vars
  <2>2. TypeInv'
    BY <2>1 DEF IInv, TypeInv, UpdType, Md5Type, CallType, len, left
  <2>3. RunInv'
    <3>1. Told' <=> Told
      BY <2>1 DEF Told, Untold, progress, len, left
    <3>2. CallFits' <=> CallFits
      BY <2>1 DEF CallFits, Sent, Data, isFinished, progress, len, left
    <3>3. Reserved(upd)' = Reserved(upd) /\ Aligned(upd)' = Aligned(upd)
      BY <2>1 DEF Reserved, Aligned, isFinished, progress
    <3>4. Image(upd, flash, md5)' <=> Image(upd, flash, md5)
      BY <2>1 DEF Image, Sent, Data, progress, len, EraseDue
    <3> QED BY <2>1, <3>1, <3>2, <3>3, <3>4 DEF IInv, RunInv, isRunning
  <2>4. StagedIsTaken' /\ Md5Guards' /\ (call'.op # "none" => isRunning(upd)')
    BY <2>1 DEF IInv, StagedIsTaken, WholeImage, FlushLost, Md5Guards, Data, isRunning
  <2> QED BY <2>1, <2>2, <2>3, <2>4 DEF Contains, IInv
<1> QED BY <1>1, <1>2, <1>3, <1>4, <1>5, <1>6, <1>7, <1>8, <1>9, <1>10 DEF Next

(* Between calls, what they have said they took is in the flash or in the  *)
(* buffer, and every variable keeps its type.                              *)
THEOREM SpecInv == Spec => []Inv
<1>1. IInv => Inv
  <2> SUFFICES ASSUME IInv PROVE TypeOK /\ Accounted
    BY DEF Inv
  <2>1. TypeOK
    BY DEF IInv, TypeInv, TypeOK, UpdType, Md5Type, Target, Error
  <2>2. Accounted
    <3> SUFFICES ASSUME Idle, isRunning(upd) PROVE progress(upd) + len(upd) = update.taken
      BY DEF Accounted
    <3>1. Told /\ Untold = 0
      BY DEF IInv, RunInv, Untold, Idle
    <3> QED BY <3>1, Numbers DEF Told
  <2> QED BY <2>1, <2>2
<1> QED BY InitIInv, StepIInv, <1>1, PTL DEF Spec

(* An update that failed on its way leaves no command, but for the empty   *)
(* one of a lost flush; the command of any other names exactly the units   *)
(* that the write calls have taken.                                        *)
THEOREM SpecStagedIsTaken == Spec => []StagedIsTaken
<1>1. IInv => StagedIsTaken
  BY DEF IInv
<1> QED BY InitIInv, StepIInv, <1>1, PTL DEF Spec

(* With an MD5 set, it names the image that was announced.                 *)
THEOREM SpecMd5Guards == Spec => []Md5Guards
<1>1. IInv => Md5Guards
  BY DEF IInv
<1> QED BY InitIInv, StepIInv, <1>1, PTL DEF Spec

(* No write, failed erase or flush changes the flash outside of the area   *)
(* begin() has reserved: neither the running sketch nor the file system.   *)
THEOREM SpecContained == Spec => Contained
<1>1. IInv /\ [Next]_vars => [command = NoCommand =>
                                \A a \in Unit : flash'[a] # flash[a] => a \in Area(upd)]_vars
  BY StepIInv DEF Contains
<1>2. IInv /\ [Next]_vars => IInv'
  BY StepIInv
<1> QED BY InitIInv, <1>1, <1>2, PTL DEF Spec, Contained
=============================================================================
