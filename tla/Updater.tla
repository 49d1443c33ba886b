------------------------------ MODULE Updater ------------------------------
(***************************************************************************)
(* UpdaterClass (cores/esp8266/Updater.cpp, Updater.h): begin() reserves   *)
(* an area of the flash, write(), the template write() and writeStream()   *)
(* fill it through a buffer of one sector or less, end() checks what is    *)
(* there and leaves the command for eboot in RTC memory.  A call is a      *)
(* sequence of steps, one per turn of its loop; every flash access can     *)
(* fail.  A unit of flash stands for some bytes; the content of a unit is  *)
(* which unit of which update was written there.  Signatures and the two   *)
(* bytes of the header that are adjusted to the flash chip are left out.   *)
(***************************************************************************)
EXTENDS Integers, Sequences

CONSTANTS SectorSize,     \* FLASH_SECTOR_SIZE in units
          SketchEnd,      \* current sketch, rounded up to a sector
          FsStart, FsEnd, \* the file system
          Buffers,        \* _bufferSize: a sector, or less when memory is short
          Sizes,          \* the sizes given to begin()
          MaxChunk,       \* bound: units handed over at once
          MaxBegin        \* bound: updates started

ASSUME UpdaterAssumption ==
  /\ SectorSize \in Nat \ {0}
  /\ \A a \in {SketchEnd, FsStart, FsEnd} : a \in Nat /\ a % SectorSize = 0
  /\ 0 < SketchEnd /\ SketchEnd <= FsStart /\ FsStart <= FsEnd
  /\ \A b \in Buffers : b \in 1..SectorSize /\ SectorSize % b = 0
  /\ Sizes \subseteq Nat /\ MaxChunk \in Nat /\ MaxBegin \in Nat

VARIABLES flash, command,
          upd,        \* the members of UpdaterClass
          md5,        \* what _md5 has been fed with, and the expected size
          call,       \* the call being executed, with its locals
          update      \* history: how many updates, units taken of this one

vars == <<flash, command, upd, md5, call, update>>

Unit == 0..(FsEnd - 1)
Sketch == <<0, 0>>      \* the first unit of the sketch has the magic byte
Old == <<0, 1>>
Erased == <<0, 2>>
Garbage == <<0, 3>>     \* programmed without being erased
Damaged == <<0, 4>>     \* not what was sent
Data(i) == <<update.n, i>>

NoCommand == [src |-> 0, size |-> 0, n |-> 0]
NoMd5 == -1

Rounded_Down(size) == (size \div SectorSize) * SectorSize
Rounded(size) == ((size + SectorSize - 1) \div SectorSize) * SectorSize

len(u) == Len(u.buffer)
progress(u) == u.cur - u.start
remaining(u) == u.size - progress(u)     \* below 0 a huge size_t
isRunning(u) == u.size > 0
isFinished(u) == u.cur = u.start + u.size

Clear(u) == [u EXCEPT !.buffer = <<>>, !.start = 0, !.cur = 0, !.size = 0, !.target = "flash"]
Fail(u, e) == [Clear(u) EXCEPT !.error = e]

Init == /\ flash = [a \in Unit |-> IF a = 0 THEN Sketch ELSE Old]
        /\ command = NoCommand
        /\ upd = [size |-> 0, start |-> 0, cur |-> 0, buffer |-> <<>>,
                  bufSize |-> 1, target |-> "flash", error |-> "ok"]
        /\ md5 = [n |-> 0, good |-> TRUE, expected |-> NoMd5]
        /\ call = [op |-> "none"]
        /\ update = [n |-> 0, taken |-> 0]

Idle == call.op = "none"
(* The call returns; one that returns at once and changes nothing is left  *)
(* out.                                                                    *)
Return == call' = [op |-> "none"]

-----------------------------------------------------------------------------
(* _writeBuffer(): the set of its outcomes from the updater u.             *)

SectorOf(a) == {b \in Unit : b \div SectorSize = a \div SectorSize}

EraseDue_Once(u) == u.cur = u.start
EraseDue(u) == u.cur % SectorSize = 0

AfterErase(u) ==
  IF EraseDue(u) THEN [a \in Unit |-> IF a \in SectorOf(u.cur) THEN Erased ELSE flash[a]]
  ELSE flash
AfterWrite(u) ==
  LET before == AfterErase(u)
  IN  [a \in Unit |-> IF a \notin u.cur..(u.cur + len(u) - 1) THEN before[a]
                      ELSE IF before[a] = Erased THEN u.buffer[a - u.cur + 1] ELSE Garbage]

Advance_Full(u) == u.cur + u.bufSize
Advance(u) == u.cur + len(u)

Emptied(u) == <<>>

Fed(u) == [md5 EXCEPT !.n = @ + len(u),
                      !.good = @ /\ \A i \in DOMAIN u.buffer : u.buffer[i] = Data(md5.n + i - 1)]

(* Beyond the end of the flash an erase or a write fails.                  *)
WriteBuffer(u) ==
  LET past == u.cur + len(u) > FsEnd \/ (EraseDue(u) /\ u.cur = FsEnd)
      failed(f, e) == [ok |-> FALSE, flash |-> f, md5 |-> md5, upd |-> Fail(u, e)]
  IN  (IF past THEN {}
       ELSE {[ok |-> TRUE, flash |-> AfterWrite(u), md5 |-> Fed(u),
              upd |-> [u EXCEPT !.cur = Advance(u), !.buffer = Emptied(u)]]})
      \cup (IF EraseDue(u) THEN {failed(flash, "erase")} ELSE {})
      \cup {failed(AfterErase(u), "write")}

Took(r) == flash' = r.flash /\ md5' = r.md5 /\ upd' = r.upd

-----------------------------------------------------------------------------
(* begin() *)

StartFor(size) == IF FsStart > Rounded(size) THEN FsStart - Rounded(size) ELSE 0

HasSpace(size, target) ==
  IF target = "flash" THEN StartFor(size) >= SketchEnd
  ELSE FsStart + Rounded(size) <= FsEnd

(* Wrong boot mode or flash configuration, or size 0.                      *)
BeginRefused == /\ Idle /\ ~isRunning(upd)
                /\ upd' = Fail(upd, "refused")
                /\ Return
                /\ UNCHANGED <<flash, command, md5, update>>

(* No space, or no memory for the buffer.                                  *)
BeginFails(size, target) ==
  /\ Idle /\ ~isRunning(upd) /\ size > 0 /\ command = NoCommand
  /\ \E e \in {"oom"} \cup (IF HasSpace(size, target) THEN {} ELSE {"space"}) :
       upd' = Fail(upd, e)
  /\ md5' = [n |-> 0, good |-> TRUE, expected |-> NoMd5]
  /\ Return
  /\ UNCHANGED <<flash, command, update>>

(* Whoever has ended an update restarts the device before the next one.    *)
Begin(size, target) ==
  /\ Idle /\ ~isRunning(upd) /\ size > 0 /\ command = NoCommand
  /\ HasSpace(size, target)
  /\ update.n < MaxBegin
  /\ \E b \in Buffers, start \in {IF target = "flash" THEN StartFor(size) ELSE FsStart} :
       upd' = [size |-> size, start |-> start, cur |-> start, buffer |-> <<>>,
               bufSize |-> b, target |-> target, error |-> "ok"]
  /\ md5' = [n |-> 0, good |-> TRUE, expected |-> NoMd5]
  /\ update' = [n |-> update.n + 1, taken |-> 0]
  /\ Return
  /\ UNCHANGED <<flash, command>>

(* Callers announce the MD5 right after begin().                           *)
SetMD5(size) == /\ Idle /\ isRunning(upd) /\ md5.expected = NoMd5
                /\ update.taken = 0
                /\ md5' = [md5 EXCEPT !.expected = size]
                /\ UNCHANGED <<flash, command, upd, call, update>>

-----------------------------------------------------------------------------
(* The data of a call: the next units of the update, intact or damaged.    *)
Arrives(from, k) == {[i \in 1..k |-> Data(from + i - 1)], [i \in 1..k |-> Damaged]}

MayWrite == upd.error = "ok" /\ isRunning(upd)

(* The callers of write() stop when the update is complete.                *)
Unfinished == ~isFinished(upd)

Taken(k) == update' = [update EXCEPT !.taken = @ + k]

(* write(data, len) *)

Fits(k) == progress(upd) + len(upd) + k <= upd.size

WriteTooMuch(k) == /\ Idle /\ MayWrite /\ Unfinished
                   /\ ~Fits(k)
                   /\ upd' = Fail(upd, "space")
                   /\ Return
                   /\ UNCHANGED <<flash, command, md5, update>>

Write(k) == /\ Idle /\ MayWrite /\ Unfinished
            /\ Fits(k)
            /\ \E data \in Arrives(update.taken, k) :
                 call' = [op |-> "write", len |-> k, rest |-> data]
            /\ UNCHANGED <<flash, command, upd, md5, update>>

left == Len(call.rest)

WriteTurn ==
  /\ call.op = "write" /\ len(upd) + left > upd.bufSize
  /\ LET toBuff == upd.bufSize - len(upd)
     IN  \E r \in WriteBuffer([upd EXCEPT !.buffer = @ \o SubSeq(call.rest, 1, toBuff)]) :
           /\ Took(r)
           /\ IF r.ok
              THEN /\ call' = [call EXCEPT !.rest = SubSeq(@, toBuff + 1, Len(@))]
                   /\ UNCHANGED update
              ELSE Return /\ Taken(call.len - left)
  /\ UNCHANGED command

WriteRest ==
  /\ call.op = "write" /\ len(upd) + left <= upd.bufSize
  /\ LET u == [upd EXCEPT !.buffer = @ \o call.rest]
     IN  \/ /\ len(u) = remaining(u)
            /\ \E r \in WriteBuffer(u) :
                 LET value == IF r.ok THEN call.len ELSE call.len - left
                 IN  /\ Took(r)
                     /\ Return /\ Taken(value)
         \/ /\ len(u) # remaining(u)
            /\ upd' = u
            /\ Return /\ Taken(call.len)
            /\ UNCHANGED <<flash, md5>>
  /\ UNCHANGED command

(* write(T &data): as much as is available, until nothing is.              *)

WriteAvailable == /\ Idle /\ MayWrite /\ Unfinished
                  /\ \E k \in 0..MaxChunk :
                       call' = [op |-> "available", available |-> k, written |-> 0]
                  /\ UNCHANGED <<flash, command, upd, md5, update>>

AvailableTurn ==
  /\ call.op = "available" /\ call.available > 0
  /\ LET room == remaining(upd) - len(upd)
         some == IF call.available > room THEN room ELSE call.available
         full == len(upd) + some > upd.bufSize
         count == IF full THEN upd.bufSize - len(upd) ELSE some
         ongoing(u, k) ==
           IF remaining(u) = 0 THEN Return /\ Taken(k)
           ELSE /\ \E more \in 0..MaxChunk :
                     call' = [call EXCEPT !.available = more, !.written = k]
                /\ UNCHANGED update
     IN  \E data \in Arrives(update.taken + call.written, count) :
           LET u == [upd EXCEPT !.buffer = @ \o data]
           IN  \/ /\ full \/ len(u) = remaining(u)
                  /\ \E r \in WriteBuffer(u) :
                       /\ Took(r)
                       /\ IF r.ok THEN ongoing(r.upd, call.written + count)
                          ELSE LET value == IF full THEN call.written ELSE call.written + count
                               IN  Return /\ Taken(value)
               \/ /\ ~full /\ len(u) # remaining(u)
                  /\ upd' = u
                  /\ ongoing(u, call.written + count)
                  /\ UNCHANGED <<flash, md5>>
  /\ UNCHANGED command

AvailableDone == /\ call.op = "available" /\ call.available = 0
                 /\ Return /\ Taken(call.written)
                 /\ UNCHANGED <<flash, command, upd, md5>>

(* writeStream(): readBytes() may come back with less than asked for.      *)

(* _verifyHeader(): the next byte is not a magic byte.                     *)
StreamRefused == /\ Idle /\ MayWrite /\ upd.target = "flash"
                 /\ upd' = Fail(upd, "magic")
                 /\ Return
                 /\ UNCHANGED <<flash, command, md5, update>>

WriteStream == /\ Idle /\ MayWrite
               /\ call' = [op |-> "stream", written |-> 0, want |-> remaining(upd) - len(upd)]
               /\ UNCHANGED <<flash, command, upd, md5, update>>

BytesToRead == LET room == upd.bufSize - len(upd)
               IN  IF remaining(upd) \in 0..room THEN remaining(upd) ELSE room

StreamTurn ==
  /\ call.op = "stream" /\ remaining(upd) # 0
  /\ \E k \in 1..BytesToRead :
       /\ k <= call.want - call.written      \* the stream ends with the update
       /\ \E data \in Arrives(update.taken + call.written, k) :
            LET u == [upd EXCEPT !.buffer = @ \o data]
            IN  \/ /\ len(u) \in {remaining(u), u.bufSize}
                   /\ \E r \in WriteBuffer(u) :
                        /\ Took(r)
                        /\ IF r.ok THEN /\ call' = [call EXCEPT !.written = @ + k]
                                        /\ UNCHANGED update
                           ELSE Return /\ Taken(call.written)
                \/ /\ len(u) \notin {remaining(u), u.bufSize}
                   /\ upd' = u
                   /\ call' = [call EXCEPT !.written = @ + k]
                   /\ UNCHANGED <<flash, md5, update>>
  /\ UNCHANGED command

(* Nothing was read for streamTimeout.                                     *)
StreamTimeout == /\ call.op = "stream" /\ remaining(upd) # 0
                 /\ upd' = Fail(upd, "stream")
                 /\ Return /\ Taken(call.written)
                 /\ UNCHANGED <<flash, command, md5>>

StreamDone == /\ call.op = "stream" /\ remaining(upd) = 0
              /\ Return /\ Taken(call.written)
              /\ UNCHANGED <<flash, command, upd, md5>>

-----------------------------------------------------------------------------
(* end() *)

EndNothing == /\ Idle /\ ~isRunning(upd)
              /\ upd' = Clear(upd)
              /\ Return
              /\ UNCHANGED <<flash, command, md5, update>>

EndNoData == /\ Idle /\ isRunning(upd) /\ progress(upd) = 0
             /\ upd' = Fail(upd, "no data")
             /\ Return
             /\ UNCHANGED <<flash, command, md5, update>>

EndPremature == /\ Idle /\ isRunning(upd) /\ progress(upd) # 0
                /\ ~isFinished(upd)
                /\ upd' = Clear(upd)
                /\ Return
                /\ UNCHANGED <<flash, command, md5, update>>

(* What end() goes on with: end(true) flushes the buffer, ignores whether  *)
(* that succeeded, and takes the progress for the size.                    *)
Unflushed == [ok |-> TRUE, flash |-> flash, md5 |-> md5, upd |-> upd]
Flushed == {[r EXCEPT !.upd.size = progress(r.upd)] :
              r \in IF len(upd) > 0 THEN WriteBuffer(upd) ELSE {Unflushed}}

Md5Matches_Prefix(m) == m.good
Md5Matches(m) == m.expected = NoMd5 \/ (m.good /\ m.n = m.expected)

HasMagic(c) == c = Sketch \/ (c[1] > 0 /\ c[2] = 0)

End(even) ==
  /\ Idle /\ isRunning(upd) /\ progress(upd) # 0
  /\ even \/ isFinished(upd)
  /\ \E r \in IF even THEN Flushed ELSE {Unflushed} :
       LET wrong == IF ~Md5Matches(r.md5) THEN {"md5"}
                    ELSE IF r.upd.target = "fs" THEN {}
                    ELSE (IF HasMagic(r.flash[r.upd.start]) THEN {} ELSE {"magic"})
                         \cup {"read"}
           right == Md5Matches(r.md5) /\ (r.upd.target = "flash" => HasMagic(r.flash[r.upd.start]))
       IN  /\ flash' = r.flash /\ md5' = r.md5
           /\ \/ \E e \in wrong : upd' = Fail(r.upd, e) /\ UNCHANGED command
              \/ /\ right
                 /\ upd' = Clear(r.upd)
                 /\ command' = IF r.upd.target = "flash"
                               THEN [src |-> r.upd.start, size |-> r.upd.size, n |-> update.n]
                               ELSE command
  /\ Return
  /\ UNCHANGED update

(* The device restarts and eboot carries out the command (module Eboot).   *)
Restart == /\ Idle /\ command # NoCommand
           /\ flash' = [a \in Unit |-> IF a = 0 THEN Sketch ELSE Old]
           /\ command' = NoCommand
           /\ upd' = Fail(upd, "ok")
           /\ md5' = [n |-> 0, good |-> TRUE, expected |-> NoMd5]
           /\ UNCHANGED <<call, update>>

Next == \/ BeginRefused
        \/ \E size \in Sizes, target \in {"flash", "fs"} : BeginFails(size, target) \/ Begin(size, target)
        \/ \E size \in Sizes : SetMD5(size)
        \/ \E k \in 0..MaxChunk : Write(k) \/ WriteTooMuch(k)
        \/ WriteTurn \/ WriteRest
        \/ WriteAvailable \/ AvailableTurn \/ AvailableDone
        \/ StreamRefused \/ WriteStream \/ StreamTurn \/ StreamTimeout \/ StreamDone
        \/ EndNothing \/ EndNoData \/ EndPremature
        \/ \E even \in BOOLEAN : End(even)
        \/ Restart

Spec == Init /\ [][Next]_vars

-----------------------------------------------------------------------------
Content == {Sketch, Old, Erased, Garbage, Damaged} \cup ((1..MaxBegin) \X Nat)

TypeOK == /\ flash \in [Unit -> Content]
          /\ command \in [src : Nat, size : Nat, n : 0..MaxBegin]
          /\ upd.size \in Nat /\ upd.start \in Nat /\ upd.cur \in Nat
          /\ upd.buffer \in Seq(Content) /\ len(upd) <= upd.bufSize
          /\ upd.bufSize \in Buffers \cup {1} /\ upd.target \in {"flash", "fs"}
          /\ upd.error \in {"ok", "refused", "space", "oom", "erase", "write", "read", "stream",
                            "magic", "md5", "no data"}
          /\ md5.n \in Nat /\ md5.good \in BOOLEAN /\ md5.expected \in Nat \cup {NoMd5}
          /\ update.n \in 0..MaxBegin /\ update.taken \in Nat

(* The command names exactly the units that the write calls have said they *)
(* took, in their order, each programmed into an erased flash.             *)
WholeImage == /\ command.n = update.n /\ command.size = update.taken
              /\ \A i \in 0..(command.size - 1) : flash[command.src + i] \in {Data(i), Damaged}
              /\ upd.error \in {"ok", "refused"}

(* end(true) has lost its last units: the command copies nothing.          *)
FlushLost == /\ command.src = 0 /\ command.size = 0
             /\ upd.error \in {"erase", "write", "refused"}

(* An update that failed, in whatever call and for whatever reason, leaves *)
(* no command, and one that did not the whole of what the writes took.  The*)
(* exception is the flush whose result end(true) ignores (see              *)
(* EndTrueMeansNoError): its command is empty.  ("refused" is the error of *)
(* a later begin().)                                                       *)
StagedIsTaken == command # NoCommand => WholeImage \/ FlushLost

(* With an MD5 set, end() only succeeds if the flash holds the image that  *)
(* was announced.                                                          *)
Md5Guards ==
  command # NoCommand /\ md5.expected # NoMd5 /\ upd.error = "ok" =>
    \A i \in 0..(md5.expected - 1) : flash[command.src + i] = Data(i)

(* An update only changes the flash between the sketch and the file system,*)
(* or in the file system, and there only the sectors it has reserved.      *)
Area(u) == {a \in Unit : /\ a >= u.start /\ a < u.start + Rounded(u.size)
                         /\ IF u.target = "flash" THEN a >= SketchEnd /\ a < FsStart
                            ELSE a >= FsStart}
Contained == [][command = NoCommand =>
                  \A a \in Unit : flash'[a] # flash[a] => a \in Area(upd)]_vars

(* Between calls, what the calls have said they took is in the flash or in *)
(* the buffer.                                                             *)
Accounted == Idle /\ isRunning(upd) => progress(upd) + len(upd) = update.taken

(* The types, and the count of what was taken.                             *)
Inv == TypeOK /\ Accounted

-----------------------------------------------------------------------------
(* What the comments say *)

(* Updater.h, end(): "or there is an error this will clear everything and  *)
(* return false": the command is only written where end() returns true.    *)
EndTrueMeansNoError == command # NoCommand => upd.error = "ok"
=============================================================================
