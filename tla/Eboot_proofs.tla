---------------------------- MODULE Eboot_proofs ----------------------------
(***************************************************************************)
(* The bootloader never starts half a sketch, for every flash size, every  *)
(* set of sketches, every layout of staged files, raw and compressed, that *)
(* overlap their destination or not, and every schedule of resets; and no  *)
(* copy runs into the file system, for any size that damaged bytes give.   *)
(***************************************************************************)
EXTENDS Eboot, TLAPS

LEMMA Tops == /\ Top \in Nat /\ Top >= 1 /\ Gzip \subseteq File
              /\ Chip \in Nat /\ Top <= Chip /\ Garbled \subseteq Nat
  BY EbootAssumption

LEMMA VersionTypes ==
  \A v \in Version : /\ v \in Nat /\ v # 0
                     /\ Loader[v] \in Version
                     /\ Out[v] \in Nat /\ Out[v] >= 1 /\ Out[v] <= Top
<1> SUFFICES ASSUME NEW v \in Version
             PROVE  /\ v \in Nat /\ v # 0
                    /\ Loader[v] \in Version
                    /\ Out[v] \in Nat /\ Out[v] >= 1 /\ Out[v] <= Top
  OBVIOUS
<1>1. v \in Nat /\ v # 0
  BY EbootAssumption
<1>2. Loader[v] \in Version
  BY EbootAssumption
<1>3. Top \in Nat /\ Out[v] \in 1..Top
  BY EbootAssumption
<1> QED BY <1>1, <1>2, <1>3

LEMMA FileTypes ==
  \A f \in File : /\ f \in Nat /\ f # 0
                  /\ Of[f] \in Version
                  /\ Src[f] \in Nat /\ Src[f] >= 1
                  /\ Size[f] \in Nat /\ Size[f] >= 1
                  /\ Src[f] + Size[f] <= Top
                  /\ f \notin Gzip => Size[f] = Out[Of[f]]
<1> SUFFICES ASSUME NEW f \in File
             PROVE  /\ f \in Nat /\ f # 0
                    /\ Of[f] \in Version
                    /\ Src[f] \in Nat /\ Src[f] >= 1
                    /\ Size[f] \in Nat /\ Size[f] >= 1
                    /\ Src[f] + Size[f] <= Top
                    /\ f \notin Gzip => Size[f] = Out[Of[f]]
  OBVIOUS
<1>1. f \in Nat /\ f # 0
  BY EbootAssumption
<1>2. Of[f] \in Version
  BY EbootAssumption
<1>3. Top \in Nat /\ Src[f] \in 1..Top /\ Size[f] \in 1..Top
  BY EbootAssumption
<1>4. Src[f] + Size[f] <= Top /\ (f \notin Gzip => Size[f] = Out[Of[f]])
  BY FileAssumption
<1> QED BY <1>1, <1>2, <1>3, <1>4

(* What uzlib consumes for the output sector j.                            *)
LEMMA NeedTypes ==
  \A f \in File : \A j \in 0..Top : Need[f][j] \in 0..Top
  BY EbootAssumption

(* What is programmed has been erased, so it is in the flash; a command is *)
(* written for a file.                                                     *)
Bounds == /\ pc = "header" => at = 0
          /\ pc \in {"put", "program"} => left > 0
          /\ pc = "program" => at \in Sector
          /\ pc \in {"staged", "magic", "body", "committed"} => staged \in File

TypeInv == TypeOK /\ Bounds

LEMMA ContentOfFiles ==
  /\ Torn \in Content
  /\ \A v \in Version, j \in Nat : Raw(v, j) \in Content
  /\ \A f \in File, k \in 0..Top : FileSector(f, k) \in Content
<1> USE Tops, VersionTypes, FileTypes
<1>1. Torn \in Content
  BY DEF Content, Torn
<1>2. ASSUME NEW v \in Version, NEW j \in Nat PROVE Raw(v, j) \in Content
  <2>1. v \in Nat /\ Loader[v] \in Nat
    OBVIOUS
  <2>2. <<"raw", Loader[v], 0>> \in Content /\ <<"raw", v, j>> \in Content
    BY <2>1 DEF Content
  <2> QED BY <2>2 DEF Raw
<1>3. ASSUME NEW f \in File, NEW k \in 0..Top PROVE FileSector(f, k) \in Content
  <2>1. Of[f] \in Version /\ f \in Nat /\ k \in Nat
    OBVIOUS
  <2>2. Zip(f, k) \in Content
    BY <2>1 DEF Content, Zip
  <2> QED BY <2>1, <2>2, <1>2 DEF FileSector
<1> QED BY <1>1, <1>2, <1>3

LEMMA InitTypeInv == Init => TypeInv
<1> SUFFICES ASSUME Init PROVE TypeInv
  OBVIOUS
<1> USE Tops DEF Init
<1>1. flash \in [Sector -> Content]
  <2>1. PICK v \in Version : flash = [a \in Sector |-> IF a < Out[v] THEN Raw(v, a)
                                                     ELSE IF a < Top THEN Torn ELSE Data(a)]
    OBVIOUS
  <2>2. \A a \in Sector : a \in Nat /\ Data(a) \in Content
    BY DEF Sector, Data, Content
  <2> QED BY <2>1, <2>2, ContentOfFiles
<1>2. buffer \in Content
  BY ContentOfFiles
<1>3. rtc \in [magic : BOOLEAN, body : Command, crc : Command] /\ cmd \in Command
  <2>1. 0 \in 0..Top /\ Top \in 0..Top
    OBVIOUS
  <2> QED BY <2>1 DEF Command, NoCommand, NoCrc
<1>4. zip \in File \cup {NoFile} /\ staged \in File \cup {NoFile}
  BY DEF NoFile
<1>5. at \in 0..Chip /\ left \in Nat /\ used \in 0..Top
  OBVIOUS
<1>6. /\ pc = "reset"
      /\ good \in BOOLEAN /\ ok \in BOOLEAN /\ rewriting \in BOOLEAN /\ mishap \in BOOLEAN
  BY Zenon
<1> HIDE DEF Init
<1>7. TypeOK
  BY <1>1, <1>2, <1>3, <1>4, <1>5, <1>6 DEF TypeOK
<1> QED BY <1>7, <1>6 DEF TypeInv, Bounds

LEMMA NextTypeInv == TypeInv /\ [Next]_vars => TypeInv'
<1> SUFFICES ASSUME TypeInv, [Next]_vars PROVE TypeInv'
  OBVIOUS
<1> USE Tops, FileTypes
<1> USE DEF TypeInv, TypeOK, Bounds
<1>1. ASSUME NEW f \in File, Stage(f) PROVE TypeInv'
  <2>1. flash' \in [Sector -> Content]
    <3>1. ASSUME NEW a \in Sector, a \in Src[f]..(Src[f] + Size[f] - 1)
          PROVE  FileSector(f, a - Src[f]) \in Content
      <4>1. a \in Nat /\ a >= Src[f] /\ a < Top
        BY <3>1 DEF Sector
      <4>2. a - Src[f] \in 0..Top
        BY <4>1
      <4> QED BY <4>2, ContentOfFiles
    <3> QED BY <1>1, <3>1 DEF Stage
  <2> QED BY <1>1, <2>1 DEF Stage, copyVars
<1>2. CASE WriteMagic
  BY <1>2 DEF WriteMagic, copyVars
<1>3. CASE WriteBody
  BY <1>3 DEF WriteBody, copyVars, CommandFor, Command, NoFile
<1>4. CASE WriteCrc
  BY <1>4 DEF WriteCrc, copyVars
<1>5. CASE Brick \/ Load
  BY <1>5 DEF Brick, Load, copyVars
<1>6. CASE BootCommand
  BY <1>6 DEF BootCommand
<1>7. CASE BootPlain
  BY <1>7 DEF BootPlain, NoCommand, Command
<1>8. CASE Header
  <2>1. cmd.n \in 0..Top /\ at = 0
    BY <1>8 DEF Header, Command
  <2>2. \A f \in Gzip : OutputSectors(f) \subseteq Nat
    BY VersionTypes DEF OutputSectors
  <2> QED BY <1>8, <2>1, <2>2 DEF Header, RawSectors, NoFile
<1>9. CASE FetchRaw
  <2>1. At(RawSource) \in Content
    BY ContentOfFiles DEF At
  <2> QED BY <1>9, <2>1 DEF FetchRaw, More
<1>10. CASE FetchGzip
  <2>1. zip \in File /\ at \in Nat /\ Of[zip] \in Version
    BY <1>10 DEF FetchGzip
  <2>2. used' \in 0..Top
    <3>1. CASE at < Out[Of[zip]]
      <4>1. Need[zip][at] \in 0..Top
        BY <2>1, <3>1, NeedTypes, VersionTypes
      <4> QED BY <1>10, <3>1, <4>1 DEF FetchGzip, LastOf
    <3>2. CASE ~(at < Out[Of[zip]])
      BY <1>10, <3>2 DEF FetchGzip
    <3> QED BY <3>1, <3>2
  <2>3. Raw(Of[zip], at) \in Content
    BY <2>1, ContentOfFiles
  <2>4. good' \in BOOLEAN
    BY <1>10 DEF FetchGzip
  <2> QED BY <1>10, <2>2, <2>3, <2>4, ContentOfFiles DEF FetchGzip, More
<1>11. CASE SkipLoader
  BY <1>11 DEF SkipLoader, SameAsLoader, Advance
<1>12. CASE Erase
  <2>1. flash' \in [Sector -> Content]
    BY <1>12, ContentOfFiles DEF Erase
  <2>2. at' = at /\ left' = left /\ at \in Sector /\ pc' = "program" /\ rewriting' = TRUE
    BY <1>12 DEF Erase, copyVars
  <2> QED BY <1>12, <2>1, <2>2 DEF Erase, copyVars
<1>21. CASE EraseRefused
  BY <1>21 DEF EraseRefused
<1>13. CASE Program
  <2>1. flash' \in [Sector -> Content]
    BY <1>13 DEF Program
  <2>2. at' \in 0..Chip /\ left' \in Nat
    BY <1>13 DEF Program, Advance, Sector
  <2> QED BY <1>13, <2>1, <2>2 DEF Program
<1>14. CASE Copied
  BY <1>14 DEF Copied, AfterCopy
<1>15. CASE ClearMagic
  BY <1>15 DEF ClearMagic, copyVars
<1>16. CASE ClearCrc
  BY <1>16 DEF ClearCrc, copyVars, NoCrc, Command
<1>17. CASE Reset
  <2>1. mishap' \in BOOLEAN
    BY <1>17 DEF Reset
  <2> QED BY <1>17, <2>1 DEF Reset, copyVars
<1>18. CASE PowerLoss
  BY <1>18 DEF PowerLoss, copyVars, NoCommand, NoCrc, Command
<1>19. CASE FailedAccess
  <2>1. flash' \in [Sector -> Content]
    <3>1. flash' = flash \/ \E c \in {flash[at], Torn} : at \in Sector /\ flash' = [flash EXCEPT ![at] = c]
      BY <1>19 DEF FailedAccess, Sector
    <3> QED BY <3>1, ContentOfFiles
  <2>2. /\ zip' \in File \cup {NoFile} /\ left' \in Nat
        /\ good' \in BOOLEAN /\ ok' \in BOOLEAN /\ mishap' \in BOOLEAN
    <3>1. cmd.n \in Nat /\ RawSectors(cmd.n) \in Nat
      BY DEF RawSectors, Command
    <3>2. left' = left \/ left' \in Garbled \/ left' = RawSectors(cmd.n)
      BY <1>19 DEF FailedAccess
    <3>3. left' \in Nat
      BY <3>1, <3>2
    <3>4. zip' \in File \cup {NoFile}
      BY <1>19 DEF FailedAccess
    <3>5. good' \in BOOLEAN /\ ok' \in BOOLEAN /\ mishap' \in BOOLEAN
      BY <1>19 DEF FailedAccess
    <3> QED BY <3>3, <3>4, <3>5
  <2>5. used' \in 0..1 \/ used' = used
    BY <1>19 DEF FailedAccess
  <2>6. used' \in 0..Top
    BY <2>5
  <2>3. pc' \in {"fetch", "clear", "reset"} /\ at' = at
    BY <1>19 DEF FailedAccess
  <2> QED BY <1>19, <2>1, <2>2, <2>3, <2>6 DEF FailedAccess
<1>20. CASE UNCHANGED vars
  BY <1>20 DEF vars, copyVars
<1> QED BY <1>1, <1>2, <1>3, <1>4, <1>5, <1>6, <1>7, <1>8, <1>9, <1>10, <1>11, <1>12, <1>13,
           <1>14, <1>15, <1>16, <1>17, <1>18, <1>19, <1>20, <1>21 DEF Next, Loading

(* Every variable keeps its type, also when a copy reads a wrong size.     *)
THEOREM SpecTypeOK == Spec => []TypeOK
<1>1. Spec => []TypeInv
  BY InitTypeInv, NextTypeInv, PTL DEF Spec
<1> QED BY <1>1, PTL DEF TypeInv

-----------------------------------------------------------------------------
Copying == {"header", "fetch", "put", "program", "clear"}

(* The staged file is as it was staged, from the sector lo of the flash on.*)
SourceFrom(lo) ==
  \A k \in 0..(Size[staged] - 1) :
     Src[staged] + k >= lo => flash[Src[staged] + k] = FileSector(staged, k)

(* A checksum in RTC memory is that of the command for the file staged     *)
(* last, and a valid command is there only until the copy is done.         *)
RtcInv ==
  /\ \/ rtc.crc = NoCrc
     \/ /\ rtc.crc = rtc.body /\ staged \in File /\ rtc.body = CommandFor(staged)
        /\ rtc.magic \/ pc = "clearCrc"
  /\ rtc.body # NoCrc
  /\ pc \in {"magic", "body"} => rtc.magic
  /\ pc = "body" => rtc.body = CommandFor(staged)
  /\ pc \in {"staged", "magic", "body"} => rtc.crc = NoCrc
  /\ pc \in Copying => Valid
  /\ pc = "clearCrc" => ~rtc.magic /\ staged \in File
  /\ Valid => pc \in {"committed", "reset", "dead"} \cup Copying

(* A sketch that is partly rewritten has its command.                      *)
SketchInv ==
  /\ ~rewriting => \E v \in Version : Whole(v)
  /\ rewriting => Valid /\ pc \in {"reset", "dead", "header", "fetch", "put", "program"}
  /\ pc = "program" => rewriting

(* Until the copy starts the whole staged file is there.                   *)
SourceInv ==
  \/ pc \in {"staged", "magic", "body"}
  \/ Valid /\ pc \in {"committed", "reset", "header"}
  => SourceFrom(0)

(* What copy_raw() has done, and has left to do it from.                   *)
CopyInv ==
  /\ pc \in Copying => cmd = CommandFor(staged)
  /\ pc \in {"fetch", "put", "program"} =>
       /\ zip = IF staged \in Gzip THEN staged ELSE NoFile
       /\ left = Out[Of[staged]] - at
       /\ good
       /\ \A j \in 0..(at - 1) : flash[j] = Raw(Of[staged], j)
  /\ pc \in {"fetch", "put", "clear"} => SourceFrom(at)
  /\ pc = "program" => SourceFrom(at + 1)
  /\ pc = "fetch" /\ staged \in Gzip => Src[staged] + used >= at
  /\ pc \in {"put", "program"} => buffer = Raw(Of[staged], at)
  /\ pc \in {"put", "program"} /\ staged \in Gzip => Src[staged] + used > at
  /\ pc \in {"clear", "clearCrc"} => ok /\ Whole(Of[staged])

(* Unless what no bootloader survives has happened.                        *)
Safe == RtcInv /\ SketchInv /\ SourceInv /\ CopyInv
Inv == TypeInv /\ (~mishap => Safe /\ FileSystemKept)

LEMMA InitInv == Init => Inv
<1> SUFFICES ASSUME Init PROVE Inv
  OBVIOUS
<1>1. TypeInv
  BY InitTypeInv
<1>2. RtcInv /\ ~Valid
  BY Tops DEF Init, RtcInv, Valid, NoCrc, NoCommand, Copying
<1>3. \E v \in Version : Whole(v)
  <2>1. PICK v \in Version : flash = [a \in Sector |-> IF a < Out[v] THEN Raw(v, a)
                                                     ELSE IF a < Top THEN Torn ELSE Data(a)]
    BY DEF Init
  <2>2. \A j \in 0..(Out[v] - 1) : j \in Sector /\ j < Out[v]
    BY VersionTypes, Tops DEF Sector
  <2> QED BY <2>1, <2>2 DEF Whole
<1>4. SketchInv /\ SourceInv /\ CopyInv
  BY <1>2, <1>3 DEF Init, SketchInv, SourceInv, CopyInv, Copying
<1>5. FileSystemKept
  <2>1. PICK v \in Version : flash = [a \in Sector |-> IF a < Out[v] THEN Raw(v, a)
                                                     ELSE IF a < Top THEN Torn ELSE Data(a)]
    BY DEF Init
  <2>2. \A a \in Top..(Chip - 1) : a \in Sector /\ ~(a < Out[v]) /\ ~(a < Top)
    BY VersionTypes, Tops DEF Sector
  <2> QED BY <2>1, <2>2 DEF FileSystemKept
<1> QED BY <1>1, <1>2, <1>4, <1>5 DEF Inv, Safe

(* The steps that touch neither the flash nor what is staged.              *)
LEMMA QuietSteps ==
  ASSUME TypeInv, Safe, ~mishap',
         \/ WriteMagic \/ WriteBody \/ WriteCrc
         \/ Brick \/ BootCommand \/ BootPlain \/ Load
         \/ ClearMagic \/ ClearCrc
  PROVE  Safe'
<1> USE Tops, FileTypes
<1> USE DEF Safe, Copying
<1>1. CASE WriteMagic
  <2>1. RtcInv'
    BY <1>1 DEF WriteMagic, RtcInv, Valid, TypeInv, TypeOK, Bounds, NoCrc, NoCommand, CommandFor, copyVars
  <2>2. SketchInv'
    BY <1>1, <2>1 DEF WriteMagic, SketchInv, RtcInv, Valid, copyVars, Whole
  <2>3. SourceInv'
    BY <1>1, <2>1 DEF WriteMagic, SourceInv, RtcInv, Valid, copyVars, SourceFrom
  <2>4. CopyInv'
    BY <1>1, <2>1 DEF WriteMagic, CopyInv, RtcInv, Valid, copyVars, Whole, SourceFrom
  <2> QED BY <2>1, <2>2, <2>3, <2>4
<1>2. CASE WriteBody
  <2>1. RtcInv'
    BY <1>2 DEF WriteBody, RtcInv, Valid, TypeInv, TypeOK, Bounds, NoCrc, NoCommand, CommandFor, copyVars
  <2>2. SketchInv'
    BY <1>2, <2>1 DEF WriteBody, SketchInv, RtcInv, Valid, copyVars, Whole
  <2>3. SourceInv'
    BY <1>2, <2>1 DEF WriteBody, SourceInv, RtcInv, Valid, copyVars, SourceFrom
  <2>4. CopyInv'
    BY <1>2, <2>1 DEF WriteBody, CopyInv, RtcInv, Valid, copyVars, Whole, SourceFrom
  <2> QED BY <2>1, <2>2, <2>3, <2>4
<1>3. CASE WriteCrc
  <2>1. RtcInv'
    BY <1>3 DEF WriteCrc, RtcInv, Valid, TypeInv, TypeOK, Bounds, NoCrc, NoCommand, CommandFor, copyVars
  <2>2. SketchInv'
    BY <1>3, <2>1 DEF WriteCrc, SketchInv, RtcInv, Valid, copyVars, Whole
  <2>3. SourceInv'
    BY <1>3, <2>1 DEF WriteCrc, SourceInv, RtcInv, Valid, copyVars, SourceFrom
  <2>4. CopyInv'
    BY <1>3, <2>1 DEF WriteCrc, CopyInv, RtcInv, Valid, copyVars, Whole, SourceFrom
  <2> QED BY <2>1, <2>2, <2>3, <2>4
<1>4. CASE Brick
  <2>1. RtcInv'
    BY <1>4 DEF Brick, RtcInv, Valid, TypeInv, TypeOK, Bounds, NoCrc, NoCommand, CommandFor, copyVars
  <2>2. SketchInv'
    BY <1>4, <2>1 DEF Brick, SketchInv, RtcInv, Valid, copyVars, Whole
  <2>3. SourceInv'
    BY <1>4, <2>1 DEF Brick, SourceInv, RtcInv, Valid, copyVars, SourceFrom
  <2>4. CopyInv'
    BY <1>4, <2>1 DEF Brick, CopyInv, RtcInv, Valid, copyVars, Whole, SourceFrom
  <2> QED BY <2>1, <2>2, <2>3, <2>4
<1>5. CASE BootCommand
  <2>1. RtcInv'
    BY <1>5 DEF BootCommand, RtcInv, Valid, TypeInv, TypeOK, Bounds, NoCrc, NoCommand, CommandFor, copyVars
  <2>2. SketchInv'
    BY <1>5, <2>1 DEF BootCommand, SketchInv, RtcInv, Valid, copyVars, Whole
  <2>3. SourceInv'
    BY <1>5, <2>1 DEF BootCommand, SourceInv, RtcInv, Valid, copyVars, SourceFrom
  <2>4. CopyInv'
    BY <1>5, <2>1 DEF BootCommand, CopyInv, RtcInv, Valid, copyVars, Whole, SourceFrom
  <2> QED BY <2>1, <2>2, <2>3, <2>4
<1>6. CASE BootPlain
  <2>1. RtcInv'
    BY <1>6 DEF BootPlain, RtcInv, Valid, TypeInv, TypeOK, Bounds, NoCrc, NoCommand, CommandFor, copyVars
  <2>2. SketchInv'
    BY <1>6, <2>1 DEF BootPlain, SketchInv, RtcInv, Valid, copyVars, Whole
  <2>3. SourceInv'
    BY <1>6, <2>1 DEF BootPlain, SourceInv, RtcInv, Valid, copyVars, SourceFrom
  <2>4. CopyInv'
    BY <1>6, <2>1 DEF BootPlain, CopyInv, RtcInv, Valid, copyVars, Whole, SourceFrom
  <2> QED BY <2>1, <2>2, <2>3, <2>4
<1>7. CASE Load
  <2>1. RtcInv'
    BY <1>7 DEF Load, RtcInv, Valid, TypeInv, TypeOK, Bounds, NoCrc, NoCommand, CommandFor, copyVars
  <2>2. SketchInv'
    BY <1>7, <2>1 DEF Load, SketchInv, RtcInv, Valid, copyVars, Whole
  <2>3. SourceInv'
    BY <1>7, <2>1 DEF Load, SourceInv, RtcInv, Valid, copyVars, SourceFrom
  <2>4. CopyInv'
    BY <1>7, <2>1 DEF Load, CopyInv, RtcInv, Valid, copyVars, Whole, SourceFrom
  <2> QED BY <2>1, <2>2, <2>3, <2>4
<1>8. CASE ClearMagic
  <2>1. RtcInv'
    BY <1>8 DEF ClearMagic, RtcInv, Valid, TypeInv, TypeOK, Bounds, NoCrc, NoCommand, CommandFor, copyVars
  <2>2. SketchInv'
    BY <1>8, <2>1 DEF ClearMagic, SketchInv, RtcInv, Valid, copyVars, Whole
  <2>3. SourceInv'
    BY <1>8, <2>1 DEF ClearMagic, SourceInv, RtcInv, Valid, copyVars, SourceFrom
  <2>4. CopyInv'
    BY <1>8, <2>1 DEF ClearMagic, CopyInv, RtcInv, Valid, copyVars, Whole, SourceFrom
  <2> QED BY <2>1, <2>2, <2>3, <2>4
<1>9. CASE ClearCrc
  <2>1. RtcInv'
    BY <1>9 DEF ClearCrc, RtcInv, Valid, TypeInv, TypeOK, Bounds, NoCrc, NoCommand, CommandFor, copyVars
  <2>2. SketchInv'
    BY <1>9, <2>1 DEF ClearCrc, SketchInv, RtcInv, Valid, copyVars, Whole
  <2>3. SourceInv'
    BY <1>9, <2>1 DEF ClearCrc, SourceInv, RtcInv, Valid, copyVars, SourceFrom
  <2>4. CopyInv'
    BY <1>9, <2>1 DEF ClearCrc, CopyInv, RtcInv, Valid, copyVars, Whole, SourceFrom
  <2> QED BY <2>1, <2>2, <2>3, <2>4
<1> QED BY <1>1, <1>2, <1>3, <1>4, <1>5, <1>6, <1>7, <1>8, <1>9

(* Where the copy is working there is a staged file.                       *)
LEMMA CopyHasFile ==
  ASSUME TypeInv, Safe, pc \in Copying
  PROVE  /\ staged \in File /\ Valid
         /\ cmd.src = Src[staged] /\ cmd.n = Size[staged]
         /\ Of[staged] \in Version
<1>1. Valid /\ cmd = CommandFor(staged)
  BY DEF Safe, RtcInv, CopyInv
<1>2. staged \in File
  BY <1>1 DEF Safe, RtcInv, Valid
<1> QED BY <1>1, <1>2, FileTypes DEF CommandFor

(* The steps of the copy that only read the flash.                         *)
LEMMA ReadingSteps ==
  ASSUME TypeInv, Safe, ~mishap',
         Header \/ FetchRaw \/ FetchGzip \/ Copied
  PROVE  Safe'
<1> USE Tops, FileTypes, VersionTypes
<1> USE DEF Safe, Copying
<1>0. /\ staged \in File /\ Valid /\ Of[staged] \in Version
      /\ cmd.src = Src[staged] /\ cmd.n = Size[staged]
  BY CopyHasFile DEF Header, FetchRaw, FetchGzip, Copied
<1>1. CASE Header
  <2>1. SourceFrom(0)
    BY <1>1, <1>0 DEF Header, SourceInv
  <2>2. at = 0
    BY <1>1 DEF Header, TypeInv, Bounds
  <2>3. /\ zip' = IF staged \in Gzip THEN staged ELSE NoFile
        /\ left' = Out[Of[staged]]
        /\ staged \in Gzip => used' = 1
    <3>1. \A k \in 0..(Size[staged] - 1) : At(Src[staged] + k) = FileSector(staged, k)
      <4> SUFFICES ASSUME NEW k \in 0..(Size[staged] - 1)
                   PROVE  At(Src[staged] + k) = FileSector(staged, k)
        OBVIOUS
      <4>1. Src[staged] + k \in Sector
        BY <1>0 DEF Sector
      <4>2. Src[staged] + k >= 0
        BY <1>0
      <4> QED BY <2>1, <4>1, <4>2 DEF At, SourceFrom
    <3>2. At(cmd.src) = FileSector(staged, 0)
      <4>1. 0 \in 0..(Size[staged] - 1) /\ Src[staged] + 0 = Src[staged]
        BY <1>0
      <4> QED BY <1>0, <3>1, <4>1
    <3>3. At(cmd.src + cmd.n - 1) = FileSector(staged, Size[staged] - 1)
      <4>1. /\ Size[staged] - 1 \in 0..(Size[staged] - 1)
            /\ Src[staged] + (Size[staged] - 1) = cmd.src + cmd.n - 1
        BY <1>0
      <4> QED BY <3>1, <4>1
    <3>4. CASE staged \in Gzip
      <4>1. At(cmd.src) = Zip(staged, 0)
        BY <3>2, <3>4 DEF FileSector
      <4>2. At(cmd.src + cmd.n - 1) = Zip(staged, Size[staged] - 1)
        BY <3>3, <3>4 DEF FileSector
      <4>3. \A f \in Gzip : At(cmd.src) = Zip(f, 0) => f = staged
        BY <4>1 DEF Zip
      <4>4. OutputSectors(staged) = {Out[Of[staged]]}
        BY <4>2 DEF OutputSectors
      <4> QED BY <1>1, <1>0, <3>4, <4>1, <4>3, <4>4 DEF Header
    <3>5. CASE staged \notin Gzip
      <4>1. At(cmd.src) = <<"raw", Loader[Of[staged]], 0>>
        BY <3>2, <3>5 DEF FileSector, Raw
      <4>2. \A f \in File : At(cmd.src) # Zip(f, 0)
        BY <4>1 DEF Zip
      <4> QED BY <1>1, <1>0, <3>5, <4>2 DEF Header, RawSectors
    <3> QED BY <3>4, <3>5
  <2>4. RtcInv'
    BY <1>1 DEF Header, RtcInv, Valid
  <2>5. SketchInv' /\ SourceInv'
    BY <1>1 DEF Header, SketchInv, SourceInv, Valid, Whole
  <2>6. CopyInv'
    BY <1>0, <1>1, <2>1, <2>2, <2>3 DEF Header, CopyInv, CommandFor, SourceFrom
  <2> QED BY <2>4, <2>5, <2>6
<1>2. CASE FetchRaw
  <2>0. At(cmd.src + at) = Raw(Of[staged], at) /\ staged \notin Gzip
    <3>1. staged \notin Gzip /\ SourceFrom(at) /\ left = Out[Of[staged]] - at
      BY <1>2, <1>0 DEF FetchRaw, CopyInv, NoFile
    <3>2. at \in 0..(Size[staged] - 1) /\ Src[staged] + at >= at
      BY <1>2, <1>0, <3>1 DEF FetchRaw, More, TypeInv, TypeOK
    <3>3. cmd.src + at \in Sector
      BY <1>0, <3>2 DEF Sector
    <3> QED BY <1>0, <3>1, <3>2, <3>3 DEF SourceFrom, FileSector, At
  <2>1. RtcInv'
    BY <1>2, <1>0, <2>0 DEF FetchRaw, RtcInv, Valid, copyVars, More, RawSource
  <2>2. SketchInv'
    BY <1>2, <1>0, <2>0, <2>1 DEF FetchRaw, SketchInv, RtcInv, Valid, copyVars, Whole, More, RawSource
  <2>3. SourceInv'
    BY <1>2, <1>0, <2>0, <2>1 DEF FetchRaw, SourceInv, RtcInv, Valid, copyVars, SourceFrom, More, RawSource
  <2>4. CopyInv'
    BY <1>2, <1>0, <2>0, <2>1 DEF FetchRaw, CopyInv, RtcInv, Valid, copyVars, Whole, SourceFrom, More, RawSource
  <2> QED BY <2>1, <2>2, <2>3, <2>4
<1>3. CASE FetchGzip
  <2>0. good' /\ (staged \in Gzip => Src[staged] + used' > at)
    <3>1. /\ zip = staged /\ staged \in Gzip /\ good /\ SourceFrom(at)
          /\ left = Out[Of[staged]] - at /\ Src[staged] + used >= at
      BY <1>3, <1>0 DEF FetchGzip, CopyInv
    <3>2. at \in Nat /\ used \in 0..Top
      BY DEF TypeInv, TypeOK
    <3>3. at \in 0..(Out[Of[staged]] - 1)
      BY <1>3, <1>0, <3>1, <3>2 DEF FetchGzip, More
    <3>4. /\ Need[staged][at] \in 0..Top /\ Need[staged][at] <= Size[staged]
          /\ at >= Src[staged] => Need[staged][at] > at - Src[staged]
      <4>1. at \in 0..Top
        BY <1>0, <3>3
      <4> QED BY <1>0, <3>1, <3>2, <3>3, <4>1, NeedTypes, FileAssumption
    <3>5. /\ used' = LastOf(used, Need[staged][at])
          /\ good' = (good /\ Intact(LastOf(used, Need[staged][at])))
      BY <1>3, <3>1, <3>3 DEF FetchGzip
    <3>6. Intact(LastOf(used, Need[staged][at]))
      <4> SUFFICES ASSUME NEW k \in used..(LastOf(used, Need[staged][at]) - 1)
                   PROVE  At(cmd.src + k) = Zip(zip, k)
        BY DEF Intact
      <4>1. k \in 0..(Size[staged] - 1) /\ Src[staged] + k >= at
        BY <1>0, <3>1, <3>2, <3>4 DEF LastOf
      <4>2. cmd.src + k \in Sector
        BY <1>0, <4>1 DEF Sector
      <4> QED BY <1>0, <3>1, <4>1, <4>2 DEF SourceFrom, FileSector, At
    <3>7. Src[staged] + used' > at
      BY <1>0, <3>2, <3>4, <3>5 DEF LastOf
    <3> QED BY <3>1, <3>5, <3>6, <3>7
  <2>1. RtcInv'
    BY <1>3, <1>0, <2>0 DEF FetchGzip, RtcInv, Valid, copyVars, More
  <2>2. SketchInv'
    BY <1>3, <1>0, <2>0, <2>1 DEF FetchGzip, SketchInv, RtcInv, Valid, copyVars, Whole, More
  <2>3. SourceInv'
    BY <1>3, <1>0, <2>0, <2>1 DEF FetchGzip, SourceInv, RtcInv, Valid, copyVars, SourceFrom, More
  <2>4. CopyInv'
    BY <1>3, <1>0, <2>0, <2>1 DEF FetchGzip, CopyInv, RtcInv, Valid, copyVars, Whole, SourceFrom, More
  <2> QED BY <2>1, <2>2, <2>3, <2>4
<1>4. CASE Copied
  <2>0. at = Out[Of[staged]]
    BY <1>4, <1>0 DEF Copied, AfterCopy, More, CopyInv, TypeInv, TypeOK
  <2>5. Whole(Of[staged])
    BY <1>4, <2>0 DEF Copied, AfterCopy, CopyInv, Whole
  <2>1. RtcInv'
    BY <1>4, <1>0 DEF Copied, AfterCopy, RtcInv, Valid, copyVars, More
  <2>2. SketchInv'
    BY <1>4, <1>0, <2>0, <2>5, <2>1 DEF Copied, AfterCopy, SketchInv, RtcInv, Valid, copyVars, Whole, More
  <2>3. SourceInv'
    BY <1>4, <1>0, <2>0, <2>5, <2>1 DEF Copied, AfterCopy, SourceInv, RtcInv, Valid, copyVars, SourceFrom, More
  <2>4. CopyInv'
    BY <1>4, <1>0, <2>0, <2>5, <2>1 DEF Copied, AfterCopy, CopyInv, RtcInv, Valid, copyVars, Whole, SourceFrom, More
  <2> QED BY <2>1, <2>2, <2>3, <2>4
<1> QED BY <1>1, <1>2, <1>3, <1>4

(* Resets and power cuts.                                                  *)
LEMMA Interruptions ==
  ASSUME TypeInv, Safe, ~mishap', Reset \/ PowerLoss
  PROVE  Safe'
<1> USE Tops, FileTypes
<1> USE DEF Safe, Copying
<1>0. pc \in Copying => /\ staged \in File
                       /\ cmd.src = Src[staged] /\ cmd.n = Size[staged]
  BY CopyHasFile
<1>1. CASE Reset
  <2>1. RtcInv'
    BY <1>1 DEF Reset, RtcInv, Valid, copyVars, SourceLost, HalfCleared, TypeInv, TypeOK
  <2>2. SketchInv'
    BY <1>1, <2>1 DEF Reset, SketchInv, RtcInv, Valid, copyVars, Whole, SourceLost, HalfCleared, TypeInv, TypeOK
  <2>5. ~mishap /\ ~SourceLost /\ ~HalfCleared
    BY <1>1 DEF Reset
  <2>6. Valid => SourceFrom(0)
    <3>1. CASE pc \in {"committed", "reset", "header"}
      BY <3>1 DEF SourceInv
    <3>2. CASE pc \in {"fetch", "put", "clear"}
      BY <1>0, <2>5, <3>2 DEF CopyInv, SourceLost, SourceFrom, TypeInv, TypeOK
    <3>3. CASE pc = "program"
      BY <1>0, <2>5, <3>3 DEF CopyInv, SourceLost, SourceFrom, TypeInv, TypeOK
    <3>4. pc # "dead"
      BY <1>1 DEF Reset
    <3> QED BY <3>1, <3>2, <3>3, <3>4 DEF RtcInv
  <2>3. SourceInv'
    BY <1>1, <2>1, <2>6 DEF Reset, SourceInv, RtcInv, Valid, copyVars, SourceFrom
  <2>4. CopyInv'
    BY <1>1, <2>1 DEF Reset, CopyInv, RtcInv, Valid, copyVars, Whole, SourceFrom, SourceLost, HalfCleared, TypeInv, TypeOK
  <2> QED BY <2>1, <2>2, <2>3, <2>4
<1>2. CASE PowerLoss
  <2>1. RtcInv'
    BY <1>2 DEF PowerLoss, RtcInv, Valid, copyVars, NoCommand, NoCrc
  <2>2. SketchInv'
    BY <1>2, <2>1 DEF PowerLoss, SketchInv, RtcInv, Valid, copyVars, Whole, NoCommand, NoCrc
  <2>3. SourceInv'
    BY <1>2, <2>1 DEF PowerLoss, SourceInv, RtcInv, Valid, copyVars, SourceFrom, NoCommand, NoCrc
  <2>4. CopyInv'
    BY <1>2, <2>1 DEF PowerLoss, CopyInv, RtcInv, Valid, copyVars, Whole, SourceFrom, NoCommand, NoCrc
  <2> QED BY <2>1, <2>2, <2>3, <2>4
<1> QED BY <1>1, <1>2

(* Staging leaves the sketch alone: it lies below.                         *)
LEMMA StageStep ==
  ASSUME TypeInv, Safe, ~mishap', NEW f \in File, Stage(f)
  PROVE  Safe'
<1> USE Tops, FileTypes, VersionTypes
<1> USE DEF Safe, Copying
<1>1. rtc.crc = NoCrc
  BY DEF Stage, RtcInv, Valid
<1>2. RtcInv'
  BY <1>1 DEF Stage, RtcInv, Valid, copyVars
<1>3. PICK v \in Version : Whole(v) /\ Out[v] <= Src[f]
  BY DEF Stage
<1>4. Whole(v)'
  <2> SUFFICES ASSUME NEW j \in 0..(Out[v] - 1)
               PROVE  flash'[j] = Raw(v, j)
    BY DEF Whole
  <2>1. j \in Sector /\ j \notin Src[f]..(Src[f] + Size[f] - 1)
    BY <1>3 DEF Sector
  <2> QED BY <1>3, <2>1 DEF Stage, Whole
<1>5. ~rewriting
  BY DEF Stage, SketchInv
<1>6. SketchInv'
  BY <1>4, <1>5 DEF Stage, SketchInv
<1>7. SourceFrom(0)'
  <2> SUFFICES ASSUME NEW k \in 0..(Size[f] - 1)
               PROVE  flash'[Src[f] + k] = FileSector(f, k)
    BY DEF Stage, SourceFrom
  <2>1. /\ Src[f] + k \in Sector /\ Src[f] + k \in Src[f]..(Src[f] + Size[f] - 1)
        /\ Src[f] + k - Src[f] = k
    BY DEF Sector
  <2> QED BY <2>1 DEF Stage
<1>8. SourceInv' /\ CopyInv'
  BY <1>7 DEF Stage, SourceInv, CopyInv
<1> QED BY <1>2, <1>6, <1>8

(* The steps of the copy that write: SkipLoader stands for writing the same*)
(* content again.                                                          *)
LEMMA WritingSteps ==
  ASSUME TypeInv, Safe, ~mishap',
         SkipLoader \/ Erase \/ Program
  PROVE  Safe'
<1> USE Tops, FileTypes, VersionTypes
<1> USE DEF Safe, Copying
<1>0. /\ staged \in File /\ Valid /\ Of[staged] \in Version
      /\ at \in Nat /\ left \in Nat /\ used \in 0..Top
  BY CopyHasFile DEF SkipLoader, Erase, Program, TypeInv, TypeOK
<1>1. at \in Sector
  BY DEF SkipLoader, SameAsLoader, Erase, Program, TypeInv, Bounds, Sector
<1>2. CASE SkipLoader
  <2>1. \A j \in 0..(at' - 1) : flash'[j] = Raw(Of[staged], j)
    <3>1. at = 0 /\ at' = 1 /\ flash' = flash /\ flash[0] = Raw(Of[staged], 0)
      BY <1>2 DEF SkipLoader, SameAsLoader, Advance, CopyInv
    <3> QED BY <3>1
  <2>2. RtcInv' /\ SketchInv' /\ SourceInv'
    BY <1>2 DEF SkipLoader, RtcInv, SketchInv, SourceInv, Valid, Whole
  <2>3. CopyInv'
    BY <1>0, <1>2, <2>1 DEF SkipLoader, Advance, CopyInv, CommandFor, SourceFrom
  <2> QED BY <2>2, <2>3
<1>3. CASE Erase
  <2>1. flash' = [flash EXCEPT ![at] = Torn] /\ flash \in [Sector -> Content]
    BY <1>3 DEF Erase, TypeInv, TypeOK
  <2>2. \A a : a # at => flash'[a] = flash[a]
    BY <2>1
  <2>3. SourceFrom(at + 1)'
    BY <1>0, <1>3, <2>2 DEF Erase, CopyInv, SourceFrom, copyVars
  <2>4. \A j \in 0..(at - 1) : flash'[j] = Raw(Of[staged], j)
    BY <1>0, <1>3, <2>2 DEF Erase, CopyInv
  <2>5. RtcInv' /\ SketchInv' /\ SourceInv'
    BY <1>0, <1>3 DEF Erase, RtcInv, SketchInv, SourceInv, Valid
  <2>6. CopyInv'
    BY <1>0, <1>3, <2>3, <2>4 DEF Erase, CopyInv, copyVars
  <2> QED BY <2>5, <2>6
<1>4. CASE Program
  <2>1. flash' = [flash EXCEPT ![at] = buffer] /\ flash \in [Sector -> Content]
    BY <1>4 DEF Program, TypeInv, TypeOK
  <2>2. (\A a : a # at => flash'[a] = flash[a]) /\ flash'[at] = Raw(Of[staged], at)
    BY <1>1, <1>4, <2>1 DEF Program, CopyInv
  <2>3. at' = at + 1 /\ left' = left - 1
    BY <1>4 DEF Program, Advance
  <2>4. SourceFrom(at)'
    BY <1>0, <1>4, <2>2, <2>3 DEF Program, CopyInv, SourceFrom
  <2>5. \A j \in 0..(at' - 1) : flash'[j] = Raw(Of[staged], j)
    BY <1>0, <1>4, <2>2, <2>3 DEF Program, CopyInv
  <2>6. RtcInv' /\ SketchInv' /\ SourceInv'
    BY <1>0, <1>4 DEF Program, RtcInv, SketchInv, SourceInv, Valid
  <2>7. CopyInv'
    BY <1>0, <1>4, <2>3, <2>4, <2>5 DEF Program, CopyInv
  <2> QED BY <2>6, <2>7
<1> QED BY <1>2, <1>3, <1>4

(* An image that has sectors left to copy is at none of them behind        *)
(* FS_start yet.                                                           *)
LEMMA CopyStaysBelow ==
  ASSUME TypeInv, Safe, pc \in {"put", "program"}
  PROVE  at < Top
<1>1. staged \in File /\ Of[staged] \in Version
  BY CopyHasFile DEF Copying
<1>2. left = Out[Of[staged]] - at /\ left > 0
  BY DEF Safe, CopyInv, TypeInv, Bounds
<1>3. at \in Nat
  BY Tops DEF TypeInv, TypeOK
<1> QED BY <1>1, <1>2, <1>3, Tops, VersionTypes

LEMMA FileSystemStep ==
  ASSUME TypeInv, Safe, FileSystemKept, Next, ~FailedAccess
  PROVE  FileSystemKept'
<1> USE Tops, FileTypes
<1>1. flash \in [Sector -> Content] /\ \A a \in Top..(Chip - 1) : a \in Sector /\ a >= Top
  BY DEF TypeInv, TypeOK, Sector
<1>2. CASE Erase \/ Program
  <2>1. at < Top /\ \E c : flash' = [flash EXCEPT ![at] = c]
    BY <1>2, CopyStaysBelow DEF Erase, Program
  <2>2. \A a \in Top..(Chip - 1) : flash'[a] = flash[a]
    BY <1>1, <2>1
  <2> QED BY <2>2 DEF FileSystemKept
<1>3. ASSUME NEW f \in File, Stage(f) PROVE FileSystemKept'
  <2>1. \A a \in Top..(Chip - 1) : a \notin Src[f]..(Src[f] + Size[f] - 1)
    OBVIOUS
  <2>2. \A a \in Top..(Chip - 1) : flash'[a] = flash[a]
    BY <1>1, <1>3, <2>1 DEF Stage
  <2> QED BY <2>2 DEF FileSystemKept
<1>4. CASE UNCHANGED flash
  BY <1>4 DEF FileSystemKept
<1>5. Erase \/ Program \/ (\E f \in File : Stage(f)) \/ UNCHANGED flash
  BY DEF Next, Loading, WriteMagic, WriteBody, WriteCrc, Brick, BootCommand, BootPlain,
         Header, FetchRaw, FetchGzip, SkipLoader, EraseRefused, Copied, ClearMagic, ClearCrc, Load, Reset, PowerLoss
<1> QED BY <1>2, <1>3, <1>4, <1>5

LEMMA NextInv == Inv /\ [Next]_vars => Inv'
<1> SUFFICES ASSUME Inv, [Next]_vars PROVE Inv'
  OBVIOUS
<1> USE DEF Inv
<1>1. TypeInv'
  BY NextTypeInv
<1> SUFFICES ASSUME ~mishap' PROVE Safe' /\ FileSystemKept'
  BY <1>1
<1>2. ~mishap
  BY DEF Next, Loading, vars, Stage, WriteMagic, WriteBody, WriteCrc, Brick, BootCommand, BootPlain,
         Header, FetchRaw, FetchGzip, SkipLoader, Erase, EraseRefused, Program, Copied, AfterCopy, ClearMagic, ClearCrc,
         Load, Reset, PowerLoss, FailedAccess
<1>3. ~FailedAccess
  BY DEF FailedAccess
<1>4. CASE UNCHANGED vars
  BY <1>2, <1>4 DEF vars, copyVars, Safe, RtcInv, SketchInv, SourceInv, CopyInv, Valid, Whole, SourceFrom, FileSystemKept
<1>5. CASE Next
  <2>1. ~EraseRefused
    <3> SUFFICES ASSUME EraseRefused PROVE FALSE
      OBVIOUS
    <3>1. at < Top
      BY <1>2, CopyStaysBelow DEF EraseRefused
    <3> QED BY <3>1, Tops DEF EraseRefused, Sector, TypeInv, TypeOK
  <2>2. Safe'
    BY <1>2, <1>3, <1>5, <2>1, StageStep, WritingSteps, ReadingSteps, QuietSteps, Interruptions DEF Next, Loading
  <2>3. FileSystemKept'
    BY <1>2, <1>3, <1>5, FileSystemStep
  <2> QED BY <2>2, <2>3
<1> QED BY <1>4, <1>5

LEMMA SpecInv == Spec => []Inv
  BY InitInv, NextInv, PTL DEF Spec

(* Whatever the resets, the sketch the bootloader starts is one image, from*)
(* its first sector to its last.                                           *)
THEOREM SpecBootsWholeImage == Spec => []BootsWholeImage
<1>1. Inv => BootsWholeImage
  BY DEF Inv, Safe, SketchInv, BootsWholeImage
<1> QED BY <1>1, SpecInv, PTL

(* A copy that is reported done has installed exactly the staged image,   *)
(* and none has touched anything behind FS_start, for any sizes that a     *)
(* damaged end of a gzip file may give.                                    *)
THEOREM SpecCopyInstallsStaged == Spec => []CopyInstallsStaged
<1>1. Inv => CopyInstallsStaged
  BY DEF Inv, Safe, CopyInv, CopyInstallsStaged
<1> QED BY <1>1, SpecInv, PTL

(* Only the erasure of a sector 0 that differs from the staged one takes   *)
(* the bootloader away.                                                    *)
LEMMA LoaderStep ==
  ASSUME Inv, [Next]_vars, ~mishap', HoldsLoader(0), flash'[0] = Torn
  PROVE  flash[0] # Raw(Of[staged], 0)
<1> USE Tops, FileTypes
<1>0. ~mishap
  BY DEF Next, Loading, vars, Stage, WriteMagic, WriteBody, WriteCrc, Brick, BootCommand, BootPlain,
         Header, FetchRaw, FetchGzip, SkipLoader, Erase, EraseRefused, Program, Copied, AfterCopy, ClearMagic, ClearCrc,
         Load, Reset, PowerLoss, FailedAccess
<1>1. ~mishap /\ ~FailedAccess
  BY <1>0 DEF FailedAccess
<1>2. 0 \in Sector /\ flash \in [Sector -> Content] /\ at \in 0..Chip
  BY DEF Sector, Inv, TypeInv, TypeOK
<1>3. flash[0] # Torn
  BY DEF HoldsLoader, Torn
<1>4. CopyInv
  BY <1>1 DEF Inv, Safe
<1>5. CASE Erase
  <2>1. at = 0
    BY <1>2, <1>3, <1>5 DEF Erase
  <2>2. flash[0] # buffer /\ buffer = Raw(Of[staged], 0)
    BY <1>4, <1>5, <2>1 DEF Erase, SameAsLoader, CopyInv
  <2> QED BY <2>2
<1>6. CASE Program
  <2>1. at = 0 /\ buffer = Torn
    BY <1>2, <1>3, <1>6 DEF Program
  <2>2. buffer = Raw(Of[staged], 0)
    BY <1>4, <1>6, <2>1 DEF Program, CopyInv
  <2>3. Raw(Of[staged], 0) # Torn
    BY DEF Raw, Torn
  <2> QED BY <2>1, <2>2, <2>3
<1>7. ASSUME NEW f \in File, Stage(f) PROVE FALSE
  <2>1. Src[f] > 0
    OBVIOUS
  <2>2. flash'[0] = flash[0]
    BY <1>2, <1>7, <2>1 DEF Stage
  <2> QED BY <1>3, <2>2
<1>8. CASE UNCHANGED flash
  BY <1>3, <1>8
<1>9. Erase \/ Program \/ (\E f \in File : Stage(f)) \/ UNCHANGED flash
  BY <1>1 DEF Next, Loading, vars, WriteMagic, WriteBody, WriteCrc, Brick, BootCommand, BootPlain,
         Header, FetchRaw, FetchGzip, SkipLoader, EraseRefused, Copied, ClearMagic, ClearCrc, Load, Reset, PowerLoss
<1> QED BY <1>5, <1>6, <1>7, <1>8, <1>9

(* An update that carries the same bootloader leaves the device able to    *)
(* boot after every reset.                                                 *)
THEOREM SpecNeverBricked == Spec => NeverBricked
<1>1. Inv /\ [Next]_vars =>
        [~mishap' /\ HoldsLoader(0) /\ flash'[0] = Torn => flash[0] # Raw(Of[staged], 0)]_vars
  BY LoaderStep
<1> QED BY <1>1, SpecInv, PTL DEF Spec, NeverBricked

-----------------------------------------------------------------------------
(* The command is gone when the sketch is loaded, also after errors.       *)
Spent == /\ pc = "clearCrc" => ~rtc.magic
         /\ pc = "load" => ~Valid

LEMMA NextSpent == TypeInv /\ Spent /\ [Next]_vars => Spent' /\ (pc' = "app" /\ pc # "app" => ~Valid')
<1> SUFFICES ASSUME TypeInv, Spent, [Next]_vars
             PROVE  Spent' /\ (pc' = "app" /\ pc # "app" => ~Valid')
  OBVIOUS
<1> USE DEF TypeInv, TypeOK, Spent, Valid
<1>1. CASE UNCHANGED vars
  BY <1>1 DEF vars
<1>2. CASE ClearMagic
  BY <1>2 DEF ClearMagic
<1>3. CASE ClearCrc
  BY <1>3 DEF ClearCrc
<1>4. CASE Load
  BY <1>4 DEF Load
<1>5. CASE Next /\ ~ClearMagic /\ ~ClearCrc /\ ~Load
  BY <1>5 DEF Next, Loading, Stage, WriteMagic, WriteBody, WriteCrc, Brick, BootCommand, BootPlain,
         Header, FetchRaw, FetchGzip, SkipLoader, Erase, EraseRefused, Program, Copied, AfterCopy, Reset, PowerLoss, FailedAccess
<1> QED BY <1>1, <1>2, <1>3, <1>4, <1>5

(* The sketch is never started with the command still in RTC memory,       *)
(* whatever fails.                                                         *)
THEOREM SpecCommandSpent == Spec => CommandSpent
<1>1. Init => Spent
  BY DEF Init, Spent
<1>2. TypeInv /\ Spent /\ [Next]_vars => [pc' = "app" /\ pc # "app" => ~Valid']_vars
  BY NextSpent
<1>3. Spec => []TypeInv
  BY InitTypeInv, NextTypeInv, PTL DEF Spec
<1> QED BY <1>1, <1>2, <1>3, NextSpent, PTL DEF Spec, CommandSpent
=============================================================================
