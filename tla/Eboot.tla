------------------------------- MODULE Eboot -------------------------------
(***************************************************************************)
(* The second-stage bootloader (bootloaders/eboot): at every reset it      *)
(* reads a command from RTC memory; a COPY_RAW command makes it copy the   *)
(* image an update has staged high in the flash, raw or gzip-compressed,   *)
(* over the sketch at address 0, sector by sector, clear the command and   *)
(* load the sketch.  The device can be reset between any two steps (the    *)
(* RTC memory survives) or lose power (it does not), and a flash access    *)
(* can fail.  The flash is an array of sectors; the content of a sector is *)
(* which part of which image it holds, or of the file system behind        *)
(* FS_start, which nothing but a copy can reach here.  The running         *)
(* application is reduced to what Updater promises: it stages a file above *)
(* the running sketch, writes the command and restarts.                    *)
(***************************************************************************)
EXTENDS Integers

CONSTANTS Top,        \* sectors below FS_start
          Chip,       \* sectors of the flash
          Version,    \* the sketches
          Out,        \* their sizes in sectors
          Loader,     \* which eboot each sketch carries in its sector 0
          File,       \* the files an update may stage
          Gzip,       \* those that are gzip-compressed
          Of,         \* the sketch each file holds
          Src, Size,   \* where each file is staged, and its sectors
          Need,       \* sectors of a file consumed to produce an output sector
          Garbled,    \* sizes, in sectors, that wrong bytes at the end of a gzip file give
          MayLosePower, MayFail

ASSUME EbootAssumption ==
  /\ Top \in Nat \ {0} /\ Chip \in Nat /\ Top <= Chip
  /\ Out \in [Version -> 1..Top]
  /\ Loader \in [Version -> Version]
  /\ Version \subseteq Nat \ {0} /\ File \subseteq Nat \ {0}
  /\ Gzip \subseteq File
  /\ Of \in [File -> Version]
  /\ Src \in [File -> 1..Top] /\ Size \in [File -> 1..Top]
  /\ Need \in [File -> [0..Top -> 0..Top]]
  /\ Garbled \subseteq Nat
  /\ MayLosePower \in BOOLEAN /\ MayFail \in BOOLEAN

(* Raw files are as long as the sketch; a gzip file lies in front of       *)
(* FS_start and no sector of it is overwritten before it is consumed.      *)
ASSUME FileAssumption ==
  \A f \in File :
    /\ Src[f] + Size[f] <= Top
    /\ f \notin Gzip => Size[f] = Out[Of[f]]
    /\ f \in Gzip =>
         /\ \A j \in 0..(Out[Of[f]] - 1) : /\ Need[f][j] <= Size[f]
                                           /\ j >= Src[f] => Need[f][j] > j - Src[f]
         /\ \A i, j \in 0..(Out[Of[f]] - 1) : i <= j => Need[f][i] <= Need[f][j]

VARIABLES flash,
          rtc,               \* struct eboot_command in RTC memory
          pc,
          cmd,               \* main(): a command here is one to clear
          zip, at, left,     \* copy_raw(): the stream, sectors done and to do
          used, good,        \* uzlib: sectors consumed, and all as they should be
          buffer, ok,        \* ok: copy_raw() returned 0
          staged,            \* the file staged last
          rewriting,         \* history: the copy has erased a sector and is not done
          mishap             \* what no bootloader survives has happened

copyVars == <<cmd, zip, at, left, used, good, buffer, ok>>
vars == <<flash, rtc, pc, copyVars, staged, rewriting, mishap>>

Sector == 0..(Chip - 1)
NoFile == 0
NoCommand == [src |-> 0, n |-> 0]
NoCrc == [src |-> 0, n |-> Top]      \* a checksum no body in use has
Command == [src : 0..Top, n : 0..Top]

(* What a sector can hold.  Torn stands for erased or half-programmed.     *)
Raw(v, j) == IF j = 0 THEN <<"raw", Loader[v], 0>> ELSE <<"raw", v, j>>
Zip(f, k) == <<"zip", f, k>>
Torn == <<"torn", 0, 0>>
Data(a) == <<"fs", 0, a>>
Content == {"raw", "zip", "torn", "fs"} \X Nat \X Nat

FileSector(f, k) == IF f \in Gzip THEN Zip(f, k) ELSE Raw(Of[f], k)
At(a) == IF a \in Sector THEN flash[a] ELSE Torn

(* eboot_command_read(): the checksum is taken as the body it is of.       *)
Valid == rtc.magic /\ rtc.crc = rtc.body

Whole(v) == \A j \in 0..(Out[v] - 1) : flash[j] = Raw(v, j)

FileSystemKept == \A a \in Top..(Chip - 1) : flash[a] = Data(a)

Init == /\ \E v \in Version : flash = [a \in Sector |-> IF a < Out[v] THEN Raw(v, a)
                                                      ELSE IF a < Top THEN Torn ELSE Data(a)]
        /\ rtc = [magic |-> FALSE, body |-> NoCommand, crc |-> NoCrc]
        /\ pc = "reset"
        /\ cmd = NoCommand
        /\ zip = NoFile /\ at = 0 /\ left = 0 /\ used = 0 /\ good = TRUE
        /\ buffer = Torn /\ ok = FALSE
        /\ staged = NoFile /\ rewriting = FALSE /\ mishap = FALSE

-----------------------------------------------------------------------------
(* The running application (what Updater does, see module Updater): a file *)
(* is staged above the running sketch, then the command is written word by *)
(* word: the magic, the body, the checksum.                                *)

Stage(f) == /\ pc = "app" /\ ~Valid
            /\ \E v \in Version : Whole(v) /\ Out[v] <= Src[f]
            /\ flash' = [a \in Sector |-> IF a \in Src[f]..(Src[f] + Size[f] - 1)
                                          THEN FileSector(f, a - Src[f]) ELSE flash[a]]
            /\ staged' = f
            /\ pc' = "staged"
            /\ UNCHANGED <<rtc, copyVars, rewriting, mishap>>

CommandFor(f) == [src |-> Src[f], n |-> Size[f]]

WriteMagic == /\ pc = "staged"
              /\ rtc' = [rtc EXCEPT !.magic = TRUE]
              /\ pc' = "magic"
              /\ UNCHANGED <<flash, copyVars, staged, rewriting, mishap>>

WriteBody == /\ pc = "magic"
             /\ rtc' = [rtc EXCEPT !.body = CommandFor(staged)]
             /\ pc' = "body"
             /\ UNCHANGED <<flash, copyVars, staged, rewriting, mishap>>

WriteCrc == /\ pc = "body"
            /\ rtc' = [rtc EXCEPT !.crc = rtc.body]
            /\ pc' = "committed"
            /\ UNCHANGED <<flash, copyVars, staged, rewriting, mishap>>

-----------------------------------------------------------------------------
(* main(): the ROM has loaded sector 0, if there is an eboot in it.        *)

HoldsLoader(a) == \E v \in Version : flash[a] = <<"raw", v, 0>>

Brick == /\ pc = "reset" /\ ~HoldsLoader(0)
         /\ pc' = "dead"
         /\ UNCHANGED <<flash, rtc, copyVars, staged, rewriting, mishap>>

BootCommand == /\ pc = "reset" /\ HoldsLoader(0)
               /\ Valid
               /\ cmd' = rtc.body /\ at' = 0
               /\ pc' = "header"
               /\ UNCHANGED <<flash, rtc, zip, left, used, good, buffer, ok, staged, rewriting, mishap>>

BootPlain == /\ pc = "reset" /\ HoldsLoader(0)
             /\ ~Valid
             /\ cmd' = NoCommand /\ at' = 0
             /\ pc' = "load"
             /\ UNCHANGED <<flash, rtc, zip, left, used, good, buffer, ok, staged, rewriting, mishap>>

-----------------------------------------------------------------------------
(* copy_raw() *)

(* "Find real size as encoded at the end", whatever is found there.        *)
OutputSectors(f) ==
  IF At(cmd.src + cmd.n - 1) = Zip(f, Size[f] - 1) THEN {Out[Of[f]]} ELSE Garbled

(* The size rounded up to sectors; without the rounding the last is lost.  *)
RawSectors_Short(n) == n - 1
RawSectors(n) == n

(* The first two bytes decide; uzlib reads the first sector for the header.*)
Header == /\ pc = "header"
          /\ \/ \E f \in Gzip : /\ At(cmd.src) = Zip(f, 0)
                                /\ zip' = f /\ used' = 1
                                /\ left' \in OutputSectors(f)
             \/ /\ \A f \in File : At(cmd.src) # Zip(f, 0)
                /\ zip' = NoFile /\ used' = 0
                /\ left' = RawSectors(cmd.n)
          /\ good' = TRUE
          /\ pc' = "fetch"
          /\ UNCHANGED <<flash, rtc, cmd, at, buffer, ok, staged, rewriting, mishap>>

More == left > 0

RawSource_Fixed == cmd.src
RawSource == cmd.src + at

FetchRaw == /\ pc = "fetch" /\ More /\ zip = NoFile
            /\ buffer' = At(RawSource)
            /\ pc' = "put"
            /\ UNCHANGED <<flash, rtc, cmd, zip, at, left, used, good, ok, staged, rewriting, mishap>>

(* What uzlib has to consume for this output sector is as it was staged.   *)
Intact(upto) == \A k \in used..(upto - 1) : At(cmd.src + k) = Zip(zip, k)
LastOf(a, b) == IF a > b THEN a ELSE b

(* A stream that is damaged, or read past its end, is noticed              *)
(* (TINF_DATA_ERROR) or yields rubbish.                                    *)
FetchGzip == /\ pc = "fetch" /\ More /\ zip # NoFile
             /\ IF at < Out[Of[zip]]
                THEN LET upto == LastOf(used, Need[zip][at])
                     IN  used' = upto /\ good' = (good /\ Intact(upto))
                ELSE used' = used /\ good' = FALSE
             /\ \/ /\ good' /\ buffer' = Raw(Of[zip], at) /\ pc' = "put" /\ UNCHANGED ok
                \/ /\ ~good' /\ buffer' = Torn /\ pc' = "put" /\ UNCHANGED ok
                \/ /\ ~good' /\ ok' = FALSE /\ pc' = "clear" /\ UNCHANGED buffer
             /\ UNCHANGED <<flash, rtc, cmd, zip, at, left, staged, rewriting, mishap>>

Advance_Stuck == UNCHANGED <<at, left>>
Advance == at' = at + 1 /\ left' = left - 1

(* "Only erase and rewrite if the data is different".                      *)
SameAsLoader_Never == FALSE
SameAsLoader == at = 0 /\ flash[0] = buffer

SkipLoader == /\ pc = "put"
              /\ SameAsLoader
              /\ Advance
              /\ pc' = "fetch"
              /\ UNCHANGED <<flash, rtc, cmd, zip, used, good, buffer, ok, staged, rewriting, mishap>>

Erase == /\ pc = "put" /\ at \in Sector
         /\ ~SameAsLoader
         /\ flash' = [flash EXCEPT ![at] = Torn]
         /\ rewriting' = TRUE
         /\ pc' = "program"
         /\ UNCHANGED <<rtc, copyVars, staged, mishap>>

(* SPIEraseSector refuses a sector past the end of the chip.               *)
EraseRefused == /\ pc = "put" /\ at \notin Sector
                /\ ok' = FALSE
                /\ pc' = "clear"
                /\ UNCHANGED <<flash, rtc, cmd, zip, at, left, used, good, buffer, staged, rewriting, mishap>>

Program == /\ pc = "program"
           /\ flash' = [flash EXCEPT ![at] = buffer]
           /\ Advance
           /\ pc' = "fetch"
           /\ UNCHANGED <<rtc, cmd, zip, used, good, buffer, ok, staged, rewriting, mishap>>

(* clear_cmd                                                               *)
AfterCopy_NoClear == "load"
AfterCopy == "clear"

Copied == /\ pc = "fetch" /\ ~More
          /\ ok' = TRUE
          /\ rewriting' = FALSE
          /\ pc' = AfterCopy
          /\ UNCHANGED <<flash, rtc, cmd, zip, at, left, used, good, buffer, staged, mishap>>

-----------------------------------------------------------------------------
(* main(), after the copy *)

ClearMagic == /\ pc = "clear"
              /\ rtc' = [rtc EXCEPT !.magic = FALSE]
              /\ pc' = "clearCrc"
              /\ UNCHANGED <<flash, copyVars, staged, rewriting, mishap>>

ClearCrc == /\ pc = "clearCrc"
            /\ rtc' = [rtc EXCEPT !.crc = NoCrc]
            /\ pc' = IF ok THEN "load" ELSE "reset"      \* SWRST
            /\ UNCHANGED <<flash, copyVars, staged, rewriting, mishap>>

Load == /\ pc = "load"
        /\ pc' = "app"
        /\ UNCHANGED <<flash, rtc, copyVars, staged, rewriting, mishap>>

-----------------------------------------------------------------------------
(* Resets, power and flash errors *)

(* The copy has begun to overwrite the image it copies, and the command is *)
(* still there.                                                            *)
SourceLost == \/ pc \in {"fetch", "put", "clear"} /\ at > cmd.src
              \/ pc = "program" /\ at >= cmd.src

(* The command is half cleared: its body and checksum still match.         *)
HalfCleared == pc = "clearCrc"

Reset == /\ pc \notin {"reset", "dead"}
         /\ pc' = "reset"
         /\ mishap' = (mishap \/ SourceLost \/ HalfCleared)
         /\ UNCHANGED <<flash, rtc, copyVars, staged, rewriting>>

PowerLoss == /\ MayLosePower
             /\ pc # "dead"
             /\ pc' = "reset"
             /\ rtc' = [magic |-> FALSE, body |-> NoCommand, crc |-> NoCrc]
             /\ mishap' = (mishap \/ rewriting)
             /\ UNCHANGED <<flash, copyVars, staged, rewriting>>

(* SPIRead, SPIEraseSector or SPIWrite fails: returns 3, 4, 2; the result  *)
(* of the reads for the header and for uzlib is not looked at, and what    *)
(* they find is taken for the signature, the size or the stream.           *)
FailedAccess == /\ MayFail
                /\ mishap' = TRUE
                /\ \/ /\ pc = "header"
                      /\ \/ zip' = NoFile /\ used' = 0 /\ left' = RawSectors(cmd.n)
                         \/ zip' \in Gzip /\ used' = 1 /\ left' \in Garbled
                      /\ good' = FALSE /\ pc' = "fetch"
                      /\ UNCHANGED <<flash, ok>>
                   \/ /\ pc = "fetch" /\ More /\ zip # NoFile
                      /\ good' = FALSE
                      /\ UNCHANGED <<flash, pc, zip, used, left, ok>>
                   \/ /\ \/ pc = "header" /\ UNCHANGED flash
                         \/ pc = "fetch" /\ More /\ zip = NoFile /\ UNCHANGED flash
                         \/ pc = "put" /\ at = 0 /\ UNCHANGED flash
                         \/ /\ pc = "put" /\ at \in Sector /\ ~SameAsLoader
                            /\ \E c \in {flash[at], Torn} : flash' = [flash EXCEPT ![at] = c]
                         \/ pc = "program" /\ UNCHANGED flash
                      /\ ok' = FALSE /\ pc' = "clear"
                      /\ UNCHANGED <<zip, used, left, good>>
                   \/ /\ pc = "load"
                      /\ pc' = "reset"
                      /\ UNCHANGED <<flash, zip, used, left, good, ok>>
                /\ UNCHANGED <<rtc, cmd, at, buffer, staged, rewriting>>

Loading == \/ Brick \/ BootCommand \/ BootPlain \/ Header
           \/ FetchRaw \/ FetchGzip \/ SkipLoader \/ Erase \/ EraseRefused \/ Program \/ Copied
           \/ ClearMagic \/ ClearCrc \/ Load

Next == \/ \E f \in File : Stage(f)
        \/ WriteMagic \/ WriteBody \/ WriteCrc
        \/ Loading
        \/ Reset \/ PowerLoss \/ FailedAccess

Spec == Init /\ [][Next]_vars
FairSpec == Spec /\ WF_vars(Loading)

-----------------------------------------------------------------------------
TypeOK == /\ flash \in [Sector -> Content]
          /\ rtc \in [magic : BOOLEAN, body : Command, crc : Command]
          /\ pc \in {"reset", "dead", "load", "app", "staged", "magic", "body", "committed",
                     "header", "fetch", "put", "program", "clear", "clearCrc"}
          /\ cmd \in Command
          /\ zip \in File \cup {NoFile} /\ staged \in File \cup {NoFile}
          /\ at \in 0..Chip /\ left \in Nat /\ used \in 0..Top
          /\ good \in BOOLEAN /\ ok \in BOOLEAN /\ rewriting \in BOOLEAN /\ mishap \in BOOLEAN
          /\ buffer \in Content

(* Whatever the resets, the sketch the bootloader starts is one image, from*)
(* its first sector to its last: a copy that was cut short is done again   *)
(* before anything is loaded.  Excepted are power lost between the first   *)
(* erase and the last write, a failed flash access, a reset once the copy  *)
(* has overwritten its own source, and one between the two words that clear*)
(* the command.                                                            *)
BootsWholeImage == pc = "app" /\ ~mishap => \E v \in Version : Whole(v)

(* A copy that copy_raw() reports as done has installed exactly the image  *)
(* that was staged, also when its end overwrote the staged file.  Done or  *)
(* cut short, no copy runs into the file system, although only the size    *)
(* that a gzip file carries at its end tells it where to stop: a mishap can*)
(* make it read any other there.                                           *)
CopyInstallsStaged ==
  ~mishap => /\ FileSystemKept
             /\ pc \in {"clear", "clearCrc"} /\ ok => Whole(Of[staged])

(* Only an update that carries another bootloader erases the bootloader's  *)
(* own sector: any other leaves the device able to boot after every reset. *)
NeverBricked == [][~mishap' /\ HoldsLoader(0) /\ flash'[0] = Torn => flash[0] # Raw(Of[staged], 0)]_vars

(* The sketch is never started with the command still in RTC memory: each  *)
(* reset would copy again, over whatever is then staged.                   *)
CommandSpent == [][pc' = "app" /\ pc # "app" => ~Valid']_vars

(* A reset leads to the sketch, or to the next reset.                      *)
CopyEnds == pc = "header" ~> pc \in {"app", "reset", "dead"}
=============================================================================
