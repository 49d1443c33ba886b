------------------------------ MODULE MCEboot ------------------------------
(***************************************************************************)
(* Three sketches of 2, 3 and 4 sectors below FS_start = 5, the last with  *)
(* another bootloader, and three files: a raw one that overlaps its        *)
(* destination (1), a gzip one clear of it (2) and a gzip one whose output *)
(* runs into it (3).                                                       *)
(***************************************************************************)
EXTENDS Eboot

MCVersion == 1..3
MCOut == <<2, 3, 4>>
MCLoader == <<1, 1, 3>>
MCFile == 1..3
MCGzip == {2, 3}
MCOf == <<2, 2, 3>>
MCSrc == <<2, 3, 3>>
MCLen == <<3, 2, 2>>
Needs(s) == [j \in 0..5 |-> IF j < 4 THEN s[j + 1] ELSE 2]
MCNeed == <<Needs(<<1, 1, 1, 1>>), Needs(<<1, 1, 2, 2>>), Needs(<<1, 2, 2, 2>>)>>
=============================================================================
