------------------------------ MODULE Mailbox ------------------------------
(***************************************************************************)
(* What a sketch is promised by WiFiUDP (libraries/ESP8266WiFi): datagrams *)
(* arrive in a bounded mailbox, parsePacket() moves on from one to the     *)
(* next in the order of arrival, read() takes the bytes of the current one *)
(* and never those of another.  What does not fit is lost.                 *)
(***************************************************************************)
EXTENDS Naturals, Sequences

CONSTANTS Packet,     \* the datagrams that are sent
          Bytes,      \* the bytes of each
          Capacity,   \* datagrams that are kept, the current one included
          Reads       \* the sizes that are read

VARIABLES open,       \* between begin() and stop()
          box,        \* the datagrams kept, in the order of arrival
          taken,      \* parsePacket() has moved on to the first of them
          offset,     \* bytes of it that have been read
          got         \* the last answer to the sketch

vars == <<open, box, taken, offset, got>>

Nothing == [n |-> 0, bytes |-> <<>>]

Init == /\ open = FALSE
        /\ box = <<>> /\ taken = FALSE /\ offset = 0
        /\ got = Nothing

left == IF box = <<>> THEN 0 ELSE Len(Bytes[Head(box)]) - offset

(* begin() and stop() discard what is in the mailbox.                      *)
Open(now) == /\ open' = now
             /\ box' = <<>> /\ taken' = FALSE /\ offset' = 0
             /\ UNCHANGED got

Arrive(p) == /\ open
             /\ Len(box) < Capacity
             /\ box' = Append(box, p)
             /\ UNCHANGED <<open, taken, offset, got>>

(* The size of the new current datagram, 0 if there is none.               *)
Parse == /\ IF box # <<>> /\ ~taken
            THEN UNCHANGED <<box, offset>>
            ELSE /\ box' = IF box = <<>> THEN <<>> ELSE Tail(box)
                 /\ offset' = 0
         /\ taken' = (box' # <<>>)
         /\ got' = [n |-> left', bytes |-> <<>>]
         /\ UNCHANGED open

(* At most k bytes.                                                        *)
Read(k) == LET n == IF k < left THEN k ELSE left
           IN  /\ offset' = offset + n
               /\ got' = [n |-> n, bytes |-> IF n = 0 THEN <<>>
                                             ELSE SubSeq(Bytes[Head(box)], offset + 1, offset + n)]
               /\ UNCHANGED <<open, box, taken>>

Next == \/ \E now \in BOOLEAN : Open(now)
        \/ \E p \in Packet : Arrive(p)
        \/ Parse
        \/ \E k \in Reads : Read(k)

Spec == Init /\ [][Next]_vars
=============================================================================
