----------------------------- MODULE Connection -----------------------------
(***************************************************************************)
(* What a sketch is promised by WiFiClient (libraries/ESP8266WiFi).  The   *)
(* bytes of the peer are read in order, each once, also those that arrived *)
(* before the connection ended.  The sketch writes a stream of bytes; each *)
(* write() tells how many of them were handed over, in order, so that a    *)
(* sketch that goes on behind them sends nothing twice and skips nothing.  *)
(***************************************************************************)
EXTENDS Naturals, Sequences

CONSTANT Sizes         \* of the pieces

VARIABLES up,        \* the connection exists
          arrived,   \* bytes of the peer so far
          in,        \* those that can be read
          out,       \* bytes of the sketch that were handed over
          told,      \* how many the sketch knows of
          got        \* what it has read last

vars == <<up, arrived, in, out, told, got>>

Numbered(from, k) == [i \in 1..k |-> from + i]
Shorter(a, b) == IF a < b THEN a ELSE b

Init == /\ up = FALSE
        /\ arrived = 0 /\ in = <<>>
        /\ out = <<>> /\ told = 0
        /\ got = <<>>

Open == /\ ~up
        /\ up' = TRUE
        /\ arrived' = 0 /\ in' = <<>> /\ out' = <<>> /\ told' = 0
        /\ UNCHANGED got

Arrive(k) == /\ up
             /\ in' = in \o Numbered(arrived, k)
             /\ arrived' = arrived + k
             /\ UNCHANGED <<up, out, told, got>>

Read(k) == /\ got' = SubSeq(in, 1, Shorter(k, Len(in)))
           /\ in' = SubSeq(in, Shorter(k, Len(in)) + 1, Len(in))
           /\ UNCHANGED <<up, arrived, out, told>>

Hand(k) == /\ up
           /\ out' = out \o Numbered(Len(out), k)
           /\ told' \in {told, Len(out')}       \* write() may return at once
           /\ UNCHANGED <<up, arrived, in, got>>

Tell == /\ told' = Len(out)
        /\ UNCHANGED <<up, arrived, in, out, got>>

(* The connection ends; what has arrived stays until the sketch lets go.   *)
Down == /\ up' = FALSE
        /\ UNCHANGED <<arrived, in, out, told, got>>

LetGo == /\ up' = FALSE
         /\ in' = <<>>
         /\ UNCHANGED <<arrived, out, told, got>>

Next == \/ Open \/ Tell \/ Down \/ LetGo
        \/ \E k \in 1..(Len(in) + 1) : Read(k)
        \/ \E k \in Sizes : Arrive(k) \/ Hand(k)

Spec == Init /\ [][Next]_vars
=============================================================================
