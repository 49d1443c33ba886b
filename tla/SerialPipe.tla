----------------------------- MODULE SerialPipe -----------------------------
(***************************************************************************)
(* What a sketch is promised by the receiving side of HardwareSerial       *)
(* (cores/esp8266): the bytes of the line, numbered as they arrive, wait in*)
(* one pipe and are read in order, each once.  A byte is lost only while at*)
(* least "room" bytes wait, and hasOverrun() will tell; begin(), end() and *)
(* setRxBufferSize() may empty the pipe without a word.                    *)
(***************************************************************************)
EXTENDS Naturals, Sequences

CONSTANT Sizes         \* how many bytes are read or looked at

VARIABLES sent,        \* bytes that have been on the line
          pipe,        \* those that wait
          room,        \* how many may wait before one is lost
          overrun,     \* one was lost, and the sketch has not been told
          got          \* the last answer to the sketch

vars == <<sent, pipe, room, overrun, got>>

Answer(op, n, bytes) == [op |-> op, n |-> n, bytes |-> bytes]
Without(d) == SubSeq(pipe, d + 1, Len(pipe))
AtMost(k) == IF k < Len(pipe) THEN k ELSE Len(pipe)

Init == /\ sent = 0 /\ pipe = <<>>
        /\ room \in Nat /\ overrun = FALSE
        /\ got = Answer("restart", 0, <<>>)

Arrive == /\ sent' = sent + 1
          /\ pipe' = Append(pipe, sent + 1)
          /\ UNCHANGED <<room, overrun, got>>

(* The newest byte is lost on arrival, or the d oldest make room.          *)
LoseNewest == /\ Len(pipe) >= room
              /\ sent' = sent + 1 /\ overrun' = TRUE
              /\ UNCHANGED <<pipe, room, got>>

LoseOldest(d) == /\ d > 0 => overrun'
                 /\ Len(pipe) - d >= room
                 /\ overrun' \in {overrun, TRUE}
                 /\ pipe' = Without(d)
                 /\ UNCHANGED <<sent, room, got>>

Read(k) == /\ pipe' = Without(AtMost(k))
           /\ got' = Answer("read", AtMost(k), SubSeq(pipe, 1, AtMost(k)))
           /\ UNCHANGED <<sent, room, overrun>>

(* Looking at the next byte may cost the oldest.                           *)
Peek == /\ pipe' = pipe \/ (Len(pipe) > room /\ overrun' /\ \E d \in 1..(Len(pipe) - room) : pipe' = Without(d))
        /\ overrun' \in {overrun, TRUE}
        /\ got' = IF pipe' = <<>> THEN Answer("peek", 0, <<>>) ELSE Answer("peek", 1, SubSeq(pipe', 1, 1))
        /\ UNCHANGED <<sent, room>>

Consume(k) == /\ k <= Len(pipe)
              /\ pipe' = Without(k)
              /\ got' = Answer("consume", k, <<>>)
              /\ UNCHANGED <<sent, room, overrun>>

(* What is announced can be read.                                          *)
Available(n) == /\ n <= Len(pipe)
                /\ got' = Answer("available", n, <<>>)
                /\ UNCHANGED <<sent, pipe, room, overrun>>

AskOverrun == \/ /\ overrun
                 /\ overrun' \in BOOLEAN
                 /\ got' = Answer("overrun", 1, <<>>)
                 /\ UNCHANGED <<sent, pipe, room>>
              \/ /\ got' = Answer("overrun", 0, <<>>)
                 /\ UNCHANGED <<sent, pipe, room, overrun>>

Restart == /\ \E d \in 0..Len(pipe) : pipe' = Without(d)
           /\ room' \in Nat /\ overrun' \in BOOLEAN
           /\ got' = Answer("restart", 0, <<>>)
           /\ UNCHANGED sent

Next == \/ Arrive \/ LoseNewest \/ Peek \/ AskOverrun \/ Restart
        \/ \E d \in 0..Len(pipe) : LoseOldest(d)
        \/ \E k \in Sizes : Read(k) \/ Consume(k) \/ Available(k)

Spec == Init /\ [][Next]_vars
=============================================================================
