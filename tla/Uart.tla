-------------------------------- MODULE Uart --------------------------------
(***************************************************************************)
(* The receiving side of UART0 (cores/esp8266/uart.cpp, HardwareSerial).   *)
(* The hardware FIFO takes the bytes of the line; from a trigger level on  *)
(* an interrupt copies it to a ring in RAM, dropping the oldest bytes when *)
(* the ring is full.  The sketch reads the ring first and then the FIFO.   *)
(* What the code does with the interrupt disabled is one step; the         *)
(* interrupt comes between any two steps of available() and of the         *)
(* peekAvailable(), peekBuffer(), peekConsume() sequence.  Under GDB its   *)
(* stub takes the bytes out of the FIFO and hands them over one by one.    *)
(* Bytes are numbered in the order of the line.                            *)
(***************************************************************************)
EXTENDS Integers, Sequences

CONSTANTS FifoSize,    \* bytes the hardware holds (128)
          Trigger,     \* INTRIGG
          Sizes,       \* sizes of the ring
          MaxByte      \* bound: bytes on the line

(* A ring of one byte has no room for any.                                 *)
ASSUME UartAssumption == /\ FifoSize \in Nat \ {0}
                         /\ Trigger \in 1..FifoSize
                         /\ Sizes \subseteq Nat \ {0, 1} /\ Sizes # {}
                         /\ MaxByte \in Nat

VARIABLES gdb,         \* gdbstub_has_uart_isr_control()
          open,        \* _uart # NULL
          uart,        \* struct uart_ and its rx_buffer
          rx_size,     \* HardwareSerial::_rx_size
          fifo, uiff, uiof,    \* the hardware: its bytes and interrupt bits
          sent,
          pc, n, p,    \* between two steps of a call: a count and a pointer
          got,         \* the last answer to the sketch
          lapped       \* history: bytes were dropped since peekAvailable()

hwVars == <<fifo, uiff, uiof, sent>>
callVars == <<pc, n, p>>
vars == <<gdb, open, uart, rx_size, hwVars, callVars, got, lapped>>

Unwritten == 0
MinusOne == -1         \* 0xFF, what a failed read_char() leaves in a byte
Answer(op, k, bytes) == [op |-> op, n |-> k, bytes |-> bytes]
Least(a, b) == IF a < b THEN a ELSE b

-----------------------------------------------------------------------------
(* The ring *)

Empty(size) == [size |-> size, rpos |-> 0, wpos |-> 0, overrun |-> FALSE,
                buffer |-> [i \in 0..(size - 1) |-> Unwritten]]

(* uart_rx_buffer_available_unsafe()                                       *)
Count(u) == (u.wpos + u.size - u.rpos) % u.size
RingBytes(u) == [i \in 1..Count(u) |-> u.buffer[(u.rpos + i - 1) % u.size]]

Full(u) == (u.wpos + 1) % u.size = u.rpos

(* "discard oldest data"                                                   *)
Discarded_Silently(u) == [u EXCEPT !.rpos = (@ + 1) % u.size]
Discarded(u) == [u EXCEPT !.rpos = (@ + 1) % u.size, !.overrun = TRUE]

Put(u, b) == LET v == IF Full(u) THEN Discarded(u) ELSE u
             IN  [v EXCEPT !.buffer[u.wpos] = b, !.wpos = (@ + 1) % u.size]

(* uart_rx_copy_fifo_to_buffer_unsafe()                                    *)
Copied(u) == LET copied[i \in 0..Len(fifo)] == IF i = 0 THEN u ELSE Put(copied[i - 1], fifo[i])
             IN  copied[Len(fifo)]

Pending == (IF open THEN RingBytes(uart) ELSE <<>>) \o fifo
Drops == Len(Pending) > uart.size - 1

Init == /\ gdb \in BOOLEAN
        /\ open = FALSE
        /\ rx_size \in Sizes /\ uart = Empty(rx_size)
        /\ fifo = <<>> /\ uiff = FALSE /\ uiof = FALSE /\ sent = 0
        /\ pc = "idle" /\ n = 0 /\ p = 0
        /\ got = Answer("restart", 0, <<>>) /\ lapped = FALSE

-----------------------------------------------------------------------------
(* The line and the interrupt *)

Receive == /\ open /\ sent < MaxByte
           /\ sent' = sent + 1
           /\ \/ /\ Len(fifo) < FifoSize
                 /\ fifo' = Append(fifo, sent + 1)
                 /\ uiff' = (uiff \/ Len(fifo') >= Trigger)
                 /\ UNCHANGED uiof
              \/ /\ Len(fifo) = FifoSize
                 /\ uiof' = TRUE
                 /\ UNCHANGED <<fifo, uiff>>
           /\ UNCHANGED <<gdb, open, uart, rx_size, callVars, got, lapped>>

uart_isr == /\ open /\ ~gdb
            /\ uiff \/ uiof
            /\ LET u == IF uiff THEN Copied(uart) ELSE uart
               IN  uart' = [u EXCEPT !.overrun = @ \/ uiof]
            /\ fifo' = IF uiff THEN <<>> ELSE fifo
            /\ lapped' = (lapped \/ (uiff /\ Drops))
            /\ uiff' = FALSE /\ uiof' = FALSE
            /\ UNCHANGED <<gdb, open, rx_size, sent, callVars, got>>

(* The stub's interrupt takes a byte and calls uart_isr_handle_data().     *)
GdbByte == /\ gdb /\ fifo # <<>>
           /\ fifo' = Tail(fifo)
           /\ IF open
              THEN LET u == Put(uart, Head(fifo))
                   IN  /\ uart' = [u EXCEPT !.overrun = @ \/ uiof]
                       /\ lapped' = (lapped \/ Full(uart))
                       /\ uiff' = FALSE /\ uiof' = FALSE
              ELSE UNCHANGED <<uart, lapped, uiff, uiof>>
           /\ UNCHANGED <<gdb, open, rx_size, sent, callVars, got>>

-----------------------------------------------------------------------------
(* begin(), end(), setRxBufferSize() *)

Begin == /\ pc = "idle"
         /\ \/ open' = TRUE /\ uart' = Empty(rx_size)
            \/ open' = FALSE /\ UNCHANGED uart       \* malloc() failed
         /\ IF gdb THEN UNCHANGED <<fifo, uiff, uiof>>
                   ELSE fifo' = <<>> /\ uiff' = FALSE /\ uiof' = FALSE
         /\ got' = Answer("restart", 0, <<>>)
         /\ UNCHANGED <<gdb, rx_size, sent, callVars, lapped>>

End == /\ pc = "idle"
       /\ open' = FALSE
       /\ IF gdb THEN UNCHANGED <<uiff, uiof>> ELSE uiff' = FALSE /\ uiof' = FALSE
       /\ got' = Answer("restart", 0, <<>>)
       /\ UNCHANGED <<gdb, uart, rx_size, fifo, sent, callVars, lapped>>

SetSizeClosed(s) == /\ pc = "idle" /\ ~open
                    /\ rx_size' = s
                    /\ got' = Answer("restart", 0, <<>>)
                    /\ UNCHANGED <<gdb, open, uart, hwVars, callVars, lapped>>

(* uart_resize_rx_buffer(): while the FIFO holds a byte the loop reads on, *)
(* from the ring only, until the new buffer is full, which is then taken   *)
(* for empty.                                                              *)
Moved(s) == IF fifo = <<>> THEN Least(Count(uart), s) ELSE s

Resize(s) == /\ pc = "idle" /\ open
             /\ s # uart.size
             /\ uart' = [uart EXCEPT !.size = s, !.rpos = 0,
                                     !.wpos = IF Moved(s) = s THEN 0 ELSE Moved(s),
                                     !.buffer = [i \in 0..(s - 1) |->
                                                  IF i < Count(uart) THEN RingBytes(uart)[i + 1]
                                                  ELSE IF i < Moved(s) THEN MinusOne ELSE Unwritten]]
             /\ rx_size' = s
             /\ got' = Answer("restart", 0, <<>>)
             /\ UNCHANGED <<gdb, open, hwVars, callVars, lapped>>

-----------------------------------------------------------------------------
(* The sketch reads *)

(* uart_read(): the ring, then straight from the FIFO.                     *)
FromRing(k) == Least(k, Count(uart))
FromFifo(k) == Least(k - FromRing(k), Len(fifo))

Read(k) == /\ pc = "idle" /\ open
           /\ got' = Answer("read", FromRing(k) + FromFifo(k),
                            SubSeq(RingBytes(uart), 1, FromRing(k)) \o SubSeq(fifo, 1, FromFifo(k)))
           /\ uart' = [uart EXCEPT !.rpos = (@ + FromRing(k)) % uart.size]
           /\ fifo' = SubSeq(fifo, FromFifo(k) + 1, Len(fifo))
           /\ UNCHANGED <<gdb, open, rx_size, uiff, uiof, sent, callVars, lapped>>

(* uart_rx_available(): the ring is counted with the interrupt disabled,   *)
(* the FIFO after it is enabled again.                                     *)
CountRing_Unsafe == /\ pc = "idle" /\ open
                    /\ n' = Len(Pending) /\ pc' = "counted"
                    /\ UNCHANGED <<gdb, open, uart, rx_size, hwVars, p, got, lapped>>
CountRing == /\ pc = "idle" /\ open
             /\ n' = Count(uart) /\ pc' = "counted"
             /\ UNCHANGED <<gdb, open, uart, rx_size, hwVars, p, got, lapped>>

InFifo_Ignored == 0
InFifo == Len(fifo)

CountFifo == /\ pc = "counted"
             /\ got' = Answer("available", n + InFifo, <<>>)
             /\ pc' = "idle" /\ n' = 0
             /\ UNCHANGED <<gdb, open, uart, rx_size, hwVars, p, lapped>>

(* HardwareSerial::readBytes() reads what available() has announced.       *)
ReadAnnounced == got.op = "available" /\ got.n > 0 /\ Read(got.n)

(* uart_peek_char(): "hw fifo can't be peeked".                            *)
PeekChar == /\ pc = "idle" /\ open
            /\ IF Count(uart) = 0
               THEN uart' = Copied(uart) /\ fifo' = <<>>
               ELSE UNCHANGED <<uart, fifo>>
            /\ got' = IF Pending = <<>> THEN Answer("peek", 0, <<>>)
                      ELSE Answer("peek", 1, <<uart'.buffer[uart'.rpos]>>)
            /\ UNCHANGED <<gdb, open, rx_size, uiff, uiof, sent, callVars, lapped>>

(* uart_peek_available(): up to the end of the buffer.                     *)
Contiguous_Wrapped(u) == Count(u)
Contiguous(u) == IF u.wpos < u.rpos THEN u.size - u.rpos ELSE u.wpos - u.rpos

PeekAvailable == /\ pc = "idle" /\ open
                 /\ uart' = Copied(uart) /\ fifo' = <<>>
                 /\ n' = Contiguous(uart')
                 /\ pc' = IF n' = 0 THEN "idle" ELSE "peeked"
                 /\ lapped' = FALSE
                 /\ UNCHANGED <<gdb, open, rx_size, uiff, uiof, sent, p, got>>

PeekBuffer == /\ pc = "peeked"
              /\ p' = uart.rpos
              /\ pc' = "pointed"
              /\ UNCHANGED <<gdb, open, uart, rx_size, hwVars, n, got, lapped>>

Advanced(k) == IF uart.rpos + k >= uart.size THEN uart.rpos + k - uart.size ELSE uart.rpos + k

PeekConsume(k) == /\ pc = "pointed" /\ k <= n
                  /\ uart' = [uart EXCEPT !.rpos = Advanced(k)]
                  /\ got' = Answer("consume", k, <<>>)
                  /\ pc' = "idle" /\ n' = 0 /\ p' = 0
                  /\ UNCHANGED <<gdb, open, rx_size, hwVars, lapped>>

(* uart_has_overrun()                                                      *)
HasOverrun == /\ pc = "idle" /\ open
              /\ got' = Answer("overrun", IF uart.overrun THEN 1 ELSE 0, <<>>)
              /\ uart' = [uart EXCEPT !.overrun = FALSE]
              /\ UNCHANGED <<gdb, open, rx_size, hwVars, callVars, lapped>>

Amounts == 1..MaxByte

Next == \/ Receive \/ uart_isr \/ GdbByte
        \/ Begin \/ End
        \/ \E s \in Sizes : SetSizeClosed(s) \/ Resize(s)
        \/ \E k \in Amounts : Read(k) \/ PeekConsume(k)
        \/ CountRing \/ CountFifo \/ PeekChar \/ PeekAvailable \/ PeekBuffer
        \/ HasOverrun

Spec == Init /\ [][Next]_vars

(* A sketch that calls readBytes() for ever, whatever else it does between *)
(* two calls, and finishes what it has begun.                              *)
FairSpec == /\ Spec
            /\ SF_vars(CountRing) /\ WF_vars(CountFifo) /\ SF_vars(ReadAnnounced)
            /\ WF_vars(PeekBuffer) /\ WF_vars(\E k \in Amounts : PeekConsume(k))

-----------------------------------------------------------------------------
Byte == Unwritten..MaxByte

TypeOK == /\ gdb \in BOOLEAN /\ open \in BOOLEAN
          /\ rx_size \in Sizes /\ uart.size \in Sizes
          /\ uart.rpos \in 0..(uart.size - 1) /\ uart.wpos \in 0..(uart.size - 1)
          /\ uart.overrun \in BOOLEAN
          /\ uart.buffer \in [0..(uart.size - 1) -> Byte \cup {MinusOne}]
          /\ fifo \in Seq(Byte) /\ Len(fifo) <= FifoSize
          /\ uiff \in BOOLEAN /\ uiof \in BOOLEAN
          /\ sent \in 0..MaxByte
          /\ pc \in {"idle", "counted", "peeked", "pointed"}
          /\ n \in 0..(MaxByte + FifoSize) /\ p \in 0..MaxByte
          /\ lapped \in BOOLEAN

(* The bytes between peekBuffer() and peekConsume() are the next ones of   *)
(* the pipe and lie inside the buffer, whatever arrives meanwhile.         *)
(* Excepted is an overrun between peekAvailable() and peekConsume(): the   *)
(* interrupt then moves the read position under the sketch.                *)
PeekSeesPending == pc = "pointed" /\ ~lapped =>
                     \A i \in 1..n : p + i <= uart.size /\ uart.buffer[p + i - 1] = Pending[i]

(* The types, and what a sketch looks at.                                  *)
Inv == TypeOK /\ PeekSeesPending

(* A character the code takes from the ring while resizing is one that was *)
(* received.                                                               *)
ReadCharHasByte == \A i \in 0..(uart.size - 1) : uart.buffer[i] # MinusOne

(* Ring, FIFO and interrupt together are the promised pipe.                *)
Pipe == INSTANCE SerialPipe WITH
          Sizes <- 0..(MaxByte + FifoSize),
          pipe <- Pending,
          room <- Least(uart.size - 1, FifoSize),
          overrun <- open /\ (uart.overrun \/ uiof)
ImplementsSerialPipe == Pipe!Spec

(* A sketch that polls available() reads every byte that is not lost, also *)
(* those that stay below the level that raises the interrupt.              *)
Waits(b) == open /\ \E i \in DOMAIN Pending : Pending[i] = b
EveryByteRead == \A b \in 1..MaxByte : Waits(b) ~> ~Waits(b)
=============================================================================
