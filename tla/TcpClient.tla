----------------------------- MODULE TcpClient ------------------------------
(***************************************************************************)
(* WiFiClient and its ClientContext (libraries/ESP8266WiFi): one TCP       *)
(* connection, opened by connect() or taken from a WiFiServer, with the    *)
(* copies of the WiFiClient that share it.  The sketch runs until it       *)
(* suspends itself in connect(), write() or wait_until_acked(); lwIP calls *)
(* back between two calls of the sketch and while one is suspended.  lwIP  *)
(* is external: a control block with a receive window, a send buffer and   *)
(* the state the peer brings it to.                                        *)
(***************************************************************************)
EXTENDS Integers, Sequences, FiniteSets

CONSTANTS Handle,      \* the WiFiClient objects
          Wnd,         \* TCP_WND
          SndBuf,      \* TCP_SND_BUF
          MaxIn, MaxOut    \* bounds: bytes of the peer and of the sketch

ASSUME TcpAssumption == /\ IsFiniteSet(Handle)
                        /\ Wnd \in Nat \ {0} /\ SndBuf \in Nat \ {0}
                        /\ MaxIn \in Nat /\ MaxOut \in Nat

VARIABLES holders,     \* the WiFiClients whose _client is the context
          refcnt,      \* _refcnt
          unclaimed,   \* in the list of the WiFiServer
          pcb,         \* "none" when _pcb is nullptr
          rx, offset,  \* _rx_buf, a chain of pbufs, and _rx_buf_offset
          arrived, wnd,        \* lwIP: bytes of the peer, and its window
          snd, out,    \* lwIP: bytes not acknowledged, and all bytes taken
          pc, then,    \* where the sketch is; what the wait for acks is for
          datalen, written,    \* _datalen, _written
          waiting, pending,    \* _send_waiting, _connect_pending
          late,        \* the time allowed is over
          prev, sync,  \* sndbuf before the yield; _sync
          told, got,   \* bytes written, and bytes read, as the sketch knows
          gaveUp       \* history: a write() in sync mode did not wait to the end

ctxVars == <<holders, refcnt, unclaimed>>
rxVars == <<rx, offset, arrived, wnd>>
txVars == <<snd, out>>
callVars == <<datalen, written, waiting, pending, late, prev>>
userVars == <<sync, told, got, gaveUp>>
vars == <<ctxVars, pcb, rxVars, txVars, pc, then, callVars, userVars>>

Alive == refcnt > 0 \/ unclaimed
Suspended == pc \in {"idle", "connecting", "wait", "yield"}
Least(a, b) == IF a < b THEN a ELSE b
Space == SndBuf - Len(snd)                  \* tcp_sndbuf()

(* state(): CLOSED means nothing more can be written.                      *)
State == IF pcb \in {"none", "CLOSE_WAIT"} THEN "CLOSED" ELSE pcb

(* The bytes of the first n pbufs of the chain, and those not yet read.    *)
Flat(n) == LET f[i \in 0..n] == IF i = 0 THEN <<>> ELSE f[i - 1] \o rx[i] IN f[n]
Unread == SubSeq(Flat(Len(rx)), offset + 1, Len(Flat(Len(rx))))

Init == /\ holders = {} /\ refcnt = 0 /\ unclaimed = FALSE
        /\ pcb = "none"
        /\ rx = <<>> /\ offset = 0 /\ arrived = 0 /\ wnd = Wnd
        /\ snd = <<>> /\ out = <<>>
        /\ pc = "idle" /\ then = "return"
        /\ datalen = 0 /\ written = 0 /\ waiting = FALSE /\ pending = FALSE /\ late = FALSE /\ prev = -1
        /\ sync = FALSE /\ told = 0 /\ got = <<>> /\ gaveUp = FALSE

(* A new context on a new control block, in state s; sync: defaultSync.    *)
Fresh(s) == /\ pcb' = s
            /\ rx' = <<>> /\ offset' = 0 /\ arrived' = 0 /\ wnd' = Wnd
            /\ snd' = <<>> /\ out' = <<>> /\ told' = 0
            /\ sync' \in BOOLEAN
            /\ gaveUp' = FALSE
            /\ UNCHANGED got

(* close(), abort(): no callback comes any more, and what lwIP still has   *)
(* to send is its own affair.                                              *)
Detach == pcb' = "none" /\ snd' = <<>>

(* unref(): the last one discards what was received and closes.            *)
Unref_Post == IF refcnt = 0 THEN Detach /\ rx' = <<>> /\ offset' = 0      \* mutant: _refcnt-- == 0
                            ELSE UNCHANGED <<pcb, snd, rx, offset>>
Unref == IF refcnt = 1 THEN Detach /\ rx' = <<>> /\ offset' = 0
                       ELSE UNCHANGED <<pcb, snd, rx, offset>>

LetGo(h) == /\ holders' = holders \ {h} /\ refcnt' = refcnt - 1
            /\ Unref
            /\ UNCHANGED unclaimed

-----------------------------------------------------------------------------
(* WiFiClient::connect(): a context in use is stopped and left first (one  *)
(* context: only by its last user).                                        *)

Connect(h) == /\ pc \in {"idle", "new"} /\ ~Alive
              /\ Fresh("SYN_SENT")
              /\ holders' = {h} /\ refcnt' = 1
              /\ pending' = TRUE /\ late' = FALSE
              /\ pc' = "connecting"
              /\ UNCHANGED <<unclaimed, then, datalen, written, waiting, prev>>

(* tcp_new() or tcp_connect() fails.                                       *)
ConnectFails == /\ pc = "new"
                /\ pc' = "idle"
                /\ UNCHANGED <<ctxVars, pcb, rxVars, txVars, then, callVars, userVars>>

(* Woken by a callback, or late.                                           *)
Connected == /\ pc = "connecting" /\ (~pending \/ late)
             /\ pending' = FALSE
             /\ pc' = "idle"
             /\ IF State = "ESTABLISHED"
                THEN UNCHANGED <<ctxVars, pcb, snd, rx, offset>>
                ELSE \E h \in holders : LetGo(h)
             /\ UNCHANGED <<arrived, wnd, out, then, datalen, written, waiting, late, prev, userVars>>

-----------------------------------------------------------------------------
(* WiFiServer::_accept() and accept(); copies and destructors              *)

ServerAccept == /\ Suspended /\ ~Alive
                /\ Fresh("ESTABLISHED")
                /\ unclaimed' = TRUE
                /\ UNCHANGED <<holders, refcnt, pc, then, callVars>>

Accept(h) == /\ pc = "idle" /\ unclaimed
             /\ holders' = {h} /\ refcnt' = refcnt + 1
             /\ unclaimed' = FALSE
             /\ sync' \in BOOLEAN
             /\ UNCHANGED <<pcb, rxVars, txVars, pc, then, callVars, told, got, gaveUp>>

Copy(h) == /\ pc = "idle" /\ holders # {} /\ h \notin holders
           /\ holders' = holders \cup {h} /\ refcnt' = refcnt + 1
           /\ UNCHANGED <<unclaimed, pcb, rxVars, txVars, pc, then, callVars, userVars>>

Drop(h) == /\ pc = "idle" /\ h \in holders
           /\ LetGo(h)
           /\ UNCHANGED <<arrived, wnd, out, pc, then, callVars, userVars>>

SetSync == /\ pc = "idle" /\ holders # {}
           /\ sync' = ~sync
           /\ UNCHANGED <<ctxVars, pcb, rxVars, txVars, pc, then, callVars, told, got, gaveUp>>

-----------------------------------------------------------------------------
(* read() and peekBuffer() with peekConsume(): pbufs are freed once their  *)
(* last byte is taken, and the window is given back at once.               *)

Freed(m) == CHOOSE n \in 0..Len(rx) : /\ Len(Flat(n)) <= offset + m
                                      /\ n < Len(rx) => Len(Flat(n + 1)) > offset + m
OffsetAfter(m) == IF Freed(m) = Len(rx) THEN 0 ELSE offset + m - Len(Flat(Freed(m)))
Credit_Freed(m) == IF pcb = "none" THEN 0 ELSE Len(Flat(Freed(m)))      \* mutant: with the pbufs
Credit(m) == IF pcb = "none" THEN 0 ELSE m

Take(m) == /\ pc = "idle" /\ holders # {}
           /\ got' = SubSeq(Unread, 1, m)
           /\ rx' = SubSeq(rx, Freed(m) + 1, Len(rx))
           /\ offset' = OffsetAfter(m)
           /\ wnd' = wnd + Credit(m)
           /\ UNCHANGED <<ctxVars, pcb, arrived, txVars, pc, then, callVars, sync, told, gaveUp>>

Read(k) == rx # <<>> /\ Take(Least(k, Len(Unread)))
PeekConsume == rx # <<>> /\ Take(Len(rx[1]) - offset)     \* peekAvailable()

-----------------------------------------------------------------------------
(* write(): the sketch writes on behind what it was told.                  *)

Write(n) == /\ pc = "idle" /\ holders # {} /\ pcb # "none"
            /\ told + n <= MaxOut
            /\ datalen' = n /\ written' = 0 /\ late' = FALSE
            /\ pc' = "write" /\ then' = "told"
            /\ UNCHANGED <<ctxVars, pcb, rxVars, txVars, waiting, pending, prev, userVars>>

Return == pc' = "idle" /\ then' = "return" /\ prev' = -1

(* _write_some(): lwIP takes what it has room for, or has no memory now.   *)
Chunk == IF State = "CLOSED" THEN 0 ELSE Least(Space, datalen - written)
Bytes_Start(c) == [i \in 1..c |-> told + i]      \* mutant: from _datasource again
Bytes(c) == [i \in 1..c |-> told + written + i]
Unsent(c) == [i \in 1..c |-> [byte |-> told + written + i, byRef |-> sync]]

Over_Patient(c) == written + c = datalen \/ State = "CLOSED"      \* mutant: no time-out
Over(c) == written + c = datalen \/ (late /\ c = 0) \/ State = "CLOSED"

WriteSome(c) == /\ snd' = snd \o Unsent(c) /\ out' = out \o Bytes(c)

WriteTurn == \E c \in {0, Chunk} :
    /\ pc = "write"
    /\ WriteSome(c)
    /\ IF ~Over(c)
       THEN /\ waiting' = TRUE /\ pc' = "wait"
            /\ late' = FALSE
            /\ written' = written + c
            /\ UNCHANGED <<then, datalen, prev, told>>
       ELSE /\ datalen' = 0
            /\ UNCHANGED waiting
            /\ IF sync /\ pcb # "none"
               THEN /\ pc' = "flush" /\ late' = FALSE
                    /\ written' = written + c
                    /\ UNCHANGED <<then, prev, told>>
               ELSE Return /\ told' = told + written + c /\ written' = 0 /\ UNCHANGED late
    /\ UNCHANGED <<ctxVars, pcb, rxVars, pending, sync, got, gaveUp>>

(* Woken by a callback, or late.                                           *)
Resume == /\ pc = "wait" /\ (~waiting \/ late)
          /\ waiting' = FALSE
          /\ pc' = "write"
          /\ UNCHANGED <<ctxVars, pcb, rxVars, txVars, then, datalen, written, pending, late, prev, userVars>>

-----------------------------------------------------------------------------
(* wait_until_acked(): at the end of write() in sync mode (a new count of  *)
(* milliseconds), in flush(), and in stop(), which goes on to close().     *)

Wait(h, next) == /\ pc = "idle" /\ h \in holders /\ pcb # "none"
                 /\ next = "new" => holders = {h}
                 /\ pc' = "flush" /\ then' = next /\ late' = FALSE
                 /\ UNCHANGED <<ctxVars, pcb, rxVars, txVars, datalen, written, waiting, pending, prev, userVars>>

(* connect() with a context whose connection is gone.                      *)
Renew(h) == /\ pc = "idle" /\ holders = {h} /\ pcb = "none"
            /\ LetGo(h)
            /\ pc' = "new"
            /\ UNCHANGED <<arrived, wnd, out, then, callVars, userVars>>

Waited(acked) ==
    CASE then = "return" -> /\ Return
                            /\ UNCHANGED <<ctxVars, pcb, rx, offset, snd, written, told, gaveUp>>
      [] then = "told" -> /\ Return
                          /\ told' = told + written /\ written' = 0
                          /\ gaveUp' = (gaveUp \/ ~acked)
                          /\ UNCHANGED <<ctxVars, pcb, rx, offset, snd>>
      [] then = "close" -> /\ Return
                           /\ Detach
                           /\ UNCHANGED <<ctxVars, rx, offset, written, told, gaveUp>>
      [] then = "new" -> /\ \E h \in holders : LetGo(h)
                         /\ pc' = "new" /\ then' = "return" /\ prev' = -1
                         /\ UNCHANGED <<written, told, gaveUp>>

FlushTurn == /\ pc = "flush"
             /\ IF late THEN Waited(FALSE)
                ELSE /\ prev' = Space
                     /\ pc' = "yield"
                     /\ UNCHANGED <<ctxVars, pcb, rx, offset, snd, then, written, told, gaveUp>>
             /\ UNCHANGED <<arrived, wnd, out, datalen, waiting, pending, late, sync, got>>

AllAcked_Still == prev = Space      \* mutant: nothing changed meanwhile
AllAcked == prev = SndBuf

FlushCheck == /\ pc = "yield"
              /\ IF State # "ESTABLISHED" \/ AllAcked
                 THEN Waited(State = "ESTABLISHED")
                 ELSE /\ pc' = "flush"
                      /\ UNCHANGED <<ctxVars, pcb, rx, offset, snd, then, written, prev, told, gaveUp>>
              /\ UNCHANGED <<arrived, wnd, out, datalen, waiting, pending, late, sync, got>>

-----------------------------------------------------------------------------
(* Callbacks of lwIP *)

NotifyError_Connect == pending' = FALSE /\ UNCHANGED waiting      \* mutant: forgets the writer
NotifyError == waiting' = FALSE /\ pending' = FALSE
WriteSomeFromCb == waiting' = FALSE /\ UNCHANGED pending
callRest == <<ctxVars, pc, then, datalen, written, late, prev, userVars>>

ConnectedCb == /\ Suspended /\ pcb = "SYN_SENT"
               /\ pcb' = "ESTABLISHED"
               /\ pending' = FALSE
               /\ UNCHANGED <<callRest, rxVars, txVars, waiting>>

(* _recv(): the data goes to the end of the chain.                         *)
Recv(k) == /\ Suspended /\ pcb = "ESTABLISHED"
           /\ k <= wnd /\ arrived + k <= MaxIn
           /\ rx' = Append(rx, [i \in 1..k |-> arrived + i])
           /\ arrived' = arrived + k /\ wnd' = wnd - k
           /\ UNCHANGED <<callRest, pcb, offset, txVars, waiting, pending>>

(* _recv() without data: the peer has closed.                              *)
RecvFin == /\ Suspended /\ pcb = "ESTABLISHED"
           /\ NotifyError
           /\ IF rx # <<>> THEN pcb' = "CLOSE_WAIT" /\ UNCHANGED snd ELSE Detach
           /\ UNCHANGED <<callRest, rxVars, out>>

(* _error(): the connection was reset, or given up.                        *)
Error == /\ Suspended /\ pcb # "none"
         /\ Detach
         /\ NotifyError
         /\ UNCHANGED <<callRest, rxVars, out>>

Acked(k) == /\ Suspended /\ k <= Len(snd)
            /\ snd' = SubSeq(snd, k + 1, Len(snd))
            /\ WriteSomeFromCb
            /\ UNCHANGED <<callRest, pcb, rxVars, out>>

Poll == /\ Suspended /\ pcb \in {"ESTABLISHED", "CLOSE_WAIT"}
        /\ WriteSomeFromCb
        /\ UNCHANGED <<callRest, pcb, rxVars, txVars>>

(* millis() passes the time allowed to the call.                           *)
Expire == /\ pc \notin {"idle", "new"} /\ ~late
          /\ late' = TRUE
          /\ UNCHANGED <<ctxVars, pcb, rxVars, txVars, pc, then, datalen, written, waiting, pending, prev, userVars>>

Call == \/ SetSync \/ PeekConsume
        \/ \E h \in Handle : \/ Connect(h) \/ Accept(h) \/ Copy(h) \/ Drop(h) \/ Renew(h)
                             \/ \E next \in {"return", "close", "new"} : Wait(h, next)
        \/ \E k \in 1..MaxIn : Read(k)
        \/ \E n \in 1..MaxOut : Write(n)
Run == ConnectFails \/ Connected \/ WriteTurn \/ Resume \/ FlushTurn \/ FlushCheck
Callback == \/ ServerAccept \/ ConnectedCb \/ RecvFin \/ Error \/ Poll
            \/ \E k \in 1..MaxIn : Recv(k)
            \/ \E k \in 1..SndBuf : Acked(k)

Next == Call \/ Run \/ Callback \/ Expire

Spec == Init /\ [][Next]_vars

(* The scheduler resumes a sketch that was woken, and time goes on.        *)
FairSpec == Spec /\ WF_vars(Run) /\ WF_vars(Expire)

-----------------------------------------------------------------------------
TypeOK ==
    /\ holders \subseteq Handle /\ refcnt \in 0..Cardinality(Handle) /\ unclaimed \in BOOLEAN
    /\ pcb \in {"none", "SYN_SENT", "ESTABLISHED", "CLOSE_WAIT"}
    /\ rx \in Seq(Seq(1..MaxIn)) /\ offset \in 0..MaxIn /\ arrived \in 0..MaxIn /\ wnd \in 0..Wnd
    /\ snd \in Seq([byte : 1..MaxOut, byRef : BOOLEAN]) /\ Len(snd) <= SndBuf
    /\ out \in Seq(1..MaxOut)
    /\ pc \in {"idle", "new", "connecting", "write", "wait", "flush", "yield"}
    /\ then \in {"return", "told", "close", "new"}
    /\ datalen \in 0..MaxOut /\ written \in 0..MaxOut
    /\ {waiting, pending, late, sync, gaveUp} \subseteq BOOLEAN
    /\ prev \in -1..SndBuf
    /\ told \in 0..MaxOut /\ got \in Seq(1..MaxIn)

(* A connection that has ended, or that the peer has closed, leaves nobody *)
(* suspended on it: connect() and write() were told by the callback that   *)
(* saw the end, whatever it found in the receive buffer.                   *)
NobodyWaitsForDead == pcb \in {"none", "CLOSE_WAIT"} => ~waiting /\ ~pending

(* Every byte takes its room of the receive window until it is read, and   *)
(* gives it back once: the window does not shrink for good and never       *)
(* allows the peer more than TCP_WND, however reads cut the pbufs.         *)
WindowConserved == pcb # "none" => wnd + Len(Unread) = Wnd

(* A context is closed and its received data freed exactly when the last   *)
(* WiFiClient lets go of it; no connection is left without an owner.       *)
ContextOwned == /\ refcnt = Cardinality(holders)
                /\ ~Alive => pcb = "none" /\ rx = <<>>

(* The types, and who owns the context.                                    *)
Inv == TypeOK /\ ContextOwned

(* In sync mode lwIP sends out of the buffer of the sketch: after a write()*)
(* that waited to the end nothing is left that refers to it.               *)
SyncDataStable == pc = "idle" /\ ~gaveUp => \A i \in 1..Len(snd) : ~snd[i].byRef

(* ClientContext.h:525: "with sync, we wait for acknowledgment before      *)
(* returning to user".                                                     *)
SyncWaitsForAck == pc = "idle" => \A i \in 1..Len(snd) : ~snd[i].byRef

(* connect(), write(), flush() and stop() return, whatever the peer does.  *)
CallReturns == pc # "idle" ~> pc = "idle"

(* The bytes of the peer are read in order and once, those of the sketch   *)
(* are sent in order and counted for it, across wake-ups, time-outs,       *)
(* resets and the closing by the peer (module Connection).                 *)
Abstract == INSTANCE Connection WITH
                up <- pcb # "none", in <- Unread, Sizes <- 1..(MaxIn + MaxOut)
ImplementsConnection == Abstract!Spec
=============================================================================
