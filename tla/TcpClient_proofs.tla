--------------------------- MODULE TcpClient_proofs ---------------------------
(***************************************************************************)
(* The invariants of TcpClient, for any number of WiFiClients, sizes of    *)
(* the window and the send buffer, and lengths of the streams: who owns    *)
(* the context, that no callback leaves a suspended call behind, that lwIP *)
(* does not send out of a buffer that the sketch has got back, that the    *)
(* window accounts for the unread bytes; and that it implements Connection.*)
(***************************************************************************)
EXTENDS TcpClient, FiniteSetTheorems, SequenceTheorems, WellFoundedInduction, TLAPS

(* The context is counted once for each holder; the list of the server     *)
(* holds only a context that nobody has taken yet.                         *)
Owned == /\ IsFiniteSet(holders) /\ refcnt = Cardinality(holders)
         /\ unclaimed \in BOOLEAN
         /\ unclaimed => refcnt = 0
         /\ ~Alive => pcb = "none" /\ rx = <<>>

(* A flag is set only while its call is suspended on a live connection.    *)
Dead == {"none", "CLOSE_WAIT"}
Woken == /\ waiting => pc = "wait" /\ pcb \notin Dead
         /\ pending => pc = "connecting" /\ pcb \notin Dead
         /\ waiting \in BOOLEAN /\ pending \in BOOLEAN

-----------------------------------------------------------------------------
(* Letting go of a context.                                                *)
LEMMA LetGoOwned ==
  ASSUME Owned, NEW h \in holders, LetGo(h)
  PROVE  Owned'
<1>1. holders' = holders \ {h} /\ refcnt' = refcnt - 1 /\ unclaimed' = unclaimed
  BY DEF LetGo
<1>2. IsFiniteSet(holders') /\ refcnt' = Cardinality(holders')
  BY <1>1, FS_RemoveElement DEF Owned
<1>3. refcnt \in Nat /\ refcnt # 0
  <2>1. refcnt \in Nat
    BY FS_CardinalityType DEF Owned
  <2>2. holders # {}
    OBVIOUS
  <2> QED BY <2>1, <2>2, FS_EmptySet DEF Owned
<1>4. ~unclaimed
  BY <1>3 DEF Owned
<1>5. refcnt' = 0 => pcb' = "none" /\ rx' = <<>>
  <2>1. refcnt' = 0 => refcnt = 1
    BY <1>1, <1>3
  <2> QED BY <2>1 DEF LetGo, Unref, Detach
<1>6. ~Alive' => refcnt' = 0
  <2>1. refcnt' \in Nat
    BY <1>1, <1>3
  <2> QED BY <2>1 DEF Alive
<1> QED BY <1>1, <1>2, <1>4, <1>5, <1>6 DEF Owned

(* A context that is held from now on.                                     *)
LEMMA FirstHolder ==
  ASSUME Owned, NEW h, holders' = {h}, refcnt' = 1, unclaimed' = FALSE
  PROVE  Owned'
<1>1. IsFiniteSet({h}) /\ Cardinality({h}) = 1
  BY FS_Singleton
<1>2. Alive'
  BY DEF Alive
<1> QED BY <1>1, <1>2 DEF Owned

(* Steps that leave the owners alone, and what the context holds unless it *)
(* exists.                                                                 *)
LEMMA OwnersStay ==
  ASSUME Owned, UNCHANGED ctxVars,
         ~Alive => pcb' = "none" /\ rx' = <<>>
  PROVE  Owned'
<1>1. holders' = holders /\ refcnt' = refcnt /\ unclaimed' = unclaimed
  BY DEF ctxVars
<1>2. Alive' = Alive
  BY <1>1 DEF Alive
<1> QED BY <1>1, <1>2 DEF Owned

LEMMA InitOwned == Init => Owned
<1> SUFFICES ASSUME Init PROVE Owned
  OBVIOUS
<1> QED BY FS_EmptySet DEF Init, Owned

LEMMA CallOwned == ASSUME Owned, Call PROVE Owned'
<1>1. CASE SetSync
  <2>1. UNCHANGED <<ctxVars, pcb, rx>>
    BY <1>1 DEF SetSync, rxVars
  <2> QED BY <2>1, OwnersStay DEF Owned
<1>2. CASE PeekConsume \/ \E k \in 1..MaxIn : Read(k)
  <2>1. \E m : rx # <<>> /\ Take(m)
    BY <1>2 DEF PeekConsume, Read
  <2>2. UNCHANGED ctxVars /\ Alive
    BY <2>1 DEF Take, Owned
  <2> QED BY <2>2, OwnersStay
<1>3. CASE \E n \in 1..MaxOut : Write(n)
  <2>1. UNCHANGED <<ctxVars, pcb, rx>>
    BY <1>3 DEF Write, rxVars
  <2> QED BY <2>1, OwnersStay DEF Owned
<1>4. ASSUME NEW h \in Handle, Connect(h) PROVE Owned'
  <2>1. ~Alive /\ holders' = {h} /\ refcnt' = 1 /\ unclaimed' = unclaimed
    BY <1>4 DEF Connect
  <2>2. unclaimed' = FALSE
    BY <2>1 DEF Alive, Owned
  <2> QED BY <2>1, <2>2, FirstHolder
<1>5. ASSUME NEW h \in Handle, Accept(h) PROVE Owned'
  <2>1. unclaimed /\ holders' = {h} /\ refcnt' = refcnt + 1 /\ unclaimed' = FALSE
    BY <1>5 DEF Accept
  <2>2. refcnt' = 1
    BY <2>1 DEF Owned
  <2> QED BY <2>1, <2>2, FirstHolder
<1>6. ASSUME NEW h \in Handle, Copy(h) PROVE Owned'
  <2>1. /\ holders # {} /\ h \notin holders
        /\ holders' = holders \cup {h} /\ refcnt' = refcnt + 1
        /\ unclaimed' = unclaimed
    BY <1>6 DEF Copy
  <2>2. refcnt \in Nat /\ refcnt # 0
    BY <2>1, FS_CardinalityType, FS_EmptySet DEF Owned
  <2>3. IsFiniteSet(holders') /\ refcnt' = Cardinality(holders')
    BY <2>1, FS_AddElement DEF Owned
  <2>4. ~unclaimed /\ refcnt' > 0
    BY <2>1, <2>2 DEF Owned
  <2> QED BY <2>1, <2>3, <2>4 DEF Owned, Alive
<1>7. ASSUME NEW h \in Handle, Drop(h) \/ Renew(h) PROVE Owned'
  <2>1. h \in holders /\ LetGo(h)
    BY <1>7 DEF Drop, Renew
  <2> QED BY <2>1, LetGoOwned
<1>8. ASSUME NEW h \in Handle, NEW next, Wait(h, next) PROVE Owned'
  <2>1. UNCHANGED <<ctxVars, pcb, rx>>
    BY <1>8 DEF Wait, rxVars
  <2> QED BY <2>1, OwnersStay DEF Owned
<1> QED BY <1>1, <1>2, <1>3, <1>4, <1>5, <1>6, <1>7, <1>8 DEF Call

(* The end of a wait leaves the context, closes it, or lets it be.         *)
LEMMA WaitedOwned ==
  ASSUME Owned, NEW acked, Waited(acked), then \in {"return", "told", "close", "new"}
  PROVE  Owned'
<1>1. CASE then = "return"
  <2>1. UNCHANGED <<ctxVars, pcb, rx>>
    BY <1>1 DEF Waited
  <2> QED BY <2>1, OwnersStay DEF Owned
<1>2. CASE then = "told"
  <2>1. UNCHANGED <<ctxVars, pcb, rx>>
    BY <1>2 DEF Waited
  <2> QED BY <2>1, OwnersStay DEF Owned
<1>3. CASE then = "close"
  <2>1. UNCHANGED <<ctxVars, rx>> /\ pcb' = "none"
    BY <1>3 DEF Waited, Detach
  <2> QED BY <2>1, OwnersStay DEF Owned
<1>4. CASE then = "new"
  <2>1. \E h \in holders : LetGo(h)
    BY <1>4 DEF Waited
  <2> QED BY <2>1, LetGoOwned
<1> QED BY <1>1, <1>2, <1>3, <1>4

Then == then \in {"return", "told", "close", "new"}

LEMMA ThenType == Then /\ [Next]_vars => Then'
<1> SUFFICES ASSUME Then, [Next]_vars PROVE Then'
  OBVIOUS
<1> USE DEF Then
<1>1. CASE Call
  BY <1>1 DEF Call, SetSync, PeekConsume, Connect, Accept, Copy, Drop, Renew, Wait, Read, Take, Write
<1>2. CASE Run
  <2>1. CASE ConnectFails \/ Connected \/ Resume
    BY <2>1 DEF ConnectFails, Connected, Resume
  <2>2. CASE WriteTurn
    BY <2>2 DEF WriteTurn, Return
  <2>3. ASSUME NEW acked, Waited(acked) PROVE Then'
    BY <2>3 DEF Waited, Return
  <2>4. CASE FlushTurn \/ FlushCheck
    BY <2>3, <2>4 DEF FlushTurn, FlushCheck
  <2> QED BY <1>2, <2>1, <2>2, <2>4 DEF Run
<1>3. CASE Callback
  BY <1>3 DEF Callback, ServerAccept, ConnectedCb, RecvFin, Error, Poll, Recv, Acked, callRest
<1>4. CASE Expire
  BY <1>4 DEF Expire
<1>5. CASE UNCHANGED vars
  BY <1>5 DEF vars
<1> QED BY <1>1, <1>2, <1>3, <1>4, <1>5 DEF Next

LEMMA RunOwned == ASSUME Owned, Then, Run PROVE Owned'
<1>1. CASE ConnectFails
  <2>1. UNCHANGED <<ctxVars, pcb, rx>>
    BY <1>1 DEF ConnectFails, rxVars
  <2> QED BY <2>1, OwnersStay DEF Owned
<1>2. CASE Connected
  <2>1. UNCHANGED <<ctxVars, pcb, rx>> \/ \E h \in holders : LetGo(h)
    BY <1>2 DEF Connected
  <2> QED BY <2>1, OwnersStay, LetGoOwned DEF Owned
<1>3. CASE WriteTurn \/ Resume
  <2>1. UNCHANGED <<ctxVars, pcb, rx>>
    BY <1>3 DEF WriteTurn, Resume, rxVars
  <2> QED BY <2>1, OwnersStay DEF Owned
<1>4. CASE FlushTurn \/ FlushCheck
  <2>1. UNCHANGED <<ctxVars, pcb, rx>> \/ \E acked \in BOOLEAN : Waited(acked)
    BY <1>4 DEF FlushTurn, FlushCheck
  <2> QED BY <2>1, OwnersStay, WaitedOwned DEF Owned, Then
<1> QED BY <1>1, <1>2, <1>3, <1>4 DEF Run

LEMMA CallbackOwned == ASSUME Owned, Callback \/ Expire PROVE Owned'
<1>1. CASE ServerAccept
  <2>1. ~Alive /\ unclaimed' = TRUE /\ holders' = holders /\ refcnt' = refcnt
    BY <1>1 DEF ServerAccept
  <2>2. refcnt = 0
    <3>1. refcnt \in Nat
      BY FS_CardinalityType DEF Owned
    <3> QED BY <2>1, <3>1 DEF Alive
  <2> QED BY <2>1, <2>2 DEF Owned, Alive
<1>2. CASE ConnectedCb \/ RecvFin \/ Error \/ Poll \/ Expire \/ \E k \in 1..SndBuf : Acked(k)
  <2>1. UNCHANGED <<ctxVars, rx>>
    BY <1>2 DEF ConnectedCb, RecvFin, Error, Poll, Expire, Acked, callRest, rxVars
  <2>2. pcb' = pcb \/ pcb' = "none" \/ pcb # "none"
    BY <1>2 DEF ConnectedCb, RecvFin, Error, Poll, Expire, Acked, Detach
  <2> QED BY <2>1, <2>2, OwnersStay DEF Owned
<1>3. CASE \E k \in 1..MaxIn : Recv(k)
  <2>1. UNCHANGED ctxVars /\ pcb = "ESTABLISHED"
    BY <1>3 DEF Recv, callRest
  <2> QED BY <2>1, OwnersStay DEF Owned
<1> QED BY <1>1, <1>2, <1>3 DEF Callback

LEMMA NextOwned == Owned /\ Then /\ [Next]_vars => Owned'
<1> SUFFICES ASSUME Owned, Then, [Next]_vars PROVE Owned'
  OBVIOUS
<1>1. CASE Next
  BY <1>1, CallOwned, RunOwned, CallbackOwned DEF Next
<1>2. CASE UNCHANGED vars
  <2>1. UNCHANGED <<ctxVars, pcb, rx>>
    BY <1>2 DEF vars, rxVars
  <2> QED BY <2>1, OwnersStay DEF Owned
<1> QED BY <1>1, <1>2

-----------------------------------------------------------------------------
(* Flags and what they wait for.                                           *)

(* Steps while no call is suspended with a flag, or that leave both alone. *)
LEMMA NoFlag ==
  ASSUME Woken, pc \notin {"wait", "connecting"}, UNCHANGED <<waiting, pending>>
  PROVE  Woken'
  BY DEF Woken

LEMMA FlagsStay ==
  ASSUME Woken, UNCHANGED <<waiting, pending, pc>>,
         pcb' = pcb \/ pcb' \notin Dead
  PROVE  Woken'
  BY DEF Woken

LEMMA CallWoken == ASSUME Woken, Call PROVE Woken'
<1>1. CASE SetSync \/ \E n \in 1..MaxOut : Write(n)
  <2>1. pc = "idle" /\ UNCHANGED <<waiting, pending>>
    BY <1>1 DEF SetSync, Write, callVars
  <2> QED BY <2>1, NoFlag
<1>2. CASE PeekConsume \/ \E k \in 1..MaxIn : Read(k)
  <2>1. \E m : Take(m)
    BY <1>2 DEF PeekConsume, Read
  <2>2. pc = "idle" /\ UNCHANGED <<waiting, pending>>
    BY <2>1 DEF Take, callVars
  <2> QED BY <2>2, NoFlag
<1>3. ASSUME NEW h \in Handle, Connect(h) PROVE Woken'
  <2>1. /\ pc \in {"idle", "new"} /\ pc' = "connecting" /\ pending' = TRUE
        /\ pcb' = "SYN_SENT" /\ waiting' = waiting
    BY <1>3 DEF Connect, Fresh
  <2> QED BY <2>1 DEF Woken, Dead
<1>4. ASSUME NEW h \in Handle, Accept(h) \/ Copy(h) \/ Drop(h) \/ Renew(h) PROVE Woken'
  <2>1. pc = "idle" /\ UNCHANGED <<waiting, pending>>
    BY <1>4 DEF Accept, Copy, Drop, Renew, callVars
  <2> QED BY <2>1, NoFlag
<1>5. ASSUME NEW h \in Handle, NEW next, Wait(h, next) PROVE Woken'
  <2>1. pc = "idle" /\ UNCHANGED <<waiting, pending>>
    BY <1>5 DEF Wait
  <2> QED BY <2>1, NoFlag
<1> QED BY <1>1, <1>2, <1>3, <1>4, <1>5 DEF Call

LEMMA RunWoken == ASSUME Woken, Run PROVE Woken'
<1>1. CASE ConnectFails
  <2>1. pc = "new" /\ UNCHANGED <<waiting, pending>>
    BY <1>1 DEF ConnectFails, callVars
  <2> QED BY <2>1, NoFlag
<1>2. CASE Connected
  <2>1. pc = "connecting" /\ pending' = FALSE /\ waiting' = waiting
    BY <1>2 DEF Connected
  <2> QED BY <2>1 DEF Woken
<1>3. CASE WriteTurn
  <2>1. /\ pc = "write" /\ UNCHANGED <<pcb, pending>>
        /\ \/ waiting' = waiting
           \/ waiting' = TRUE /\ pc' = "wait" /\ State # "CLOSED"
    BY <1>3 DEF WriteTurn, Over
  <2>2. State # "CLOSED" => pcb \notin Dead
    BY DEF State, Dead
  <2>3. CASE waiting' = waiting
    BY <2>1, <2>3, NoFlag
  <2>4. CASE waiting' = TRUE /\ pc' = "wait" /\ State # "CLOSED"
    <3>1. pending = FALSE /\ pending' = FALSE /\ pcb' \notin Dead
      BY <2>1, <2>2, <2>4 DEF Woken
    <3> QED BY <2>4, <3>1 DEF Woken
  <2> QED BY <2>1, <2>3, <2>4
<1>4. CASE Resume
  <2>1. pc = "wait" /\ waiting' = FALSE /\ pending' = pending
    BY <1>4 DEF Resume
  <2> QED BY <2>1 DEF Woken
<1>5. CASE FlushTurn \/ FlushCheck
  <2>1. pc \in {"flush", "yield"} /\ UNCHANGED <<waiting, pending>>
    BY <1>5 DEF FlushTurn, FlushCheck
  <2> QED BY <2>1, NoFlag
<1> QED BY <1>1, <1>2, <1>3, <1>4, <1>5 DEF Run

(* A callback that ends the connection clears both flags.                  *)
LEMMA CallbackWoken == ASSUME Woken, Callback \/ Expire PROVE Woken'
<1>1. CASE ServerAccept
  <2>1. UNCHANGED <<waiting, pending, pc>> /\ pcb' = "ESTABLISHED"
    BY <1>1 DEF ServerAccept, Fresh, callVars
  <2> QED BY <2>1, FlagsStay DEF Dead
<1>2. CASE ConnectedCb
  <2>1. pcb' = "ESTABLISHED" /\ pending' = FALSE /\ UNCHANGED <<pc, waiting>>
    BY <1>2 DEF ConnectedCb, callRest
  <2> QED BY <2>1 DEF Woken, Dead
<1>3. CASE RecvFin \/ Error
  <2>1. waiting' = FALSE /\ pending' = FALSE
    BY <1>3 DEF RecvFin, Error, NotifyError
  <2> QED BY <2>1 DEF Woken
<1>4. CASE Poll \/ \E k \in 1..SndBuf : Acked(k)
  <2>1. waiting' = FALSE /\ UNCHANGED <<pc, pcb, pending>>
    BY <1>4 DEF Poll, Acked, WriteSomeFromCb, callRest
  <2> QED BY <2>1 DEF Woken
<1>5. CASE Expire \/ \E k \in 1..MaxIn : Recv(k)
  <2>1. UNCHANGED <<waiting, pending, pc, pcb>>
    BY <1>5 DEF Expire, Recv, callRest
  <2> QED BY <2>1, FlagsStay
<1> QED BY <1>1, <1>2, <1>3, <1>4, <1>5 DEF Callback

LEMMA InitWoken == Init => Woken
  BY DEF Init, Woken

LEMMA NextWoken == Woken /\ [Next]_vars => Woken'
<1> SUFFICES ASSUME Woken, [Next]_vars PROVE Woken'
  OBVIOUS
<1>1. CASE Next
  BY <1>1, CallWoken, RunWoken, CallbackWoken DEF Next
<1>2. CASE UNCHANGED vars
  BY <1>2, FlagsStay DEF vars, callVars
<1> QED BY <1>1, <1>2

(* A connection that has ended, or that the peer has closed, leaves nobody *)
(* suspended on it.                                                        *)
THEOREM SpecNobodyWaitsForDead == Spec => []NobodyWaitsForDead
<1>1. Woken => NobodyWaitsForDead
  BY DEF Woken, NobodyWaitsForDead, Dead
<1> QED BY <1>1, InitWoken, NextWoken, PTL DEF Spec

-----------------------------------------------------------------------------
(* The buffer of the sketch.                                               *)

(* Nothing that lwIP has still to send is in the buffer of the sketch.     *)
NoRef == \A i \in 1..Len(snd) : ~snd[i].byRef

Lengths == /\ snd \in Seq([byte : Nat, byRef : BOOLEAN]) /\ Len(snd) <= SndBuf
           /\ told \in Nat /\ written \in Nat /\ datalen \in Nat
           /\ pc \in {"write", "wait"} => written <= datalen /\ then = "told"

(* Bytes are sent out of it during the write() that was given it, until    *)
(* its wait for the acks has ended.                                        *)
Writing == \/ sync /\ pc \in {"write", "wait"}
           \/ pc \in {"flush", "yield"} /\ then = "told"

Stable == /\ Lengths
          /\ sync \in BOOLEAN /\ gaveUp \in BOOLEAN
          /\ pcb = "none" => snd = <<>>
          /\ pc = "yield" /\ prev = SndBuf => snd = <<>>
          /\ NoRef \/ gaveUp \/ Writing

(* A new context has nothing to send.                                      *)
LEMMA FreshStable ==
  ASSUME Stable, NEW s, Fresh(s), s # "none",
         UNCHANGED <<datalen, written, then>>, pc' \notin {"write", "wait"} \/ pc' = pc
  PROVE  Stable'
<1>1. snd' = <<>> /\ told' = 0 /\ sync' \in BOOLEAN /\ gaveUp' = FALSE /\ pcb' # "none"
  BY DEF Fresh
<1>2. Len(snd') = 0 /\ snd' \in Seq([byte : Nat, byRef : BOOLEAN]) /\ Len(snd') <= SndBuf
  BY <1>1, TcpAssumption
<1>3. NoRef'
  BY <1>2 DEF NoRef
<1>4. Lengths'
  BY <1>1, <1>2 DEF Stable, Lengths
<1> QED BY <1>1, <1>3, <1>4 DEF Stable

(* Steps that leave the bytes to send alone, or drop them all, and whose   *)
(* call does not end.                                                      *)
LEMMA BytesStay ==
  ASSUME Stable, UNCHANGED <<told, written, datalen, gaveUp, then, prev, sync, pc>>,
         \/ snd' = snd /\ (pcb' # "none" \/ pcb' = pcb)
         \/ snd' = <<>>
  PROVE  Stable'
<1>1. CASE snd' = snd /\ (pcb' # "none" \/ pcb' = pcb)
  BY <1>1 DEF Stable, Lengths, NoRef, Writing
<1>2. CASE snd' = <<>>
  <2>1. Len(snd') = 0 /\ snd' \in Seq([byte : Nat, byRef : BOOLEAN]) /\ Len(snd') <= SndBuf
    BY <1>2, TcpAssumption
  <2>2. NoRef'
    BY <2>1 DEF NoRef
  <2>3. Lengths'
    BY <2>1 DEF Stable, Lengths
  <2> QED BY <1>2, <2>2, <2>3 DEF Stable
<1> QED BY <1>1, <1>2

(* Calls that begin when the sketch has all its buffers back.              *)
LEMMA CallBegins ==
  ASSUME Stable, pc \in {"idle", "new"}, UNCHANGED <<told, gaveUp, written>>,
         datalen' \in Nat, sync' \in BOOLEAN,
         pc' \in {"idle", "new", "flush"} \/ (pc' = "write" /\ then' = "told" /\ written <= datalen'),
         \/ snd' = snd /\ pcb' = pcb
         \/ snd' = <<>>
  PROVE  Stable'
<1>1. NoRef \/ gaveUp
  BY DEF Stable, Writing
<1>2. /\ snd' \in Seq([byte : Nat, byRef : BOOLEAN]) /\ Len(snd') <= SndBuf
      /\ pcb' = "none" => snd' = <<>>
  <2>1. CASE snd' = snd /\ pcb' = pcb
    BY <2>1 DEF Stable, Lengths
  <2>2. CASE snd' = <<>>
    <3>1. Len(snd') = 0 /\ snd' \in Seq([byte : Nat, byRef : BOOLEAN])
      BY <2>2
    <3> QED BY <2>2, <3>1, TcpAssumption
  <2> QED BY <2>1, <2>2
<1>3. NoRef => NoRef'
  <2>1. CASE snd' = snd
    BY <2>1 DEF NoRef
  <2>2. CASE snd' = <<>>
    BY <2>2 DEF NoRef
  <2> QED BY <2>1, <2>2
<1>4. Lengths'
  BY <1>2 DEF Stable, Lengths
<1> QED BY <1>1, <1>2, <1>3, <1>4 DEF Stable

LEMMA CallStable == ASSUME Stable, Call PROVE Stable'
<1>1. CASE SetSync
  <2>1. /\ pc = "idle" /\ sync' \in BOOLEAN
        /\ UNCHANGED <<pc, told, gaveUp, written, datalen, snd, pcb>>
    BY <1>1 DEF SetSync, txVars, callVars, Stable
  <2>2. datalen' \in Nat
    BY <2>1 DEF Stable, Lengths
  <2> QED BY <2>1, <2>2, CallBegins
<1>2. CASE PeekConsume \/ \E k \in 1..MaxIn : Read(k)
  <2>1. \E m : Take(m)
    BY <1>2 DEF PeekConsume, Read
  <2>2. UNCHANGED <<told, written, datalen, gaveUp, then, prev, sync, pc, snd, pcb>>
    BY <2>1 DEF Take, txVars, callVars
  <2> QED BY <2>2, BytesStay
<1>3. ASSUME NEW n \in 1..MaxOut, Write(n) PROVE Stable'
  <2>1. /\ pc = "idle" /\ pc' = "write" /\ then' = "told"
        /\ datalen' = n /\ written' = 0
        /\ UNCHANGED <<pcb, snd, told, sync, gaveUp, prev>>
    BY <1>3 DEF Write, txVars, userVars
  <2>2. n \in Nat /\ NoRef' = NoRef
    BY <2>1 DEF NoRef
  <2>3. Lengths'
    BY <2>1, <2>2 DEF Stable, Lengths
  <2>4. NoRef \/ gaveUp
    BY <2>1 DEF Stable, Writing
  <2> QED BY <2>1, <2>2, <2>3, <2>4 DEF Stable
<1>4. ASSUME NEW h \in Handle, Connect(h) PROVE Stable'
  <2>1. Fresh("SYN_SENT") /\ pc' = "connecting" /\ UNCHANGED <<datalen, written, then>>
    BY <1>4 DEF Connect
  <2> QED BY <2>1, FreshStable
<1>5. ASSUME NEW h \in Handle, Accept(h) PROVE Stable'
  <2>1. /\ pc = "idle" /\ sync' \in BOOLEAN
        /\ UNCHANGED <<pc, told, gaveUp, written, datalen, snd, pcb>>
    BY <1>5 DEF Accept, txVars, callVars
  <2>2. datalen' \in Nat
    BY <2>1 DEF Stable, Lengths
  <2> QED BY <2>1, <2>2, CallBegins
<1>6. ASSUME NEW h \in Handle, Copy(h) PROVE Stable'
  <2>1. UNCHANGED <<told, written, datalen, gaveUp, then, prev, sync, pc, snd, pcb>>
    BY <1>6 DEF Copy, txVars, callVars, userVars
  <2> QED BY <2>1, BytesStay
<1>7. ASSUME NEW h \in Handle, Drop(h) \/ Renew(h) PROVE Stable'
  <2>1. /\ pc = "idle" /\ pc' \in {"idle", "new"}
        /\ UNCHANGED <<told, gaveUp, written, datalen, sync>>
    BY <1>7 DEF Drop, Renew, callVars, userVars
  <2>2. (snd' = snd /\ pcb' = pcb) \/ snd' = <<>>
    BY <1>7 DEF Drop, Renew, LetGo, Unref, Detach
  <2>3. datalen' \in Nat /\ sync' \in BOOLEAN
    BY <2>1 DEF Stable, Lengths
  <2> QED BY <2>1, <2>2, <2>3, CallBegins
<1>8. ASSUME NEW h \in Handle, NEW next \in {"return", "close", "new"}, Wait(h, next) PROVE Stable'
  <2>1. /\ pc = "idle" /\ pc' = "flush"
        /\ UNCHANGED <<told, gaveUp, written, datalen, snd, pcb, sync>>
    BY <1>8 DEF Wait, txVars, userVars
  <2>2. datalen' \in Nat /\ sync' \in BOOLEAN
    BY <2>1 DEF Stable, Lengths
  <2> QED BY <2>1, <2>2, CallBegins
<1> QED BY <1>1, <1>2, <1>3, <1>4, <1>5, <1>6, <1>7, <1>8 DEF Call

(* lwIP takes no more than it has room for, and nothing once it is closed. *)
LEMMA ChunkBounds ==
  ASSUME Stable, pc = "write"
  PROVE  /\ Chunk \in Nat /\ Chunk <= SndBuf - Len(snd) /\ Chunk <= datalen - written
         /\ State = "CLOSED" => Chunk = 0
<1>1. Len(snd) \in Nat /\ SndBuf \in Nat /\ Len(snd) <= SndBuf
  BY TcpAssumption DEF Stable, Lengths
<1>2. datalen \in Nat /\ written \in Nat /\ written <= datalen
  BY DEF Stable, Lengths
<1> QED BY <1>1, <1>2 DEF Chunk, Least, Space

LEMMA Appended ==
  ASSUME Stable, NEW c \in Nat, c <= SndBuf - Len(snd), WriteSome(c)
  PROVE  /\ snd' \in Seq([byte : Nat, byRef : BOOLEAN]) /\ Len(snd') <= SndBuf
         /\ (NoRef /\ ~sync) => NoRef'
         /\ c = 0 => snd' = snd
<1>1. /\ snd \in Seq([byte : Nat, byRef : BOOLEAN]) /\ Len(snd) \in Nat
      /\ told \in Nat /\ written \in Nat /\ sync \in BOOLEAN /\ SndBuf \in Nat
  BY TcpAssumption DEF Stable, Lengths
<1>2. snd' = snd \o Unsent(c)
  BY DEF WriteSome
<1>3. /\ Unsent(c) \in Seq([byte : Nat, byRef : BOOLEAN]) /\ Len(Unsent(c)) = c
      /\ \A i \in 1..c : Unsent(c)[i].byRef = sync
  <2>1. \A i \in 1..c : [byte |-> told + written + i, byRef |-> sync] \in [byte : Nat, byRef : BOOLEAN]
    BY <1>1
  <2> QED BY <2>1 DEF Unsent
<1>4. /\ snd' \in Seq([byte : Nat, byRef : BOOLEAN]) /\ Len(snd') = Len(snd) + c
      /\ \A i \in 1..(Len(snd) + c) : snd'[i] = IF i <= Len(snd) THEN snd[i] ELSE Unsent(c)[i - Len(snd)]
  BY <1>1, <1>2, <1>3, ConcatProperties
<1>5. Len(snd') <= SndBuf
  BY <1>1, <1>4
<1>6. ASSUME NoRef, ~sync PROVE NoRef'
  <2>1. ASSUME NEW i \in 1..(Len(snd) + c) PROVE ~snd'[i].byRef
    <3>1. CASE i <= Len(snd)
      <4>1. i \in 1..Len(snd)
        BY <1>1, <3>1
      <4>2. snd'[i] = snd[i]
        BY <1>4, <3>1
      <4> QED BY <1>6, <4>1, <4>2 DEF NoRef
    <3>2. CASE ~(i <= Len(snd))
      <4>1. i - Len(snd) \in 1..c
        BY <1>1, <3>2
      <4> QED BY <1>3, <1>4, <1>6, <3>2, <4>1
    <3> QED BY <3>1, <3>2
  <2> QED BY <1>4, <2>1 DEF NoRef
<1>7. c = 0 => snd' = snd
  <2>1. c = 0 => Unsent(c) = <<>>
    BY <1>3, EmptySeq
  <2> QED BY <1>1, <1>2, <2>1, ConcatEmptySeq
<1> QED BY <1>4, <1>5, <1>6, <1>7

LEMMA WriteTurnStable == ASSUME Stable, WriteTurn PROVE Stable'
<1>1. PICK c \in {0, Chunk} :
        /\ pc = "write"
        /\ WriteSome(c)
        /\ \/ /\ waiting' = TRUE /\ pc' = "wait" /\ written' = written + c
              /\ UNCHANGED <<then, datalen, prev, told>>
           \/ /\ datalen' = 0 /\ sync /\ pcb # "none" /\ pc' = "flush"
              /\ written' = written + c /\ UNCHANGED <<then, prev, told>>
           \/ /\ datalen' = 0 /\ (~sync \/ pcb = "none") /\ Return
              /\ told' = told + written + c /\ written' = 0
        /\ UNCHANGED <<pcb, sync, gaveUp>>
  BY DEF WriteTurn
<1>2. /\ c \in Nat /\ c <= SndBuf - Len(snd) /\ c <= datalen - written
      /\ State = "CLOSED" => c = 0
  <2>1. Len(snd) \in Nat /\ Len(snd) <= SndBuf /\ written \in Nat /\ datalen \in Nat /\ SndBuf \in Nat
    BY TcpAssumption DEF Stable, Lengths
  <2>2. written <= datalen
    BY <1>1 DEF Stable, Lengths
  <2> QED BY <1>1, <2>1, <2>2, ChunkBounds
<1>3. /\ snd' \in Seq([byte : Nat, byRef : BOOLEAN]) /\ Len(snd') <= SndBuf
      /\ (NoRef /\ ~sync) => NoRef'
      /\ c = 0 => snd' = snd
  BY <1>1, <1>2, Appended
<1>4. pcb' = "none" => snd' = <<>>
  <2>1. pcb = "none" => State = "CLOSED"
    BY DEF State
  <2> QED BY <1>1, <1>2, <1>3, <2>1 DEF Stable
<1>5. /\ told \in Nat /\ written \in Nat /\ datalen \in Nat /\ then = "told"
      /\ sync \in BOOLEAN /\ gaveUp \in BOOLEAN
  BY <1>1 DEF Stable, Lengths
<1>6. ~sync => NoRef \/ gaveUp
  BY <1>1 DEF Stable, Writing
<1>7. Lengths'
  <2>1. written + c \in Nat /\ told + written + c \in Nat /\ written + c <= datalen
    BY <1>2, <1>5
  <2>2. told' \in Nat /\ written' \in Nat /\ datalen' \in Nat
    BY <1>1, <1>5, <2>1
  <2>3. pc' \in {"write", "wait"} => written' <= datalen' /\ then' = "told"
    BY <1>1, <1>5, <2>1 DEF Return
  <2> QED BY <1>3, <2>2, <2>3 DEF Lengths
<1>8. pc' # "yield"
  BY <1>1 DEF Return
<1>9. NoRef' \/ gaveUp' \/ Writing'
  <2>1. CASE ~sync
    BY <1>1, <1>3, <1>6, <2>1
  <2>2. CASE pcb = "none"
    <3>1. snd' = <<>>
      BY <1>1, <1>4, <2>2
    <3> QED BY <3>1 DEF NoRef
  <2>3. CASE sync /\ pcb # "none"
    BY <1>1, <1>5, <2>3 DEF Writing
  <2> QED BY <1>5, <2>1, <2>2, <2>3
<1> QED BY <1>1, <1>4, <1>5, <1>7, <1>8, <1>9 DEF Stable

(* A wait that ends with its data acknowledged leaves nothing to send.     *)
LEMMA WaitedStable ==
  ASSUME Stable, Then, pc \in {"flush", "yield"}, NEW acked \in BOOLEAN, Waited(acked),
         acked => snd = <<>>, UNCHANGED <<datalen, sync>>
  PROVE  Stable'
<1>1. /\ told \in Nat /\ written \in Nat /\ datalen \in Nat /\ sync \in BOOLEAN /\ gaveUp \in BOOLEAN
      /\ snd \in Seq([byte : Nat, byRef : BOOLEAN]) /\ Len(snd) <= SndBuf
  BY DEF Stable, Lengths
<1>2. pc' \in {"idle", "new"}
  BY DEF Waited, Return, Then
<1>3. told' \in Nat /\ written' \in Nat
  <2>1. told + written \in Nat
    BY <1>1
  <2>2. CASE then = "told"
    <3>1. told' = told + written /\ written' = 0
      BY <2>2 DEF Waited
    <3> QED BY <2>1, <3>1
  <2>3. CASE then # "told"
    <3>1. told' = told /\ written' = written
      BY <2>3 DEF Waited, Then
    <3> QED BY <1>1, <3>1
  <2> QED BY <2>2, <2>3
<1>4. (snd' = snd /\ pcb' = pcb) \/ snd' = <<>>
  BY DEF Waited, Detach, LetGo, Unref, Then
<1>5. /\ snd' \in Seq([byte : Nat, byRef : BOOLEAN]) /\ Len(snd') <= SndBuf
      /\ pcb' = "none" => snd' = <<>>
  <2>1. CASE snd' = snd /\ pcb' = pcb
    BY <1>1, <2>1 DEF Stable
  <2>2. CASE snd' = <<>>
    <3>1. Len(snd') = 0 /\ snd' \in Seq([byte : Nat, byRef : BOOLEAN])
      BY <2>2
    <3> QED BY <2>2, <3>1, TcpAssumption
  <2> QED BY <1>4, <2>1, <2>2
<1>6. NoRef => NoRef'
  <2>1. CASE snd' = snd
    BY <2>1 DEF NoRef
  <2>2. CASE snd' = <<>>
    BY <2>2 DEF NoRef
  <2> QED BY <1>4, <2>1, <2>2
<1>7. gaveUp' \in BOOLEAN /\ (gaveUp => gaveUp')
  BY <1>1 DEF Waited, Then
<1>8. NoRef' \/ gaveUp'
  <2>1. CASE then # "told"
    BY <1>6, <1>7, <2>1 DEF Stable, Writing
  <2>2. CASE then = "told" /\ acked
    <3>1. NoRef
      BY <2>2 DEF NoRef
    <3> QED BY <1>6, <3>1
  <2>3. CASE then = "told" /\ ~acked
    BY <1>1, <2>3 DEF Waited
  <2> QED BY <2>1, <2>2, <2>3
<1>9. Lengths'
  BY <1>1, <1>2, <1>3, <1>5 DEF Lengths
<1> QED BY <1>1, <1>2, <1>5, <1>7, <1>8, <1>9 DEF Stable

LEMMA RunStable == ASSUME Stable, Then, Run PROVE Stable'
<1>1. CASE ConnectFails
  <2>1. /\ pc = "new" /\ pc' = "idle"
        /\ UNCHANGED <<told, gaveUp, written, datalen, snd, pcb, sync>>
    BY <1>1 DEF ConnectFails, txVars, callVars, userVars
  <2>2. datalen' \in Nat /\ sync' \in BOOLEAN
    BY <2>1 DEF Stable, Lengths
  <2> QED BY <2>1, <2>2, CallBegins
<1>2. CASE Connected
  <2>1. /\ pc = "connecting" /\ pc' = "idle"
        /\ UNCHANGED <<told, gaveUp, written, datalen, sync, prev, then>>
    BY <1>2 DEF Connected, userVars
  <2>2. (snd' = snd /\ pcb' = pcb) \/ snd' = <<>>
    BY <1>2 DEF Connected, LetGo, Unref, Detach
  <2>3. CASE snd' = snd /\ pcb' = pcb
    BY <2>1, <2>3 DEF Stable, Lengths, NoRef, Writing
  <2>4. CASE snd' = <<>>
    <3>1. Len(snd') = 0 /\ snd' \in Seq([byte : Nat, byRef : BOOLEAN]) /\ Len(snd') <= SndBuf
      BY <2>4, TcpAssumption
    <3>2. NoRef'
      BY <3>1 DEF NoRef
    <3>3. Lengths'
      BY <2>1, <3>1 DEF Stable, Lengths
    <3> QED BY <2>1, <2>4, <3>2, <3>3 DEF Stable
  <2> QED BY <2>2, <2>3, <2>4
<1>3. CASE WriteTurn
  BY <1>3, WriteTurnStable
<1>4. CASE Resume
  <2>1. /\ pc = "wait" /\ pc' = "write"
        /\ UNCHANGED <<told, gaveUp, written, datalen, sync, prev, then, snd, pcb>>
    BY <1>4 DEF Resume, userVars, txVars
  <2> QED BY <2>1 DEF Stable, Lengths, NoRef, Writing
<1>5. CASE FlushTurn
  <2>1. pc = "flush" /\ UNCHANGED <<datalen, sync>>
    BY <1>5 DEF FlushTurn
  <2>2. CASE late
    <3>1. Waited(FALSE)
      BY <1>5, <2>2 DEF FlushTurn
    <3> QED BY <2>1, <3>1, WaitedStable
  <2>3. CASE ~late
    <3>1. prev' = Space /\ pc' = "yield" /\ UNCHANGED <<pcb, snd, then, written, told, gaveUp>>
      BY <1>5, <2>3 DEF FlushTurn
    <3>2. prev' = SndBuf => snd' = <<>>
      <4>1. Len(snd) \in Nat /\ SndBuf \in Nat
        BY TcpAssumption DEF Stable, Lengths
      <4>2. SndBuf - Len(snd) = SndBuf => Len(snd) = 0
        BY <4>1
      <4>3. Len(snd) = 0 => snd = <<>>
        BY EmptySeq DEF Stable, Lengths
      <4> QED BY <3>1, <4>2, <4>3 DEF Space
    <3>3. Lengths'
      BY <2>1, <3>1 DEF Stable, Lengths
    <3>4. NoRef' \/ gaveUp' \/ Writing'
      BY <2>1, <3>1 DEF Stable, NoRef, Writing
    <3> QED BY <2>1, <3>1, <3>2, <3>3, <3>4 DEF Stable
  <2> QED BY <2>2, <2>3
<1>6. CASE FlushCheck
  <2>1. pc = "yield" /\ UNCHANGED <<datalen, sync>>
    BY <1>6 DEF FlushCheck
  <2>2. CASE State # "ESTABLISHED" \/ AllAcked
    <3>1. Waited(State = "ESTABLISHED")
      BY <1>6, <2>2 DEF FlushCheck
    <3>2. State = "ESTABLISHED" => snd = <<>>
      BY <2>1, <2>2 DEF AllAcked, Stable
    <3>3. CASE State = "ESTABLISHED"
      <4>1. Waited(TRUE)
        BY <3>1, <3>3
      <4> QED BY <2>1, <3>2, <3>3, <4>1, WaitedStable
    <3>4. CASE State # "ESTABLISHED"
      <4>1. Waited(FALSE)
        BY <3>1, <3>4
      <4> QED BY <2>1, <4>1, WaitedStable
    <3> QED BY <3>3, <3>4
  <2>3. CASE ~(State # "ESTABLISHED" \/ AllAcked)
    <3>1. pc' = "flush" /\ UNCHANGED <<pcb, snd, then, written, prev, told, gaveUp>>
      BY <1>6, <2>3 DEF FlushCheck
    <3> QED BY <2>1, <3>1 DEF Stable, Lengths, NoRef, Writing
  <2> QED BY <2>2, <2>3
<1> QED BY <1>1, <1>2, <1>3, <1>4, <1>5, <1>6 DEF Run

(* An acknowledgment takes the oldest bytes away.                          *)
LEMMA AckedStable == ASSUME Stable, NEW k \in 1..SndBuf, Acked(k) PROVE Stable'
<1>1. /\ k <= Len(snd) /\ snd' = SubSeq(snd, k + 1, Len(snd))
      /\ UNCHANGED <<told, written, datalen, gaveUp, then, prev, sync, pc, pcb>>
  BY DEF Acked, callRest, userVars
<1>2. snd \in Seq([byte : Nat, byRef : BOOLEAN]) /\ Len(snd) \in Nat /\ Len(snd) <= SndBuf /\ k \in Nat \ {0}
  BY TcpAssumption DEF Stable, Lengths
<1>3. \A i \in (k + 1)..Len(snd) : snd[i] \in [byte : Nat, byRef : BOOLEAN]
  <2>1. \A i \in (k + 1)..Len(snd) : i \in 1..Len(snd)
    BY <1>2
  <2> QED BY <1>2, <2>1, ElementOfSeq
<1>4. k + 1 \in Int /\ Len(snd) - (k + 1) + 1 = Len(snd) - k
  BY <1>2
<1>5. /\ snd' \in Seq([byte : Nat, byRef : BOOLEAN])
      /\ Len(snd') = IF k + 1 <= Len(snd) THEN Len(snd) - (k + 1) + 1 ELSE 0
      /\ \A i \in 1..(Len(snd) - (k + 1) + 1) : snd'[i] = snd[k + 1 + i - 1]
  BY <1>1, <1>2, <1>3, <1>4, SubSeqProperties
<1>6. Len(snd') = Len(snd) - k /\ Len(snd') <= SndBuf
  <2>1. Len(snd') = Len(snd) - k
    <3>1. CASE k + 1 <= Len(snd)
      BY <1>4, <1>5, <3>1
    <3>2. CASE ~(k + 1 <= Len(snd))
      <4>1. Len(snd) - k = 0
        BY <1>1, <1>2, <3>2
      <4> QED BY <1>5, <3>2, <4>1
    <3> QED BY <3>1, <3>2
  <2>2. SndBuf \in Nat
    BY TcpAssumption
  <2> QED BY <1>1, <1>2, <2>1, <2>2
<1>7. snd # <<>>
  BY <1>1, <1>2
<1>8. NoRef => NoRef'
  <2>1. ASSUME NoRef, NEW i \in 1..(Len(snd) - k) PROVE ~snd'[i].byRef
    <3>1. k + 1 + i - 1 \in 1..Len(snd)
      BY <1>2
    <3>2. snd'[i] = snd[k + 1 + i - 1]
      BY <1>4, <1>5
    <3> QED BY <2>1, <3>1, <3>2 DEF NoRef
  <2> QED BY <1>6, <2>1 DEF NoRef
<1>9. Lengths'
  BY <1>1, <1>5, <1>6 DEF Stable, Lengths
<1>10. NoRef' \/ gaveUp' \/ Writing'
  BY <1>1, <1>8 DEF Stable, Writing
<1> QED BY <1>1, <1>7, <1>9, <1>10 DEF Stable

LEMMA CallbackStable == ASSUME Stable, Callback \/ Expire PROVE Stable'
<1>1. CASE ServerAccept
  <2>1. Fresh("ESTABLISHED") /\ UNCHANGED <<datalen, written, then, pc>>
    BY <1>1 DEF ServerAccept, callVars
  <2> QED BY <2>1, FreshStable
<1>2. CASE ConnectedCb \/ RecvFin \/ Error \/ Poll \/ Expire \/ \E k \in 1..MaxIn : Recv(k)
  <2>1. UNCHANGED <<told, written, datalen, gaveUp, then, prev, sync, pc>>
    BY <1>2 DEF ConnectedCb, RecvFin, Error, Poll, Expire, Recv, callRest, userVars
  <2>2. \/ snd' = snd /\ (pcb' # "none" \/ pcb' = pcb)
        \/ snd' = <<>>
    BY <1>2 DEF ConnectedCb, RecvFin, Error, Poll, Expire, Recv, Detach, txVars
  <2> QED BY <2>1, <2>2, BytesStay
<1>3. CASE \E k \in 1..SndBuf : Acked(k)
  BY <1>3, AckedStable
<1> QED BY <1>1, <1>2, <1>3 DEF Callback

LEMMA InitStable == Init => Stable
<1> SUFFICES ASSUME Init PROVE Stable
  OBVIOUS
<1>1. snd = <<>> /\ Len(snd) = 0 /\ SndBuf \in Nat
  BY TcpAssumption DEF Init
<1>2. NoRef
  BY <1>1 DEF NoRef
<1>3. Lengths
  BY <1>1 DEF Init, Lengths
<1> QED BY <1>1, <1>2, <1>3 DEF Init, Stable

LEMMA NextStable == Stable /\ Then /\ [Next]_vars => Stable'
<1> SUFFICES ASSUME Stable, Then, [Next]_vars PROVE Stable'
  OBVIOUS
<1>1. CASE Next
  BY <1>1, CallStable, RunStable, CallbackStable DEF Next
<1>2. CASE UNCHANGED vars
  <2>1. UNCHANGED <<told, written, datalen, gaveUp, then, prev, sync, pc, snd, pcb>>
    BY <1>2 DEF vars, txVars, callVars, userVars
  <2> QED BY <2>1, BytesStay
<1> QED BY <1>1, <1>2

(* After a write() in sync mode that waited to the end nothing is left to  *)
(* send that refers to the buffer of the sketch.                           *)
THEOREM SpecSyncDataStable == Spec => []SyncDataStable
<1>1. Init => Stable /\ Then
  BY InitStable DEF Init, Then
<1>2. Stable /\ Then /\ [Next]_vars => (Stable /\ Then)'
  BY NextStable, ThenType
<1>3. Stable => SyncDataStable
  BY DEF Stable, Writing, NoRef, SyncDataStable
<1> QED BY <1>1, <1>2, <1>3, PTL DEF Spec

-----------------------------------------------------------------------------
(* Sequences joined one after the other, as Flat joins the pbufs of the     *)
(* chain.  What a recursive function computes is proved by induction over  *)
(* the set of the numbers for which it holds.                              *)
LEMMA SetInduction ==
  ASSUME NEW T \in SUBSET Nat, 0 \in T, \A n \in T : n + 1 \in T
  PROVE  T = Nat
<1> SUFFICES ASSUME Nat \ T # {} PROVE FALSE
  OBVIOUS
<1>1. PICK m \in Nat \ T : \A k \in Nat \ T : ~(<<k, m>> \in OpToRel(<, Nat))
  BY NatLessThanWellFounded, WFMin
<1>2. m # 0 /\ m - 1 \in Nat /\ (m - 1) + 1 = m
  OBVIOUS
<1>3. <<m - 1, m>> \in OpToRel(<, Nat)
  BY <1>2 DEF OpToRel
<1> QED BY <1>1, <1>2, <1>3

Joins(f, r, n) == f = [i \in 0..n |-> IF i = 0 THEN <<>> ELSE f[i - 1] \o r[i]]
Joined(r, n) == LET f[i \in 0..n] == IF i = 0 THEN <<>> ELSE f[i - 1] \o r[i] IN f[n]

(* Flat is a recursive function of the chain that is there, and of the one *)
(* there is next.                                                          *)
LEMMA FlatIs == \A n : Flat(n) = Joined(rx, n) /\ Flat(n)' = Joined(rx', n)
  BY DEF Flat, Joined

(* There is one such function, and what it computes.                       *)
LEMMA JoinsExists ==
  ASSUME NEW r, NEW n \in Nat PROVE \E f : Joins(f, r, n)
<1> DEFINE T == {k \in Nat : \E f : Joins(f, r, k)}
<1>1. 0 \in T
  <2>1. [i \in 0..0 |-> <<>>] = [i \in 0..0 |-> IF i = 0 THEN <<>> ELSE [j \in 0..0 |-> <<>>][i - 1] \o r[i]]
    OBVIOUS
  <2>2. Joins([i \in 0..0 |-> <<>>], r, 0)
    BY <2>1, Zenon DEF Joins
  <2> QED BY <2>2
<1>2. ASSUME NEW k \in T PROVE k + 1 \in T
  <2>1. PICK f : Joins(f, r, k)
    OBVIOUS
  <2> DEFINE g == [i \in 0..(k + 1) |-> IF i = k + 1 THEN f[k] \o r[k + 1] ELSE f[i]]
  <2>2. ASSUME NEW i \in 0..(k + 1) PROVE g[i] = IF i = 0 THEN <<>> ELSE g[i - 1] \o r[i]
    <3>1. CASE i = k + 1
      <4>1. i # 0 /\ i - 1 = k /\ k \in 0..(k + 1) /\ k # k + 1
        BY <3>1
      <4>2. g[k] = f[k]
        BY <4>1
      <4> QED BY <3>1, <4>1, <4>2
    <3>2. CASE i # k + 1
      <4>1. i \in 0..k /\ (i # 0 => i - 1 \in 0..k)
        BY <3>2
      <4>2. f[i] = IF i = 0 THEN <<>> ELSE f[i - 1] \o r[i]
        BY <2>1, <4>1 DEF Joins
      <4>3. g[i] = f[i] /\ (i # 0 => g[i - 1] = f[i - 1])
        BY <3>2, <4>1
      <4> QED BY <4>2, <4>3
    <3> QED BY <3>1, <3>2
  <2>3. g = [i \in 0..(k + 1) |-> g[i]]
    OBVIOUS
  <2> HIDE DEF g
  <2>4. Joins(g, r, k + 1)
    BY <2>2, <2>3 DEF Joins
  <2> QED BY <2>4
<1> HIDE DEF T
<1>3. T = Nat
  <2>1. T \in SUBSET Nat
    BY DEF T
  <2> QED BY <1>1, <1>2, <2>1, SetInduction
<1> QED BY <1>3 DEF T

LEMMA JoinsAgree ==
  ASSUME NEW r, NEW m \in Nat, NEW n \in Nat, NEW f, NEW g, Joins(f, r, m), Joins(g, r, n)
  PROVE  \A k \in Nat : k <= m /\ k <= n => f[k] = g[k]
<1> DEFINE T == {k \in Nat : k <= m /\ k <= n => f[k] = g[k]}
<1>1. 0 \in T
  <2>1. f[0] = <<>> /\ g[0] = <<>>
    BY DEF Joins
  <2> QED BY <2>1
<1>2. ASSUME NEW k \in T PROVE k + 1 \in T
  <2> SUFFICES ASSUME k + 1 <= m, k + 1 <= n PROVE f[k + 1] = g[k + 1]
    OBVIOUS
  <2>1. k \in Nat /\ f[k] = g[k] /\ (k + 1) - 1 = k /\ k + 1 # 0
    OBVIOUS
  <2>2. f[k + 1] = f[k] \o r[k + 1] /\ g[k + 1] = g[k] \o r[k + 1]
    <3>1. k + 1 \in 0..m /\ k + 1 \in 0..n
      BY <2>1
    <3>2. /\ f[k + 1] = IF k + 1 = 0 THEN <<>> ELSE f[(k + 1) - 1] \o r[k + 1]
          /\ g[k + 1] = IF k + 1 = 0 THEN <<>> ELSE g[(k + 1) - 1] \o r[k + 1]
      BY <3>1 DEF Joins
    <3> QED BY <2>1, <3>2
  <2> QED BY <2>1, <2>2
<1> HIDE DEF T
<1>3. T = Nat
  <2>1. T \in SUBSET Nat
    BY DEF T
  <2> QED BY <1>1, <1>2, <2>1, SetInduction
<1> QED BY <1>3 DEF T

LEMMA JoinedIs ==
  ASSUME NEW r, NEW n \in Nat
  PROVE  \E f : Joins(f, r, n) /\ Joined(r, n) = f[n]
<1>1. \E f : Joins(f, r, n)
  BY JoinsExists
<1> DEFINE c == CHOOSE f : f = [i \in 0..n |-> IF i = 0 THEN <<>> ELSE f[i - 1] \o r[i]]
<1>2. \E f : f = [i \in 0..n |-> IF i = 0 THEN <<>> ELSE f[i - 1] \o r[i]]
  BY <1>1 DEF Joins
<1>3. c = [i \in 0..n |-> IF i = 0 THEN <<>> ELSE c[i - 1] \o r[i]]
  BY <1>2, Zenon
<1>4. Joined(r, n) = c[n]
  BY DEF Joined
<1> HIDE DEF c
<1>5. Joins(c, r, n)
  BY <1>3 DEF Joins
<1> QED BY <1>4, <1>5

LEMMA JoinedStep ==
  ASSUME NEW r
  PROVE  /\ Joined(r, 0) = <<>>
         /\ \A n \in Nat : Joined(r, n + 1) = Joined(r, n) \o r[n + 1]
<1>1. Joined(r, 0) = <<>>
  <2>1. PICK f : Joins(f, r, 0) /\ Joined(r, 0) = f[0]
    BY JoinedIs
  <2> QED BY <2>1 DEF Joins
<1>2. ASSUME NEW n \in Nat PROVE Joined(r, n + 1) = Joined(r, n) \o r[n + 1]
  <2>1. PICK f : Joins(f, r, n) /\ Joined(r, n) = f[n]
    BY JoinedIs
  <2>2. PICK g : Joins(g, r, n + 1) /\ Joined(r, n + 1) = g[n + 1]
    BY JoinedIs
  <2>3. f[n] = g[n]
    BY <2>1, <2>2, JoinsAgree
  <2>4. g[n + 1] = g[n] \o r[n + 1]
    <3>1. n + 1 \in 0..(n + 1) /\ n + 1 # 0 /\ (n + 1) - 1 = n
      OBVIOUS
    <3> QED BY <2>2, <3>1 DEF Joins
  <2> QED BY <2>1, <2>2, <2>3, <2>4
<1> QED BY <1>1, <1>2

-----------------------------------------------------------------------------
(* What is left of a sequence behind its first k elements.                 *)
Rest(s, k) == SubSeq(s, k + 1, Len(s))

LEMMA RestIs ==
  ASSUME NEW S, NEW s \in Seq(S), NEW k \in Nat, k <= Len(s)
  PROVE  /\ Rest(s, k) \in Seq(S)
         /\ Len(Rest(s, k)) = Len(s) - k
         /\ \A i \in 1..(Len(s) - k) : Rest(s, k)[i] = s[k + i]
<1>1. Len(s) \in Nat /\ k + 1 \in Int /\ Len(s) - (k + 1) + 1 = Len(s) - k
  OBVIOUS
<1>2. \A i \in (k + 1)..Len(s) : s[i] \in S
  <2>1. \A i \in (k + 1)..Len(s) : i \in 1..Len(s)
    BY <1>1
  <2> QED BY <2>1, ElementOfSeq
<1>3. /\ Rest(s, k) \in Seq(S)
      /\ Len(Rest(s, k)) = IF k + 1 <= Len(s) THEN Len(s) - (k + 1) + 1 ELSE 0
      /\ \A i \in 1..(Len(s) - (k + 1) + 1) : Rest(s, k)[i] = s[k + 1 + i - 1]
  BY <1>1, <1>2, SubSeqProperties DEF Rest
<1>4. \A i \in 1..(Len(s) - k) : k + 1 + i - 1 = k + i
  BY <1>1
<1>5. Len(Rest(s, k)) = Len(s) - k
  <2>1. CASE k + 1 <= Len(s)
    BY <1>1, <1>3, <2>1
  <2>2. CASE ~(k + 1 <= Len(s))
    <3>1. \A n \in Nat : k <= n /\ ~(k + 1 <= n) => n - k = 0
      OBVIOUS
    <3>2. Len(s) - k = 0
      BY <1>1, <2>2, <3>1
    <3> QED BY <1>3, <2>2, <3>2
  <2> QED BY <2>1, <2>2
<1> QED BY <1>1, <1>3, <1>4, <1>5

LEMMA SameSeq ==
  ASSUME NEW S, NEW s \in Seq(S), NEW t \in Seq(S), Len(s) = Len(t),
         \A i \in 1..Len(s) : s[i] = t[i]
  PROVE  s = t
  BY SeqEqual

LEMMA RestOfRest ==
  ASSUME NEW S, NEW s \in Seq(S), NEW a \in Nat, NEW b \in Nat, a + b <= Len(s)
  PROVE  Rest(Rest(s, a), b) = Rest(s, a + b)
<1>1. Len(s) \in Nat /\ a <= Len(s) /\ a + b \in Nat /\ b <= Len(s) - a
      /\ (Len(s) - a) - b = Len(s) - (a + b)
  OBVIOUS
<1>2. /\ Rest(s, a) \in Seq(S) /\ Len(Rest(s, a)) = Len(s) - a
      /\ \A i \in 1..(Len(s) - a) : Rest(s, a)[i] = s[a + i]
  BY <1>1, RestIs
<1>3. /\ Rest(s, a + b) \in Seq(S) /\ Len(Rest(s, a + b)) = Len(s) - (a + b)
      /\ \A i \in 1..(Len(s) - (a + b)) : Rest(s, a + b)[i] = s[a + b + i]
  BY <1>1, RestIs
<1> DEFINE u == Rest(s, a)
<1> HIDE DEF u
<1>4. u \in Seq(S) /\ Len(u) = Len(s) - a
  BY <1>2 DEF u
<1>5. /\ Rest(u, b) \in Seq(S) /\ Len(Rest(u, b)) = Len(u) - b
      /\ \A i \in 1..(Len(u) - b) : Rest(u, b)[i] = u[b + i]
  <2>1. b <= Len(u)
    BY <1>1, <1>4
  <2> QED BY <1>4, <2>1, RestIs
<1>6. ASSUME NEW i \in 1..(Len(s) - (a + b)) PROVE Rest(u, b)[i] = Rest(s, a + b)[i]
  <2>1. i \in 1..(Len(u) - b) /\ b + i \in 1..(Len(s) - a) /\ a + (b + i) = a + b + i
    BY <1>1, <1>4
  <2> QED BY <1>2, <1>3, <1>5, <2>1 DEF u
<1>7. Len(Rest(u, b)) = Len(s) - (a + b)
  BY <1>1, <1>4, <1>5
<1>8. Rest(u, b) = Rest(s, a + b)
  BY <1>3, <1>5, <1>6, <1>7, SameSeq
<1> QED BY <1>8 DEF u

LEMMA RestOfConcat ==
  ASSUME NEW S, NEW s \in Seq(S), NEW t \in Seq(S), NEW k \in Nat
  PROVE  /\ k <= Len(s) => Rest(s \o t, k) = Rest(s, k) \o t
         /\ Len(s) <= k /\ k <= Len(s) + Len(t) => Rest(s \o t, k) = Rest(t, k - Len(s))
<1>1. /\ s \o t \in Seq(S) /\ Len(s \o t) = Len(s) + Len(t)
      /\ \A i \in 1..(Len(s) + Len(t)) : (s \o t)[i] = IF i <= Len(s) THEN s[i] ELSE t[i - Len(s)]
  BY ConcatProperties
<1>2. Len(s) \in Nat /\ Len(t) \in Nat
  OBVIOUS
<1> DEFINE u == s \o t
<1> HIDE DEF u
<1>3. ASSUME k <= Len(s) + Len(t)
      PROVE  /\ Rest(u, k) \in Seq(S) /\ Len(Rest(u, k)) = Len(s) + Len(t) - k
             /\ \A i \in 1..(Len(s) + Len(t) - k) : Rest(u, k)[i] = u[k + i]
  <2>1. u \in Seq(S) /\ Len(u) = Len(s) + Len(t)
    BY <1>1 DEF u
  <2>2. k <= Len(u)
    BY <1>3, <2>1
  <2>3. /\ Rest(u, k) \in Seq(S) /\ Len(Rest(u, k)) = Len(u) - k
        /\ \A i \in 1..(Len(u) - k) : Rest(u, k)[i] = u[k + i]
    BY <2>1, <2>2, RestIs
  <2> QED BY <2>1, <2>3
<1>4. ASSUME k <= Len(s) PROVE Rest(u, k) = Rest(s, k) \o t
  <2>1. /\ Rest(s, k) \in Seq(S) /\ Len(Rest(s, k)) = Len(s) - k
        /\ \A i \in 1..(Len(s) - k) : Rest(s, k)[i] = s[k + i]
    BY <1>4, RestIs
  <2> DEFINE v == Rest(s, k)
  <2> HIDE DEF v
  <2>2. v \in Seq(S) /\ Len(v) = Len(s) - k /\ \A i \in 1..(Len(s) - k) : v[i] = s[k + i]
    BY <2>1 DEF v
  <2>3. /\ v \o t \in Seq(S) /\ Len(v \o t) = Len(v) + Len(t)
        /\ \A i \in 1..(Len(v) + Len(t)) : (v \o t)[i] = IF i <= Len(v) THEN v[i] ELSE t[i - Len(v)]
    BY <2>2, ConcatProperties
  <2>4. k <= Len(s) + Len(t) /\ Len(s) + Len(t) - k = Len(v) + Len(t)
    BY <1>2, <1>4, <2>2
  <2>5. ASSUME NEW i \in 1..(Len(s) + Len(t) - k) PROVE Rest(u, k)[i] = (v \o t)[i]
    <3>1. k + i \in 1..(Len(s) + Len(t)) /\ i \in 1..(Len(v) + Len(t))
      BY <1>2, <2>4
    <3>2. CASE i <= Len(v)
      <4>1. k + i <= Len(s) /\ i \in 1..(Len(s) - k)
        BY <1>2, <2>2, <3>2
      <4> QED BY <1>1, <1>3, <2>2, <2>3, <2>4, <3>1, <3>2, <4>1 DEF u
    <3>3. CASE ~(i <= Len(v))
      <4>1. ~(k + i <= Len(s)) /\ (k + i) - Len(s) = i - Len(v)
        BY <1>2, <1>4, <2>2, <3>3
      <4> QED BY <1>1, <1>3, <2>3, <2>4, <3>1, <3>3, <4>1 DEF u
    <3> QED BY <3>2, <3>3
  <2>6. Rest(u, k) = v \o t
    <3>1. Rest(u, k) \in Seq(S) /\ Len(Rest(u, k)) = Len(v \o t)
      BY <1>3, <2>3, <2>4
    <3>2. \A i \in 1..Len(Rest(u, k)) : Rest(u, k)[i] = (v \o t)[i]
      BY <1>3, <2>4, <2>5
    <3> QED BY <2>3, <3>1, <3>2, SameSeq
  <2> QED BY <2>6 DEF v
<1>5. ASSUME Len(s) <= k, k <= Len(s) + Len(t) PROVE Rest(u, k) = Rest(t, k - Len(s))
  <2>1. k - Len(s) \in Nat /\ k - Len(s) <= Len(t) /\ Len(t) - (k - Len(s)) = Len(s) + Len(t) - k
    BY <1>2, <1>5
  <2> DEFINE j == k - Len(s)
  <2> HIDE DEF j
  <2>2. /\ Rest(t, j) \in Seq(S) /\ Len(Rest(t, j)) = Len(t) - j
        /\ \A i \in 1..(Len(t) - j) : Rest(t, j)[i] = t[j + i]
    <3>1. j \in Nat /\ j <= Len(t)
      BY <2>1 DEF j
    <3> QED BY <3>1, RestIs
  <2>3. Len(t) - j = Len(s) + Len(t) - k
    BY <2>1 DEF j
  <2>4. ASSUME NEW i \in 1..(Len(s) + Len(t) - k) PROVE Rest(u, k)[i] = Rest(t, j)[i]
    <3>1. k + i \in 1..(Len(s) + Len(t)) /\ ~(k + i <= Len(s)) /\ (k + i) - Len(s) = j + i
      BY <1>2, <1>5 DEF j
    <3> QED BY <1>1, <1>3, <1>5, <2>2, <2>3, <3>1 DEF u
  <2>5. Rest(u, k) = Rest(t, j)
    <3>1. Len(Rest(u, k)) = Len(Rest(t, j)) /\ Rest(u, k) \in Seq(S)
      BY <1>3, <1>5, <2>2, <2>3
    <3>2. \A i \in 1..Len(Rest(u, k)) : Rest(u, k)[i] = Rest(t, j)[i]
      BY <1>3, <1>5, <2>4
    <3> QED BY <2>2, <3>1, <3>2, SameSeq
  <2> QED BY <2>5 DEF j
<1> QED BY <1>4, <1>5 DEF u

-----------------------------------------------------------------------------
(* The bytes of a chain of pbufs.                                          *)
Whole(r) == Joined(r, Len(r))

LEMMA JoinedType ==
  ASSUME NEW S, NEW r \in Seq(Seq(S))
  PROVE  \A n \in Nat : n <= Len(r) => Joined(r, n) \in Seq(S)
<1> DEFINE T == {n \in Nat : n <= Len(r) => Joined(r, n) \in Seq(S)}
<1>1. 0 \in T
  <2>1. <<>> \in Seq(S)
    OBVIOUS
  <2> QED BY <2>1, JoinedStep
<1>2. ASSUME NEW n \in T PROVE n + 1 \in T
  <2> SUFFICES ASSUME n + 1 <= Len(r) PROVE Joined(r, n + 1) \in Seq(S)
    OBVIOUS
  <2>1. Joined(r, n) \in Seq(S) /\ r[n + 1] \in Seq(S)
    <3>1. n <= Len(r) /\ n + 1 \in 1..Len(r)
      OBVIOUS
    <3> QED BY <3>1, ElementOfSeq
  <2>2. Joined(r, n + 1) = Joined(r, n) \o r[n + 1]
    BY JoinedStep
  <2>3. Joined(r, n) \o r[n + 1] \in Seq(S)
    BY <2>1, ConcatProperties
  <2> QED BY <2>2, <2>3
<1> HIDE DEF T
<1>3. T = Nat
  <2>1. T \in SUBSET Nat
    BY DEF T
  <2> QED BY <1>1, <1>2, <2>1, SetInduction
<1> QED BY <1>3 DEF T

(* Chains that begin with the same pbufs.                                  *)
LEMMA JoinedSame ==
  ASSUME NEW r, NEW q, NEW m \in Nat, \A i \in 1..m : r[i] = q[i]
  PROVE  \A n \in Nat : n <= m => Joined(r, n) = Joined(q, n)
<1> DEFINE T == {n \in Nat : n <= m => Joined(r, n) = Joined(q, n)}
<1>1. 0 \in T
  BY JoinedStep
<1>2. ASSUME NEW n \in T PROVE n + 1 \in T
  <2> SUFFICES ASSUME n + 1 <= m PROVE Joined(r, n + 1) = Joined(q, n + 1)
    OBVIOUS
  <2>1. Joined(r, n) = Joined(q, n) /\ r[n + 1] = q[n + 1]
    <3>1. n <= m /\ n + 1 \in 1..m
      OBVIOUS
    <3> QED BY <3>1
  <2> QED BY <2>1, JoinedStep
<1> HIDE DEF T
<1>3. T = Nat
  <2>1. T \in SUBSET Nat
    BY DEF T
  <2> QED BY <1>1, <1>2, <2>1, SetInduction
<1> QED BY <1>3 DEF T

(* Concatenation does not depend on the order it is done in.               *)
Associates(a, b, c) == (a \o b) \o c = a \o (b \o c)

LEMMA ConcatAssociates ==
  ASSUME NEW S, NEW a \in Seq(S), NEW b \in Seq(S), NEW c \in Seq(S)
  PROVE  Associates(a, b, c)
  BY ConcatAssociative DEF Associates

(* Cutting a chain in two.                                                 *)
LEMMA JoinedSplit ==
  ASSUME NEW S, NEW r \in Seq(Seq(S)), NEW k \in Nat, k <= Len(r)
  PROVE  Whole(r) = Joined(r, k) \o Whole(Rest(r, k))
<1> DEFINE q == Rest(r, k)
<1>1. /\ q \in Seq(Seq(S)) /\ Len(q) = Len(r) - k
      /\ \A i \in 1..(Len(r) - k) : q[i] = r[k + i]
  BY RestIs
<1>2. Len(r) \in Nat /\ Len(q) \in Nat
  BY <1>1
<1> HIDE DEF q
<1> DEFINE T == {n \in Nat : n <= Len(q) => Joined(r, k + n) = Joined(r, k) \o Joined(q, n)}
<1>3. 0 \in T
  <2>1. Joined(r, k) \in Seq(S) /\ k + 0 = k
    BY JoinedType
  <2> QED BY <2>1, JoinedStep, ConcatEmptySeq
<1>4. ASSUME NEW n \in T PROVE n + 1 \in T
  <2> SUFFICES ASSUME n + 1 <= Len(q) PROVE Joined(r, k + (n + 1)) = Joined(r, k) \o Joined(q, n + 1)
    OBVIOUS
  <2>1. /\ n \in Nat /\ n <= Len(q) /\ k + n \in Nat /\ k + (n + 1) = (k + n) + 1
        /\ n + 1 \in 1..Len(q) /\ n + 1 \in 1..(Len(r) - k)
    BY <1>1, <1>2
  <2>2. Joined(r, k + n) = Joined(r, k) \o Joined(q, n)
    BY <2>1
  <2> HIDE DEF T
  <2>3. q[n + 1] = r[(k + n) + 1] /\ q[n + 1] \in Seq(S)
    BY <1>1, <2>1, ElementOfSeq
  <2>4. Joined(r, (k + n) + 1) = Joined(r, k + n) \o q[n + 1]
    BY <2>1, <2>3, JoinedStep
  <2>5. Joined(q, n + 1) = Joined(q, n) \o q[n + 1]
    BY <2>1, JoinedStep
  <2>6. Joined(r, k) \in Seq(S) /\ Joined(q, n) \in Seq(S)
    BY <1>1, <2>1, JoinedType
  <2>7. (Joined(r, k) \o Joined(q, n)) \o q[n + 1] = Joined(r, k) \o (Joined(q, n) \o q[n + 1])
    <3>1. Associates(Joined(r, k), Joined(q, n), q[n + 1])
      BY <2>3, <2>6, ConcatAssociates, Zenon
    <3> QED BY <3>1, Zenon DEF Associates
  <2> QED BY <2>1, <2>2, <2>4, <2>5, <2>7
<1> HIDE DEF T
<1>5. T = Nat
  <2>1. T \in SUBSET Nat
    BY DEF T
  <2> QED BY <1>3, <1>4, <2>1, SetInduction
<1>6. Len(q) \in T /\ k + Len(q) = Len(r)
  BY <1>1, <1>2, <1>5
<1>7. Joined(r, Len(r)) = Joined(r, k) \o Joined(q, Len(q))
  <2>1. Len(q) <= Len(q)
    BY <1>2
  <2>2. Joined(r, k + Len(q)) = Joined(r, k) \o Joined(q, Len(q))
    BY <1>6, <2>1 DEF T
  <2> QED BY <1>6, <2>2
<1> QED BY <1>7 DEF Whole, q

LEMMA WholeOfAppend ==
  ASSUME NEW S, NEW r \in Seq(Seq(S)), NEW x \in Seq(S)
  PROVE  Whole(Append(r, x)) = Whole(r) \o x
<1> DEFINE q == Append(r, x)
<1>1. /\ Len(q) = Len(r) + 1 /\ q[Len(r) + 1] = x /\ Len(r) \in Nat
      /\ \A i \in 1..Len(r) : r[i] = q[i]
  BY AppendProperties
<1> HIDE DEF q
<1>2. Joined(r, Len(r)) = Joined(q, Len(r))
  <2>1. Len(r) <= Len(r)
    BY <1>1
  <2> QED BY <1>1, <2>1, JoinedSame, Zenon
<1>3. Joined(q, Len(r) + 1) = Joined(q, Len(r)) \o q[Len(r) + 1]
  BY <1>1, JoinedStep
<1>4. Whole(q) = Whole(r) \o x
  BY <1>1, <1>2, <1>3 DEF Whole
<1> QED BY <1>4 DEF q

-----------------------------------------------------------------------------
(* What is received and what is left of the window account for each other, *)
(* and the offset is in the first pbuf.                                    *)
Received ==
  /\ rx \in Seq(Seq(1..MaxIn)) /\ offset \in Nat /\ arrived \in 0..MaxIn
  /\ \A i \in 1..Len(rx) : Len(rx[i]) <= MaxIn
  /\ rx = <<>> => offset = 0
  /\ rx # <<>> => offset < Len(rx[1])
  /\ wnd \in 0..Wnd
  /\ pcb # "none" => wnd + Len(Unread) = Wnd
  /\ got \in Seq(1..MaxIn)

LEMMA UnreadIs == Unread = Rest(Whole(rx), offset) /\ Unread' = Rest(Whole(rx'), offset')
  BY FlatIs DEF Unread, Rest, Whole

LEMMA EmptyChain == Rest(Whole(<<>>), 0) = <<>>
<1>1. Whole(<<>>) = <<>>
  <2>1. Len(<<>>) = 0
    OBVIOUS
  <2> QED BY <2>1, JoinedStep DEF Whole
<1>2. Rest(<<>>, 0) = <<>>
  BY DEF Rest
<1> QED BY <1>1, <1>2

(* The first pbuf has bytes to read.                                       *)
LEMMA ReceivedBytes ==
  ASSUME Received
  PROVE  /\ Whole(rx) \in Seq(1..MaxIn) /\ Unread \in Seq(1..MaxIn)
         /\ offset <= Len(Whole(rx)) /\ Len(Unread) = Len(Whole(rx)) - offset
         /\ rx # <<>> => Len(rx[1]) \in Nat /\ Len(rx[1]) <= Len(Whole(rx))
<1>1. rx \in Seq(Seq(1..MaxIn)) /\ offset \in Nat /\ Len(rx) \in Nat
  BY DEF Received
<1>2. Whole(rx) \in Seq(1..MaxIn)
  BY <1>1, JoinedType DEF Whole
<1>3. ASSUME rx # <<>> PROVE Len(rx[1]) \in Nat /\ Len(rx[1]) <= Len(Whole(rx))
  <2>1. 1 <= Len(rx) /\ 1 \in 1..Len(rx)
    BY <1>1, <1>3, EmptySeq
  <2>2. rx[1] \in Seq(1..MaxIn)
    BY <1>1, <2>1, ElementOfSeq
  <2>3. Joined(rx, 1) = rx[1]
    <3>1. Joined(rx, 0) = <<>> /\ Joined(rx, 0 + 1) = Joined(rx, 0) \o rx[0 + 1] /\ 0 + 1 = 1
      BY JoinedStep
    <3>2. <<>> \o rx[1] = rx[1]
      BY <2>2, ConcatEmptySeq
    <3> QED BY <3>1, <3>2
  <2>4. Whole(rx) = rx[1] \o Whole(Rest(rx, 1))
    BY <1>1, <2>1, <2>3, JoinedSplit
  <2>5. Rest(rx, 1) \in Seq(Seq(1..MaxIn))
    BY <1>1, <2>1, RestIs
  <2>6. Whole(Rest(rx, 1)) \in Seq(1..MaxIn)
    BY <2>5, JoinedType DEF Whole
  <2>7. Len(Whole(rx)) = Len(rx[1]) + Len(Whole(Rest(rx, 1)))
    BY <2>2, <2>4, <2>6, ConcatProperties
  <2>8. Len(rx[1]) \in Nat /\ Len(Whole(Rest(rx, 1))) \in Nat
    BY <2>2, <2>6
  <2> QED BY <2>7, <2>8
<1>4. offset <= Len(Whole(rx))
  <2>1. CASE rx = <<>>
    BY <1>2, <2>1 DEF Received
  <2>2. CASE rx # <<>>
    <3>1. offset < Len(rx[1])
      BY <2>2 DEF Received
    <3>2. Len(Whole(rx)) \in Nat
      BY <1>2
    <3> QED BY <1>1, <1>3, <2>2, <3>1, <3>2
  <2> QED BY <2>1, <2>2
<1>5. Unread \in Seq(1..MaxIn) /\ Len(Unread) = Len(Whole(rx)) - offset
  BY <1>1, <1>2, <1>4, RestIs, UnreadIs
<1> QED BY <1>2, <1>3, <1>4, <1>5

(* The pbufs that a read frees.                                            *)
LEMMA FreedIs ==
  ASSUME Received, NEW m \in Nat, offset + m <= Len(Whole(rx))
  PROVE  /\ Freed(m) \in 0..Len(rx)
         /\ Len(Joined(rx, Freed(m))) <= offset + m
         /\ Freed(m) < Len(rx) => Len(Joined(rx, Freed(m) + 1)) > offset + m
<1> DEFINE Good(n) == /\ Len(Joined(rx, n)) <= offset + m
                      /\ n < Len(rx) => Len(Joined(rx, n + 1)) > offset + m
<1>1. \E n \in 0..Len(rx) : Good(n)
  <2> SUFFICES ASSUME ~\E n \in 0..Len(rx) : Good(n) PROVE FALSE
    OBVIOUS
  <2> DEFINE T == {n \in Nat : n <= Len(rx) => Len(Joined(rx, n)) <= offset + m}
  <2>1. offset \in Nat /\ Len(rx) \in Nat /\ rx \in Seq(Seq(1..MaxIn))
    BY DEF Received
  <2>2. 0 \in T
    <3>1. Len(Joined(rx, 0)) = 0
      BY JoinedStep
    <3> QED BY <2>1, <3>1
  <2>3. ASSUME NEW n \in T PROVE n + 1 \in T
    <3> SUFFICES ASSUME n + 1 <= Len(rx) PROVE Len(Joined(rx, n + 1)) <= offset + m
      OBVIOUS
    <3>1. n \in 0..Len(rx) /\ n < Len(rx) /\ Len(Joined(rx, n)) <= offset + m
      BY <2>1
    <3>2. ~(Len(Joined(rx, n + 1)) > offset + m)
      BY <3>1
    <3>3. Len(Joined(rx, n + 1)) \in Nat
      <4>1. Joined(rx, n + 1) \in Seq(1..MaxIn)
        BY <2>1, JoinedType
      <4> QED BY <4>1
    <3> QED BY <2>1, <3>2, <3>3
  <2>4. T = Nat
    <3>1. T \in SUBSET Nat
      OBVIOUS
    <3> HIDE DEF T
    <3> QED BY <2>2, <2>3, <3>1, SetInduction
  <2>5. Len(Joined(rx, Len(rx))) <= offset + m
    <3>1. Len(rx) \in T /\ Len(rx) <= Len(rx)
      BY <2>1, <2>4
    <3> QED BY <3>1
  <2>6. Good(Len(rx)) /\ Len(rx) \in 0..Len(rx)
    BY <2>1, <2>5
  <2> QED BY <2>6
<1>2. Freed(m) = CHOOSE n \in 0..Len(rx) : Good(n)
  BY FlatIs DEF Freed
<1> HIDE DEF Good
<1>3. Freed(m) \in 0..Len(rx) /\ Good(Freed(m))
  BY <1>1, <1>2, Zenon
<1> QED BY <1>3 DEF Good

(* A read takes the first bytes of those that are there; what is left      *)
(* begins behind them.                                                     *)
LEMMA TakeUnread ==
  ASSUME Received, NEW m \in Nat, m <= Len(Unread), Take(m)
  PROVE  Received' /\ Unread' = Rest(Unread, m)
<1> DEFINE n == Freed(m)
           at == offset + m
           before == Len(Joined(rx, n))
<1>1. /\ rx \in Seq(Seq(1..MaxIn)) /\ offset \in Nat /\ Len(rx) \in Nat /\ MaxIn \in Nat
      /\ Whole(rx) \in Seq(1..MaxIn) /\ Unread \in Seq(1..MaxIn) /\ Len(Whole(rx)) \in Nat
      /\ Len(Unread) = Len(Whole(rx)) - offset /\ Len(Unread) \in Nat
  BY ReceivedBytes, TcpAssumption DEF Received
<1>2. at \in Nat /\ at <= Len(Whole(rx))
  BY <1>1
<1>3. /\ n \in 0..Len(rx)
      /\ before <= at
      /\ n < Len(rx) => Len(Joined(rx, n + 1)) > at
  BY <1>2, FreedIs
<1>4. rx' = Rest(rx, n) /\ offset' = IF n = Len(rx) THEN 0 ELSE at - before
  <2>1. Flat(n) = Joined(rx, n) /\ n = Freed(m)
    BY FlatIs
  <2>2. rx' = SubSeq(rx, n + 1, Len(rx)) /\ offset' = OffsetAfter(m)
    BY DEF Take
  <2>3. before \in Nat
    <3>1. n \in Nat /\ n <= Len(rx)
      BY <1>1, <1>3
    <3> HIDE DEF n
    <3>2. Joined(rx, n) \in Seq(1..MaxIn)
      BY <1>1, <3>1, JoinedType
    <3> QED BY <3>2
  <2>4. OffsetAfter(m) = IF n = Len(rx) THEN 0 ELSE offset + (m - before)
    BY <2>1 DEF OffsetAfter
  <2>5. offset + (m - before) = at - before
    <3> HIDE DEF before
    <3> QED BY <1>1, <2>3
  <2> HIDE DEF n, at, before
  <2> QED BY <2>2, <2>4, <2>5 DEF Rest
<1> HIDE DEF n, at, before
<1>5. n \in Nat /\ n <= Len(rx)
  BY <1>1, <1>3
<1>6. Joined(rx, n) \in Seq(1..MaxIn) /\ Len(Joined(rx, n)) = before /\ before \in Nat
  <2>1. Joined(rx, n) \in Seq(1..MaxIn)
    BY <1>1, <1>5, JoinedType
  <2> QED BY <2>1 DEF before
<1>7. /\ rx' \in Seq(Seq(1..MaxIn)) /\ Len(rx') = Len(rx) - n
      /\ \A i \in 1..(Len(rx) - n) : rx'[i] = rx[n + i]
  <2>1. /\ Rest(rx, n) \in Seq(Seq(1..MaxIn)) /\ Len(Rest(rx, n)) = Len(rx) - n
        /\ \A i \in 1..(Len(rx) - n) : Rest(rx, n)[i] = rx[n + i]
    <3> DEFINE Q == Seq(1..MaxIn)
    <3>1. rx \in Seq(Q)
      BY <1>1
    <3> HIDE DEF Q
    <3>2. /\ Rest(rx, n) \in Seq(Q) /\ Len(Rest(rx, n)) = Len(rx) - n
          /\ \A i \in 1..(Len(rx) - n) : Rest(rx, n)[i] = rx[n + i]
      BY <1>5, <3>1, RestIs
    <3> QED BY <3>2 DEF Q
  <2> QED BY <1>4, <2>1
<1>8. Whole(rx) = Joined(rx, n) \o Whole(rx')
  BY <1>1, <1>4, <1>5, JoinedSplit
<1>9. Whole(rx') \in Seq(1..MaxIn) /\ Len(Whole(rx')) \in Nat
      /\ Len(Whole(rx)) = before + Len(Whole(rx'))
  <2>1. Whole(rx') \in Seq(1..MaxIn)
    BY <1>7, JoinedType DEF Whole
  <2>2. Len(Joined(rx, n) \o Whole(rx')) = Len(Joined(rx, n)) + Len(Whole(rx'))
    BY <1>6, <2>1, ConcatProperties
  <2> QED BY <1>6, <1>8, <2>1, <2>2
<1>10. offset' = at - before /\ offset' \in Nat
  <2>1. CASE n = Len(rx)
    <3>1. before = Len(Whole(rx)) /\ offset' = 0
      BY <1>4, <1>6, <2>1 DEF Whole
    <3>2. at = before
      BY <1>2, <1>3, <1>6, <3>1
    <3> QED BY <1>6, <3>1, <3>2
  <2>2. CASE n # Len(rx)
    BY <1>2, <1>3, <1>4, <1>6, <2>2
  <2> QED BY <2>1, <2>2
<1>11. Unread' = Rest(Unread, m)
  <2>1. Rest(Rest(Whole(rx), offset), m) = Rest(Whole(rx), at)
    BY <1>1, <1>2, RestOfRest DEF at
  <2>2. Rest(Joined(rx, n) \o Whole(rx'), at) = Rest(Whole(rx'), at - before)
    <3>1. Len(Joined(rx, n)) <= at /\ at <= Len(Joined(rx, n)) + Len(Whole(rx'))
      BY <1>2, <1>3, <1>6, <1>9
    <3>2. Rest(Joined(rx, n) \o Whole(rx'), at) = Rest(Whole(rx'), at - Len(Joined(rx, n)))
      BY <1>2, <1>6, <1>9, <3>1, RestOfConcat
    <3> QED BY <1>6, <3>2
  <2> QED BY <1>8, <1>10, <2>1, <2>2, UnreadIs
<1>12. Len(Unread') = Len(Unread) - m
  <2>1. Len(Rest(Unread, m)) = Len(Unread) - m
    BY <1>1, RestIs
  <2> QED BY <1>11, <2>1
<1>13. rx' = <<>> => offset' = 0
  <2>1. rx' = <<>> => n = Len(rx)
    <3>1. rx' = <<>> => Len(rx) - n = 0
      BY <1>7
    <3> QED BY <1>1, <1>5, <3>1
  <2> QED BY <1>4, <2>1
<1>14. rx' # <<>> => offset' < Len(rx'[1])
  <2> SUFFICES ASSUME rx' # <<>> PROVE offset' < Len(rx'[1])
    OBVIOUS
  <2>1. n < Len(rx) /\ n + 1 \in 1..Len(rx) /\ 1 \in 1..(Len(rx) - n)
    <3>1. Len(rx') # 0
      BY <1>7, EmptySeq
    <3>2. Len(rx) - n # 0
      BY <1>7, <3>1
    <3> QED BY <1>1, <1>5, <3>2
  <2>2. rx'[1] = rx[n + 1] /\ rx[n + 1] \in Seq(1..MaxIn)
    BY <1>1, <1>7, <2>1, ElementOfSeq
  <2>3. Joined(rx, n + 1) = Joined(rx, n) \o rx[n + 1]
    BY <1>5, JoinedStep
  <2>4. Len(Joined(rx, n + 1)) = before + Len(rx[n + 1]) /\ Len(rx[n + 1]) \in Nat
    BY <1>6, <2>2, <2>3, ConcatProperties
  <2>5. before + Len(rx[n + 1]) > at
    BY <1>3, <2>1, <2>4
  <2> QED BY <1>1, <1>2, <1>6, <1>10, <2>2, <2>4, <2>5
<1>15. \A i \in 1..Len(rx') : Len(rx'[i]) <= MaxIn
  <2>1. ASSUME NEW i \in 1..(Len(rx) - n) PROVE Len(rx'[i]) <= MaxIn
    <3>1. n + i \in 1..Len(rx)
      BY <1>1, <1>5
    <3> QED BY <1>7, <3>1 DEF Received
  <2> QED BY <1>7, <2>1
<1>16. wnd' \in 0..Wnd /\ (pcb' # "none" => wnd' + Len(Unread') = Wnd)
  <2>1. wnd \in 0..Wnd /\ Wnd \in Nat /\ pcb' = pcb /\ wnd' = wnd + Credit(m)
    BY TcpAssumption DEF Take, Received
  <2>2. CASE pcb = "none"
    BY <2>1, <2>2 DEF Credit
  <2>3. CASE pcb # "none"
    <3>1. wnd + Len(Unread) = Wnd /\ wnd' = wnd + m
      BY <2>1, <2>3 DEF Received, Credit
    <3>2. wnd' + Len(Unread') = Wnd
      <4>1. \A w, u, v, x \in Int : w + u = Wnd /\ v = w + m /\ x = u - m => v + x = Wnd
        BY <2>1
      <4>2. /\ wnd \in Int /\ Len(Unread) \in Int /\ wnd' \in Int /\ Len(Unread') \in Int
        BY <1>1, <1>12, <2>1, <3>1
      <4> QED BY <1>12, <3>1, <4>1, <4>2
    <3>3. wnd' \in 0..Wnd
      BY <1>1, <2>1, <3>1
    <3> QED BY <3>2, <3>3
  <2> QED BY <2>2, <2>3
<1>17. got' \in Seq(1..MaxIn) /\ arrived' = arrived
  <2>1. got' = SubSeq(Unread, 1, m) /\ arrived' = arrived
    BY DEF Take
  <2>2. \A i \in 1..m : Unread[i] \in 1..MaxIn
    <3>1. \A i \in 1..m : i \in 1..Len(Unread)
      BY <1>1
    <3> QED BY <1>1, <3>1, ElementOfSeq
  <2>3. SubSeq(Unread, 1, m) \in Seq(1..MaxIn)
    BY <2>2, SubSeqProperties
  <2> QED BY <2>1, <2>3
<1>18. arrived' \in 0..MaxIn
  BY <1>17 DEF Received
<1> QED BY <1>7, <1>10, <1>11, <1>13, <1>14, <1>15, <1>16, <1>17, <1>18 DEF Received

(* What is received goes to the end.                                       *)
LEMMA RecvUnread ==
  ASSUME Received, NEW k \in 1..MaxIn, Recv(k)
  PROVE  Received' /\ Unread' = Unread \o [i \in 1..k |-> arrived + i]
<1> DEFINE x == [i \in 1..k |-> arrived + i]
<1>1. /\ pcb = "ESTABLISHED" /\ pcb' = pcb /\ k <= wnd /\ arrived + k <= MaxIn
      /\ rx' = Append(rx, x) /\ offset' = offset
      /\ arrived' = arrived + k /\ wnd' = wnd - k /\ got' = got
  BY DEF Recv, callRest, userVars
<1>2. /\ rx \in Seq(Seq(1..MaxIn)) /\ offset \in Nat /\ arrived \in Nat /\ MaxIn \in Nat
      /\ wnd \in 0..Wnd /\ Wnd \in Nat /\ k \in Nat /\ 1 <= k
  BY TcpAssumption DEF Received
<1>3. x \in Seq(1..MaxIn) /\ Len(x) = k
  <2>1. \A i \in 1..k : arrived + i \in 1..MaxIn
    BY <1>1, <1>2
  <2> QED BY <1>2, <2>1
<1> HIDE DEF x
<1>4. /\ rx' \in Seq(Seq(1..MaxIn)) /\ Len(rx') = Len(rx) + 1 /\ rx' # <<>>
      /\ rx'[Len(rx) + 1] = x /\ Len(rx) \in Nat
      /\ \A i \in 1..Len(rx) : rx'[i] = rx[i]
  <2>1. /\ Append(rx, x) \in Seq(Seq(1..MaxIn)) /\ Append(rx, x) # <<>>
        /\ Len(Append(rx, x)) = Len(rx) + 1
        /\ \A i \in 1..Len(rx) : Append(rx, x)[i] = rx[i]
        /\ Append(rx, x)[Len(rx) + 1] = x
    BY <1>2, <1>3, AppendProperties
  <2> QED BY <1>1, <1>2, <2>1
<1>5. /\ Whole(rx) \in Seq(1..MaxIn) /\ Unread \in Seq(1..MaxIn) /\ offset <= Len(Whole(rx))
  BY ReceivedBytes
<1>6. Unread' = Unread \o x
  <2>1. Whole(rx') = Whole(rx) \o x
    BY <1>1, <1>2, <1>3, WholeOfAppend
  <2>2. Rest(Whole(rx) \o x, offset) = Rest(Whole(rx), offset) \o x
    BY <1>2, <1>3, <1>5, RestOfConcat
  <2> QED BY <1>1, <2>1, <2>2, UnreadIs
<1>7. wnd' + Len(Unread') = Wnd /\ wnd' \in 0..Wnd
  <2>1. Len(Unread \o x) = Len(Unread) + k /\ Len(Unread) \in Nat
    <3>1. Len(Unread \o x) = Len(Unread) + Len(x)
      BY <1>3, <1>5, ConcatProperties
    <3> QED BY <1>3, <1>5, <3>1
  <2>2. wnd + Len(Unread) = Wnd
    BY <1>1 DEF Received
  <2>3. Len(Unread') = Len(Unread) + k
    BY <1>6, <2>1
  <2>4. \A u, w, v \in Nat : k <= w /\ w + u = Wnd /\ v = u + k => (w - k) + v = Wnd /\ w - k \in 0..Wnd
    BY <1>2
  <2>5. wnd \in Nat /\ Len(Unread') \in Nat
    BY <1>2, <2>1, <2>3
  <2> QED BY <1>1, <2>1, <2>2, <2>3, <2>4, <2>5
<1>8. arrived' \in 0..MaxIn /\ got' \in Seq(1..MaxIn)
  BY <1>1, <1>2 DEF Received
<1>9. \A i \in 1..Len(rx') : Len(rx'[i]) <= MaxIn
  <2>1. ASSUME NEW i \in 1..(Len(rx) + 1) PROVE Len(rx'[i]) <= MaxIn
    <3>1. CASE i \in 1..Len(rx)
      BY <1>4, <3>1 DEF Received
    <3>2. CASE i \notin 1..Len(rx)
      <4>1. i = Len(rx) + 1
        BY <1>4, <3>2
      <4> QED BY <1>2, <1>3, <1>4, <4>1
    <3> QED BY <3>1, <3>2
  <2> QED BY <1>4, <2>1
<1>10. offset' < Len(rx'[1])
  <2>1. CASE rx = <<>>
    <3>1. Len(rx) = 0 /\ offset' = 0
      BY <1>1, <2>1 DEF Received
    <3>2. rx'[1] = x
      BY <1>4, <3>1
    <3> QED BY <1>2, <1>3, <3>1, <3>2
  <2>2. CASE rx # <<>>
    <3>1. 1 \in 1..Len(rx)
      <4>1. Len(rx) # 0
        BY <1>2, <2>2, EmptySeq
      <4> QED BY <1>4, <4>1
    <3>2. rx'[1] = rx[1]
      BY <1>4, <3>1
    <3> QED BY <1>1, <2>2, <3>2 DEF Received
  <2> QED BY <2>1, <2>2
<1>11. Received'
  BY <1>1, <1>2, <1>4, <1>7, <1>8, <1>9, <1>10 DEF Received
<1> QED BY <1>6, <1>11 DEF x

(* Steps that leave the received data alone, and those that free it.       *)
LEMMA ChainStays ==
  ASSUME Received, UNCHANGED <<rx, offset, arrived, wnd, got>>,
         pcb' # "none" => pcb # "none"
  PROVE  Received' /\ Unread' = Unread
<1>1. Unread' = Unread
  BY UnreadIs
<1> QED BY <1>1 DEF Received

LEMMA ChainGone ==
  ASSUME Received, rx' = <<>>, offset' = 0, got' = got,
         arrived' \in {0, arrived}, wnd' \in {wnd, Wnd},
         pcb' # "none" => wnd' = Wnd
  PROVE  Received' /\ Unread' = <<>>
<1>1. Unread' = <<>>
  BY EmptyChain, UnreadIs
<1>2. Len(Unread') = 0 /\ Len(rx') = 0 /\ rx' \in Seq(Seq(1..MaxIn))
  BY <1>1
<1>3. /\ Wnd \in Nat /\ wnd \in 0..Wnd /\ MaxIn \in Nat /\ arrived \in 0..MaxIn
      /\ got \in Seq(1..MaxIn)
  BY TcpAssumption DEF Received
<1>4. /\ wnd' \in 0..Wnd /\ arrived' \in 0..MaxIn
      /\ pcb' # "none" => wnd' + Len(Unread') = Wnd
  <2>1. 0 \in 0..MaxIn /\ Wnd \in 0..Wnd /\ Wnd + 0 = Wnd
    BY <1>3
  <2> QED BY <1>2, <1>3, <2>1
<1>5. offset' \in Nat /\ \A i \in 1..Len(rx') : Len(rx'[i]) <= MaxIn
  BY <1>2
<1> QED BY <1>1, <1>2, <1>3, <1>4, <1>5 DEF Received

LEMMA FreshChain ==
  ASSUME Received, NEW s, Fresh(s) PROVE Received' /\ Unread' = <<>>
  BY ChainGone DEF Fresh

LEMMA LetGoChain ==
  ASSUME Received, NEW h, LetGo(h), UNCHANGED <<arrived, wnd, got>>
  PROVE  Received' /\ \/ pcb' = "none" /\ Unread' = <<>>
                      \/ UNCHANGED <<pcb, rx, offset, snd>> /\ Unread' = Unread
  BY ChainStays, ChainGone DEF LetGo, Unref, Detach

LEMMA WaitedChain ==
  ASSUME Received, Then, NEW acked, Waited(acked), UNCHANGED <<arrived, wnd, got>>
  PROVE  Received'
<1>1. CASE then \in {"return", "told"}
  BY <1>1, ChainStays DEF Waited
<1>2. CASE then = "close"
  BY <1>2, ChainStays DEF Waited, Detach
<1>3. CASE then = "new"
  BY <1>3, LetGoChain DEF Waited
<1> QED BY <1>1, <1>2, <1>3 DEF Then

(* The lengths a read asks for.                                            *)
LEMMA ReadLength ==
  ASSUME Received, rx # <<>>
  PROVE  /\ Len(Unread) \in Nat \ {0}
         /\ \A k \in 1..MaxIn : Least(k, Len(Unread)) \in 1..Len(Unread)
         /\ Len(rx[1]) - offset \in 1..Len(Unread)
<1>1. /\ Unread \in Seq(1..MaxIn) /\ Whole(rx) \in Seq(1..MaxIn) /\ Len(Unread) = Len(Whole(rx)) - offset
      /\ Len(rx[1]) \in Nat /\ Len(rx[1]) <= Len(Whole(rx)) /\ offset \in Nat /\ offset < Len(rx[1])
      /\ MaxIn \in Nat
  BY ReceivedBytes, TcpAssumption DEF Received
<1>2. Len(Unread) \in Nat /\ Len(Whole(rx)) \in Nat
  BY <1>1
<1>3. Len(Unread) # 0 /\ Len(rx[1]) - offset \in 1..Len(Unread)
  BY <1>1, <1>2
<1>4. \A k \in 1..MaxIn : Least(k, Len(Unread)) \in 1..Len(Unread)
  <2>1. \A k, n \in Nat : k # 0 /\ n # 0 => Least(k, n) \in 1..n
    BY DEF Least
  <2>2. \A k \in 1..MaxIn : k \in Nat /\ k # 0
    BY <1>1
  <2>3. PICK n \in Nat : n = Len(Unread) /\ n # 0
    BY <1>2, <1>3
  <2> QED BY <2>1, <2>2, <2>3
<1> QED BY <1>2, <1>3, <1>4

LEMMA CallReceived == ASSUME Received, Call PROVE Received'
<1>1. CASE SetSync \/ \E n \in 1..MaxOut : Write(n)
  BY <1>1, ChainStays DEF SetSync, Write, rxVars, userVars
<1>2. CASE PeekConsume
  <2>1. PICK m \in 1..Len(Unread) : Take(m)
    BY <1>2, ReadLength DEF PeekConsume
  <2>2. m \in Nat /\ m <= Len(Unread)
    BY <2>1
  <2> QED BY <2>1, <2>2, TakeUnread
<1>3. ASSUME NEW k \in 1..MaxIn, Read(k) PROVE Received'
  <2>1. PICK m \in 1..Len(Unread) : Take(m)
    BY <1>3, ReadLength DEF Read
  <2>2. m \in Nat /\ m <= Len(Unread)
    BY <2>1
  <2> QED BY <2>1, <2>2, TakeUnread
<1>4. ASSUME NEW h \in Handle, Connect(h) PROVE Received'
  BY <1>4, FreshChain DEF Connect
<1>5. ASSUME NEW h \in Handle, Accept(h) \/ Copy(h) PROVE Received'
  BY <1>5, ChainStays DEF Accept, Copy, rxVars, userVars
<1>6. ASSUME NEW h \in Handle, Drop(h) \/ Renew(h) PROVE Received'
  BY <1>6, LetGoChain DEF Drop, Renew, userVars
<1>7. ASSUME NEW h \in Handle, NEW next, Wait(h, next) PROVE Received'
  BY <1>7, ChainStays DEF Wait, rxVars, userVars
<1> QED BY <1>1, <1>2, <1>3, <1>4, <1>5, <1>6, <1>7 DEF Call

LEMMA RunReceived == ASSUME Received, Then, Run PROVE Received'
<1>1. CASE ConnectFails \/ Resume
  BY <1>1, ChainStays DEF ConnectFails, Resume, rxVars, userVars
<1>2. CASE Connected
  <2>1. UNCHANGED <<arrived, wnd, got>>
    BY <1>2 DEF Connected, userVars
  <2>2. UNCHANGED <<pcb, rx, offset>> \/ \E h \in holders : LetGo(h)
    BY <1>2 DEF Connected
  <2> QED BY <2>1, <2>2, ChainStays, LetGoChain
<1>3. CASE WriteTurn
  BY <1>3, ChainStays DEF WriteTurn, rxVars
<1>4. CASE FlushTurn \/ FlushCheck
  <2>1. UNCHANGED <<arrived, wnd, got>>
    BY <1>4 DEF FlushTurn, FlushCheck
  <2>2. UNCHANGED <<pcb, rx, offset>> \/ \E acked \in BOOLEAN : Waited(acked)
    BY <1>4 DEF FlushTurn, FlushCheck
  <2> QED BY <2>1, <2>2, ChainStays, WaitedChain
<1> QED BY <1>1, <1>2, <1>3, <1>4 DEF Run

LEMMA CallbackReceived == ASSUME Received, Callback \/ Expire PROVE Received'
<1>1. CASE ServerAccept
  BY <1>1, FreshChain DEF ServerAccept
<1>2. CASE ConnectedCb \/ RecvFin \/ Error \/ Poll \/ Expire \/ \E k \in 1..SndBuf : Acked(k)
  <2>1. UNCHANGED <<rx, offset, arrived, wnd, got>>
    BY <1>2 DEF ConnectedCb, RecvFin, Error, Poll, Expire, Acked, callRest, rxVars, userVars
  <2>2. pcb' # "none" => pcb # "none"
    BY <1>2 DEF ConnectedCb, RecvFin, Error, Poll, Expire, Acked, Detach
  <2> QED BY <2>1, <2>2, ChainStays
<1>3. CASE \E k \in 1..MaxIn : Recv(k)
  BY <1>3, RecvUnread
<1> QED BY <1>1, <1>2, <1>3 DEF Callback

LEMMA InitReceived == Init => Received
<1> SUFFICES ASSUME Init PROVE Received
  OBVIOUS
<1>1. Unread = <<>> /\ Len(<<>>) = 0
  BY EmptyChain, UnreadIs DEF Init
<1>2. Len(Unread) = 0
  BY <1>1
<1>3. Wnd \in Nat /\ MaxIn \in Nat
  BY TcpAssumption
<1>4. rx \in Seq(Seq(1..MaxIn)) /\ got \in Seq(1..MaxIn) /\ Len(rx) = 0
  BY <1>1 DEF Init
<1> QED BY <1>2, <1>3, <1>4 DEF Init, Received

LEMMA NextReceived == Received /\ Then /\ [Next]_vars => Received'
<1> SUFFICES ASSUME Received, Then, [Next]_vars PROVE Received'
  OBVIOUS
<1>1. CASE Next
  BY <1>1, CallReceived, RunReceived, CallbackReceived DEF Next
<1>2. CASE UNCHANGED vars
  BY <1>2, ChainStays DEF vars, rxVars, userVars
<1> QED BY <1>1, <1>2

(* Every byte takes its room of the receive window until it is read, and   *)
(* gives it back once, however reads cut the pbufs.                        *)
THEOREM SpecWindowConserved == Spec => []WindowConserved
<1>1. Init => Received /\ Then
  BY InitReceived DEF Init, Then
<1>2. Received /\ Then /\ [Next]_vars => (Received /\ Then)'
  BY NextReceived, ThenType
<1>3. Received => WindowConserved
  BY DEF Received, WindowConserved
<1> QED BY <1>1, <1>2, <1>3, PTL DEF Spec

-----------------------------------------------------------------------------
(* What write() is doing, what it handed over and what the sketch knows.   *)
Calls == {"connecting", "write", "wait", "flush", "yield"}
Data == Seq([byte : 1..MaxOut, byRef : BOOLEAN])

Handed ==
  /\ pc \in {"idle", "new"} \cup Calls
  /\ pc \in Calls => holders # {}
  /\ out \in Seq(1..MaxOut) /\ snd \in Data
  /\ told \in Nat /\ written \in Nat /\ datalen \in 0..MaxOut
  /\ Len(out) = told + written /\ told + written <= MaxOut
  /\ written # 0 => pc \in Calls \ {"connecting"} /\ then = "told"
  /\ pc \in {"write", "wait"} => then = "told" /\ written <= datalen /\ told + datalen <= MaxOut

(* Steps that hand no byte over.                                           *)
LEMMA HandedStays ==
  ASSUME Handed, UNCHANGED <<out, told, written, datalen>>, snd' \in Data,
         pc' \in {"idle", "new"} \cup Calls,
         pc' \in Calls => holders' # {},
         written # 0 => pc' \in Calls \ {"connecting"} /\ then' = "told",
         pc' \in {"write", "wait"} => pc \in {"write", "wait"} /\ then' = "told"
  PROVE  Handed'
  BY DEF Handed

LEMMA Nothing == <<>> \in Data /\ <<>> \in Seq(1..MaxOut) /\ Len(<<>>) = 0
  BY DEF Data

LEMMA CallHanded == ASSUME Handed, Owned, Call PROVE Handed'
<1>1. CASE SetSync \/ PeekConsume \/ \E k \in 1..MaxIn : Read(k)
  <2>1. /\ UNCHANGED <<out, told, written, datalen, snd, pc, then, holders>>
    BY <1>1 DEF SetSync, PeekConsume, Read, Take, ctxVars, callVars, txVars
  <2> QED BY <2>1 DEF Handed
<1>2. ASSUME NEW n \in 1..MaxOut, Write(n) PROVE Handed'
  <2>1. /\ UNCHANGED <<out, told, snd, holders>> /\ told + n <= MaxOut /\ holders # {}
        /\ pc = "idle" /\ datalen' = n /\ written' = 0 /\ pc' = "write" /\ then' = "told"
    BY <1>2 DEF Write, txVars, ctxVars, userVars
  <2>2. written = 0 /\ MaxOut \in Nat /\ n \in Nat /\ told \in Nat
    BY <2>1, TcpAssumption DEF Handed, Calls
  <2>3. told' + written' <= MaxOut /\ Len(out') = told' + written' /\ written' <= datalen'
    BY <2>1, <2>2 DEF Handed
  <2>4. datalen' \in 0..MaxOut
    BY <2>1, <2>2
  <2> QED BY <2>1, <2>2, <2>3, <2>4 DEF Handed, Calls
<1>3. ASSUME NEW h \in Handle, Connect(h) PROVE Handed'
  <2>1. /\ pc \in {"idle", "new"} /\ pc' = "connecting" /\ holders' = {h}
        /\ out' = <<>> /\ snd' = <<>> /\ told' = 0 /\ UNCHANGED <<written, datalen>>
    BY <1>3 DEF Connect, Fresh
  <2>2. written = 0 /\ MaxOut \in Nat
    BY <2>1, TcpAssumption DEF Handed, Calls
  <2>3. Len(out') = told' + written' /\ told' + written' <= MaxOut
    BY <2>1, <2>2, Nothing
  <2> QED BY <2>1, <2>2, <2>3, Nothing DEF Handed, Calls
<1>4. ASSUME NEW h \in Handle, Accept(h) \/ Copy(h) \/ Drop(h) \/ Renew(h) PROVE Handed'
  <2>1. /\ pc = "idle" /\ pc' \in {"idle", "new"} /\ UNCHANGED <<out, told, written, datalen>>
        /\ snd' = snd \/ snd' = <<>>
    BY <1>4 DEF Accept, Copy, Drop, Renew, LetGo, Unref, Detach, txVars, callVars, userVars
  <2>2. written = 0 /\ snd' \in Data
    BY <2>1, Nothing DEF Handed, Calls
  <2> QED BY <2>1, <2>2, HandedStays DEF Calls
<1>5. ASSUME NEW h \in Handle, NEW next, Wait(h, next) PROVE Handed'
  <2>1. /\ pc = "idle" /\ pc' = "flush" /\ UNCHANGED <<out, told, written, datalen, snd, holders>>
        /\ h \in holders
    BY <1>5 DEF Wait, txVars, userVars, ctxVars
  <2>2. written = 0 /\ snd' \in Data /\ holders' # {}
    BY <2>1 DEF Handed, Calls
  <2> QED BY <2>1, <2>2, HandedStays DEF Calls
<1> QED BY <1>1, <1>2, <1>3, <1>4, <1>5 DEF Call

(* lwIP takes the next bytes of the sketch.                                *)
LEMMA HandedOver ==
  ASSUME Handed, NEW c \in Nat, c <= datalen - written, WriteSome(c), pc = "write", sync \in BOOLEAN
  PROVE  /\ snd' \in Data /\ out' \in Seq(1..MaxOut)
         /\ Len(out') = told + written + c /\ told + written + c <= MaxOut
         /\ written + c <= datalen
         /\ out' = out \o [i \in 1..c |-> Len(out) + i]
<1>1. /\ told \in Nat /\ written \in Nat /\ datalen \in Nat /\ MaxOut \in Nat
      /\ told + datalen <= MaxOut /\ Len(out) = told + written
      /\ out \in Seq(1..MaxOut) /\ snd \in Data
  BY TcpAssumption DEF Handed
<1>2. written + c <= datalen /\ told + written + c <= MaxOut
  BY <1>1
<1>3. \A i \in 1..c : told + written + i \in 1..MaxOut
  BY <1>1, <1>2
<1>4. Bytes(c) \in Seq(1..MaxOut) /\ Len(Bytes(c)) = c
  BY <1>3 DEF Bytes
<1>5. Unsent(c) \in Data
  <2>1. \A i \in 1..c : [byte |-> told + written + i, byRef |-> sync] \in [byte : 1..MaxOut, byRef : BOOLEAN]
    BY <1>3
  <2> QED BY <2>1 DEF Unsent, Data
<1>6. snd' \in Data
  BY <1>1, <1>5, ConcatProperties DEF WriteSome, Data
<1>7. out' \in Seq(1..MaxOut) /\ Len(out') = told + written + c
  <2>1. out \o Bytes(c) \in Seq(1..MaxOut) /\ Len(out \o Bytes(c)) = Len(out) + Len(Bytes(c))
    BY <1>1, <1>4, ConcatProperties
  <2> QED BY <1>1, <1>4, <2>1 DEF WriteSome
<1>8. Bytes(c) = [i \in 1..c |-> Len(out) + i]
  BY <1>1 DEF Bytes
<1> QED BY <1>2, <1>6, <1>7, <1>8 DEF WriteSome

(* What a turn of write() does with the bytes that lwIP took.              *)
LEMMA TurnIs ==
  ASSUME Handed, Stable, WriteTurn
  PROVE  \E c \in Nat :
           /\ c <= datalen - written /\ WriteSome(c) /\ pc = "write"
           /\ c # 0 => pcb # "none"
           /\ \/ /\ pc' = "wait" /\ written' = written + c /\ UNCHANGED <<then, datalen, prev, told>>
              \/ /\ datalen' = 0 /\ pc' = "flush" /\ written' = written + c
                 /\ UNCHANGED <<then, prev, told>>
              \/ /\ datalen' = 0 /\ Return /\ told' = told + written + c /\ written' = 0
           /\ UNCHANGED <<ctxVars, pcb, rx, offset, arrived, wnd, got>>
           /\ late' \in {late, FALSE}
<1>1. PICK c \in {0, Chunk} :
        /\ pc = "write" /\ WriteSome(c)
        /\ \/ /\ pc' = "wait" /\ written' = written + c /\ late' = FALSE
              /\ UNCHANGED <<then, datalen, prev, told>>
           \/ /\ datalen' = 0 /\ pc' = "flush" /\ written' = written + c /\ late' = FALSE
              /\ UNCHANGED <<then, prev, told>>
           \/ /\ datalen' = 0 /\ Return /\ told' = told + written + c /\ written' = 0 /\ late' = late
        /\ UNCHANGED <<ctxVars, pcb, rxVars, got>>
  BY DEF WriteTurn
<1>2. /\ c \in Nat /\ c <= datalen - written
      /\ State = "CLOSED" => c = 0
  <2>1. Len(snd) \in Nat /\ Len(snd) <= SndBuf /\ written \in Nat /\ datalen \in Nat /\ SndBuf \in Nat
    BY TcpAssumption DEF Stable, Lengths
  <2>2. written <= datalen
    BY <1>1 DEF Stable, Lengths
  <2> QED BY <1>1, <2>1, <2>2, ChunkBounds
<1>3. c # 0 => pcb # "none"
  BY <1>2 DEF State
<1> QED BY <1>1, <1>2, <1>3 DEF rxVars

LEMMA TurnHanded == ASSUME Handed, Stable, WriteTurn PROVE Handed'
<1>1. PICK c \in Nat :
        /\ c <= datalen - written /\ WriteSome(c) /\ pc = "write"
        /\ \/ /\ pc' = "wait" /\ written' = written + c /\ UNCHANGED <<then, datalen, prev, told>>
           \/ /\ datalen' = 0 /\ pc' = "flush" /\ written' = written + c
              /\ UNCHANGED <<then, prev, told>>
           \/ /\ datalen' = 0 /\ Return /\ told' = told + written + c /\ written' = 0
        /\ UNCHANGED ctxVars
  BY TurnIs
<1>2. sync \in BOOLEAN
  BY DEF Stable
<1>3. /\ snd' \in Data /\ out' \in Seq(1..MaxOut)
      /\ Len(out') = told + written + c /\ told + written + c <= MaxOut
      /\ written + c <= datalen
  BY <1>1, <1>2, HandedOver
<1>4. /\ told \in Nat /\ written \in Nat /\ datalen \in 0..MaxOut /\ MaxOut \in Nat
      /\ told + datalen <= MaxOut /\ then = "told" /\ holders' # {}
  BY <1>1, TcpAssumption DEF Handed, Calls, ctxVars
<1>5. CASE pc' = "wait" /\ written' = written + c /\ UNCHANGED <<then, datalen, prev, told>>
  <2>1. Len(out') = told' + written' /\ told' + written' <= MaxOut /\ written' \in Nat
    BY <1>3, <1>4, <1>5
  <2> QED BY <1>3, <1>4, <1>5, <2>1 DEF Handed, Calls
<1>6. CASE datalen' = 0 /\ pc' = "flush" /\ written' = written + c /\ UNCHANGED <<then, prev, told>>
  <2>1. Len(out') = told' + written' /\ told' + written' <= MaxOut /\ written' \in Nat
    BY <1>3, <1>4, <1>6
  <2>2. datalen' \in 0..MaxOut
    BY <1>4, <1>6
  <2> QED BY <1>3, <1>4, <1>6, <2>1, <2>2 DEF Handed, Calls
<1>7. CASE datalen' = 0 /\ Return /\ told' = told + written + c /\ written' = 0
  <2>1. Len(out') = told' + written' /\ told' + written' <= MaxOut /\ told' \in Nat
    BY <1>3, <1>4, <1>7
  <2>2. datalen' \in 0..MaxOut
    BY <1>4, <1>7
  <2> QED BY <1>3, <1>7, <2>1, <2>2 DEF Handed, Calls, Return
<1> QED BY <1>1, <1>5, <1>6, <1>7

LEMMA WaitedHanded ==
  ASSUME Handed, Then, pc \in {"flush", "yield"}, NEW acked, Waited(acked), UNCHANGED <<out, datalen>>
  PROVE  Handed'
<1>1. pc' \in {"idle", "new"}
  BY DEF Waited, Return, Then
<1>2. snd' \in Data
  BY Nothing DEF Waited, Handed, Then, LetGo, Unref, Detach
<1>3. CASE then = "told"
  <2>1. told' = told + written /\ written' = 0
    BY <1>3 DEF Waited
  <2>2. Len(out') = told' + written' /\ told' + written' <= MaxOut /\ told' \in Nat
    BY <2>1 DEF Handed
  <2> QED BY <1>1, <1>2, <2>1, <2>2 DEF Handed, Calls
<1>4. CASE then # "told"
  <2>1. UNCHANGED <<told, written>> /\ written = 0
    BY <1>4 DEF Waited, Then, Handed
  <2> QED BY <1>1, <1>2, <2>1, HandedStays DEF Calls
<1> QED BY <1>3, <1>4

LEMMA RunHanded == ASSUME Handed, Stable, Then, Run PROVE Handed'
<1>1. CASE ConnectFails \/ Connected
  <2>1. /\ pc \in {"new", "connecting"} /\ pc' = "idle" /\ UNCHANGED <<out, told, written, datalen>>
        /\ snd' = snd \/ snd' = <<>>
    BY <1>1 DEF ConnectFails, Connected, LetGo, Unref, Detach, txVars, callVars, userVars
  <2>2. written = 0 /\ snd' \in Data
    BY <2>1, Nothing DEF Handed, Calls
  <2> QED BY <2>1, <2>2, HandedStays DEF Calls
<1>2. CASE WriteTurn
  BY <1>2, TurnHanded
<1>3. CASE Resume
  <2>1. /\ pc = "wait" /\ pc' = "write" /\ UNCHANGED <<out, told, written, datalen, snd, then, holders>>
    BY <1>3 DEF Resume, txVars, userVars, ctxVars
  <2> QED BY <2>1 DEF Handed, Calls
<1>4. CASE FlushTurn \/ FlushCheck
  <2>1. pc \in {"flush", "yield"} /\ UNCHANGED <<out, datalen>>
    BY <1>4 DEF FlushTurn, FlushCheck
  <2>2. CASE \E acked \in BOOLEAN : Waited(acked)
    BY <2>1, <2>2, WaitedHanded
  <2>3. CASE /\ pc' \in {"flush", "yield"} /\ UNCHANGED <<ctxVars, snd, then, written, told>>
    BY <2>1, <2>3 DEF Handed, Calls, ctxVars
  <2> QED BY <1>4, <2>2, <2>3 DEF FlushTurn, FlushCheck
<1> QED BY <1>1, <1>2, <1>3, <1>4 DEF Run

(* A connection that comes in finds no call suspended that uses another.   *)
LEMMA CallbackHanded == ASSUME Handed, Owned, Callback \/ Expire PROVE Handed'
<1>1. CASE ServerAccept
  <2>1. /\ Suspended /\ ~Alive /\ UNCHANGED <<holders, pc, then, written, datalen>>
        /\ out' = <<>> /\ snd' = <<>> /\ told' = 0
    BY <1>1 DEF ServerAccept, Fresh, callVars
  <2>2. holders = {}
    <3>1. refcnt \in Nat /\ (refcnt = 0 => holders = {})
      BY FS_CardinalityType, FS_EmptySet DEF Owned
    <3> QED BY <2>1, <3>1 DEF Alive
  <2>3. written = 0 /\ pc \notin Calls /\ MaxOut \in Nat
    BY <2>2, TcpAssumption DEF Handed
  <2>4. Len(out') = told' + written' /\ told' + written' <= MaxOut
    BY <2>1, <2>3, Nothing
  <2> QED BY <2>1, <2>3, <2>4, Nothing DEF Handed, Calls
<1>2. CASE ConnectedCb \/ RecvFin \/ Error \/ Poll \/ Expire \/ \E k \in 1..MaxIn : Recv(k)
  <2>1. /\ UNCHANGED <<out, told, written, datalen, pc, then, holders>>
        /\ snd' = snd \/ snd' = <<>>
    BY <1>2 DEF ConnectedCb, RecvFin, Error, Poll, Expire, Recv, Detach, callRest, ctxVars, txVars, userVars
  <2>2. snd' \in Data
    BY <2>1, Nothing DEF Handed
  <2> QED BY <2>1, <2>2 DEF Handed
<1>3. ASSUME NEW k \in 1..SndBuf, Acked(k) PROVE Handed'
  <2>1. /\ UNCHANGED <<out, told, written, datalen, pc, then, holders>>
        /\ k <= Len(snd) /\ snd' = Rest(snd, k)
    BY <1>3 DEF Acked, callRest, ctxVars, userVars, Rest
  <2>2. k \in Nat /\ snd \in Seq([byte : 1..MaxOut, byRef : BOOLEAN])
    BY TcpAssumption DEF Handed, Data
  <2>3. Rest(snd, k) \in Seq([byte : 1..MaxOut, byRef : BOOLEAN])
    BY <2>1, <2>2, RestIs
  <2>4. snd' \in Data
    BY <2>1, <2>3 DEF Data
  <2> QED BY <2>1, <2>4 DEF Handed
<1> QED BY <1>1, <1>2, <1>3 DEF Callback

(* The rest of the types.                                                  *)
Plain == /\ pcb \in {"none", "SYN_SENT", "ESTABLISHED", "CLOSE_WAIT"}
         /\ holders \subseteq Handle
         /\ late \in BOOLEAN /\ prev \in -1..SndBuf

LEMMA NextPlain == ASSUME Plain, Handed, Stable, Then, [Next]_vars PROVE Plain'
<1>1. -1 \in -1..SndBuf /\ Space \in -1..SndBuf
  <2>1. Len(snd) \in Nat /\ Len(snd) <= SndBuf /\ SndBuf \in Nat
    BY TcpAssumption DEF Stable, Lengths
  <2> QED BY <2>1 DEF Space
<1>2. ASSUME NEW acked, Waited(acked), late' = late PROVE Plain'
  BY <1>1, <1>2 DEF Waited, Then, Plain, Return, LetGo, Unref, Detach, ctxVars
<1>3. CASE Call
  <2>1. CASE SetSync \/ PeekConsume \/ (\E k \in 1..MaxIn : Read(k)) \/ \E n \in 1..MaxOut : Write(n)
    BY <2>1 DEF SetSync, PeekConsume, Read, Take, Write, Plain, ctxVars, callVars
  <2>2. ASSUME NEW h \in Handle, Connect(h) PROVE Plain'
    BY <2>2 DEF Connect, Fresh, Plain
  <2>3. ASSUME NEW h \in Handle, Accept(h) \/ Copy(h) \/ Drop(h) \/ Renew(h) PROVE Plain'
    BY <2>3 DEF Accept, Copy, Drop, Renew, LetGo, Unref, Detach, Plain, callVars
  <2>4. ASSUME NEW h \in Handle, NEW next, Wait(h, next) PROVE Plain'
    BY <2>4 DEF Wait, Plain, ctxVars
  <2> QED BY <1>3, <2>1, <2>2, <2>3, <2>4 DEF Call
<1>4. CASE Run
  <2>1. CASE ConnectFails \/ Connected \/ Resume
    BY <2>1 DEF ConnectFails, Connected, Resume, LetGo, Unref, Detach, Plain, ctxVars, callVars
  <2>2. CASE WriteTurn
    <3>1. UNCHANGED <<ctxVars, pcb>> /\ prev' \in {prev, -1} /\ late' \in {late, FALSE}
      BY <2>2, TurnIs DEF Return
    <3> QED BY <1>1, <3>1 DEF Plain, ctxVars
  <2>3. CASE FlushTurn
    BY <1>1, <1>2, <2>3 DEF FlushTurn, Plain, ctxVars
  <2>4. CASE FlushCheck
    BY <1>1, <1>2, <2>4 DEF FlushCheck, Plain, ctxVars
  <2> QED BY <1>4, <2>1, <2>2, <2>3, <2>4 DEF Run
<1>5. CASE Callback \/ Expire
  BY <1>5 DEF Callback, ServerAccept, Fresh, ConnectedCb, RecvFin, Error, Poll, Recv, Acked, Expire,
             Detach, Plain, callRest, ctxVars, callVars
<1>6. CASE UNCHANGED vars
  BY <1>6 DEF vars, Plain, ctxVars, callVars
<1> QED BY <1>3, <1>4, <1>5, <1>6 DEF Next

-----------------------------------------------------------------------------
(* All that holds together.                                                *)
IInv == Owned /\ Woken /\ Stable /\ Received /\ Handed /\ Plain /\ Then

LEMMA InitIInv == Init => IInv
<1> SUFFICES ASSUME Init PROVE IInv
  OBVIOUS
<1>1. Handed
  <2>1. MaxOut \in Nat
    BY TcpAssumption
  <2>2. Len(out) = told + written /\ told + written <= MaxOut
    BY <2>1, Nothing DEF Init
  <2> QED BY <2>1, <2>2, Nothing DEF Init, Handed, Calls
<1>2. Plain
  <2>1. -1 \in -1..SndBuf
    BY TcpAssumption
  <2> QED BY <2>1 DEF Init, Plain
<1> QED BY <1>1, <1>2, InitOwned, InitWoken, InitStable, InitReceived DEF Init, Then, IInv

LEMMA NextIInv == IInv /\ [Next]_vars => IInv'
<1> SUFFICES ASSUME IInv, [Next]_vars PROVE IInv'
  OBVIOUS
<1>1. Owned /\ Woken /\ Stable /\ Received /\ Handed /\ Plain /\ Then
  BY DEF IInv
<1>2. Owned' /\ Woken' /\ Stable' /\ Received' /\ Plain' /\ Then'
  BY <1>1, NextOwned, NextWoken, NextStable, NextReceived, NextPlain, ThenType
<1>3. Handed'
  <2>1. CASE Next
    BY <1>1, <2>1, CallHanded, RunHanded, CallbackHanded DEF Next
  <2>2. CASE UNCHANGED vars
    BY <1>1, <2>2 DEF vars, Handed, ctxVars, txVars, callVars, userVars
  <2> QED BY <2>1, <2>2
<1> QED BY <1>2, <1>3 DEF IInv

(* The types, and who owns the context.                                    *)
THEOREM SpecInv == Spec => []Inv
<1>1. IInv => Inv
  <2> SUFFICES ASSUME IInv PROVE Inv
    OBVIOUS
  <2>1. Owned /\ Woken /\ Stable /\ Received /\ Handed /\ Plain /\ Then
    BY DEF IInv
  <2>2. refcnt \in 0..Cardinality(Handle) /\ ContextOwned
    <3>1. IsFiniteSet(Handle) /\ holders \subseteq Handle /\ refcnt = Cardinality(holders)
      BY <2>1, TcpAssumption DEF Plain, Owned
    <3>2. Cardinality(holders) \in Nat /\ Cardinality(Handle) \in Nat
          /\ Cardinality(holders) <= Cardinality(Handle)
      BY <3>1, FS_Subset, FS_CardinalityType
    <3> QED BY <2>1, <3>1, <3>2 DEF Owned, ContextOwned
  <2>3. /\ rx \in Seq(Seq(1..MaxIn)) /\ offset \in 0..MaxIn /\ arrived \in 0..MaxIn /\ wnd \in 0..Wnd
        /\ got \in Seq(1..MaxIn)
    <3>1. offset \in 0..MaxIn
      <4>1. offset \in Nat /\ MaxIn \in Nat
        BY <2>1, TcpAssumption DEF Received
      <4>2. CASE rx = <<>>
        BY <2>1, <4>1, <4>2 DEF Received
      <4>3. CASE rx # <<>>
        <5>1. offset < Len(rx[1]) /\ Len(rx[1]) \in Nat
          BY <2>1, <4>3, ReceivedBytes DEF Received
        <5>2. 1 \in 1..Len(rx)
          <6>1. Len(rx) \in Nat /\ Len(rx) # 0
            BY <2>1, <4>3, EmptySeq DEF Received
          <6> QED BY <6>1
        <5>3. Len(rx[1]) <= MaxIn
          BY <2>1, <5>2 DEF Received
        <5> QED BY <4>1, <5>1, <5>3
      <4> QED BY <4>2, <4>3
    <3> QED BY <2>1, <3>1 DEF Received
  <2>4. /\ out \in Seq(1..MaxOut) /\ snd \in Seq([byte : 1..MaxOut, byRef : BOOLEAN]) /\ Len(snd) <= SndBuf
        /\ datalen \in 0..MaxOut /\ written \in 0..MaxOut /\ told \in 0..MaxOut
    <3>1. told \in Nat /\ written \in Nat /\ told + written <= MaxOut /\ MaxOut \in Nat
      BY <2>1, TcpAssumption DEF Handed
    <3>2. told \in 0..MaxOut /\ written \in 0..MaxOut
      BY <3>1
    <3> QED BY <2>1, <3>2 DEF Handed, Data, Stable, Lengths
  <2>5. /\ pcb \in {"none", "SYN_SENT", "ESTABLISHED", "CLOSE_WAIT"}
        /\ holders \subseteq Handle /\ prev \in -1..SndBuf
        /\ pc \in {"idle", "new", "connecting", "write", "wait", "flush", "yield"}
        /\ then \in {"return", "told", "close", "new"}
    BY <2>1 DEF Plain, Handed, Calls, Then
  <2>6. unclaimed \in BOOLEAN /\ {waiting, pending, late, sync, gaveUp} \subseteq BOOLEAN
    BY <2>1 DEF Owned, Woken, Stable, Plain
  <2> QED BY <2>2, <2>3, <2>4, <2>5, <2>6 DEF Inv, TypeOK
<1> QED BY <1>1, InitIInv, NextIInv, PTL DEF Spec

-----------------------------------------------------------------------------
(* A step of the connection, as Connection has it, or none.                *)
Maps == [Abstract!Next]_(Abstract!vars)

LEMMA MapsNothing ==
  ASSUME (pcb' # "none") = (pcb # "none"), Unread' = Unread, UNCHANGED <<arrived, out, told, got>>
  PROVE  Maps
  BY DEF Maps, Abstract!vars

LEMMA MapsOpen ==
  ASSUME pcb = "none", pcb' # "none", arrived' = 0, Unread' = <<>>, out' = <<>>, told' = 0, got' = got
  PROVE  Maps
<1>1. Abstract!Open
  BY DEF Abstract!Open
<1> QED BY <1>1 DEF Maps, Abstract!Next

LEMMA MapsDown ==
  ASSUME pcb' = "none", Unread' = Unread \/ Unread' = <<>>, UNCHANGED <<arrived, out, told, got>>
  PROVE  Maps
<1>1. Abstract!Down \/ Abstract!LetGo
  BY DEF Abstract!Down, Abstract!LetGo
<1> QED BY <1>1 DEF Maps, Abstract!Next

LEMMA MapsArrive ==
  ASSUME NEW k \in 1..MaxIn, pcb # "none", pcb' = pcb, Unread' = Unread \o [i \in 1..k |-> arrived + i],
         arrived' = arrived + k, UNCHANGED <<out, told, got>>
  PROVE  Maps
<1>1. k \in 1..(MaxIn + MaxOut)
  BY TcpAssumption
<1>2. Abstract!Arrive(k)
  BY DEF Abstract!Arrive, Abstract!Numbered
<1> QED BY <1>1, <1>2 DEF Maps, Abstract!Next

LEMMA MapsRead ==
  ASSUME Len(Unread) \in Nat, NEW m \in 1..Len(Unread), pcb' = pcb, got' = SubSeq(Unread, 1, m),
         Unread' = Rest(Unread, m), UNCHANGED <<arrived, out, told>>
  PROVE  Maps
<1>1. m \in 1..(Len(Unread) + 1) /\ Abstract!Shorter(m, Len(Unread)) = m
  BY DEF Abstract!Shorter
<1>2. Abstract!Read(m)
  BY <1>1 DEF Abstract!Read, Rest
<1> QED BY <1>1, <1>2 DEF Maps, Abstract!Next

LEMMA MapsHand ==
  ASSUME NEW c \in 1..(MaxIn + MaxOut), pcb # "none", pcb' = pcb, Unread' = Unread,
         out' = out \o [i \in 1..c |-> Len(out) + i], told' = told \/ told' = Len(out'),
         UNCHANGED <<arrived, got>>
  PROVE  Maps
<1>1. Abstract!Hand(c)
  BY DEF Abstract!Hand, Abstract!Numbered
<1> QED BY <1>1 DEF Maps, Abstract!Next

LEMMA MapsTell ==
  ASSUME told' = Len(out), pcb' = pcb, Unread' = Unread, UNCHANGED <<arrived, out, got>>
  PROVE  Maps
<1>1. Abstract!Tell
  BY DEF Abstract!Tell
<1> QED BY <1>1 DEF Maps, Abstract!Next

-----------------------------------------------------------------------------
LEMMA LetGoMaps ==
  ASSUME Received, NEW h, LetGo(h), UNCHANGED <<arrived, wnd, out, told, got>>
  PROVE  Maps
<1>1. \/ pcb' = "none" /\ Unread' = <<>>
      \/ pcb' = pcb /\ Unread' = Unread
  BY LetGoChain
<1> QED BY <1>1, MapsDown, MapsNothing

LEMMA NewMaps ==
  ASSUME Received, Owned, ~Alive, NEW s, Fresh(s), s # "none" PROVE Maps
<1>1. pcb = "none"
  BY DEF Owned
<1>2. Unread' = <<>>
  BY FreshChain
<1> QED BY <1>1, <1>2, MapsOpen DEF Fresh

LEMMA WaitedMaps ==
  ASSUME Received, Handed, Then, NEW acked, Waited(acked), UNCHANGED <<arrived, wnd, out, got>>
  PROVE  Maps
<1>1. CASE then = "return"
  <2>1. UNCHANGED <<pcb, rx, offset, told>>
    BY <1>1 DEF Waited
  <2> QED BY <2>1, UnreadIs, MapsNothing
<1>2. CASE then = "told"
  <2>1. UNCHANGED <<pcb, rx, offset>> /\ told' = told + written
    BY <1>2 DEF Waited
  <2>2. told' = Len(out)
    BY <2>1 DEF Handed
  <2> QED BY <2>1, <2>2, UnreadIs, MapsTell
<1>3. CASE then = "close"
  <2>1. pcb' = "none" /\ UNCHANGED <<rx, offset, told>>
    BY <1>3 DEF Waited, Detach
  <2> QED BY <2>1, UnreadIs, MapsDown
<1>4. CASE then = "new"
  <2>1. told' = told /\ \E h \in holders : LetGo(h)
    BY <1>4 DEF Waited
  <2> QED BY <2>1, LetGoMaps
<1> QED BY <1>1, <1>2, <1>3, <1>4 DEF Then

LEMMA TakeMaps ==
  ASSUME Received, NEW m \in 1..Len(Unread), Take(m) PROVE Maps
<1>1. Len(Unread) \in Nat
  BY ReceivedBytes
<1>2. m \in Nat /\ m <= Len(Unread)
  BY <1>1
<1>3. Unread' = Rest(Unread, m)
  BY <1>2, TakeUnread
<1>4. got' = SubSeq(Unread, 1, m) /\ UNCHANGED <<pcb, arrived, out, told>>
  BY DEF Take, txVars
<1> QED BY <1>1, <1>3, <1>4, MapsRead

LEMMA CallMaps == ASSUME IInv, Call PROVE Maps
<1>1. Received /\ Owned
  BY DEF IInv
<1>2. CASE SetSync \/ \E n \in 1..MaxOut : Write(n)
  <2>1. UNCHANGED <<pcb, rx, offset, arrived, out, told, got>>
    BY <1>2 DEF SetSync, Write, rxVars, txVars, userVars
  <2> QED BY <2>1, UnreadIs, MapsNothing
<1>3. CASE PeekConsume
  <2>1. PICK m \in 1..Len(Unread) : Take(m)
    BY <1>1, <1>3, ReadLength DEF PeekConsume
  <2> QED BY <1>1, <2>1, TakeMaps
<1>4. ASSUME NEW k \in 1..MaxIn, Read(k) PROVE Maps
  <2>1. PICK m \in 1..Len(Unread) : Take(m)
    BY <1>1, <1>4, ReadLength DEF Read
  <2> QED BY <1>1, <2>1, TakeMaps
<1>5. ASSUME NEW h \in Handle, Connect(h) PROVE Maps
  <2>1. ~Alive /\ Fresh("SYN_SENT")
    BY <1>5 DEF Connect
  <2> QED BY <1>1, <2>1, NewMaps
<1>6. ASSUME NEW h \in Handle, NEW next, Accept(h) \/ Copy(h) \/ Wait(h, next) PROVE Maps
  <2>1. UNCHANGED <<pcb, rx, offset, arrived, out, told, got>>
    BY <1>6 DEF Accept, Copy, Wait, rxVars, txVars, userVars
  <2> QED BY <2>1, UnreadIs, MapsNothing
<1>7. ASSUME NEW h \in Handle, Drop(h) \/ Renew(h) PROVE Maps
  <2>1. LetGo(h) /\ UNCHANGED <<arrived, wnd, out, told, got>>
    BY <1>7 DEF Drop, Renew, userVars
  <2> QED BY <1>1, <2>1, LetGoMaps
<1> QED BY <1>2, <1>3, <1>4, <1>5, <1>6, <1>7 DEF Call

(* The bytes that lwIP takes in a turn of write() are the next ones of the *)
(* stream, and the sketch is told of all of them or of none.               *)
LEMMA TurnMaps == ASSUME IInv, WriteTurn PROVE Maps
<1>1. Handed /\ Stable
  BY DEF IInv
<1>2. PICK c \in Nat :
        /\ c <= datalen - written /\ WriteSome(c) /\ pc = "write"
        /\ c # 0 => pcb # "none"
        /\ told' = told \/ told' = told + written + c
        /\ UNCHANGED <<pcb, rx, offset, arrived, got>>
  BY <1>1, TurnIs
<1>3. sync \in BOOLEAN
  BY <1>1 DEF Stable
<1>4. /\ Len(out') = told + written + c /\ written + c <= datalen
      /\ out' = out \o [i \in 1..c |-> Len(out) + i]
  BY <1>1, <1>2, <1>3, HandedOver
<1>5. Unread' = Unread
  BY <1>2, UnreadIs
<1>6. /\ told \in Nat /\ written \in Nat /\ datalen \in Nat /\ datalen <= MaxOut
      /\ MaxOut \in Nat /\ MaxIn \in Nat
      /\ Len(out) = told + written /\ out \in Seq(1..MaxOut)
  BY <1>1, TcpAssumption DEF Handed
<1>7. CASE c = 0
  <2>1. [i \in 1..c |-> Len(out) + i] = <<>>
    BY <1>7
  <2>2. out' = out
    BY <1>4, <1>6, <2>1, ConcatEmptySeq
  <2>3. told' = told \/ told' = Len(out)
    BY <1>2, <1>6, <1>7
  <2>4. CASE told' = told
    BY <1>2, <1>5, <2>2, <2>4, MapsNothing
  <2>5. CASE told' = Len(out)
    BY <1>2, <1>5, <2>2, <2>5, MapsTell
  <2> QED BY <2>3, <2>4, <2>5
<1>8. CASE c # 0
  <2>1. c \in 1..(MaxIn + MaxOut)
    BY <1>4, <1>6, <1>8
  <2>2. told' = told \/ told' = Len(out')
    BY <1>2, <1>4
  <2> QED BY <1>2, <1>4, <1>5, <1>8, <2>1, <2>2, MapsHand
<1> QED BY <1>7, <1>8

LEMMA RunMaps == ASSUME IInv, Run PROVE Maps
<1>1. Received /\ Handed /\ Then
  BY DEF IInv
<1>2. CASE ConnectFails \/ Resume
  <2>1. UNCHANGED <<pcb, rx, offset, arrived, out, told, got>>
    BY <1>2 DEF ConnectFails, Resume, rxVars, txVars, userVars
  <2> QED BY <2>1, UnreadIs, MapsNothing
<1>3. CASE Connected
  <2>1. UNCHANGED <<arrived, wnd, out, told, got>>
    BY <1>3 DEF Connected, userVars
  <2>2. CASE UNCHANGED <<pcb, rx, offset>>
    BY <2>1, <2>2, UnreadIs, MapsNothing
  <2>3. CASE \E h \in holders : LetGo(h)
    BY <1>1, <2>1, <2>3, LetGoMaps
  <2> QED BY <1>3, <2>2, <2>3 DEF Connected
<1>4. CASE WriteTurn
  BY <1>4, TurnMaps
<1>5. CASE FlushTurn \/ FlushCheck
  <2>1. UNCHANGED <<arrived, wnd, out, got>>
    BY <1>5 DEF FlushTurn, FlushCheck
  <2>2. CASE \E acked \in BOOLEAN : Waited(acked)
    BY <1>1, <2>1, <2>2, WaitedMaps
  <2>3. CASE UNCHANGED <<pcb, rx, offset, told>>
    BY <2>1, <2>3, UnreadIs, MapsNothing
  <2> QED BY <1>5, <2>2, <2>3 DEF FlushTurn, FlushCheck
<1> QED BY <1>2, <1>3, <1>4, <1>5 DEF Run

LEMMA CallbackMaps == ASSUME IInv, Callback \/ Expire PROVE Maps
<1>1. Received /\ Owned
  BY DEF IInv
<1>2. CASE ServerAccept
  <2>1. ~Alive /\ Fresh("ESTABLISHED")
    BY <1>2 DEF ServerAccept
  <2> QED BY <1>1, <2>1, NewMaps
<1>3. CASE ConnectedCb \/ RecvFin \/ Error \/ Poll \/ Expire \/ \E k \in 1..SndBuf : Acked(k)
  <2>1. UNCHANGED <<rx, offset, arrived, out, told, got>>
    BY <1>3 DEF ConnectedCb, RecvFin, Error, Poll, Expire, Acked, callRest, rxVars, txVars, userVars
  <2>2. pcb' = "none" \/ (pcb' # "none" /\ pcb # "none") \/ pcb' = pcb
    BY <1>3 DEF ConnectedCb, RecvFin, Error, Poll, Expire, Acked, Detach
  <2> QED BY <2>1, <2>2, UnreadIs, MapsDown, MapsNothing
<1>4. ASSUME NEW k \in 1..MaxIn, Recv(k) PROVE Maps
  <2>1. Unread' = Unread \o [i \in 1..k |-> arrived + i]
    BY <1>1, <1>4, RecvUnread
  <2>2. pcb = "ESTABLISHED" /\ pcb' = pcb /\ arrived' = arrived + k /\ UNCHANGED <<out, told, got>>
    BY <1>4 DEF Recv, callRest, txVars, userVars
  <2> QED BY <2>1, <2>2, MapsArrive
<1> QED BY <1>2, <1>3, <1>4 DEF Callback

(* The bytes of the peer are read in order and once, those of the sketch   *)
(* are sent in order and counted for it, across wake-ups, time-outs,       *)
(* resets and the closing by the peer.                                     *)
THEOREM SpecImplementsConnection == Spec => ImplementsConnection
<1>1. Init => Abstract!Init
  <2> SUFFICES ASSUME Init PROVE Abstract!Init
    OBVIOUS
  <2>1. Unread = <<>>
    BY EmptyChain, UnreadIs DEF Init
  <2> QED BY <2>1 DEF Init, Abstract!Init
<1>2. IInv /\ [Next]_vars => [Abstract!Next]_(Abstract!vars)
  <2> SUFFICES ASSUME IInv, [Next]_vars PROVE Maps
    BY DEF Maps
  <2>1. CASE Next
    BY <2>1, CallMaps, RunMaps, CallbackMaps DEF Next
  <2>2. CASE UNCHANGED vars
    <3>1. UNCHANGED <<pcb, rx, offset, arrived, out, told, got>>
      BY <2>2 DEF vars, rxVars, txVars, userVars
    <3> QED BY <3>1, UnreadIs, MapsNothing
  <2> QED BY <2>1, <2>2
<1> QED BY <1>1, <1>2, InitIInv, NextIInv, PTL DEF Spec, ImplementsConnection, Abstract!Spec
=============================================================================
