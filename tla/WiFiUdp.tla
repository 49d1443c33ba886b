------------------------------ MODULE WiFiUdp ------------------------------
(***************************************************************************)
(* Reception by WiFiUDP and UdpContext (libraries/ESP8266WiFi/src): lwIP   *)
(* hands every datagram, a chain of pbufs, to _recv(), which links it, with*)
(* a helper pbuf that holds its sender, behind the chain that _rx_buf      *)
(* addresses; the sketch moves along the chain with parsePacket() and      *)
(* reads.  lwIP runs in SYS, so a datagram can arrive between any two calls*)
(* of the sketch and never within one.  Sending is left out.               *)
(***************************************************************************)
EXTENDS Naturals, SequencesExt

CONSTANTS Packet,
          Source,         \* who sends each packet
          Byte,           \* the values of a byte
          Payload,        \* its bytes, as the pbufs lwIP delivers it in
          rxBufMaxDepth,
          MaxCell,        \* pbufs that the heap can provide
          Reads           \* the sizes the sketch reads

ASSUME UdpAssumption == /\ rxBufMaxDepth \in Nat \ {0}
                        /\ MaxCell \in Nat
                        /\ Reads \subseteq Nat
                        /\ \A p \in Packet : Payload[p] \in Seq(Seq(Byte)) \ {<<>>}

NULL == 0
Cell == 1..MaxCell

VARIABLES ctx,          \* WiFiUDP has a context
          pbuf,         \* the heap
          rxBuf, firstBufTaken, rxBufOffset, rxBufSize,
          currentAddr,
          answer        \* the last answer to the sketch

udpVars == <<ctx, pbuf, rxBuf, firstBufTaken, rxBufOffset, rxBufSize, currentAddr, answer>>

(* A helper pbuf holds a sender, a data pbuf bytes of a packet.            *)
Free == [helper |-> FALSE, of |-> NULL, bytes |-> <<>>, next |-> NULL, ref |-> 0]
NoAnswer == [n |-> 0, bytes |-> <<>>]

UdpInit == /\ ctx = FALSE
           /\ pbuf = [c \in Cell |-> Free]
           /\ rxBuf = NULL /\ firstBufTaken = FALSE
           /\ rxBufOffset = 0 /\ rxBufSize = 0
           /\ currentAddr = NULL
           /\ answer = NoAnswer

-----------------------------------------------------------------------------
(* lwIP's pbufs *)

Chain == LET chain[c \in 0..MaxCell] == IF c = NULL THEN <<>> ELSE <<c>> \o chain[pbuf[c].next]
         IN  chain

(* pbuf_free(): releases the chain from c on as far as nobody else refers  *)
(* to it.                                                                  *)
Released(c, heap) ==
  LET s == Chain[c]
      kept == SelectInSeq(s, LAMBDA d : heap[d].ref > 1)
      gone == {s[i] : i \in 1..(IF kept = 0 THEN Len(s) ELSE kept - 1)}
  IN  [d \in Cell |-> IF d \in gone THEN Free
                      ELSE IF kept # 0 /\ d = s[kept] THEN [heap[d] EXCEPT !.ref = @ - 1]
                      ELSE heap[d]]

(* pbuf_alloc(): n unused cells. pbuf_cat(): the new pbufs behind the chain.*)
Unused == {c \in Cell : pbuf[c].ref = 0}
Allocated(n) == CHOOSE f \in [1..n -> Unused] : IsInjective(f)

Appended(new) ==
  LET place == Allocated(Len(new))
  IN  [c \in Cell |->
         IF \E i \in DOMAIN new : c = place[i]
         THEN LET i == CHOOSE j \in DOMAIN new : c = place[j]
              IN  [new[i] EXCEPT !.next = IF i = Len(new) THEN NULL ELSE place[i + 1]]
         ELSE IF rxBuf # NULL /\ c = Last(Chain[rxBuf]) THEN [pbuf[c] EXCEPT !.next = place[1]]
         ELSE pbuf[c]]

-----------------------------------------------------------------------------
(* WiFiUDP::begin() and stop(); a context that is left is deleted, and the *)
(* chain with it.                                                          *)
Renew(now) == /\ ctx \/ now
              /\ pbuf' = Released(rxBuf, pbuf)
              /\ ctx' = now
              /\ rxBuf' = NULL /\ firstBufTaken' = FALSE
              /\ rxBufOffset' = 0 /\ rxBufSize' = 0
              /\ currentAddr' = NULL
              /\ UNCHANGED answer

-----------------------------------------------------------------------------
(* UdpContext::_recv() *)

TooDeep == Len(Chain[rxBuf]) >= 2 * rxBufMaxDepth

Data(p) == [i \in DOMAIN Payload[p] |-> [helper |-> FALSE, of |-> p, bytes |-> Payload[p][i], next |-> NULL, ref |-> 1]]
Helper(p) == [helper |-> TRUE, of |-> Source[p], bytes |-> <<>>, next |-> NULL, ref |-> 1]

(* The first datagram needs no helper.  One that finds the chain too deep, *)
(* or no memory for its helper, is dropped.                                *)
Recv(p) ==
  LET new == IF rxBuf = NULL THEN Data(p) ELSE <<Helper(p)>> \o Data(p)
  IN  /\ ctx
      /\ ~TooDeep
      /\ Len(new) <= Cardinality(Unused)
      /\ pbuf' = Appended(new)
      /\ IF rxBuf # NULL
         THEN UNCHANGED <<rxBuf, firstBufTaken, rxBufOffset, rxBufSize, currentAddr>>
         ELSE /\ rxBuf' = Allocated(Len(new))[1]
              /\ firstBufTaken' = FALSE
              /\ rxBufOffset' = 0
              /\ rxBufSize' = Len(FlattenSeq(Payload[p]))
              /\ currentAddr' = Source[p]
      /\ UNCHANGED <<ctx, answer>>

-----------------------------------------------------------------------------
(* The sketch's calls *)

getSize == IF rxBuf = NULL THEN 0 ELSE rxBufSize - rxBufOffset

(* _processSize(): the pbufs of one datagram, up to the next helper.       *)
DataFrom(c) ==
  LET s == Chain[c]
      helper == SelectInSeq(s, LAMBDA d : pbuf[d].helper)
  IN  IF helper = 0 THEN s ELSE SubSeq(s, 1, helper - 1)
BytesOf(cells) == FlattenSeq([i \in DOMAIN cells |-> pbuf[cells[i]].bytes])

ProcessSize(c) == Len(BytesOf(DataFrom(c)))

(* pbuf_ref()                                                              *)
Ref_Not(c) == pbuf
Ref(c) == [pbuf EXCEPT ![c].ref = @ + 1]

(* The helper in front of the next datagram.                               *)
NextHelper_Second == IF Len(Chain[rxBuf]) > 1 THEN Chain[rxBuf][2] ELSE NULL
NextHelper == LET s == Chain[rxBuf]
              IN  IF Len(DataFrom(rxBuf)) = Len(s) THEN NULL ELSE s[Len(DataFrom(rxBuf)) + 1]

Sender_Kept(helper) == currentAddr
Sender(helper) == pbuf[helper].of

(* parsePacket(): UdpContext::next(), and the size.                        *)
ParseNone == /\ rxBuf = NULL
             /\ answer' = NoAnswer
             /\ UNCHANGED <<ctx, pbuf, rxBuf, firstBufTaken, rxBufOffset, rxBufSize, currentAddr>>

ParseFirst == /\ rxBuf # NULL /\ ~firstBufTaken
              /\ firstBufTaken' = TRUE
              /\ answer' = [n |-> getSize, bytes |-> <<>>]
              /\ UNCHANGED <<ctx, pbuf, rxBuf, rxBufOffset, rxBufSize, currentAddr>>

ParseNext == /\ rxBuf # NULL /\ firstBufTaken
             /\ IF NextHelper = NULL
                THEN /\ rxBuf' = NULL
                     /\ pbuf' = Released(rxBuf, pbuf)
                     /\ rxBufSize' = 0
                     /\ UNCHANGED currentAddr
                ELSE /\ rxBuf' = pbuf[NextHelper].next
                     /\ currentAddr' = Sender(NextHelper)
                     /\ pbuf' = Released(rxBuf, Ref(rxBuf'))
                     /\ rxBufSize' = ProcessSize(rxBuf')
             /\ rxBufOffset' = 0
             /\ answer' = [n |-> rxBufSize', bytes |-> <<>>]
             /\ UNCHANGED <<ctx, firstBufTaken>>

(* read(dst, size), and read() for one byte.                               *)
Amount(k) == IF k < getSize THEN k ELSE getSize

Read(k) == LET n == Amount(k)
           IN  /\ answer' = [n |-> n, bytes |-> SubSeq(BytesOf(Chain[rxBuf]), rxBufOffset + 1, rxBufOffset + n)]
               /\ rxBufOffset' = IF rxBuf = NULL THEN rxBufOffset ELSE rxBufOffset + n
               /\ UNCHANGED <<ctx, pbuf, rxBuf, firstBufTaken, rxBufSize, currentAddr>>

UdpNext == \/ \E now \in BOOLEAN : Renew(now)
           \/ \E p \in Packet : Recv(p)
           \/ ParseNone \/ ParseFirst \/ ParseNext
           \/ \E k \in Reads : Read(k)

UdpSpec == UdpInit /\ [][UdpNext]_udpVars

-----------------------------------------------------------------------------
UdpTypeOK == /\ ctx \in BOOLEAN /\ firstBufTaken \in BOOLEAN
             /\ \A c \in Cell : /\ pbuf[c].helper \in BOOLEAN
                                /\ pbuf[c].next \in 0..MaxCell
                                /\ pbuf[c].ref \in 0..1
             /\ rxBuf \in 0..MaxCell
             /\ rxBufOffset \in 0..rxBufSize
             /\ answer.n = Len(answer.bytes) \/ answer.bytes = <<>>

(* The pbufs in use are exactly those of the chain: moving on releases the *)
(* datagram that was read and its helper, and nothing that is still linked.*)
NoPbufLost == /\ {c \in Cell : pbuf[c].ref > 0} = ToSet(Chain[rxBuf])
              /\ ctx \/ rxBuf = NULL

(* The types, and the pbufs.                                               *)
UdpInv == UdpTypeOK /\ NoPbufLost

(* The datagrams in the chain: one begins at _rx_buf and one behind every  *)
(* helper.                                                                 *)
Begins(s, i) == i = 1 \/ pbuf[s[i - 1]].helper
Box == LET s == Chain[rxBuf]
           boxes[i \in 0..Len(s)] == IF i = 0 THEN <<>>
                                     ELSE IF Begins(s, i) THEN Append(boxes[i - 1], pbuf[s[i]].of)
                                     ELSE boxes[i - 1]
       IN  boxes[Len(s)]

(* remoteIP() names the sender of the datagram whose bytes are read.       *)
RemoteIsSender == rxBuf # NULL => currentAddr = Source[Head(Box)]

(* WiFiUDP is the mailbox it promises to be; with one pbuf per datagram    *)
(* rxBufMaxDepth + 1 datagrams fit.                                        *)
Promised == INSTANCE Mailbox WITH
              open <- ctx,
              got <- answer,
              Bytes <- [p \in Packet |-> FlattenSeq(Payload[p])],
              Capacity <- rxBufMaxDepth + 1,
              box <- Box,
              taken <- firstBufTaken /\ rxBuf # NULL,
              offset <- rxBufOffset
ImplementsMailbox == Promised!Spec

(* "return number of bytes available in the current packet, will return    *)
(* zero if parsePacket hasn't been called yet" (available(), WiFiUdp.cpp). *)
ZeroBeforeParse == ~firstBufTaken => getSize = 0
=============================================================================
