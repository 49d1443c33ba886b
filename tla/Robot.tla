------------------------------- MODULE Robot -------------------------------
(***************************************************************************)
(* A Scout robot with the network it runs on: the sketch of Scout, whose   *)
(* calls of the socket are those of WiFiUDP over its chain of pbufs        *)
(* (WiFiUdp) instead of those that Mailbox promises.                       *)
(***************************************************************************)
EXTENDS Scout, WiFiUdp

(* The packets are the app's commands, byte by byte; the sketches read up  *)
(* to 255 of them.                                                         *)
ASSUME RobotAssumption == /\ Packet = Command
                          /\ Chars = [p \in Packet |-> FlattenSeq(Payload[p])]
                          /\ Capacity = rxBufMaxDepth + 1
                          /\ 255 \in Reads

robotVars == <<vars, udpVars>>

(* What the sketch sees of its socket is what the chain of pbufs holds.    *)
Mirrors == /\ open = ctx
           /\ box = Box
           /\ taken = (firstBufTaken /\ rxBuf # NULL)
           /\ offset = rxBufOffset
           /\ got = answer

Mirrored == /\ open' = ctx'
            /\ box' = Box'
            /\ taken' = (firstBufTaken' /\ rxBuf' # NULL)
            /\ offset' = rxBufOffset'
            /\ got' = answer'

RobotInit == Idle /\ UdpInit /\ Mirrors

RobotSetup == SetupBy(Renew(TRUE) /\ Mirrored)
RobotArrive(c) == ArriveBy(Recv(c) /\ Mirrored)
RobotParse == ParseBy((ParseNone \/ ParseFirst \/ ParseNext) /\ Mirrored)
RobotReceive == ReceiveBy(Read(255) /\ Mirrored)
RobotMoves == (Write \/ Decide \/ Acted \/ Again) /\ UNCHANGED udpVars

RobotLoop == RobotSetup \/ RobotParse \/ RobotReceive \/ RobotMoves

RobotNext == RobotLoop \/ \E c \in Command : RobotArrive(c)

(* As in Scout: nothing that loop() calls blocks.                          *)
RobotSpec == RobotInit /\ [][RobotNext]_robotVars /\ WF_robotVars(RobotLoop)

-----------------------------------------------------------------------------
(* The robot over the chain of pbufs does nothing that it could not do over*)
(* the mailbox: what is shown of Scout holds of it.                        *)
ImplementsScout == Init /\ [][Next]_vars
=============================================================================
