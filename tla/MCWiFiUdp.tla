----------------------------- MODULE MCWiFiUdp -----------------------------
(***************************************************************************)
(* Datagrams of one pbuf, of two, and an empty one, from two senders.      *)
(***************************************************************************)
EXTENDS WiFiUdp

MCPacket == 1..3
MCSource == <<1, 2, 2>>
MCPayload == << << <<11, 12>> >>, << <<21>>, <<22>> >>, << <<>> >> >>
MCByte == 0..255
MCReads == {0, 1, 3}
=============================================================================
