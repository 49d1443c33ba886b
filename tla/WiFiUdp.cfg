CONSTANTS
  Packet <- MCPacket
  Source <- MCSource
  Payload <- MCPayload
  Byte <- MCByte
  rxBufMaxDepth = 2
  MaxCell = 7
  Reads <- MCReads
SPECIFICATION UdpSpec
INVARIANTS UdpInv RemoteIsSender
PROPERTIES ImplementsMailbox
