CONSTANTS
  Command <- MCCommand
  Packet <- MCCommand
  Chars <- MCChars
  Capacity = 3
  Source <- MCSource
  Byte <- MCByte
  Payload <- MCPayload
  rxBufMaxDepth = 2
  MaxCell = 5
  Reads <- MCReads
SPECIFICATION RobotSpec
INVARIANTS NeverBrakes Obeys
PROPERTIES ImplementsScout StopIsObeyed
