SPECIFICATION Spec
CONSTANTS
  Byte = {1, 2}
  HeaderLength = 2
  PacketLength <- MCPacketLength
  BufferSize = 8
  MaxRecv = 3
  MaxBacklog = 4
INVARIANT
  TypeOK
PROPERTY
  ImplementsFifo
