------------------------------ MODULE UserBuffer ------------------------------
(***************************************************************************)
(* The packet buffer of a User (User.h): SetPacketData appends what a      *)
(* receive delivered, GetPacket takes the next whole packet.  The buffer   *)
(* is a sliding window: it moves its contents to the front when the end is *)
(* reached.  Here each of the two operations runs alone; PacketManager has *)
(* them run on two threads.                                                *)
(***************************************************************************)
EXTENDS Naturals, Sequences

CONSTANTS
  Byte,          \* a unit of data
  HeaderLength,  \* PACKET_HEADER_LENGTH
  PacketLength,  \* packet_length_ as the first unit of a packet gives it
  BufferSize,    \* PACKET_DATA_BUFFER_SIZE
  MaxRecv,       \* MAX_SOCKBUF: the most one receive delivers
  MaxBacklog     \* the most a client has sent that was not yet taken (see Room)

\* SetPacketData has no test for a full buffer: it relies on clients that do not
\* run ahead of the server by more than half a buffer.
ASSUME BufferAssumption ==
  /\ HeaderLength \in Nat \ {0}
  /\ PacketLength \in [Byte -> Nat]
  /\ BufferSize \in Nat
  /\ MaxRecv \in Nat
  /\ MaxBacklog \in Nat
  /\ 2 * MaxBacklog <= BufferSize

VARIABLES
  buffer,  \* packet_data_buffer_
  wPos,    \* packet_data_buffer_w_pos_
  rPos,    \* packet_data_buffer_r_pos_
  got      \* the packet the last GetPacket returned, <<>> for an empty PacketInfo

vars == <<buffer, wPos, rPos, got>>

Offsets == 0..(BufferSize - 1)
Remain == wPos - rPos
Chunks == UNION {[1..n -> Byte] : n \in 1..MaxRecv}

\* Init only allocates: new char[] leaves the bytes as they are.
Init ==
  /\ buffer \in [Offsets -> Byte]
  /\ wPos = 0
  /\ rPos = 0
  /\ got = <<>>
-----------------------------------------------------------------------------
\* The condition under which SetPacketData may be called with n units.
Room(n) == Remain + n <= MaxBacklog

\* Mutants: the window slides too late; it slides when half the buffer is used.
MustSlideLate(n) == wPos + n > BufferSize + 1
MustSlide(n) == wPos + n >= BufferSize

\* CopyMemory(dst, src, n) is memcpy: when the ranges overlap it may leave
\* anything in the destination.
Slid ==
  IF Remain <= rPos
  THEN {[i \in Offsets |-> IF i < Remain THEN buffer[rPos + i] ELSE buffer[i]]}
  ELSE {[i \in Offsets |-> IF i < Remain THEN g[i] ELSE buffer[i]] :
          g \in [0..(Remain - 1) -> Byte]}

Written(b, at, data) ==
  [i \in Offsets |-> IF i >= at /\ i < at + Len(data) THEN data[i - at + 1] ELSE b[i]]

\* Mutant: the read position is not reset when the window slides.
SetPacketDataKeepsR(data) ==
  /\ Room(Len(data))
  /\ \/ /\ ~MustSlide(Len(data))
        /\ buffer' = Written(buffer, wPos, data)
        /\ wPos' = wPos + Len(data)
        /\ UNCHANGED rPos
     \/ /\ MustSlide(Len(data))
        /\ \E b \in Slid : buffer' = Written(b, Remain, data)
        /\ wPos' = Remain + Len(data)
        /\ UNCHANGED rPos
  /\ UNCHANGED got

SetPacketData(data) ==
  /\ Room(Len(data))
  /\ \/ /\ ~MustSlide(Len(data))
        /\ buffer' = Written(buffer, wPos, data)
        /\ wPos' = wPos + Len(data)
        /\ UNCHANGED rPos
     \/ /\ MustSlide(Len(data))
        /\ \E b \in Slid : buffer' = Written(b, Remain, data)
        /\ wPos' = Remain + Len(data)
        /\ rPos' = 0
  /\ UNCHANGED got
-----------------------------------------------------------------------------
HasPacket == /\ Remain >= HeaderLength
             /\ PacketLength[buffer[rPos]] <= Remain

GetPacket ==
  IF HasPacket
  THEN /\ got' = [i \in 1..PacketLength[buffer[rPos]] |-> buffer[rPos + i - 1]]
       /\ rPos' = rPos + PacketLength[buffer[rPos]]
       /\ UNCHANGED <<buffer, wPos>>
  ELSE got' = <<>> /\ UNCHANGED <<buffer, wPos, rPos>>

Next == (\E data \in Chunks : SetPacketData(data)) \/ GetPacket

Spec == Init /\ [][Next]_vars
-----------------------------------------------------------------------------
\* Types, and the window inside the buffer: what SetPacketData writes ends at
\* wPos, so it never writes past packet_data_buffer_; UINT32 wPos - rPos never wraps.
TypeOK ==
  /\ buffer \in [Offsets -> Byte]
  /\ wPos \in 0..BufferSize
  /\ rPos \in 0..wPos
  /\ Remain <= MaxBacklog
  /\ got \in Seq(Byte)

\* Whenever SetPacketData slides the window, the source and the destination of
\* CopyMemory are disjoint, as memcpy demands.
SlideIsDisjoint ==
  \A n \in 1..MaxRecv : Room(n) /\ MustSlide(n) => Remain <= rPos

\* The user buffer is a FIFO of bytes that hands out whole packets, however often
\* the window slides: sliding never loses, repeats or reorders a byte.
Window == [i \in 1..Remain |-> buffer[rPos + i - 1]]
Fifo == INSTANCE ByteFifo WITH content <- Window
ImplementsFifo == Fifo!Spec
=============================================================================
