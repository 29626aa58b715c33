--------------------------- MODULE UserBuffer_proofs ---------------------------
(***************************************************************************)
(* The buffer of a User is a FIFO for every size of the buffer, of the     *)
(* receives and of the packets, as long as no client runs ahead of the     *)
(* server by more than half a buffer.                                      *)
(***************************************************************************)
EXTENDS UserBuffer, SequenceTheorems, TLAPS

\* What a slide leaves at the front of the buffer.
LEMMA SlidDown ==
  ASSUME TypeOK, Remain <= rPos, NEW b \in Slid
  PROVE  /\ b \in [Offsets -> Byte]
         /\ \A i \in Offsets : i < Remain => b[i] = buffer[rPos + i]
<1>1. Remain \in Nat /\ rPos + Remain = wPos /\ wPos <= BufferSize
  BY BufferAssumption DEF TypeOK, Remain
<1>2. b = [i \in Offsets |-> IF i < Remain THEN buffer[rPos + i] ELSE buffer[i]]
  BY DEF Slid
<1>3. \A i \in Offsets : i < Remain => rPos + i \in Offsets
  BY <1>1, BufferAssumption DEF TypeOK, Offsets
<1> QED
  BY <1>2, <1>3 DEF TypeOK

\* Writing a chunk changes the buffer where it lands and nowhere else.
LEMMA WrittenThere ==
  ASSUME NEW b \in [Offsets -> Byte], NEW at \in Nat, NEW data \in Chunks
  PROVE  /\ Written(b, at, data) \in [Offsets -> Byte]
         /\ \A i \in Offsets :
              Written(b, at, data)[i] =
                IF i >= at /\ i < at + Len(data) THEN data[i - at + 1] ELSE b[i]
<1>1. PICK n \in 1..MaxRecv : data \in [1..n -> Byte]
  BY DEF Chunks
<1>2. Len(data) = n
  BY <1>1, BufferAssumption
<1>3. \A i \in Offsets : i >= at /\ i < at + Len(data) => data[i - at + 1] \in Byte
  BY <1>1, <1>2, BufferAssumption DEF Offsets
<1> QED
  BY <1>3 DEF Written

\* A chunk is a sequence of 1..MaxRecv units.
LEMMA ChunkLength ==
  ASSUME NEW data \in Chunks
  PROVE  data \in Seq(Byte) /\ Len(data) \in 1..MaxRecv
<1>1. PICK n \in 1..MaxRecv : data \in [1..n -> Byte]
  BY DEF Chunks
<1> QED
  BY <1>1, BufferAssumption

\* The window slides only when its contents fit in front of it.
LEMMA DisjointSlide ==
  ASSUME TypeOK, NEW n \in 1..MaxRecv, Room(n), MustSlide(n)
  PROVE  Remain <= rPos
BY BufferAssumption DEF TypeOK, Room, MustSlide, Remain
-----------------------------------------------------------------------------
\* What is received is written inside the buffer.
LEMMA PutKeepsTypes ==
  ASSUME TypeOK, NEW data \in Chunks, SetPacketData(data)
  PROVE  TypeOK'
<1> DEFINE n == Len(data)
<1>1. n \in 1..MaxRecv /\ data \in Seq(Byte)
  BY ChunkLength
<1>2. Room(n)
  BY DEF SetPacketData
<1>3. CASE ~MustSlide(n) /\ buffer' = Written(buffer, wPos, data) /\ wPos' = wPos + n
           /\ UNCHANGED <<rPos, got>>
  <2>1. buffer' \in [Offsets -> Byte]
    BY <1>3, WrittenThere DEF TypeOK
  <2> QED
    BY <1>1, <1>2, <1>3, <2>1, BufferAssumption DEF TypeOK, Room, MustSlide, Remain
<1>4. CASE MustSlide(n) /\ (\E b \in Slid : buffer' = Written(b, Remain, data))
           /\ wPos' = Remain + n /\ rPos' = 0 /\ UNCHANGED got
  <2>1. Remain <= rPos
    BY <1>1, <1>2, <1>4, DisjointSlide
  <2>2. PICK b \in Slid : buffer' = Written(b, Remain, data)
    BY <1>4
  <2>3. Remain \in Nat
    BY DEF TypeOK, Remain
  <2>4. buffer' \in [Offsets -> Byte]
    BY <2>1, <2>2, <2>3, SlidDown, WrittenThere
  <2> QED
    BY <1>1, <1>2, <1>4, <2>3, <2>4, BufferAssumption DEF TypeOK, Room, Remain
<1> QED
  BY <1>3, <1>4 DEF SetPacketData

\* The packet GetPacket hands out is a sequence of units.
LEMMA UnitsAreSeq ==
  ASSUME NEW n \in Nat, NEW f \in [1..n -> Byte]
  PROVE  f \in Seq(Byte)
  OBVIOUS

\* A packet's units lie inside the window.
LEMMA TakenUnits ==
  ASSUME TypeOK, HasPacket
  PROVE  /\ rPos \in Offsets
         /\ PacketLength[buffer[rPos]] \in 0..Remain
         /\ [i \in 1..PacketLength[buffer[rPos]] |-> buffer[rPos + i - 1]] \in Seq(Byte)
<1>1. rPos \in Offsets
  BY BufferAssumption DEF TypeOK, HasPacket, Remain, Offsets
<1>2. PacketLength[buffer[rPos]] \in 0..Remain
  BY <1>1, BufferAssumption DEF TypeOK, HasPacket, Remain
<1>3. \A i \in 1..PacketLength[buffer[rPos]] : rPos + i - 1 \in Offsets
  BY <1>1, <1>2, BufferAssumption DEF TypeOK, Remain, Offsets
<1>4. \A i \in 1..PacketLength[buffer[rPos]] : buffer[rPos + i - 1] \in Byte
  BY <1>3 DEF TypeOK
<1>5. PacketLength[buffer[rPos]] \in Nat
  BY <1>1, BufferAssumption DEF TypeOK
<1>6. [i \in 1..PacketLength[buffer[rPos]] |-> buffer[rPos + i - 1]]
        \in [1..PacketLength[buffer[rPos]] -> Byte]
  BY <1>4
<1>7. [i \in 1..PacketLength[buffer[rPos]] |-> buffer[rPos + i - 1]] \in Seq(Byte)
  BY <1>5, <1>6, UnitsAreSeq
<1> QED
  BY <1>1, <1>2, <1>7

\* Taking a packet moves the read position inside the buffer.
LEMMA GetKeepsTypes ==
  ASSUME TypeOK, GetPacket
  PROVE  TypeOK'
<1>1. CASE HasPacket
  <2>1. wPos' = wPos /\ buffer' = buffer /\ rPos' = rPos + PacketLength[buffer[rPos]]
        /\ got' = [i \in 1..PacketLength[buffer[rPos]] |-> buffer[rPos + i - 1]]
    BY <1>1 DEF GetPacket
  <2>2. got' \in Seq(Byte)
    BY <1>1, <2>1, TakenUnits
  <2>3. PacketLength[buffer[rPos]] \in 0..Remain
    BY <1>1, TakenUnits
  <2> QED
    BY <2>1, <2>2, <2>3, BufferAssumption DEF TypeOK, Remain
<1>2. CASE ~HasPacket
  BY <1>2, EmptySeq DEF GetPacket, TypeOK, Remain
<1> QED
  BY <1>1, <1>2

\* The window stays inside packet_data_buffer_ and never holds more than the
\* clients may run ahead: no call of SetPacketData or GetPacket reads or writes
\* past the end of the allocation (User.h:74-125).
THEOREM WindowInBounds == Spec => []TypeOK
<1>1. Init => TypeOK
  BY BufferAssumption, EmptySeq DEF Init, TypeOK, Remain
<1>2. TypeOK /\ [Next]_vars => TypeOK'
  <2> SUFFICES ASSUME TypeOK, [Next]_vars PROVE TypeOK'
    OBVIOUS
  <2>1. ASSUME NEW data \in Chunks, SetPacketData(data) PROVE TypeOK'
    BY <2>1, PutKeepsTypes
  <2>2. CASE GetPacket
    BY <2>2, GetKeepsTypes
  <2>3. CASE UNCHANGED vars
    BY <2>3 DEF TypeOK, vars, Remain
  <2> QED
    BY <2>1, <2>2, <2>3 DEF Next
<1> QED
  BY <1>1, <1>2, PTL DEF Spec

\* memcpy's precondition holds at every slide of the window (User.h:83).
THEOREM SlidesAreDisjoint == Spec => []SlideIsDisjoint
<1>1. TypeOK => SlideIsDisjoint
  BY DisjointSlide DEF SlideIsDisjoint
<1> QED
  BY <1>1, WindowInBounds, PTL
-----------------------------------------------------------------------------
\* The window is the sequence between the two positions.
LEMMA WindowIsSeq ==
  ASSUME TypeOK
  PROVE  /\ Window \in Seq(Byte)
         /\ Len(Window) = Remain
         /\ Remain \in Nat
         /\ \A i \in 1..Remain : Window[i] = buffer[rPos + i - 1]
<1>1. Remain \in Nat
  BY DEF TypeOK, Remain
<1>2. \A i \in 1..Remain : rPos + i - 1 \in Offsets
  BY BufferAssumption DEF TypeOK, Remain, Offsets
<1>3. \A i \in 1..Remain : buffer[rPos + i - 1] \in Byte
  BY <1>2 DEF TypeOK
<1> QED
  BY <1>1, <1>3 DEF Window

\* A sequence is the join of two others if it is so place by place.
LEMMA Appended ==
  ASSUME NEW S, NEW s \in Seq(S), NEW t \in Seq(S), NEW u \in Seq(S),
         Len(u) = Len(s) + Len(t),
         \A i \in 1..(Len(s) + Len(t)) : u[i] = IF i <= Len(s) THEN s[i] ELSE t[i - Len(s)]
  PROVE  u = s \o t
<1> DEFINE v == s \o t
<1>1. v \in Seq(S) /\ Len(v) = Len(s) + Len(t)
      /\ \A i \in 1..(Len(s) + Len(t)) : v[i] = IF i <= Len(s) THEN s[i] ELSE t[i - Len(s)]
  BY ConcatProperties
<1> HIDE DEF v
<1>2. u = v
  BY <1>1, SeqEqual
<1> QED
  BY <1>2 DEF v

\* The contents after a SetPacketData: the old contents, then the new units.
LEMMA PutAppends ==
  ASSUME TypeOK, TypeOK', NEW data \in Chunks, SetPacketData(data)
  PROVE  Window' = Window \o data
<1> DEFINE n == Len(data)
<1>1. n \in 1..MaxRecv /\ data \in Seq(Byte) /\ Room(n)
  BY ChunkLength DEF SetPacketData
<1>2. wPos \in Nat /\ rPos \in Nat /\ rPos <= wPos /\ wPos <= BufferSize
      /\ Remain = wPos - rPos /\ Remain \in Nat
  BY BufferAssumption DEF TypeOK, Remain
<1>3. Remain' = Remain + n
  <2>1. CASE ~MustSlide(n)
    BY <1>1, <1>2, <2>1 DEF SetPacketData, Remain
  <2>2. CASE MustSlide(n)
    BY <1>1, <1>2, <2>2 DEF SetPacketData, Remain
  <2> QED
    BY <2>1, <2>2
<1>4. \A i \in 1..(Remain + n) :
        buffer'[rPos' + i - 1] = IF i <= Remain THEN buffer[rPos + i - 1] ELSE data[i - Remain]
  <2>1. CASE ~MustSlide(n)
    <3>1. buffer' = Written(buffer, wPos, data) /\ wPos' = wPos + n /\ rPos' = rPos
      BY <2>1 DEF SetPacketData
    <3>2. \A j \in Offsets : buffer'[j] = IF j >= wPos /\ j < wPos + n
                                          THEN data[j - wPos + 1] ELSE buffer[j]
      BY <1>2, <3>1, WrittenThere DEF TypeOK
    <3>3. ASSUME NEW i \in 1..(Remain + n)
          PROVE  buffer'[rPos' + i - 1] =
                   IF i <= Remain THEN buffer[rPos + i - 1] ELSE data[i - Remain]
      <4>1. rPos + i - 1 \in Offsets /\ rPos + i - 1 < wPos + n
        BY <1>1, <1>2, <2>1, BufferAssumption DEF MustSlide, Offsets
      <4>2. CASE i <= Remain
        <5>1. ~(rPos + i - 1 >= wPos)
          BY <1>2, <4>2
        <5> QED
          BY <3>1, <3>2, <4>1, <4>2, <5>1
      <4>3. CASE ~(i <= Remain)
        <5>1. rPos + i - 1 >= wPos /\ rPos + i - 1 - wPos + 1 = i - Remain
          BY <1>2, <4>3
        <5>2. buffer'[rPos + i - 1] = data[rPos + i - 1 - wPos + 1]
          BY <1>1, <1>2, <3>2, <4>1, <5>1
        <5> QED
          BY <3>1, <4>3, <5>1, <5>2
      <4> QED
        BY <4>2, <4>3
    <3> QED
      BY <3>3
  <2>2. CASE MustSlide(n)
    <3>1. PICK b \in Slid : buffer' = Written(b, Remain, data)
      BY <2>2 DEF SetPacketData
    <3>2. rPos' = 0 /\ Remain <= rPos
      BY <1>1, <2>2, DisjointSlide DEF SetPacketData
    <3>3. \A j \in Offsets : j < Remain => b[j] = buffer[rPos + j]
      BY <3>2, SlidDown
    <3>4. \A j \in Offsets : buffer'[j] = IF j >= Remain /\ j < Remain + n
                                          THEN data[j - Remain + 1] ELSE b[j]
      BY <1>2, <3>1, <3>2, SlidDown, WrittenThere
    <3>5. ASSUME NEW i \in 1..(Remain + n)
          PROVE  buffer'[rPos' + i - 1] =
                   IF i <= Remain THEN buffer[rPos + i - 1] ELSE data[i - Remain]
      <4>1. i - 1 \in Offsets /\ rPos' + i - 1 = i - 1
        BY <1>1, <1>2, <3>2, BufferAssumption DEF Room, Offsets
      <4>2. CASE i <= Remain
        <5>1. rPos + (i - 1) = rPos + i - 1 /\ i - 1 < Remain
          BY <1>2, <4>2
        <5>2. buffer'[i - 1] = b[i - 1]
          BY <1>2, <3>4, <4>1, <5>1
        <5>3. b[i - 1] = buffer[rPos + (i - 1)]
          BY <3>3, <4>1, <5>1
        <5> QED
          BY <4>1, <4>2, <5>1, <5>2, <5>3
      <4>3. CASE ~(i <= Remain)
        <5>1. i - 1 >= Remain /\ i - 1 < Remain + n /\ i - 1 - Remain + 1 = i - Remain
          BY <1>1, <1>2, <4>3
        <5> QED
          BY <3>4, <4>1, <4>3, <5>1
      <4> QED
        BY <4>2, <4>3
    <3> QED
      BY <3>5
  <2> QED
    BY <2>1, <2>2
<1>5. Window \in Seq(Byte) /\ Len(Window) = Remain
      /\ \A i \in 1..Remain : Window[i] = buffer[rPos + i - 1]
  BY WindowIsSeq
<1>6. Window' \in Seq(Byte) /\ Len(Window') = Remain'
      /\ \A i \in 1..Remain' : Window'[i] = buffer'[rPos' + i - 1]
  <2>1. Window' = [i \in 1..Remain' |-> buffer'[rPos' + i - 1]]
    BY DEF Window
  <2>2. Remain' \in Nat
    BY <1>1, <1>2, <1>3
  <2>3. buffer' \in [Offsets -> Byte] /\ wPos' \in 0..BufferSize /\ rPos' \in 0..wPos'
    BY DEF TypeOK
  <2>4. Remain' = wPos' - rPos'
    BY DEF Remain
  <2>5. \A i \in 1..Remain' : rPos' + i - 1 \in Offsets
    <3> DEFINE k == rPos'
               m == Remain'
               e == wPos'
    <3>1. e \in 0..BufferSize /\ k \in 0..e /\ m = e - k
      BY <2>3, <2>4
    <3> HIDE DEF k, m, e
    <3>2. \A i \in 1..m : k + i - 1 \in Offsets
      BY <3>1, BufferAssumption DEF Offsets
    <3> QED
      BY <3>2 DEF k, m
  <2>6. \A i \in 1..Remain' : buffer'[rPos' + i - 1] \in Byte
    <3> DEFINE b == buffer'
               k == rPos'
               m == Remain'
    <3>1. b \in [Offsets -> Byte] /\ \A i \in 1..m : k + i - 1 \in Offsets
      BY <2>3, <2>5
    <3> HIDE DEF b, k, m
    <3>2. \A i \in 1..m : b[k + i - 1] \in Byte
      BY <3>1
    <3> QED
      BY <3>2 DEF b, k, m
  <2> QED
    BY <2>1, <2>2, <2>6
<1>7. \A i \in 1..(Remain + n) :
        Window'[i] = IF i <= Remain THEN Window[i] ELSE data[i - Remain]
  BY <1>3, <1>4, <1>5, <1>6
<1> HIDE DEF n
<1>8. ASSUME NEW now \in Seq(Byte), NEW before \in Seq(Byte), Len(before) = Remain,
             Len(now) = Remain + Len(data),
             \A i \in 1..(Remain + Len(data)) :
               now[i] = IF i <= Remain THEN before[i] ELSE data[i - Remain]
      PROVE  now = before \o data
  BY <1>1, <1>8, Appended
<1> QED
  BY <1>3, <1>5, <1>6, <1>7, <1>8 DEF n
-----------------------------------------------------------------------------
\* A sequence that agrees with a part of another one is that part.
LEMMA PartOf ==
  ASSUME NEW S, NEW s \in Seq(S), NEW u \in Seq(S),
         NEW m \in 1..(Len(s) + 1), NEW n \in (m - 1)..Len(s),
         Len(u) = n - m + 1,
         \A i \in 1..(n - m + 1) : u[i] = s[m + i - 1]
  PROVE  u = SubSeq(s, m, n)
<1> DEFINE v == SubSeq(s, m, n)
<1>1. \A i \in m..n : s[i] \in S
  OBVIOUS
<1>2. v \in Seq(S) /\ Len(v) = n - m + 1 /\ \A i \in 1..(n - m + 1) : v[i] = s[m + i - 1]
  BY <1>1, SubSeqProperties
<1> HIDE DEF v
<1>3. u = v
  BY <1>2, SeqEqual
<1> QED
  BY <1>3 DEF v

\* GetPacket finds a packet exactly when the FIFO holds a complete one.
LEMMA SameTest ==
  ASSUME TypeOK
  PROVE  /\ HasPacket <=> Fifo!Complete(Window)
         /\ HasPacket => PacketLength[Window[1]] = PacketLength[buffer[rPos]]
<1>1. Remain \in Nat /\ Len(Window) = Remain /\ (Remain >= 1 => Window[1] = buffer[rPos])
  <2>1. \A i \in 1..Remain : Window[i] = buffer[rPos + i - 1]
    BY WindowIsSeq
  <2>2. rPos + 1 - 1 = rPos
    BY DEF TypeOK
  <2> QED
    BY <2>1, <2>2, WindowIsSeq
<1>2. Remain >= HeaderLength => Remain >= 1
  BY <1>1, BufferAssumption
<1> QED
  BY <1>1, <1>2 DEF HasPacket, Fifo!Complete

\* GetPacket takes one packet from the front of the window.
LEMMA GetTakesFront ==
  ASSUME TypeOK, TypeOK', GetPacket, HasPacket
  PROVE  Fifo!GetOne
<1> DEFINE L == PacketLength[buffer[rPos]]
           rest == Window'
<1>1. L \in 0..Remain /\ Remain \in Nat /\ Len(Window) = Remain /\ Window \in Seq(Byte)
      /\ \A i \in 1..Remain : Window[i] = buffer[rPos + i - 1]
  BY TakenUnits, WindowIsSeq
<1>2. got' = [i \in 1..L |-> buffer[rPos + i - 1]] /\ got' \in Seq(Byte)
  BY TakenUnits DEF GetPacket
<1>3. rPos' = rPos + L /\ wPos' = wPos /\ buffer' = buffer
  BY DEF GetPacket
<1>4. Remain' = Remain - L
  BY <1>1, <1>3 DEF TypeOK, Remain
<1>5. rest = [i \in 1..(Remain - L) |-> buffer[rPos + L + i - 1]]
  BY <1>3, <1>4 DEF Window
<1>6. rest = SubSeq(Window, L + 1, Remain)
  <2>1. \A i \in 1..(Remain - L) : rest[i] = Window[(L + 1) + i - 1]
    <3>1. ASSUME NEW i \in 1..(Remain - L)
          PROVE  rest[i] = Window[(L + 1) + i - 1]
      <4> HIDE DEF L, rest
      <4>0. L \in Nat /\ Remain \in Nat /\ rPos \in Nat
        BY <1>1 DEF TypeOK
      <4>1. (L + 1) + i - 1 \in 1..Remain /\ rPos + ((L + 1) + i - 1) - 1 = rPos + L + i - 1
        BY <1>1, <4>0
      <4>2. rest[i] = buffer[rPos + L + i - 1]
        BY <1>5
      <4> QED
        BY <1>1, <4>1, <4>2
    <3> QED
      BY <3>1
  <2> HIDE DEF L
  <2>2. \A i \in 1..(Remain - L) : (L + 1) + i - 1 \in 1..Remain
    BY <1>1
  <2>3. \A i \in 1..(Remain - L) : Window[(L + 1) + i - 1] \in Byte
    BY <1>1, <2>2
  <2>4. Remain - L \in Nat
    BY <1>1
  <2>5. rest \in Seq(Byte) /\ Len(rest) = Remain - L
    <3>1. \A i \in 1..(Remain - L) : buffer[rPos + L + i - 1] \in Byte
      <4> HIDE DEF rest
      <4>1. \A i \in 1..(Remain - L) : rest[i] = buffer[rPos + L + i - 1]
        BY <1>5
      <4> QED
        BY <2>1, <2>3, <4>1
    <3> HIDE DEF rest
    <3> QED
      BY <1>5, <2>4, <3>1
  <2> HIDE DEF rest
  <2>6. L + 1 \in 1..(Len(Window) + 1) /\ Remain \in ((L + 1) - 1)..Len(Window)
        /\ Remain - (L + 1) + 1 = Remain - L
    BY <1>1
  <2> QED
    BY <1>1, <2>1, <2>5, <2>6, PartOf
<1>7. got' = SubSeq(Window, 1, L)
  <2> HIDE DEF L
  <2>1. \A i \in 1..L : got'[i] = Window[1 + i - 1]
    <3>1. ASSUME NEW i \in 1..L PROVE got'[i] = Window[1 + i - 1]
      <4>1. i \in 1..Remain /\ 1 + i - 1 = i
        BY <1>1
      <4> QED
        BY <1>1, <1>2, <4>1
    <3> QED
      BY <3>1
  <2>2. Len(got') = L /\ 1 \in 1..(Len(Window) + 1) /\ L \in (1 - 1)..Len(Window) /\ L - 1 + 1 = L
    BY <1>1, <1>2
  <2> DEFINE packet == got'
  <2>3. packet \in Seq(Byte) /\ Len(packet) = L /\ \A i \in 1..L : packet[i] = Window[1 + i - 1]
    BY <1>2, <2>1, <2>2
  <2> HIDE DEF packet
  <2>4. packet = SubSeq(Window, 1, L)
    BY <1>1, <2>2, <2>3, PartOf
  <2> QED
    BY <2>4 DEF packet
<1> QED
  BY <1>1, <1>6, <1>7, SameTest DEF Fifo!GetOne

\* Every behaviour of the user buffer is one of ByteFifo: SetPacketData and
\* GetPacket never lose, repeat or reorder a byte and never hand out part of a
\* packet, for all sizes (User.h:74-125).
THEOREM BufferIsFifo == Spec => ImplementsFifo
<1>1. Init => Fifo!Init
  <2> SUFFICES ASSUME Init PROVE Fifo!Init
    OBVIOUS
  <2>1. Remain = 0
    BY DEF Init, Remain
  <2>2. Window = <<>>
    BY <2>1 DEF Window
  <2> QED
    BY <2>2 DEF Init, Fifo!Init
<1>2. TypeOK /\ TypeOK' /\ [Next]_vars => [Fifo!Next]_<<Window, got>>
  <2> SUFFICES ASSUME TypeOK, TypeOK', [Next]_vars PROVE [Fifo!Next]_<<Window, got>>
    OBVIOUS
  <2>1. ASSUME NEW data \in Chunks, SetPacketData(data) PROVE Fifo!Next
    <3>1. Window' = Window \o data
      BY <2>1, PutAppends
    <3>2. got' = got
      BY <2>1 DEF SetPacketData
    <3> QED
      BY <3>1, <3>2 DEF Fifo!Next, Fifo!Put
  <2>2. CASE GetPacket /\ HasPacket
    BY <2>2, GetTakesFront DEF Fifo!Next
  <2>3. CASE GetPacket /\ ~HasPacket
    <3>1. got' = <<>> /\ UNCHANGED <<buffer, wPos, rPos>>
      BY <2>3 DEF GetPacket
    <3>2. Window' = Window
      BY <3>1 DEF Window, Remain
    <3> QED
      BY <2>3, <3>1, <3>2, SameTest DEF Fifo!Next, Fifo!GetNone
  <2>4. CASE UNCHANGED vars
    BY <2>4 DEF vars, Window, Remain
  <2> QED
    BY <2>1, <2>2, <2>3, <2>4 DEF Next
<1> QED
  BY <1>1, <1>2, WindowInBounds, PTL DEF Spec, ImplementsFifo, Fifo!Spec
=============================================================================
