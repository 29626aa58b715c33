------------------------- MODULE PacketManager_proofs -------------------------
(***************************************************************************)
(* The packet buffers that I/O workers fill and the process thread empties *)
(* without a lock, for any clients, streams, sizes and number of sessions: *)
(* as long as no window slides while the thread uses it, nothing that was  *)
(* received is lost or changed before its handler has read it.             *)
(***************************************************************************)
EXTENDS PacketManager, Integers, SequenceTheorems, FiniteSetTheorems, WellFoundedInduction, TLAPS

RxLabels == {"idle", "test", "slide", "rewind", "copy", "advance", "notify"}
PpcLabels == {"loop", "remain", "header", "take", "handle", "system", "exit"}
Cells == Units \cup {Junk}
Receives == [at : RxLabels, n : 0..MaxRecv]
Entries == [first : Nat, units : Seq(Cells), session : 0..MaxSession, to : SUBSET Clients]

\* What appending one element to a sequence gives.
LEMMA Appended ==
  ASSUME NEW S, NEW s \in Seq(S), NEW e \in S
  PROVE  /\ Append(s, e) \in Seq(S)
         /\ Len(Append(s, e)) = Len(s) + 1
         /\ Append(s, e)[Len(s) + 1] = e
         /\ \A i \in 1..Len(s) : Append(s, e)[i] = s[i]
OBVIOUS

\* The front of a queue that is not empty, and what it leaves.
LEMMA FrontOfQueue ==
  ASSUME NEW S, NEW q \in Seq(S), q # <<>>
  PROVE  Head(q) \in S /\ Tail(q) \in Seq(S)
OBVIOUS

\* A function on 1..n is a sequence of length n.
LEMMA FunctionIsSeq ==
  ASSUME NEW S, NEW n \in Nat, NEW f \in [1..n -> S]
  PROVE  f \in Seq(S) /\ Len(f) = n
OBVIOUS

\* The sizes are numbers, and the stream is made of packets.
LEMMA Sizes ==
  /\ BufferSize \in Nat /\ MaxRecv \in Nat /\ MaxBacklog \in Nat /\ WordSize \in Nat /\ MaxSession \in Nat
  /\ Len(Stream) \in Nat
  /\ \A k \in 1..Len(Stream) : Stream[k] \in [o : Nat, len : Nat \ {0}, id : Ids]
<1>1. Stream \in Seq([o : Nat, len : Nat \ {0}, id : Ids])
  BY PacketAssumption
<1>2. {BufferSize, MaxRecv, MaxBacklog, WordSize, MaxSession} \subseteq Nat
  BY PacketAssumption
<1>3. Len(Stream) \in Nat /\ \A k \in 1..Len(Stream) : Stream[k] \in [o : Nat, len : Nat \ {0}, id : Ids]
  <2> DEFINE S == [o : Nat, len : Nat \ {0}, id : Ids]
  <2>1. Stream \in Seq(S)
    BY <1>1
  <2> HIDE DEF S
  <2>2. Len(Stream) \in Nat /\ \A k \in 1..Len(Stream) : Stream[k] \in S
    BY <2>1
  <2> QED
    BY <2>2 DEF S
<1> QED
  BY <1>2, <1>3

\* The difference of two positions, as UINT32, is a UINT32 ...
LEMMA MinusType ==
  ASSUME NEW a \in Nat, NEW b \in Nat
  PROVE  Minus(a, b) \in 0..(WordSize - 1)
<1>1. WordSize \in Nat /\ WordSize > 0
  BY PacketAssumption
<1> DEFINE x == a + WordSize - b
<1>2. x \in Int
  BY <1>1
<1> HIDE DEF x
<1>3. x % WordSize \in 0..(WordSize - 1)
  BY <1>1, <1>2
<1> QED
  BY <1>3 DEF Minus, x

\* ... and the true one when the window is not inverted.
LEMMA MinusIs ==
  ASSUME NEW a \in 0..BufferSize, NEW b \in 0..a
  PROVE  Minus(a, b) = a - b
<1>1. a - b \in 0..(WordSize - 1) /\ WordSize \in Nat
  BY PacketAssumption
<1>2. a + WordSize - b = (a - b) + WordSize
  BY <1>1
<1>3. ((a - b) + WordSize) % WordSize = a - b
  BY <1>1
<1> QED
  BY <1>2, <1>3 DEF Minus

\* A record with one field overwritten, in a function of such records.
LEMMA RxGoes ==
  ASSUME rx \in [Clients -> Receives], NEW c \in Clients, NEW label \in RxLabels, RxGo(c, label)
  PROVE  /\ rx' \in [Clients -> Receives]
         /\ rx'[c].at = label /\ rx'[c].n = rx[c].n
         /\ \A d \in Clients \ {c} : rx'[d] = rx[d]
<1>1. rx' = [rx EXCEPT ![c] = [rx[c] EXCEPT !.at = label]]
  BY DEF RxGo
<1>2. rx[c] \in Receives
  OBVIOUS
<1>3. [rx[c] EXCEPT !.at = label] \in Receives
  BY <1>2 DEF Receives
<1>4. [rx[c] EXCEPT !.at = label].at = label /\ [rx[c] EXCEPT !.at = label].n = rx[c].n
  BY <1>2 DEF Receives
<1> QED
  BY <1>1, <1>3, <1>4
----------------------------------------------------------------------------
(* Types, and what they rest on: domain is never set, units are received only *)
(* in a session and within the stream, and what is about to become part of    *)
(* the window has been written inside the buffer.                             *)

Active == {"test", "slide", "rewind", "copy", "advance"}
InSession(c) ==
  /\ slot[c] = "free" => rx[c].at = "idle"
  /\ slot[c] # "free" => session[c] >= 1
  /\ rx[c].at \in Active => sent[c] + rx[c].n <= Len(Stream)
  /\ rx[c].at = "advance" => wPos[c] + rx[c].n <= BufferSize
Typed ==
  /\ TypeOK
  /\ \A c \in Clients : domain[c] = "NONE" /\ InSession(c)
  /\ ppc = "handle" => pkt.len <= taken[pkt.c]
  /\ handled \in [Clients -> Seq(Entries)]

\* Everything starts empty.
LEMMA InitTyped == Init => Typed
<1> SUFFICES ASSUME Init
             PROVE  Typed
  OBVIOUS
<1>1. /\ buffer \in [Clients -> [Offsets -> Units \cup {Junk}]]
      /\ wPos \in [Clients -> 0..BufferSize] /\ rPos \in [Clients -> Nat]
      /\ domain \in [Clients -> {"NONE", "LOGIN", "ROOM"}]
  BY PacketAssumption DEF Init
<1>2. /\ inq \in Seq(Clients)
      /\ sysq \in Seq([c : Clients, id : {"PACKET_CHATNAME_REQ", "SYS_USER_DISCONNECT"}])
      /\ ppc = "loop" /\ {running, alive} \subseteq BOOLEAN
  BY DEF Init
<1>3. rx \in [Clients -> Receives] /\ \A c \in Clients : rx[c].at = "idle" /\ rx[c].n = 0
  BY PacketAssumption DEF Init, NoRecv, Receives, RxLabels
<1>4. pkt \in Locals
  BY PacketAssumption DEF Init, NoPacket, Locals
<1>5. /\ slot \in [Clients -> {"free", "live", "over"}] /\ session \in [Clients -> 0..MaxSession]
      /\ greeted \in [Clients -> BOOLEAN] /\ sent \in [Clients -> 0..Len(Stream)]
      /\ fed \in [Clients -> Seq(Units)] /\ taken \in [Clients -> Nat]
      /\ handled \in [Clients -> Seq(Entries)]
  BY PacketAssumption DEF Init
<1>6. raced \in [Clients -> BOOLEAN]
  BY DEF Init
<1>7. \A c \in Clients : domain[c] = "NONE" /\ slot[c] = "free"
  BY DEF Init
<1>8. TypeOK
  BY <1>1, <1>2, <1>3, <1>4, <1>5, <1>6 DEF TypeOK, Receives, RxLabels
<1> QED
  BY <1>2, <1>3, <1>5, <1>7, <1>8 DEF Typed, InSession, Active

(* The same, by group of variables.                                           *)
UserTypes ==
  /\ buffer \in [Clients -> [Offsets -> Cells]]
  /\ wPos \in [Clients -> 0..BufferSize] /\ rPos \in [Clients -> Nat]
  /\ domain \in [Clients -> {"NONE", "LOGIN", "ROOM"}] /\ \A c \in Clients : domain[c] = "NONE"
QueueTypes ==
  /\ inq \in Seq(Clients)
  /\ sysq \in Seq([c : Clients, id : {"PACKET_CHATNAME_REQ", "SYS_USER_DISCONNECT"}])
ThreadTypes ==
  /\ ppc \in PpcLabels /\ pkt \in Locals
  /\ ppc \in {"remain", "header", "take", "handle"} => pkt.c \in Clients
SessionTypes ==
  /\ slot \in [Clients -> {"free", "live", "over"}]
  /\ session \in [Clients -> 0..MaxSession] /\ greeted \in [Clients -> BOOLEAN]
RecvTypes ==
  rx \in [Clients -> Receives] /\ sent \in [Clients -> 0..Len(Stream)] /\ fed \in [Clients -> Seq(Units)]
TakenTypes ==
  /\ taken \in [Clients -> Nat] /\ handled \in [Clients -> Seq(Entries)]
  /\ ppc = "handle" => pkt.len <= taken[pkt.c]
Parts ==
  /\ UserTypes /\ QueueTypes /\ ThreadTypes /\ SessionTypes /\ RecvTypes /\ TakenTypes
  /\ \A c \in Clients : InSession(c)
  /\ running \in BOOLEAN /\ alive \in BOOLEAN

\* The groups together are the invariant.
LEMMA TypedParts == Typed <=> Parts /\ raced \in [Clients -> BOOLEAN]
BY DEF Typed, TypeOK, Parts, UserTypes, QueueTypes, ThreadTypes, SessionTypes, RecvTypes,
   TakenTypes, Cells, Receives, RxLabels, PpcLabels

\* A session begins, is greeted and ends, with nothing received in between.
LEMMA SessionKeepsParts ==
  ASSUME Parts, NEW c \in Clients, Accept(c) \/ OnConnect(c) \/ OnClose(c)
  PROVE  Parts'
<1>1. CASE Accept(c)
  <2>1. slot[c] = "free" \/ rx[c] = NoRecv
    BY <1>1 DEF Accept
  <2>2. rx[c].at = "idle"
    BY <2>1 DEF Parts, InSession, NoRecv
  <2>3. session[c] + 1 \in 0..MaxSession
    BY <1>1, PacketAssumption DEF Accept, Parts, SessionTypes
  <2>4. /\ slot' = [slot EXCEPT ![c] = "live"] /\ session' = [session EXCEPT ![c] = session[c] + 1]
        /\ greeted' = [greeted EXCEPT ![c] = FALSE] /\ sent' = [sent EXCEPT ![c] = 0]
        /\ UNCHANGED <<userVars, queueVars, threadVars, running, rx, fed, takenVars, alive>>
    BY <1>1 DEF Accept
  <2>5. SessionTypes'
    BY <2>3, <2>4 DEF Parts, SessionTypes
  <2>6. RecvTypes'
    BY <2>4 DEF Parts, RecvTypes
  <2>7. UserTypes' /\ QueueTypes' /\ ThreadTypes' /\ TakenTypes' /\ running' \in BOOLEAN /\ alive' \in BOOLEAN
    BY <2>4 DEF Parts, UserTypes, QueueTypes, ThreadTypes, TakenTypes, userVars, queueVars,
       threadVars, takenVars
  <2>8. \A d \in Clients : InSession(d)'
    BY <2>2, <2>3, <2>4 DEF Parts, InSession, SessionTypes, RecvTypes, userVars, Active
  <2> QED
    BY <2>5, <2>6, <2>7, <2>8 DEF Parts
<1>2. CASE OnConnect(c) \/ OnClose(c)
  <2>1. QueueTypes'
    <3>1. PICK e \in [c : Clients, id : {"PACKET_CHATNAME_REQ", "SYS_USER_DISCONNECT"}] :
            sysq' = Append(sysq, e)
      BY <1>2 DEF OnConnect, OnClose
    <3>2. inq' = inq
      BY <1>2 DEF OnConnect, OnClose
    <3> QED
      BY <3>1, <3>2, Appended DEF Parts, QueueTypes
  <2>2. SessionTypes'
    BY <1>2 DEF OnConnect, OnClose, Parts, SessionTypes
  <2>3. UNCHANGED <<userVars, threadVars, running, session, recvVars, takenVars, alive>>
    BY <1>2 DEF OnConnect, OnClose
  <2>4. UserTypes' /\ ThreadTypes' /\ RecvTypes' /\ TakenTypes' /\ running' \in BOOLEAN /\ alive' \in BOOLEAN
    BY <2>3 DEF Parts, UserTypes, ThreadTypes, RecvTypes, TakenTypes, userVars, threadVars,
       recvVars, takenVars
  <2>5. slot' = slot \/ (slot[c] = "live" /\ slot' = [slot EXCEPT ![c] = "over"])
    BY <1>2 DEF OnConnect, OnClose
  <2>6. \A d \in Clients : InSession(d)'
    BY <2>3, <2>5 DEF Parts, InSession, SessionTypes, recvVars, userVars
  <2> QED
    BY <2>1, <2>2, <2>4, <2>6 DEF Parts
<1> QED
  BY <1>1, <1>2

\* What a step of OnReceive for c that leaves the queues alone leaves alone.
RecvElsewhere == UNCHANGED <<domain, sysq, threadVars, running, sessionVars, takenVars>>

\* ... and so keeps typed.
LEMMA RecvElsewhereKeeps ==
  ASSUME Parts, RecvElsewhere
  PROVE  /\ ThreadTypes' /\ SessionTypes' /\ TakenTypes' /\ running' \in BOOLEAN
         /\ domain' \in [Clients -> {"NONE", "LOGIN", "ROOM"}] /\ \A c \in Clients : domain'[c] = "NONE"
BY DEF RecvElsewhere, Parts, UserTypes, ThreadTypes, SessionTypes, TakenTypes, threadVars,
   sessionVars, takenVars

\* A worker receives units and tests whether the window must slide.
LEMMA ReceiveKeepsParts ==
  ASSUME Parts, NEW c \in Clients, NEW n \in 1..MaxRecv, OnReceive(c, n)
  PROVE  Parts'
<1>1. /\ rx' = [rx EXCEPT ![c] = [at |-> "test", n |-> n]] /\ slot[c] # "free"
      /\ sent[c] + n <= Len(Stream)
      /\ UNCHANGED <<userVars, queueVars, threadVars, running, sessionVars, sent, fed, takenVars, alive>>
  BY DEF OnReceive
<1>2. [at |-> "test", n |-> n] \in Receives
  BY PacketAssumption DEF Receives, RxLabels
<1>3. RecvTypes'
  BY <1>1, <1>2 DEF Parts, RecvTypes
<1>4. UserTypes' /\ QueueTypes' /\ alive' \in BOOLEAN
  BY <1>1 DEF Parts, UserTypes, QueueTypes, userVars, queueVars
<1>5. RecvElsewhere
  BY <1>1 DEF RecvElsewhere, userVars, queueVars
<1>6. \A d \in Clients : InSession(d)'
  <2> SUFFICES ASSUME NEW d \in Clients PROVE InSession(d)'
    OBVIOUS
  <2>1. InSession(d)
    BY DEF Parts
  <2>2. d # c => rx'[d] = rx[d]
    BY <1>1 DEF Parts, RecvTypes
  <2>3. rx'[c].at = "test" /\ rx'[c].n = n
    BY <1>1 DEF Parts, RecvTypes
  <2> QED
    BY <1>1, <2>1, <2>2, <2>3 DEF InSession, sessionVars, userVars
<1> QED
  BY <1>3, <1>4, <1>5, <1>6, RecvElsewhereKeeps DEF Parts

\* SetPacketData up to the copy: what it writes lies inside the buffer.
LEMMA SlideKeepsParts ==
  ASSUME Parts, alive, NEW c \in Clients, SlideTest(c) \/ Slide(c) \/ Rewind(c)
  PROVE  Parts'
<1>1. RecvElsewhere
  BY DEF SlideTest, Slide, Rewind, RecvElsewhere, userVars, queueVars
<1>2. QueueTypes' /\ alive' \in BOOLEAN /\ UNCHANGED <<sent, fed, slot, session>>
  BY DEF Parts, QueueTypes, SlideTest, Slide, Rewind, queueVars, sessionVars
<1>3. rx' = rx \/ \E l \in {"slide", "copy", "rewind"} : RxGo(c, l) /\ rx[c].at \in Active
  BY DEF SlideTest, Slide, Rewind, Active
<1>4. /\ RecvTypes'
      /\ rx' = rx \/ (rx'[c].at \in {"slide", "copy", "rewind"} /\ rx'[c].n = rx[c].n /\ rx[c].at \in Active)
      /\ \A d \in Clients \ {c} : rx'[d] = rx[d]
  <2>1. CASE rx' = rx
    BY <1>2, <2>1 DEF Parts, RecvTypes
  <2>2. CASE rx' # rx
    <3>1. PICK l \in {"slide", "copy", "rewind"} : RxGo(c, l) /\ rx[c].at \in Active
      BY <1>3, <2>2
    <3>2. l \in RxLabels
      BY DEF RxLabels
    <3> QED
      BY <1>2, <3>1, <3>2, RxGoes DEF Parts, RecvTypes
  <2> QED
    BY <2>1, <2>2
<1>5. UserTypes' /\ \A d \in Clients \ {c} : wPos'[d] = wPos[d]
  <2>1. CASE SlideTest(c)
    BY <2>1 DEF SlideTest, Parts, UserTypes, userVars
  <2>2. CASE Rewind(c)
    BY <2>2 DEF Rewind, Parts, UserTypes
  <2>3. CASE Slide(c) /\ UNCHANGED <<buffer, wPos>>
    BY <2>3 DEF Slide, Parts, UserTypes
  <2>4. CASE Slide(c) /\ ~UNCHANGED <<buffer, wPos>>
    <3> DEFINE rest == Minus(wPos[c], rPos[c])
               b == [i \in Offsets |-> IF i < rest THEN buffer[c][rPos[c] + i] ELSE buffer[c][i]]
    <3>2. rest \in Nat
      <4>1. wPos[c] \in Nat /\ rPos[c] \in Nat
        BY PacketAssumption DEF Parts, UserTypes
      <4>2. WordSize \in Nat
        BY PacketAssumption
      <4>3. Minus(wPos[c], rPos[c]) \in 0..(WordSize - 1)
        BY <4>1, MinusType
      <4> HIDE DEF rest
      <4>4. rest \in 0..(WordSize - 1)
        BY <4>3 DEF rest
      <4> QED
        BY <4>2, <4>4
    <3>1. /\ rPos[c] + rest <= BufferSize /\ UNCHANGED <<rPos, domain>>
          /\ buffer' = [buffer EXCEPT ![c] = b] /\ wPos' = [wPos EXCEPT ![c] = rest]
      <4>1. ~(rPos[c] + rest > BufferSize)
        BY <2>4 DEF Slide
      <4>2. rPos[c] + rest <= BufferSize
        BY <3>2, <4>1, PacketAssumption DEF Parts, UserTypes
      <4>3. UNCHANGED <<rPos, domain>> /\ wPos' = [wPos EXCEPT ![c] = rest]
        BY <2>4, <4>1 DEF Slide
      <4>4. buffer' = [buffer EXCEPT ![c] = b]
        BY <2>4, <4>1 DEF Slide
      <4> QED
        BY <4>2, <4>3, <4>4
    <3> HIDE DEF rest
    <3>3. rest \in 0..BufferSize /\ \A i \in Offsets : i < rest => rPos[c] + i \in Offsets
      <4> DEFINE p == rPos[c]
      <4>1. p \in Nat /\ BufferSize \in Nat
        BY PacketAssumption DEF Parts, UserTypes
      <4>2. p + rest <= BufferSize
        BY <3>1
      <4> HIDE DEF p
      <4>3. rest \in 0..BufferSize /\ \A i \in Offsets : i < rest => p + i \in Offsets
        BY ONLY <3>2, <4>1, <4>2 DEF Offsets
      <4> QED
        BY <4>3 DEF p
    <3>4. b \in [Offsets -> Cells]
      BY <3>3 DEF Parts, UserTypes
    <3> HIDE DEF b
    <3> QED
      BY <3>1, <3>3, <3>4 DEF Parts, UserTypes
  <2> QED
    BY <2>1, <2>2, <2>3, <2>4
<1>6. rx' = rx => UNCHANGED wPos \/ rx[c].at = "slide"
  BY DEF SlideTest, Slide, Rewind, userVars
<1>7. \A d \in Clients : InSession(d)'
  <2> SUFFICES ASSUME NEW d \in Clients PROVE InSession(d)'
    OBVIOUS
  <2>1. InSession(d)
    BY DEF Parts
  <2>2. CASE d # c
    BY <1>2, <1>4, <1>5, <2>1, <2>2 DEF InSession
  <2>3. CASE d = c
    BY <1>2, <1>4, <1>6, <2>1, <2>3 DEF InSession, Active
  <2> QED
    BY <2>2, <2>3
<1> QED
  BY <1>1, <1>2, <1>4, <1>5, <1>7, RecvElsewhereKeeps DEF Parts

\* The received units are copied in, inside the buffer or not at all.
LEMMA CopyKeepsParts ==
  ASSUME Parts, NEW c \in Clients, CopyIn(c)
  PROVE  Parts'
<1>1. RecvElsewhere /\ UNCHANGED <<wPos, rPos, domain, sent, fed, slot, session>>
  BY DEF CopyIn, RecvElsewhere, queueVars, sessionVars
<1>2. QueueTypes' /\ alive' \in BOOLEAN
  BY DEF Parts, QueueTypes, CopyIn, queueVars
<1>3. wPos[c] \in 0..BufferSize /\ rx[c].n \in Nat /\ rx[c].at = "copy" /\ BufferSize \in Nat
  BY PacketAssumption DEF Parts, UserTypes, RecvTypes, Receives, CopyIn
<1>4. CASE wPos[c] + rx[c].n > BufferSize
  <2>1. UNCHANGED <<buffer, rx>>
    BY <1>4 DEF CopyIn
  <2> QED
    BY <1>1, <1>2, <2>1, RecvElsewhereKeeps DEF Parts, UserTypes, RecvTypes, InSession
<1>5. CASE ~(wPos[c] + rx[c].n > BufferSize)
  <2> DEFINE b == [i \in Offsets |->
                     IF i >= wPos[c] /\ i < wPos[c] + rx[c].n
                     THEN [s |-> session[c], k |-> sent[c] + (i - wPos[c]) + 1]
                     ELSE buffer[c][i]]
  <2>1. buffer' = [buffer EXCEPT ![c] = b] /\ RxGo(c, "advance")
    BY <1>5 DEF CopyIn
  <2>2. session[c] \in 1..MaxSession /\ sent[c] \in Nat /\ sent[c] + rx[c].n <= Len(Stream)
    BY <1>3, PacketAssumption DEF Parts, InSession, SessionTypes, RecvTypes, Active
  <2>3. \A i \in Offsets : i >= wPos[c] /\ i < wPos[c] + rx[c].n
          => sent[c] + (i - wPos[c]) + 1 \in 1..Len(Stream)
    <3> SUFFICES ASSUME NEW i \in Offsets, i >= wPos[c], i < wPos[c] + rx[c].n
                 PROVE  sent[c] + (i - wPos[c]) + 1 \in 1..Len(Stream)
      OBVIOUS
    <3>1. i \in Nat /\ wPos[c] \in Nat /\ Len(Stream) \in Nat
      BY <1>3, Sizes DEF Offsets
    <3>2. i - wPos[c] \in Nat /\ i - wPos[c] < rx[c].n
      BY <1>3, <3>1
    <3> QED
      BY <1>3, <2>2, <3>1, <3>2
  <2>4. b \in [Offsets -> Cells]
    BY <2>2, <2>3 DEF Cells, Units, Parts, UserTypes
  <2> HIDE DEF b
  <2>5. UserTypes'
    BY <1>1, <2>1, <2>4 DEF Parts, UserTypes
  <2>6. /\ RecvTypes' /\ rx'[c].at = "advance" /\ rx'[c].n = rx[c].n
        /\ \A d \in Clients \ {c} : rx'[d] = rx[d]
    <3>1. "advance" \in RxLabels
      BY DEF RxLabels
    <3> QED
      BY <1>1, <2>1, <3>1, RxGoes DEF Parts, RecvTypes
  <2>7. wPos[c] + rx[c].n <= BufferSize
    BY <1>3, <1>5
  <2>8. \A d \in Clients : InSession(d)'
    <3> SUFFICES ASSUME NEW d \in Clients PROVE InSession(d)'
      OBVIOUS
    <3>1. InSession(d)
      BY DEF Parts
    <3>2. CASE d # c
      BY <1>1, <2>6, <3>1, <3>2 DEF InSession
    <3>3. CASE d = c
      BY <1>1, <1>3, <2>6, <2>7, <3>1, <3>3 DEF InSession, Active
    <3> QED
      BY <3>2, <3>3
  <2> QED
    BY <1>1, <1>2, <2>5, <2>6, <2>8, RecvElsewhereKeeps DEF Parts
<1> QED
  BY <1>4, <1>5

\* What OnReceive adds to fed: units of the session, in their order.
LEMMA ReceivedUnits ==
  ASSUME Parts, NEW c \in Clients, rx[c].at \in Active
  PROVE  /\ Received(c) \in Seq(Units) /\ Len(Received(c)) = rx[c].n
         /\ \A i \in 1..rx[c].n : Received(c)[i] = [s |-> session[c], k |-> sent[c] + i]
<1>1. /\ rx[c].n \in Nat /\ sent[c] \in Nat /\ sent[c] + rx[c].n <= Len(Stream)
      /\ session[c] \in 1..MaxSession
  BY Sizes DEF Parts, RecvTypes, Receives, InSession, SessionTypes, Active
<1>2. \A i \in 1..rx[c].n : [s |-> session[c], k |-> sent[c] + i] \in Units
  <2> SUFFICES ASSUME NEW i \in 1..rx[c].n PROVE sent[c] + i \in 1..Len(Stream)
    BY <1>1 DEF Units
  <2> QED
    BY <1>1, Sizes
<1>3. Received(c) \in [1..rx[c].n -> Units]
  BY <1>2 DEF Received
<1>4. Received(c) \in Seq(Units) /\ Len(Received(c)) = rx[c].n
  BY <1>1, <1>3, FunctionIsSeq
<1> QED
  BY <1>4 DEF Received

\* The window grows over what was copied in.
LEMMA AdvanceKeepsParts ==
  ASSUME Parts, NEW c \in Clients, Advance(c)
  PROVE  Parts'
<1>1. /\ RecvElsewhere /\ UNCHANGED <<buffer, rPos, domain, inq, slot, session, alive>>
      /\ rx[c].at = "advance" /\ RxGo(c, "notify")
      /\ wPos' = [wPos EXCEPT ![c] = wPos[c] + rx[c].n]
      /\ fed' = [fed EXCEPT ![c] = fed[c] \o Received(c)]
      /\ sent' = [sent EXCEPT ![c] = sent[c] + rx[c].n]
  BY DEF Advance, RecvElsewhere, queueVars, sessionVars
<1>2. wPos[c] + rx[c].n \in 0..BufferSize /\ sent[c] + rx[c].n \in 0..Len(Stream)
  <2>1. InSession(c) /\ wPos[c] \in Nat /\ sent[c] \in Nat /\ rx[c].n \in Nat
    BY PacketAssumption DEF Parts, UserTypes, RecvTypes, Receives
  <2> QED
    BY <1>1, <2>1, Sizes DEF InSession, Active
<1>3. fed[c] \o Received(c) \in Seq(Units)
  <2>1. Received(c) \in Seq(Units) /\ fed[c] \in Seq(Units)
    BY <1>1, ReceivedUnits DEF Parts, RecvTypes, Active
  <2> QED
    BY <2>1
<1>4. UserTypes'
  BY <1>1, <1>2 DEF Parts, UserTypes
<1>5. /\ RecvTypes' /\ rx'[c].at = "notify"
      /\ \A d \in Clients \ {c} : rx'[d] = rx[d]
  <2>1. "notify" \in RxLabels
    BY DEF RxLabels
  <2> QED
    BY <1>1, <1>2, <1>3, <2>1, RxGoes DEF Parts, RecvTypes
<1>6. \A d \in Clients : InSession(d)'
  BY <1>1, <1>5 DEF Parts, InSession, Active, UserTypes, RecvTypes
<1> QED
  BY <1>1, <1>4, <1>5, <1>6, RecvElsewhereKeeps DEF Parts, QueueTypes, RecvElsewhere

\* The client's index is entered in the queue.
LEMMA EnqueueKeepsParts ==
  ASSUME Parts, NEW c \in Clients, EnqueuePacketData(c)
  PROVE  Parts'
<1>1. /\ RecvElsewhere /\ UNCHANGED <<userVars, sysq, slot, session, sent, fed, alive>>
      /\ rx' = [rx EXCEPT ![c] = NoRecv] /\ inq' = Append(inq, c) /\ rx[c].at = "notify"
  BY DEF EnqueuePacketData, RecvElsewhere, userVars, sessionVars
<1>2. NoRecv \in Receives /\ NoRecv.at = "idle"
  BY PacketAssumption DEF NoRecv, Receives, RxLabels
<1>3. RecvTypes' /\ \A d \in Clients : rx'[d] = IF d = c THEN NoRecv ELSE rx[d]
  BY <1>1, <1>2 DEF Parts, RecvTypes
<1>4. QueueTypes'
  BY <1>1, Appended DEF Parts, QueueTypes
<1>5. UserTypes'
  BY <1>1 DEF Parts, UserTypes, userVars
<1>6. \A d \in Clients : InSession(d)'
  BY <1>1, <1>2, <1>3 DEF Parts, InSession, userVars, Active
<1> QED
  BY <1>1, <1>3, <1>4, <1>5, <1>6, RecvElsewhereKeeps DEF Parts
----------------------------------------------------------------------------
\* What a step of the process thread that moves no position leaves alone.
ThreadElsewhere == UNCHANGED <<buffer, wPos, domain, running, sessionVars, recvVars, alive>>

\* ... and so keeps typed.
LEMMA ThreadElsewhereKeeps ==
  ASSUME Parts, ThreadElsewhere
  PROVE  /\ SessionTypes' /\ RecvTypes' /\ running' \in BOOLEAN /\ alive' \in BOOLEAN
         /\ \A c \in Clients : InSession(c)'
         /\ rPos' \in [Clients -> Nat] => UserTypes'
<1>1. SessionTypes' /\ RecvTypes' /\ running' \in BOOLEAN /\ alive' \in BOOLEAN
  BY DEF ThreadElsewhere, Parts, SessionTypes, RecvTypes, sessionVars, recvVars
<1>2. \A c \in Clients : InSession(c)'
  BY DEF ThreadElsewhere, Parts, InSession, sessionVars, recvVars
<1>3. rPos' \in [Clients -> Nat] => UserTypes'
  BY DEF ThreadElsewhere, Parts, UserTypes
<1> QED
  BY <1>1, <1>2, <1>3

\* What the thread's locals hold between two turns.
LEMMA NoPacketType == NoPacket \in Locals
BY PacketAssumption DEF NoPacket, Locals

\* DequePacketData takes a client of the queue.
LEMMA DequeueKeepsParts ==
  ASSUME Parts, DequeueUser
  PROVE  Parts'
<1>1. ThreadElsewhere /\ UNCHANGED <<rPos, sysq, taken, handled>>
  BY DEF DequeueUser, ThreadElsewhere, userVars, takenVars
<1>2. CASE UNCHANGED <<inq, pkt>> /\ ppc' \in {"exit", "system"}
  <2>1. QueueTypes' /\ ThreadTypes' /\ TakenTypes'
    BY <1>1, <1>2 DEF Parts, QueueTypes, ThreadTypes, TakenTypes, PpcLabels
  <2> QED
    BY <1>1, <2>1, ThreadElsewhereKeeps DEF Parts, UserTypes
<1>3. CASE /\ inq # <<>> /\ inq' = Tail(inq) /\ pkt' = [NoPacket EXCEPT !.c = Head(inq)]
           /\ ppc' = "remain"
  <2>1. Head(inq) \in Clients /\ Tail(inq) \in Seq(Clients)
    BY <1>3 DEF Parts, QueueTypes
  <2>2. pkt' \in Locals /\ pkt'.c \in Clients
    BY <1>3, <2>1, NoPacketType DEF Locals, NoPacket
  <2>3. QueueTypes' /\ ThreadTypes' /\ TakenTypes'
    BY <1>1, <1>3, <2>1, <2>2 DEF Parts, QueueTypes, ThreadTypes, TakenTypes, PpcLabels
  <2> QED
    BY <1>1, <2>3, ThreadElsewhereKeeps DEF Parts, UserTypes
<1> QED
  BY <1>2, <1>3 DEF DequeueUser, ThreadGo

\* GetPacket: how much there is, and what the header says.
LEMMA GetKeepsParts ==
  ASSUME Parts, GetRemain \/ GetHeader
  PROVE  Parts'
<1>1. ThreadElsewhere /\ UNCHANGED <<rPos, inq, sysq, taken, handled>>
  BY DEF GetRemain, GetHeader, ThreadElsewhere, userVars, takenVars, queueVars
<1>2. pkt' \in Locals /\ (ppc' \in {"remain", "header", "take", "handle"} => pkt'.c \in Clients)
      /\ ppc' \in {"header", "take", "system"}
  <2>1. pkt.c \in Clients /\ pkt \in Locals
    BY DEF GetRemain, GetHeader, Parts, ThreadTypes
  <2>2. wPos[pkt.c] \in Nat /\ rPos[pkt.c] \in Nat
    BY <2>1, PacketAssumption DEF Parts, UserTypes
  <2>3. CASE GetRemain
    <3>1. Minus(wPos[pkt.c], rPos[pkt.c]) \in 0..(WordSize - 1)
      BY <2>2, MinusType
    <3> QED
      BY <2>1, <2>3, <3>1 DEF GetRemain, ThreadGo, Locals
  <2>4. CASE GetHeader /\ pkt' = NoPacket /\ ppc' = "system"
    BY <2>4, NoPacketType
  <2>5. CASE GetHeader /\ ~(pkt' = NoPacket /\ ppc' = "system")
    <3>1. PICK h \in HeaderAt(pkt.c, rPos[pkt.c]) :
            /\ pkt' = [pkt EXCEPT !.at = rPos[pkt.c], !.len = h.len, !.id = h.id]
            /\ ppc' = "take"
      BY <2>5 DEF GetHeader, ThreadGo
    <3>2. h.len \in Nat /\ h.id \in Ids
      <4> DEFINE u == IF rPos[pkt.c] \in Offsets THEN buffer[pkt.c][rPos[pkt.c]] ELSE Junk
      <4>1. u \in Cells
        BY <2>1 DEF Parts, UserTypes, Cells
      <4>2. u # Junk => u.k \in 1..Len(Stream)
        BY <4>1 DEF Cells, Units
      <4>3. u # Junk => Stream[u.k].len \in Nat /\ Stream[u.k].id \in Ids
        BY <4>2, Sizes
      <4>4. MaxBacklog \in Nat
        BY Sizes
      <4>5. h \in IF u # Junk /\ FirstOf(Stream[u.k])
                  THEN {[len |-> Stream[u.k].len, id |-> Stream[u.k].id]}
                  ELSE [len : 0..MaxBacklog, id : {"CHAT_SEND_REQUEST", "OTHER"}]
        BY DEF HeaderAt
      <4> HIDE DEF u
      <4> QED
        BY <4>3, <4>4, <4>5 DEF Ids
    <3> QED
      BY <2>1, <2>2, <3>1, <3>2 DEF Locals
  <2> QED
    BY <2>3, <2>4, <2>5
<1>3. QueueTypes' /\ ThreadTypes' /\ TakenTypes'
  BY <1>1, <1>2 DEF Parts, QueueTypes, ThreadTypes, TakenTypes, PpcLabels
<1> QED
  BY <1>1, <1>3, ThreadElsewhereKeeps DEF Parts, UserTypes

\* GetPacket moves the window on.
LEMMA TakeKeepsParts ==
  ASSUME Parts, TakePacket
  PROVE  Parts'
<1>1. pkt.c \in Clients /\ pkt \in Locals /\ pkt.len \in Nat
  BY DEF TakePacket, Parts, ThreadTypes, Locals
<1>2. /\ ThreadElsewhere /\ UNCHANGED <<inq, sysq, handled>>
      /\ rPos' = [rPos EXCEPT ![pkt.c] = rPos[pkt.c] + pkt.len]
      /\ taken' = [taken EXCEPT ![pkt.c] = taken[pkt.c] + pkt.len]
      /\ \/ pkt' = NoPacket /\ ppc' = "system"
         \/ pkt' = pkt /\ ppc' = "handle"
  BY DEF TakePacket, ThreadElsewhere, ThreadGo, queueVars
<1>3. rPos' \in [Clients -> Nat] /\ taken' \in [Clients -> Nat]
  BY <1>1, <1>2 DEF Parts, UserTypes, TakenTypes
<1>4. ppc' = "handle" => pkt'.len <= taken'[pkt'.c]
  BY <1>1, <1>2 DEF Parts, TakenTypes
<1>5. ThreadTypes'
  BY <1>1, <1>2, NoPacketType DEF ThreadTypes, PpcLabels
<1> QED
  BY <1>2, <1>3, <1>4, <1>5, ThreadElsewhereKeeps DEF Parts, QueueTypes, TakenTypes

\* What the handler reads, whatever lies where it reads, is units or junk.
Read(c) == [i \in 1..pkt.len |-> IF pkt.at + i - 1 \in Offsets THEN buffer[c][pkt.at + i - 1] ELSE Junk]
Entry(c) == [first |-> taken[c] - pkt.len, units |-> Read(c), session |-> session[c],
             to |-> Answered(c, pkt.id)]

\* An entry of handled has the type of one.
LEMMA EntryType ==
  ASSUME Parts, ppc = "handle"
  PROVE  /\ Entry(pkt.c) \in Entries /\ pkt.c \in Clients
         /\ Read(pkt.c) \in Seq(Cells) /\ Len(Read(pkt.c)) = pkt.len
<1>1. pkt.c \in Clients /\ pkt.len \in Nat /\ pkt.at \in Nat /\ pkt.len <= taken[pkt.c]
  BY DEF Parts, ThreadTypes, TakenTypes, Locals
<1>2. Read(pkt.c) \in [1..pkt.len -> Cells]
  BY <1>1 DEF Read, Parts, UserTypes, Cells
<1>3. Read(pkt.c) \in Seq(Cells) /\ Len(Read(pkt.c)) = pkt.len
  BY <1>1, <1>2, FunctionIsSeq
<1>4. taken[pkt.c] - pkt.len \in Nat
  BY <1>1 DEF Parts, TakenTypes
<1>5. Answered(pkt.c, pkt.id) \in SUBSET Clients
  BY <1>1 DEF Answered
<1>6. session[pkt.c] \in 0..MaxSession
  BY <1>1 DEF Parts, SessionTypes
<1> QED
  BY <1>1, <1>3, <1>4, <1>5, <1>6 DEF Entry, Entries

\* A handler reads its packet.
LEMMA HandleKeepsParts ==
  ASSUME Parts, ProcessRecvPacket
  PROVE  Parts'
<1>1. /\ ThreadElsewhere /\ UNCHANGED <<rPos, inq, sysq, taken>>
      /\ handled' = [handled EXCEPT ![pkt.c] = Append(handled[pkt.c], Entry(pkt.c))]
      /\ pkt' = NoPacket /\ ppc = "handle" /\ ppc' = "system"
  BY DEF ProcessRecvPacket, ThreadElsewhere, ThreadGo, userVars, queueVars, Entry, Read
<1>2. handled' \in [Clients -> Seq(Entries)]
  <2>1. handled[pkt.c] \in Seq(Entries) /\ Entry(pkt.c) \in Entries /\ pkt.c \in Clients
    BY <1>1, EntryType DEF Parts, TakenTypes
  <2>2. Append(handled[pkt.c], Entry(pkt.c)) \in Seq(Entries)
    BY <2>1, Appended
  <2> QED
    BY <1>1, <2>1, <2>2 DEF Parts, TakenTypes
<1>3. QueueTypes' /\ ThreadTypes' /\ TakenTypes'
  BY <1>1, <1>2, NoPacketType DEF Parts, QueueTypes, ThreadTypes, TakenTypes, PpcLabels
<1> QED
  BY <1>1, <1>3, ThreadElsewhereKeeps DEF Parts, UserTypes

\* A system packet clears no window: nobody ever has another state than NONE.
LEMMA SystemKeepsParts ==
  ASSUME Parts, ProcessSystemPacket
  PROVE  Parts' /\ UNCHANGED <<wPos, rPos, domain>>
<1>1. UNCHANGED <<wPos, rPos, domain>>
  <2>1. CASE sysq # <<>> /\ Head(sysq).id = "SYS_USER_DISCONNECT"
    <3>1. Head(sysq) \in [c : Clients, id : {"PACKET_CHATNAME_REQ", "SYS_USER_DISCONNECT"}]
      BY <2>1, FrontOfQueue DEF Parts, QueueTypes
    <3>2. domain[Head(sysq).c] = "NONE"
      BY <3>1 DEF Parts, UserTypes
    <3> QED
      BY <2>1, <3>2 DEF ProcessSystemPacket, ClearConnectionInfo
  <2>2. CASE ~(sysq # <<>> /\ Head(sysq).id = "SYS_USER_DISCONNECT")
    BY <2>2 DEF ProcessSystemPacket
  <2> QED
    BY <2>1, <2>2
<1>2. /\ ThreadElsewhere /\ UNCHANGED <<inq, pkt, taken, handled>>
      /\ sysq' = (IF sysq = <<>> THEN sysq ELSE Tail(sysq)) /\ ppc' = "loop"
  BY <1>1 DEF ProcessSystemPacket, ThreadElsewhere, ThreadGo, takenVars
<1>3. QueueTypes'
  BY <1>2 DEF Parts, QueueTypes
<1>4. ThreadTypes' /\ TakenTypes'
  BY <1>2 DEF Parts, ThreadTypes, TakenTypes, PpcLabels
<1> QED
  BY <1>1, <1>2, <1>3, <1>4, ThreadElsewhereKeeps DEF Parts, UserTypes

\* Every step keeps the types.
LEMMA TypedStep ==
  ASSUME Typed, [Next]_vars
  PROVE  Typed'
<1>1. Parts /\ raced \in [Clients -> BOOLEAN]
  BY TypedParts
<1>2. raced' \in [Clients -> BOOLEAN]
  <2>1. CASE UNCHANGED vars
    BY <1>1, <2>1 DEF vars
  <2>2. CASE raced' = [c \in Clients |-> raced[c] \/ (Sliding(c) /\ Using(c))']
    <3>1. \A c \in Clients : (raced[c] \/ (Sliding(c) /\ Using(c))') \in BOOLEAN
      BY Zenon
    <3> QED
      BY <2>2, <3>1, Zenon
  <2> QED
    BY <2>1, <2>2 DEF Next
<1>3. Parts'
  <2>1. CASE UNCHANGED vars
    BY <1>1, <2>1 DEF vars, Parts, UserTypes, QueueTypes, ThreadTypes, SessionTypes, RecvTypes,
       TakenTypes, InSession, userVars, queueVars, threadVars, sessionVars, recvVars, takenVars
  <2>2. CASE Next /\ \E c \in Clients : \/ Accept(c) \/ OnConnect(c) \/ OnClose(c)
                                        \/ \E n \in 1..MaxRecv : OnReceive(c, n)
    BY <1>1, <2>2, SessionKeepsParts, ReceiveKeepsParts
  <2>3. CASE Next /\ \E c \in Clients : ReceivePacketData(c)
    BY <1>1, <2>3, SlideKeepsParts, CopyKeepsParts, AdvanceKeepsParts, EnqueueKeepsParts
       DEF ReceivePacketData, Next
  <2>4. CASE Next /\ ProcessPacket
    BY <1>1, <2>4, DequeueKeepsParts, GetKeepsParts, TakeKeepsParts, HandleKeepsParts,
       SystemKeepsParts DEF ProcessPacket
  <2>5. CASE Next /\ End
    <3>1. running' \in BOOLEAN /\ UNCHANGED <<userVars, queueVars, threadVars, sessionVars, recvVars, takenVars, alive>>
      BY <2>5 DEF End
    <3> QED
      BY <1>1, <3>1 DEF Parts, UserTypes, QueueTypes, ThreadTypes, SessionTypes, RecvTypes,
         TakenTypes, InSession, userVars, queueVars, threadVars, sessionVars, recvVars, takenVars
  <2> QED
    BY <2>1, <2>2, <2>3, <2>4, <2>5 DEF Next, Step
<1>4. (Typed <=> Parts /\ raced \in [Clients -> BOOLEAN])'
  BY TypedParts, PTL
<1> QED
  BY <1>2, <1>3, <1>4

(* Type correctness of the packet layer: no position, index or handler's      *)
(* reading leaves its range, raced or not (User.h:71-125,                     *)
(* PacketManager.cpp:62-137).                                                 *)
THEOREM PacketTypes == Spec => []TypeOK
<1>1. Typed /\ [Next]_vars => Typed'
  BY TypedStep
<1>2. Typed => TypeOK
  BY DEF Typed
<1> QED
  BY InitTyped, <1>1, <1>2, PTL DEF Spec
----------------------------------------------------------------------------
(* The window is the backlog.                                                 *)

(* raced sees every state in which a window slides while the thread uses it.  *)
RaceSeen == \A c \in Clients : raced[c] \/ ~(Sliding(c) /\ Using(c))

(* What is unread in c's buffer is what was received and not taken.           *)
Backlog(c) ==
  /\ taken[c] <= Len(fed[c]) /\ Front(c) <= wPos[c]
  /\ wPos[c] - Front(c) = Len(fed[c]) - taken[c]
  /\ \A i \in 1..(Len(fed[c]) - taken[c]) : buffer[c][Front(c) + i - 1] = fed[c][taken[c] + i]

(* What is being received has room, and once copied in lies behind the        *)
(* window.                                                                    *)
Fits(c) ==
  /\ rx[c].at \in Active => Len(fed[c]) - taken[c] + rx[c].n <= MaxBacklog
  /\ rx[c].at = "copy" => wPos[c] + rx[c].n <= BufferSize
  /\ rx[c].at = "advance" => \A j \in 1..rx[c].n : buffer[c][wPos[c] + j - 1] = Received(c)[j]

(* GetPacket's measurements stay true while it works, and the packet its      *)
(* handler is about to read stays where P_data_ptr_ points.                   *)
Reading(c) ==
  pkt.c = c =>
    /\ ppc = "header" => pkt.rem <= wPos[c] - rPos[c]
    /\ ppc = "take" => pkt.at = rPos[c] /\ pkt.len <= wPos[c] - rPos[c]
    /\ ppc = "handle" =>
         /\ pkt.at + pkt.len = rPos[c]
         /\ \A i \in 1..pkt.len : buffer[c][pkt.at + i - 1] = fed[c][taken[c] - pkt.len + i]

(* Each handler read the units it was given.                                  *)
ReadRight(c) ==
  \A k \in 1..Len(handled[c]) :
    /\ handled[c][k].first + Len(handled[c][k].units) <= Len(fed[c])
    /\ \A i \in 1..Len(handled[c][k].units) :
         handled[c][k].units[i] = fed[c][handled[c][k].first + i]

Good(c) == Backlog(c) /\ Fits(c) /\ Reading(c) /\ ReadRight(c)
Unraced == RaceSeen /\ \A c \in Clients : ~raced[c] => Good(c)

\* The types of one client's state.
LEMMA OfClient ==
  ASSUME Parts, NEW c \in Clients
  PROVE  /\ buffer[c] \in [Offsets -> Cells] /\ wPos[c] \in 0..BufferSize /\ wPos[c] \in Nat
         /\ rPos[c] \in Nat /\ Front(c) \in Nat /\ BufferSize \in Nat /\ MaxBacklog \in Nat
         /\ rx[c] \in Receives /\ rx[c].n \in Nat /\ sent[c] \in Nat
         /\ fed[c] \in Seq(Units) /\ Len(fed[c]) \in Nat /\ taken[c] \in Nat
         /\ handled[c] \in Seq(Entries)
BY Sizes DEF Parts, UserTypes, RecvTypes, TakenTypes, Receives, Front

\* A step that changes nothing of c's, and is not about c's turn, keeps c good.
LEMMA OthersKept ==
  ASSUME NEW c, Good(c),
         buffer'[c] = buffer[c], wPos'[c] = wPos[c], rPos'[c] = rPos[c], fed'[c] = fed[c],
         taken'[c] = taken[c], handled'[c] = handled[c],
         \/ rx'[c] = rx[c] /\ sent'[c] = sent[c] /\ session'[c] = session[c]
         \/ rx[c].at \in {"idle", "notify"} /\ rx'[c].at \in {"idle", "notify"},
         UNCHANGED <<ppc, pkt>> \/ ppc' \notin {"header", "take", "handle"} \/ pkt'.c # c
  PROVE  Good(c)'
<1>1. Front(c)' = Front(c)
  BY DEF Front
<1>2. Backlog(c)' /\ ReadRight(c)'
  BY <1>1 DEF Good, Backlog, ReadRight
<1>3. Reading(c)'
  BY DEF Good, Reading
<1>4. Fits(c)'
  <2>1. CASE rx'[c] = rx[c] /\ sent'[c] = sent[c] /\ session'[c] = session[c]
    <3>1. Received(c)' = Received(c)
      BY <2>1 DEF Received
    <3> QED
      BY <2>1, <3>1 DEF Good, Fits
  <2>2. CASE rx'[c].at \in {"idle", "notify"}
    BY <2>2 DEF Fits, Active
  <2> QED
    BY <2>1, <2>2
<1> QED
  BY <1>2, <1>3, <1>4 DEF Good

\* A session begins or ends, and is greeted, between two receives or during one.
LEMMA SessionKeepsGood ==
  ASSUME Parts, NEW c \in Clients, Accept(c) \/ OnConnect(c) \/ OnClose(c),
         NEW d \in Clients, Good(d)
  PROVE  Good(d)'
<1>1. CASE Accept(c)
  <2>1. /\ UNCHANGED <<userVars, threadVars, rx, fed, takenVars>>
        /\ session' = [session EXCEPT ![c] = session[c] + 1] /\ sent' = [sent EXCEPT ![c] = 0]
    BY <1>1 DEF Accept
  <2>2. rx[c].at = "idle"
    BY <1>1 DEF Accept, Parts, InSession, NoRecv
  <2>3. d # c => session'[d] = session[d] /\ sent'[d] = sent[d]
    BY <2>1 DEF Parts, SessionTypes, RecvTypes
  <2> QED
    BY <2>1, <2>2, <2>3, OthersKept DEF userVars, threadVars, takenVars
<1>2. CASE OnConnect(c) \/ OnClose(c)
  BY <1>2, OthersKept DEF OnConnect, OnClose, userVars, threadVars, recvVars, takenVars, sessionVars
<1> QED
  BY <1>1, <1>2

\* Units arrive only when there is room for them.
LEMMA ReceiveKeepsGood ==
  ASSUME Parts, NEW c \in Clients, NEW n \in 1..MaxRecv, OnReceive(c, n), Good(c)
  PROVE  Good(c)'
<1>1. /\ rx' = [rx EXCEPT ![c] = [at |-> "test", n |-> n]] /\ rx[c] = NoRecv
      /\ Len(fed[c]) - taken[c] + n <= MaxBacklog
      /\ UNCHANGED <<userVars, threadVars, fed, takenVars>>
  BY DEF OnReceive
<1>2. rx'[c].at = "test" /\ rx'[c].n = n /\ rx[c].at = "idle"
  BY <1>1 DEF Parts, RecvTypes, NoRecv
<1>3. Front(c)' = Front(c)
  BY <1>1, <1>2 DEF Front, userVars
<1>4. Backlog(c)' /\ ReadRight(c)' /\ Reading(c)'
  BY <1>1, <1>3 DEF Good, Backlog, ReadRight, Reading, userVars, threadVars, takenVars
<1>5. Fits(c)'
  BY <1>1, <1>2 DEF Fits, takenVars
<1> QED
  BY <1>4, <1>5 DEF Good

\* The window slides only when it must; what fits without sliding fits.
LEMMA SlideTestKeepsGood ==
  ASSUME Parts, NEW c \in Clients, SlideTest(c), Good(c)
  PROVE  Good(c)'
<1>1. /\ rx[c].at = "test" /\ UNCHANGED <<userVars, threadVars, fed, takenVars>>
      /\ RxGo(c, IF wPos[c] + rx[c].n >= BufferSize THEN "slide" ELSE "copy")
  BY DEF SlideTest
<1>2. /\ rx'[c].at = (IF wPos[c] + rx[c].n >= BufferSize THEN "slide" ELSE "copy")
      /\ rx'[c].n = rx[c].n
  <2> DEFINE l == IF wPos[c] + rx[c].n >= BufferSize THEN "slide" ELSE "copy"
  <2>1. l \in RxLabels /\ RxGo(c, l)
    BY <1>1 DEF RxLabels
  <2> HIDE DEF l
  <2>2. rx'[c].at = l /\ rx'[c].n = rx[c].n
    BY <2>1, RxGoes DEF Parts, RecvTypes
  <2> QED
    BY <2>2 DEF l
<1>3. Front(c)' = Front(c)
  BY <1>1, <1>2 DEF Front, userVars
<1>4. Backlog(c)' /\ ReadRight(c)' /\ Reading(c)'
  BY <1>1, <1>3 DEF Good, Backlog, ReadRight, Reading, userVars, threadVars, takenVars
<1>5. Fits(c)'
  <2>1. wPos'[c] = wPos[c] /\ fed'[c] = fed[c] /\ taken'[c] = taken[c]
    BY <1>1 DEF userVars, takenVars
  <2>2. ~(wPos[c] + rx[c].n >= BufferSize) => wPos[c] + rx[c].n <= BufferSize
    BY OfClient
  <2> QED
    BY <1>1, <1>2, <2>1, <2>2 DEF Fits, Good, Active
<1> QED
  BY <1>4, <1>5 DEF Good

\* Sliding moves the whole backlog to the front, when nobody is using it.
LEMMA SlideKeepsGood ==
  ASSUME Parts, NEW c \in Clients, Slide(c), Good(c), ~Using(c)'
  PROVE  Good(c)' /\ alive' = alive
<1> DEFINE rest == Minus(wPos[c], rPos[c])
           b == [i \in Offsets |-> IF i < rest THEN buffer[c][rPos[c] + i] ELSE buffer[c][i]]
<1>1. rx[c].at = "slide" /\ Front(c) = rPos[c]
  BY DEF Slide, Front
<1>2. rPos[c] \in 0..wPos[c] /\ wPos[c] \in 0..BufferSize /\ wPos[c] - rPos[c] = Len(fed[c]) - taken[c]
  BY <1>1, OfClient DEF Good, Backlog
<1>3. rest = wPos[c] - rPos[c]
  BY <1>2, MinusIs
<1> HIDE DEF rest
<1>4. rest \in Nat /\ rPos[c] + rest = wPos[c] /\ ~(rPos[c] + rest > BufferSize)
  BY <1>2, <1>3, OfClient
<1>5. alive' = alive /\ wPos' = [wPos EXCEPT ![c] = rest] /\ RxGo(c, "rewind")
  BY <1>4 DEF Slide, rest
<1>6. buffer' = [buffer EXCEPT ![c] = b]
  BY <1>4 DEF Slide, rest
<1>7. UNCHANGED <<rPos, threadVars, fed, takenVars>>
  BY DEF Slide
<1>8. b \in [Offsets -> Cells] /\ \A i \in Offsets : i < rest => b[i] = buffer[c][rPos[c] + i]
  <2>1. \A i \in Offsets : i < rest => rPos[c] + i \in Offsets
    BY <1>2, <1>4, OfClient DEF Offsets
  <2> QED
    BY <2>1, OfClient
<1> HIDE DEF b
<1>9. wPos'[c] = rest /\ buffer'[c] = b
  BY <1>5, <1>6, OfClient DEF Parts, UserTypes
<1>10. rx'[c].at = "rewind" /\ rx'[c].n = rx[c].n
  <2>1. "rewind" \in RxLabels
    BY DEF RxLabels
  <2> QED
    BY <1>5, <2>1, RxGoes DEF Parts, RecvTypes
<1>11. Front(c)' = 0
  BY <1>10 DEF Front
<1>12. Backlog(c)'
  <2>1. taken'[c] = taken[c] /\ fed'[c] = fed[c] /\ taken[c] <= Len(fed[c])
        /\ Len(fed[c]) - taken[c] = rest
    BY <1>2, <1>3, <1>7 DEF takenVars, Good, Backlog
  <2>2. \A i \in 1..rest : b[0 + i - 1] = fed[c][taken[c] + i]
    <3> SUFFICES ASSUME NEW i \in 1..rest PROVE b[0 + i - 1] = fed[c][taken[c] + i]
      OBVIOUS
    <3>1. 0 + i - 1 \in Offsets /\ 0 + i - 1 < rest /\ rPos[c] + (0 + i - 1) = rPos[c] + i - 1
      BY <1>2, <1>4, OfClient DEF Offsets
    <3>2. b[0 + i - 1] = buffer[c][rPos[c] + i - 1]
      BY <1>8, <3>1
    <3>3. buffer[c][rPos[c] + i - 1] = fed[c][taken[c] + i]
      BY <1>1, <2>1 DEF Good, Backlog
    <3> QED
      BY <3>2, <3>3
  <2> QED
    BY <1>4, <1>9, <1>11, <2>1, <2>2 DEF Backlog
<1>13. ReadRight(c)'
  BY <1>7 DEF Good, ReadRight, takenVars
<1>14. Fits(c)'
  BY <1>1, <1>7, <1>10 DEF Good, Fits, Active, takenVars
<1>15. Reading(c)'
  BY DEF Reading, Using
<1> QED
  BY <1>5, <1>12, <1>13, <1>14, <1>15 DEF Good

\* After the slide the window starts at 0, and what is received fits behind it.
LEMMA RewindKeepsGood ==
  ASSUME Parts, NEW c \in Clients, Rewind(c), Good(c), ~Using(c)
  PROVE  Good(c)'
<1>1. /\ rx[c].at = "rewind" /\ RxGo(c, "copy") /\ rPos' = [rPos EXCEPT ![c] = 0]
      /\ UNCHANGED <<buffer, wPos, threadVars, fed, takenVars>>
  BY DEF Rewind
<1>2. rx'[c].at = "copy" /\ rx'[c].n = rx[c].n
  <2>1. "copy" \in RxLabels
    BY DEF RxLabels
  <2> QED
    BY <1>1, <2>1, RxGoes DEF Parts, RecvTypes
<1>3. Front(c) = 0 /\ Front(c)' = 0
  BY <1>1, <1>2 DEF Front, Parts, UserTypes
<1>4. Backlog(c)' /\ ReadRight(c)'
  BY <1>1, <1>3 DEF Good, Backlog, ReadRight, takenVars
<1>5. Reading(c)'
  BY <1>1 DEF Reading, Using, threadVars
<1>6. Fits(c)'
  <2>1. Len(fed[c]) - taken[c] + rx[c].n <= MaxBacklog /\ wPos[c] - 0 = Len(fed[c]) - taken[c]
    BY <1>1, <1>3 DEF Good, Fits, Backlog, Active
  <2>2. 2 * MaxBacklog <= BufferSize
    BY PacketAssumption
  <2>3. wPos[c] + rx[c].n <= BufferSize
    BY <2>1, <2>2, OfClient
  <2> QED
    BY <1>1, <1>2, <2>1, <2>3 DEF Fits, takenVars
<1> QED
  BY <1>4, <1>5, <1>6 DEF Good

\* The units are copied in behind the window, where nobody reads.
LEMMA CopyKeepsGood ==
  ASSUME Parts, NEW c \in Clients, CopyIn(c), Good(c)
  PROVE  Good(c)' /\ alive' = alive
<1> DEFINE b == [i \in Offsets |->
                   IF i >= wPos[c] /\ i < wPos[c] + rx[c].n
                   THEN [s |-> session[c], k |-> sent[c] + (i - wPos[c]) + 1]
                   ELSE buffer[c][i]]
<1>1. rx[c].at = "copy" /\ wPos[c] + rx[c].n <= BufferSize
  BY DEF CopyIn, Good, Fits
<1>2. ~(wPos[c] + rx[c].n > BufferSize)
  BY <1>1, OfClient
<1>3. /\ alive' = alive /\ buffer' = [buffer EXCEPT ![c] = b] /\ RxGo(c, "advance")
      /\ UNCHANGED <<wPos, rPos, threadVars, session, sent, fed, takenVars>>
  BY <1>2 DEF CopyIn, sessionVars
<1>4. rx'[c].at = "advance" /\ rx'[c].n = rx[c].n
  <2>1. "advance" \in RxLabels
    BY DEF RxLabels
  <2> QED
    BY <1>3, <2>1, RxGoes DEF Parts, RecvTypes
<1>5. \A i \in Offsets : ~(i >= wPos[c] /\ i < wPos[c] + rx[c].n) => b[i] = buffer[c][i]
  OBVIOUS
<1>6. \A j \in 1..rx[c].n : b[wPos[c] + j - 1] = [s |-> session[c], k |-> sent[c] + j]
  <2> SUFFICES ASSUME NEW j \in 1..rx[c].n
               PROVE  b[wPos[c] + j - 1] = [s |-> session[c], k |-> sent[c] + j]
    OBVIOUS
  <2>1. /\ wPos[c] + j - 1 \in Offsets /\ wPos[c] + j - 1 >= wPos[c]
        /\ wPos[c] + j - 1 < wPos[c] + rx[c].n
        /\ sent[c] + ((wPos[c] + j - 1) - wPos[c]) + 1 = sent[c] + j
    <3>1. wPos[c] \in Nat /\ j \in Nat /\ j >= 1 /\ j <= rx[c].n /\ sent[c] \in Nat /\ BufferSize \in Nat
          /\ rx[c].n \in Nat
      BY OfClient
    <3>2. (wPos[c] + j - 1) - wPos[c] = j - 1
      BY <3>1
    <3>3. sent[c] + (j - 1) + 1 = sent[c] + j
      BY <3>1
    <3> QED
      BY <1>1, <3>1, <3>2, <3>3 DEF Offsets
  <2> QED
    BY <2>1
<1> HIDE DEF b
<1>7. buffer'[c] = b
  BY <1>3 DEF Parts, UserTypes
<1>8. Front(c)' = Front(c) /\ Front(c) = rPos[c]
  BY <1>1, <1>3, <1>4 DEF Front
<1>9. Backlog(c)'
  <2>1. \A i \in 1..(Len(fed[c]) - taken[c]) : b[Front(c) + i - 1] = fed[c][taken[c] + i]
    <3> SUFFICES ASSUME NEW i \in 1..(Len(fed[c]) - taken[c])
                 PROVE  b[Front(c) + i - 1] = fed[c][taken[c] + i]
      OBVIOUS
    <3>1. Front(c) + i - 1 \in Offsets /\ ~(Front(c) + i - 1 >= wPos[c])
      BY OfClient DEF Good, Backlog, Offsets
    <3>2. b[Front(c) + i - 1] = buffer[c][Front(c) + i - 1]
      BY <1>5, <3>1
    <3> QED
      BY <3>2 DEF Good, Backlog
  <2> QED
    BY <1>3, <1>7, <1>8, <2>1 DEF Good, Backlog, takenVars
<1>10. ReadRight(c)'
  BY <1>3 DEF Good, ReadRight, takenVars
<1>11. Reading(c)'
  <2>1. CASE ppc = "handle" /\ pkt.c = c
    <3>1. pkt.at + pkt.len = rPos[c] /\ pkt.at \in Nat /\ pkt.len \in Nat /\ rPos[c] <= wPos[c]
      BY <1>8, <2>1 DEF Good, Reading, Backlog, Parts, ThreadTypes, Locals
    <3>2. \A i \in 1..pkt.len : b[pkt.at + i - 1] = buffer[c][pkt.at + i - 1]
      <4> SUFFICES ASSUME NEW i \in 1..pkt.len PROVE b[pkt.at + i - 1] = buffer[c][pkt.at + i - 1]
        OBVIOUS
      <4>1. pkt.at + i - 1 \in Offsets /\ ~(pkt.at + i - 1 >= wPos[c])
        BY <3>1, OfClient DEF Offsets
      <4> QED
        BY <1>5, <4>1
    <3> QED
      BY <1>3, <1>7, <2>1, <3>1, <3>2 DEF Good, Reading, threadVars, takenVars
  <2>2. CASE ~(ppc = "handle" /\ pkt.c = c)
    BY <1>3, <2>2 DEF Good, Reading, threadVars
  <2> QED
    BY <2>1, <2>2
<1>12. Fits(c)'
  <2>1. Received(c)' = Received(c)
    BY <1>3, <1>4 DEF Received
  <2>2. \A j \in 1..rx[c].n : Received(c)[j] = [s |-> session[c], k |-> sent[c] + j]
    BY <1>1, ReceivedUnits DEF Active
  <2>3. \A j \in 1..rx'[c].n : buffer'[c][wPos'[c] + j - 1] = Received(c)'[j]
    BY <1>3, <1>4, <1>6, <1>7, <2>1, <2>2
  <2>4. Len(fed'[c]) - taken'[c] + rx'[c].n <= MaxBacklog
    BY <1>1, <1>3, <1>4 DEF Good, Fits, Active, takenVars
  <2> QED
    BY <1>4, <2>3, <2>4 DEF Fits
<1> QED
  BY <1>3, <1>9, <1>10, <1>11, <1>12 DEF Good

\* What was copied in becomes the end of the backlog.
LEMMA AdvanceKeepsGood ==
  ASSUME Parts, NEW c \in Clients, Advance(c), Good(c)
  PROVE  Good(c)'
<1> DEFINE n == rx[c].n
           r == Received(c)
           f == fed[c]
           g == f \o r
<1>1. /\ rx[c].at = "advance" /\ RxGo(c, "notify")
      /\ wPos' = [wPos EXCEPT ![c] = wPos[c] + n] /\ fed' = [fed EXCEPT ![c] = g]
      /\ UNCHANGED <<buffer, rPos, threadVars, takenVars>>
  BY DEF Advance
<1>2. rx'[c].at = "notify"
  <2>1. "notify" \in RxLabels
    BY DEF RxLabels
  <2> QED
    BY <1>1, <2>1, RxGoes DEF Parts, RecvTypes
<1>3. r \in Seq(Units) /\ Len(r) = n /\ f \in Seq(Units) /\ n \in Nat /\ Len(f) \in Nat
  BY <1>1, ReceivedUnits, OfClient DEF Active
<1> HIDE DEF n, r, f
<1>4. /\ Len(g) = Len(f) + n
      /\ \A i \in 1..Len(f) : g[i] = f[i]
      /\ \A j \in 1..n : g[Len(f) + j] = r[j]
  BY <1>3
<1> HIDE DEF g
<1>5. wPos'[c] = wPos[c] + n /\ fed'[c] = g
  BY <1>1, <1>3 DEF Parts, UserTypes, RecvTypes, f, g, n
<1>6. Front(c)' = Front(c) /\ Front(c) = rPos[c]
  BY <1>1, <1>2 DEF Front
<1>7. /\ taken[c] \in Nat /\ taken[c] <= Len(f) /\ rPos[c] <= wPos[c] /\ wPos[c] - rPos[c] = Len(f) - taken[c]
      /\ wPos[c] \in Nat /\ rPos[c] \in Nat
      /\ \A i \in 1..(Len(f) - taken[c]) : buffer[c][rPos[c] + i - 1] = f[taken[c] + i]
      /\ \A j \in 1..n : buffer[c][wPos[c] + j - 1] = r[j]
  BY <1>1, <1>6, OfClient DEF Good, Backlog, Fits, f, r, n
<1> DEFINE lf == Len(f)
           lg == Len(g)
           w == wPos[c]
           p == rPos[c]
           k0 == taken[c]
<1>15. lf \in Nat /\ n \in Nat /\ lg = lf + n /\ lg \in Nat
  BY <1>3, <1>4
<1>16. k0 \in Nat /\ k0 <= lf /\ p <= w /\ w - p = lf - k0 /\ w \in Nat /\ p \in Nat
  BY <1>7
<1> HIDE DEF lf, lg, w, p, k0
<1>14. k0 <= lg /\ p <= w + n /\ (w + n) - p = lg - k0
  BY <1>15, <1>16
<1>8. Backlog(c)'
  <2>1. \A i \in 1..(Len(g) - taken[c]) : buffer[c][rPos[c] + i - 1] = g[taken[c] + i]
    <3> SUFFICES ASSUME NEW i \in 1..(Len(g) - taken[c])
                 PROVE  buffer[c][rPos[c] + i - 1] = g[taken[c] + i]
      OBVIOUS
    <3>1. CASE taken[c] + i <= Len(f)
      <4>1. i \in 1..(Len(f) - taken[c]) /\ taken[c] + i \in 1..Len(f)
        BY <1>3, <1>4, <1>7, <3>1
      <4> QED
        BY <1>4, <1>7, <4>1
    <3>2. CASE ~(taken[c] + i <= Len(f))
      <4> DEFINE j == taken[c] + i - Len(f)
      <4>1. j \in 1..n /\ Len(f) + j = taken[c] + i /\ wPos[c] + j - 1 = rPos[c] + i - 1
        <5>1. i \in 1..(lg - k0) /\ ~(k0 + i <= lf)
          BY <3>2 DEF lg, lf, k0
        <5>2. k0 + i - lf \in 1..n /\ lf + (k0 + i - lf) = k0 + i /\ w + (k0 + i - lf) - 1 = p + i - 1
          BY <1>15, <1>16, <5>1
        <5> QED
          BY <5>2 DEF lf, w, p, k0
      <4> HIDE DEF j
      <4>2. g[Len(f) + j] = r[j] /\ buffer[c][wPos[c] + j - 1] = r[j]
        BY <1>4, <1>7, <4>1
      <4> QED
        BY <4>1, <4>2
    <3> QED
      BY <3>1, <3>2
  <2>2. taken'[c] = taken[c] /\ buffer'[c] = buffer[c]
    BY <1>1 DEF takenVars
  <2>3. taken[c] <= Len(g) /\ rPos[c] <= wPos[c] + n /\ (wPos[c] + n) - rPos[c] = Len(g) - taken[c]
    BY <1>14 DEF lg, w, p, k0
  <2>4. taken'[c] <= Len(fed'[c]) /\ Front(c)' <= wPos'[c]
    BY <1>5, <1>6, <2>2, <2>3
  <2>5. wPos'[c] - Front(c)' = Len(fed'[c]) - taken'[c]
    <3>1. wPos'[c] = w + n /\ Front(c)' = p /\ Len(fed'[c]) = lg /\ taken'[c] = k0
      BY <1>5, <1>6, <2>2 DEF w, p, lg, k0
    <3> QED
      BY <1>14, <3>1
  <2>6. \A i \in 1..(Len(fed'[c]) - taken'[c]) : buffer'[c][Front(c)' + i - 1] = fed'[c][taken'[c] + i]
    BY <1>5, <1>6, <2>1, <2>2
  <2> QED
    BY <2>4, <2>5, <2>6 DEF Backlog
<1>9. ReadRight(c)'
  <2> SUFFICES ASSUME NEW k \in 1..Len(handled[c])
               PROVE  /\ handled[c][k].first + Len(handled[c][k].units) <= Len(g)
                      /\ \A i \in 1..Len(handled[c][k].units) :
                           handled[c][k].units[i] = g[handled[c][k].first + i]
    BY <1>1, <1>5 DEF ReadRight, takenVars
  <2> DEFINE h == handled[c][k]
  <2>1. h \in Entries
    BY OfClient
  <2>2. h.first \in Nat /\ Len(h.units) \in Nat
    BY <2>1 DEF Entries
  <2>3. h.first + Len(h.units) <= Len(f) /\ \A i \in 1..Len(h.units) : h.units[i] = f[h.first + i]
    BY DEF Good, ReadRight, f
  <2> HIDE DEF h
  <2>4. \A i \in 1..Len(h.units) : h.first + i \in 1..Len(f)
    BY <1>3, <2>2, <2>3
  <2>5. h.first + Len(h.units) <= Len(g) /\ \A i \in 1..Len(h.units) : h.units[i] = g[h.first + i]
    <3>1. h.first + Len(h.units) <= Len(g)
      <4> DEFINE e == h.first + Len(h.units)
      <4>1. e \in Nat /\ e <= lf
        BY <2>2, <2>3 DEF lf
      <4> HIDE DEF e
      <4>2. e <= lg
        BY <1>15, <4>1
      <4> QED
        BY <4>2 DEF e, lg
    <3> QED
      BY <1>4, <2>3, <2>4, <3>1
  <2> QED
    BY <2>5 DEF h
<1>10. Reading(c)'
  <2> SUFFICES ASSUME pkt.c = c PROVE Reading(c)'
    BY <1>1 DEF Reading, threadVars
  <2>1. /\ pkt.rem \in Nat /\ pkt.at \in Nat /\ pkt.len \in Nat
        /\ ppc = "handle" => pkt.len <= taken[c]
    BY Sizes DEF Parts, ThreadTypes, TakenTypes, Locals
  <2>2. ppc = "header" => pkt.rem <= (wPos[c] + n) - rPos[c]
    BY <1>3, <1>7, <2>1 DEF Good, Reading
  <2>3. ppc = "take" => pkt.at = rPos[c] /\ pkt.len <= (wPos[c] + n) - rPos[c]
    BY <1>3, <1>7, <2>1 DEF Good, Reading
  <2>4. ppc = "handle" => \A i \in 1..pkt.len : g[taken[c] - pkt.len + i] = f[taken[c] - pkt.len + i]
    <3> SUFFICES ASSUME ppc = "handle", NEW i \in 1..pkt.len
                 PROVE  g[taken[c] - pkt.len + i] = f[taken[c] - pkt.len + i]
      OBVIOUS
    <3>1. taken[c] - pkt.len + i \in 1..Len(f)
      BY <1>3, <1>7, <2>1
    <3> QED
      BY <1>4, <3>1
  <2>5. ppc = "handle" => /\ pkt.at + pkt.len = rPos[c]
                          /\ \A i \in 1..pkt.len : buffer[c][pkt.at + i - 1] = f[taken[c] - pkt.len + i]
    BY DEF Good, Reading, f
  <2>6. UNCHANGED <<ppc, pkt>> /\ rPos'[c] = rPos[c] /\ taken'[c] = taken[c] /\ buffer'[c] = buffer[c]
    BY <1>1 DEF threadVars, takenVars
  <2>7. ppc = "handle" => \A i \in 1..pkt.len : buffer[c][pkt.at + i - 1] = g[taken[c] - pkt.len + i]
    BY <2>4, <2>5
  <2>8. ppc' = "header" => pkt'.rem <= wPos'[c] - rPos'[c]
    BY <1>5, <2>2, <2>6
  <2>9. ppc' = "take" => pkt'.at = rPos'[c] /\ pkt'.len <= wPos'[c] - rPos'[c]
    BY <1>5, <2>3, <2>6
  <2>10. ppc' = "handle" => /\ pkt'.at + pkt'.len = rPos'[c]
                            /\ \A i \in 1..pkt'.len : buffer'[c][pkt'.at + i - 1] = fed'[c][taken'[c] - pkt'.len + i]
    BY <1>5, <2>5, <2>6, <2>7
  <2> QED
    BY <2>8, <2>9, <2>10 DEF Reading
<1>11. Fits(c)'
  BY <1>2 DEF Fits, Active
<1> QED
  BY <1>8, <1>9, <1>10, <1>11 DEF Good

\* A step of OnReceive for c, when no slide overlaps with the thread's use.
LEMMA WorkerKeepsGood ==
  ASSUME Parts, alive, NEW c \in Clients, ReceivePacketData(c), NEW d \in Clients, Good(d),
         ~(Sliding(d) /\ Using(d)), ~(Sliding(d) /\ Using(d))'
  PROVE  Good(d)' /\ (d = c => alive')
<1>1. CASE d # c
  <2>1. /\ buffer'[d] = buffer[d] /\ wPos'[d] = wPos[d] /\ rPos'[d] = rPos[d] /\ fed'[d] = fed[d]
        /\ rx'[d] = rx[d] /\ sent'[d] = sent[d]
        /\ UNCHANGED <<taken, handled, session, ppc, pkt>>
    BY <1>1 DEF ReceivePacketData, SlideTest, Slide, Rewind, CopyIn, Advance, EnqueuePacketData,
       RxGo, Parts, UserTypes, RecvTypes, userVars, threadVars, takenVars, sessionVars
  <2> QED
    BY <1>1, <2>1, OthersKept
<1>2. CASE d = c /\ SlideTest(c)
  BY <1>2, SlideTestKeepsGood DEF SlideTest
<1>3. CASE d = c /\ Slide(c)
  <2>1. ~Using(c)'
    <3>1. CASE Sliding(c)'
      BY <1>3, <3>1
    <3>2. CASE ~Sliding(c)'
      <4>1. rx[c].at = "slide" /\ UNCHANGED <<ppc, pkt>>
        BY <1>3 DEF Slide, threadVars
      <4>2. Sliding(c)
        BY <4>1 DEF Sliding
      <4> QED
        BY <1>3, <4>1, <4>2 DEF Using
    <3> QED
      BY <3>1, <3>2
  <2> QED
    BY <1>3, <2>1, SlideKeepsGood
<1>4. CASE d = c /\ Rewind(c)
  <2>1. Sliding(c)
    BY <1>4 DEF Rewind, Sliding
  <2>2. ~Using(c)
    BY <1>4, <2>1
  <2> QED
    BY <1>4, <2>2, RewindKeepsGood DEF Rewind
<1>5. CASE d = c /\ CopyIn(c)
  BY <1>5, CopyKeepsGood
<1>6. CASE d = c /\ Advance(c)
  BY <1>6, AdvanceKeepsGood DEF Advance
<1>7. CASE d = c /\ EnqueuePacketData(c)
  <2>1. rx[c].at = "notify" /\ rx'[c].at = "idle"
    BY <1>7 DEF EnqueuePacketData, Parts, RecvTypes, NoRecv
  <2> QED
    BY <1>7, <2>1, OthersKept DEF EnqueuePacketData, userVars, threadVars, takenVars
<1> QED
  BY <1>1, <1>2, <1>3, <1>4, <1>5, <1>6, <1>7 DEF ReceivePacketData

\* What the process thread leaves of a client that is not the one of its turn.
LEMMA TurnElsewhere ==
  ASSUME Parts, ThreadElsewhere, NEW d \in Clients, Good(d), pkt'.c # d,
         rPos'[d] = rPos[d], taken'[d] = taken[d], handled'[d] = handled[d]
  PROVE  Good(d)'
BY OthersKept DEF ThreadElsewhere, sessionVars, recvVars

\* Between two turns the locals are of no client.
LEMMA TurnOver ==
  ASSUME Parts, ThreadElsewhere, NEW d \in Clients, Good(d), ppc' \notin {"header", "take", "handle"},
         rPos'[d] = rPos[d], taken'[d] = taken[d], handled'[d] = handled[d]
  PROVE  Good(d)'
BY OthersKept DEF ThreadElsewhere, sessionVars, recvVars

\* GetPacket measures the backlog.
LEMMA GetRemainKeepsGood ==
  ASSUME Parts, GetRemain, NEW d \in Clients, Good(d), ~(Sliding(d) /\ Using(d))
  PROVE  Good(d)'
<1>1. /\ ThreadElsewhere /\ UNCHANGED <<rPos, taken, handled>> /\ ppc = "remain" /\ ppc' = "header"
      /\ pkt' = [pkt EXCEPT !.rem = Minus(wPos[pkt.c], rPos[pkt.c])]
  BY DEF GetRemain, ThreadElsewhere, ThreadGo, userVars, takenVars
<1>2. pkt'.c = pkt.c /\ pkt'.rem = Minus(wPos[pkt.c], rPos[pkt.c])
  BY <1>1 DEF Parts, ThreadTypes, Locals
<1>3. CASE pkt.c # d
  BY <1>1, <1>2, <1>3, TurnElsewhere
<1>4. CASE pkt.c = d
  <2>1. Front(d) = rPos[d]
    BY <1>1, <1>4 DEF Using, Sliding, Front
  <2>2. rPos[d] \in 0..wPos[d]
    BY <2>1, OfClient DEF Good, Backlog
  <2>3. Minus(wPos[d], rPos[d]) = wPos[d] - rPos[d] /\ wPos[d] - rPos[d] \in Int
    BY <2>2, OfClient, MinusIs
  <2>4. /\ Front(d)' = Front(d) /\ UNCHANGED <<buffer, wPos, rPos, rx, sent, session, fed, taken, handled>>
    BY <1>1 DEF ThreadElsewhere, Front, recvVars, sessionVars
  <2>5. Backlog(d)' /\ ReadRight(d)' /\ Fits(d)'
    BY <2>4 DEF Good, Backlog, ReadRight, Fits, Received
  <2>6. Reading(d)'
    BY <1>1, <1>2, <1>4, <2>3, <2>4 DEF Reading
  <2> QED
    BY <2>5, <2>6 DEF Good
<1> QED
  BY <1>3, <1>4

\* GetPacket decides on a whole packet, of the bytes it measured.
LEMMA GetHeaderKeepsGood ==
  ASSUME Parts, GetHeader, NEW d \in Clients, Good(d)
  PROVE  Good(d)'
<1>1. /\ ThreadElsewhere /\ UNCHANGED <<rPos, taken, handled>> /\ ppc = "header"
  BY DEF GetHeader, ThreadElsewhere, userVars, takenVars
<1>2. CASE ppc' = "system"
  BY <1>1, <1>2, TurnOver
<1>3. CASE ppc' # "system"
  <2>1. PICK h \in HeaderAt(pkt.c, rPos[pkt.c]) :
          /\ ~(h.len > pkt.rem) /\ ppc' = "take"
          /\ pkt' = [pkt EXCEPT !.at = rPos[pkt.c], !.len = h.len, !.id = h.id]
    BY <1>3 DEF GetHeader, ThreadGo
  <2>2. pkt'.c = pkt.c /\ pkt'.at = rPos[pkt.c] /\ pkt'.len = h.len
    BY <2>1 DEF Parts, ThreadTypes, Locals
  <2>3. CASE pkt.c # d
    BY <1>1, <2>2, <2>3, TurnElsewhere
  <2>4. CASE pkt.c = d
    <3>1. h.len \in Nat /\ pkt.rem \in Nat
      <4>1. pkt' \in Locals /\ pkt \in Locals
        BY GetKeepsParts DEF Parts, ThreadTypes
      <4> QED
        BY <2>2, <4>1, Sizes DEF Locals
    <3>2. pkt.rem <= wPos[d] - rPos[d]
      BY <1>1, <2>4 DEF Good, Reading
    <3>3. h.len <= wPos[d] - rPos[d]
      BY <2>1, <3>1, <3>2, OfClient
    <3>4. /\ Front(d)' = Front(d) /\ UNCHANGED <<buffer, wPos, rPos, rx, sent, session, fed, taken, handled>>
      BY <1>1 DEF ThreadElsewhere, Front, recvVars, sessionVars
    <3>5. Backlog(d)' /\ ReadRight(d)' /\ Fits(d)'
      BY <3>4 DEF Good, Backlog, ReadRight, Fits, Received
    <3>6. Reading(d)'
      BY <2>1, <2>2, <2>4, <3>3, <3>4 DEF Reading
    <3> QED
      BY <3>5, <3>6 DEF Good
  <2> QED
    BY <2>3, <2>4
<1> QED
  BY <1>2, <1>3

\* GetPacket takes the packet off the front of the backlog, where its handler
\* will find it.
LEMMA TakeKeepsGood ==
  ASSUME Parts, TakePacket, NEW d \in Clients, Good(d), ~(Sliding(d) /\ Using(d))
  PROVE  Good(d)'
<1>1. pkt.c \in Clients /\ pkt.len \in Nat /\ pkt.at \in Nat /\ ppc = "take"
  BY DEF TakePacket, Parts, ThreadTypes, Locals
<1>2. /\ ThreadElsewhere /\ UNCHANGED handled
      /\ rPos' = [rPos EXCEPT ![pkt.c] = rPos[pkt.c] + pkt.len]
      /\ taken' = [taken EXCEPT ![pkt.c] = taken[pkt.c] + pkt.len]
      /\ \/ pkt' = NoPacket /\ ppc' = "system"
         \/ pkt' = pkt /\ ppc' = "handle"
  BY DEF TakePacket, ThreadElsewhere, ThreadGo, queueVars
<1>3. CASE pkt.c # d
  <2>1. rPos'[d] = rPos[d] /\ taken'[d] = taken[d]
    BY <1>2, <1>3 DEF Parts, UserTypes, TakenTypes
  <2> QED
    BY <1>2, <1>3, <2>1, TurnElsewhere, TurnOver
<1>4. CASE pkt.c = d
  <2> DEFINE p == rPos[d]
             w == wPos[d]
             n == pkt.len
             k0 == taken[d]
             lf == Len(fed[d])
  <2>1. rPos'[d] = p + n /\ taken'[d] = k0 + n
    BY <1>2, <1>4 DEF Parts, UserTypes, TakenTypes
  <2>2. /\ rx'[d] = rx[d] /\ Front(d) = p /\ Front(d)' = p + n
        /\ UNCHANGED <<buffer, wPos, fed, rx, sent, session>>
    BY <1>1, <1>2, <1>4, <2>1 DEF ThreadElsewhere, Using, Sliding, Front, recvVars, sessionVars
  <2>3. /\ p \in Nat /\ w \in Nat /\ n \in Nat /\ k0 \in Nat /\ lf \in Nat
        /\ p <= w /\ w - p = lf - k0 /\ k0 <= lf
    BY <1>1, <2>2, OfClient DEF Good, Backlog
  <2>4. pkt.at = p /\ n <= w - p
    BY <1>1, <1>4 DEF Good, Reading
  <2>5. \A i \in 1..(lf - k0) : buffer[d][p + i - 1] = fed[d][k0 + i]
    BY <2>2 DEF Good, Backlog
  <2> HIDE DEF p, w, n, k0, lf
  <2>6. k0 + n <= lf /\ p + n <= w /\ w - (p + n) = lf - (k0 + n)
    BY <2>3, <2>4
  <2>7. \A i \in 1..(lf - (k0 + n)) : buffer[d][(p + n) + i - 1] = fed[d][(k0 + n) + i]
    <3> SUFFICES ASSUME NEW i \in 1..(lf - (k0 + n))
                 PROVE  buffer[d][(p + n) + i - 1] = fed[d][(k0 + n) + i]
      OBVIOUS
    <3>1. n + i \in 1..(lf - k0) /\ p + (n + i) - 1 = (p + n) + i - 1 /\ k0 + (n + i) = (k0 + n) + i
      BY <2>3, <2>6
    <3> QED
      BY <2>5, <3>1
  <2>8. Backlog(d)'
    BY <2>1, <2>2, <2>6, <2>7 DEF Backlog, w, lf
  <2>9. ReadRight(d)'
    BY <1>2, <2>2 DEF Good, ReadRight
  <2>10. Fits(d)'
    <3>1. rx[d].at \in Active => lf - k0 + rx[d].n <= MaxBacklog
      BY DEF Good, Fits, lf, k0
    <3>2. rx[d].at \in Active => lf - (k0 + n) + rx[d].n <= MaxBacklog
      BY <2>3, <3>1, OfClient
    <3>3. Received(d)' = Received(d)
      BY <2>2 DEF Received
    <3> QED
      BY <2>1, <2>2, <3>2, <3>3 DEF Good, Fits, lf
  <2>11. Reading(d)'
    <3>1. \A i \in 1..n : buffer[d][p + i - 1] = fed[d][(k0 + n) - n + i]
      <4> SUFFICES ASSUME NEW i \in 1..n PROVE buffer[d][p + i - 1] = fed[d][(k0 + n) - n + i]
        OBVIOUS
      <4>1. i \in 1..(lf - k0) /\ (k0 + n) - n + i = k0 + i
        BY <2>3, <2>6
      <4> QED
        BY <2>5, <4>1
    <3>2. pkt.at + pkt.len = rPos'[d]
      BY <2>1, <2>4 DEF n
    <3> QED
      BY <1>2, <2>1, <2>2, <2>4, <3>1, <3>2 DEF Reading, n
  <2> QED
    BY <2>8, <2>9, <2>10, <2>11 DEF Good
<1> QED
  BY <1>3, <1>4

\* The handler reads the units that were taken.
LEMMA HandleKeepsGood ==
  ASSUME Parts, ProcessRecvPacket, NEW d \in Clients, Good(d), ~(Sliding(d) /\ Using(d))
  PROVE  Good(d)'
<1>1. /\ ThreadElsewhere /\ UNCHANGED <<rPos, taken>>
      /\ handled' = [handled EXCEPT ![pkt.c] = Append(handled[pkt.c], Entry(pkt.c))]
      /\ ppc = "handle" /\ ppc' = "system"
  BY DEF ProcessRecvPacket, ThreadElsewhere, ThreadGo, userVars, Entry, Read
<1>2. CASE pkt.c # d
  <2>1. handled'[d] = handled[d]
    BY <1>1, <1>2 DEF Parts, TakenTypes
  <2> QED
    BY <1>1, <2>1, TurnOver
<1>3. CASE pkt.c = d
  <2>1. /\ handled[d] \in Seq(Entries) /\ Entry(d) \in Entries
        /\ Read(d) \in Seq(Cells) /\ Len(Read(d)) = pkt.len
    BY <1>1, <1>3, EntryType, OfClient
  <2>2. handled'[d] = Append(handled[d], Entry(d))
    BY <1>1, <1>3 DEF Parts, TakenTypes
  <2>3. pkt.len \in Nat /\ pkt.at \in Nat /\ pkt.len <= taken[d]
    BY <1>1, <1>3 DEF Parts, ThreadTypes, TakenTypes, Locals
  <2>4. /\ pkt.at + pkt.len = rPos[d] /\ rPos[d] <= wPos[d] /\ taken[d] <= Len(fed[d])
        /\ \A i \in 1..pkt.len : buffer[d][pkt.at + i - 1] = fed[d][taken[d] - pkt.len + i]
    BY <1>1, <1>3 DEF Good, Reading, Backlog, Using, Sliding, Front
  <2>5. \A i \in 1..pkt.len : Read(d)[i] = fed[d][(taken[d] - pkt.len) + i]
    <3> SUFFICES ASSUME NEW i \in 1..pkt.len PROVE Read(d)[i] = fed[d][(taken[d] - pkt.len) + i]
      OBVIOUS
    <3>1. pkt.at + i - 1 \in Offsets
      <4>1. i \in Nat /\ i >= 1 /\ i <= pkt.len /\ pkt.at + pkt.len <= BufferSize /\ BufferSize \in Nat
        BY <2>3, <2>4, OfClient
      <4> QED
        BY <2>3, <4>1 DEF Offsets
    <3>2. Read(d)[i] = buffer[d][pkt.at + i - 1]
      BY <3>1 DEF Read
    <3> QED
      BY <2>4, <3>2
  <2>6. Entry(d).first = taken[d] - pkt.len /\ Entry(d).units = Read(d)
    BY DEF Entry
  <2>7. (taken[d] - pkt.len) + pkt.len <= Len(fed[d])
    BY <2>3, <2>4, OfClient
  <2>8. /\ Entry(d).first + Len(Entry(d).units) <= Len(fed[d])
        /\ \A i \in 1..Len(Entry(d).units) : Entry(d).units[i] = fed[d][Entry(d).first + i]
    BY <2>1, <2>5, <2>6, <2>7
  <2>9. UNCHANGED <<buffer, wPos, rPos, rx, sent, session, fed, taken>> /\ Front(d)' = Front(d)
    BY <1>1 DEF ThreadElsewhere, Front, recvVars, sessionVars
  <2>10. ReadRight(d)'
    <3> SUFFICES ASSUME NEW k \in 1..Len(handled'[d])
                 PROVE  /\ handled'[d][k].first + Len(handled'[d][k].units) <= Len(fed[d])
                        /\ \A i \in 1..Len(handled'[d][k].units) :
                             handled'[d][k].units[i] = fed[d][handled'[d][k].first + i]
      BY <2>9 DEF ReadRight
    <3>1. CASE k = Len(handled[d]) + 1
      BY <2>1, <2>2, <2>8, <3>1, Appended
    <3>2. CASE k \in 1..Len(handled[d])
      <4>1. handled'[d][k] = handled[d][k]
        BY <2>1, <2>2, <3>2, Appended
      <4> QED
        BY <3>2, <4>1 DEF Good, ReadRight
    <3>3. Len(handled'[d]) = Len(handled[d]) + 1 /\ Len(handled[d]) \in Nat
      BY <2>1, <2>2, Appended
    <3> QED
      BY <3>1, <3>2, <3>3
  <2>11. Backlog(d)' /\ Fits(d)'
    BY <2>9 DEF Good, Backlog, Fits, Received
  <2>12. Reading(d)'
    BY <1>1 DEF Reading
  <2> QED
    BY <2>10, <2>11, <2>12 DEF Good
<1> QED
  BY <1>2, <1>3

\* A step of the process thread, when no slide overlaps with its use.
LEMMA ThreadKeepsGood ==
  ASSUME Parts, ProcessPacket, NEW d \in Clients, Good(d), ~(Sliding(d) /\ Using(d))
  PROVE  Good(d)' /\ alive' = alive
<1>1. CASE DequeueUser
  <2>1. ThreadElsewhere /\ UNCHANGED <<rPos, taken, handled>> /\ ppc' \in {"exit", "system", "remain"}
    BY <1>1 DEF DequeueUser, ThreadElsewhere, ThreadGo, userVars, takenVars
  <2> QED
    BY <2>1, TurnOver DEF ThreadElsewhere
<1>2. CASE ProcessSystemPacket
  <2>1. UNCHANGED <<wPos, rPos, domain>>
    BY <1>2, SystemKeepsParts
  <2>2. ThreadElsewhere /\ UNCHANGED <<rPos, taken, handled>> /\ ppc' = "loop"
    BY <1>2, <2>1 DEF ProcessSystemPacket, ThreadElsewhere, ThreadGo, takenVars
  <2> QED
    BY <2>2, TurnOver DEF ThreadElsewhere
<1>3. CASE GetRemain \/ GetHeader \/ TakePacket \/ ProcessRecvPacket
  <2>1. alive' = alive
    BY <1>3 DEF GetRemain, GetHeader, TakePacket, ProcessRecvPacket
  <2> QED
    BY <1>3, <2>1, GetRemainKeepsGood, GetHeaderKeepsGood, TakeKeepsGood, HandleKeepsGood
<1> QED
  BY <1>1, <1>2, <1>3 DEF ProcessPacket

\* At the start every window is empty.
LEMMA InitUnraced == Init => Unraced
<1> SUFFICES ASSUME Init, NEW c \in Clients
             PROVE  (raced[c] \/ ~(Sliding(c) /\ Using(c))) /\ Good(c)
  BY DEF Unraced, RaceSeen
<1>1. rx[c].at = "idle" /\ wPos[c] = 0 /\ rPos[c] = 0 /\ fed[c] = <<>> /\ taken[c] = 0 /\ handled[c] = <<>>
      /\ ppc = "loop"
  BY DEF Init, NoRecv
<1>2. Backlog(c)
  BY <1>1 DEF Backlog, Front
<1> QED
  BY <1>1, <1>2 DEF Sliding, Good, Fits, Active, Reading, ReadRight

\* Every step keeps the windows right, or raced sees it.
LEMMA UnracedStep ==
  ASSUME Typed, Unraced, [Next]_vars
  PROVE  /\ Unraced'
         /\ alive \/ (\E c \in Clients : raced[c]) => alive' \/ \E c \in Clients : raced'[c]
<1>1. Parts
  BY TypedParts
<1>2. CASE UNCHANGED vars
  <2>1. \A c \in Clients : Good(c) => Good(c)'
    BY <1>2, OthersKept DEF vars, userVars, recvVars, takenVars, sessionVars, threadVars
  <2> QED
    BY <1>2, <2>1 DEF Unraced, RaceSeen, Sliding, Using, vars, threadVars, recvVars
<1>3. CASE Next
  <2>1. \A c \in Clients : raced'[c] = (raced[c] \/ (Sliding(c) /\ Using(c))')
    BY <1>3, Zenon DEF Next
  <2>2. \A c \in Clients : raced[c] => raced'[c]
    BY <2>1, Zenon
  <2>3. RaceSeen'
    BY <2>1, Zenon DEF RaceSeen
  <2>4. ASSUME NEW d \in Clients, ~raced'[d]
        PROVE  Good(d) /\ ~(Sliding(d) /\ Using(d)) /\ ~(Sliding(d) /\ Using(d))'
    BY <2>2, <2>3, <2>4, Zenon DEF Unraced, RaceSeen
  <2>5. ASSUME NEW d \in Clients, ~raced'[d]
        PROVE  Good(d)'
    <3>1. Good(d) /\ ~(Sliding(d) /\ Using(d)) /\ ~(Sliding(d) /\ Using(d))'
      BY <2>4, <2>5
    <3>2. CASE \E c \in Clients : Accept(c) \/ OnConnect(c) \/ OnClose(c)
      BY <1>1, <3>1, <3>2, SessionKeepsGood
    <3>3. ASSUME NEW c \in Clients, NEW n \in 1..MaxRecv, OnReceive(c, n)
          PROVE  Good(d)'
      <4>1. CASE d = c
        BY <1>1, <3>1, <3>3, <4>1, ReceiveKeepsGood
      <4>2. CASE d # c
        <5>1. /\ UNCHANGED <<userVars, threadVars, sessionVars, sent, fed, takenVars>>
              /\ rx' = [rx EXCEPT ![c] = [at |-> "test", n |-> n]]
          BY <3>3 DEF OnReceive
        <5>2. rx'[d] = rx[d]
          BY <4>2, <5>1 DEF Parts, RecvTypes
        <5> QED
          BY <1>1, <3>1, <5>1, <5>2, OthersKept DEF userVars, threadVars, sessionVars, takenVars
      <4> QED
        BY <4>1, <4>2
    <3>4. CASE \E c \in Clients : ReceivePacketData(c)
      BY <1>1, <1>3, <3>1, <3>4, WorkerKeepsGood DEF Next
    <3>5. CASE ProcessPacket
      BY <1>1, <3>1, <3>5, ThreadKeepsGood
    <3>6. CASE End
      BY <3>1, <3>6, OthersKept DEF End, userVars, threadVars, recvVars, takenVars, sessionVars
    <3> QED
      BY <1>3, <3>2, <3>3, <3>4, <3>5, <3>6 DEF Next, Step
  <2>6. Unraced'
    BY <2>3, <2>5 DEF Unraced
  <2>7. alive' \/ \E c \in Clients : raced'[c]
    <3>1. CASE \E c \in Clients : ReceivePacketData(c)
      <4>1. PICK c \in Clients : ReceivePacketData(c)
        BY <3>1
      <4>2. CASE raced'[c]
        BY <4>2
      <4>3. CASE ~raced'[c]
        BY <1>1, <1>3, <2>4, <4>1, <4>3, WorkerKeepsGood DEF Next
      <4> QED
        BY <4>2, <4>3
    <3>2. CASE ~\E c \in Clients : ReceivePacketData(c)
      BY <1>3, <3>2 DEF Next, Step, Accept, OnConnect, OnClose, OnReceive, ProcessPacket, DequeueUser,
         GetRemain, GetHeader, TakePacket, ProcessRecvPacket, ProcessSystemPacket, End
    <3> QED
      BY <3>1, <3>2
  <2> QED
    BY <2>6, <2>7
<1> QED
  BY <1>2, <1>3

\* A part of a sequence, as a function.
LEMMA PartOf ==
  ASSUME NEW S, NEW s \in Seq(S), NEW a \in Nat, NEW n \in Nat, a + n <= Len(s)
  PROVE  SubSeq(s, a + 1, a + n) = [i \in 1..n |-> s[a + i]]
<1> DEFINE u == SubSeq(s, a + 1, a + n)
<1>1. u \in Seq(S) /\ Len(u) = n
  OBVIOUS
<1>2. \A i \in 1..n : u[i] = s[a + i]
  OBVIOUS
<1> HIDE DEF u
<1>3. u = [i \in 1..n |-> u[i]]
  BY <1>1
<1>4. u = [i \in 1..n |-> s[a + i]]
  BY <1>2, <1>3
<1> QED
  BY <1>4 DEF u

\* Being right unit by unit is being right as sequences.
LEMMA BacklogIsUnread ==
  ASSUME Parts, NEW c \in Clients, Good(c)
  PROVE  Unread(c) = SubSeq(fed[c], taken[c] + 1, Len(fed[c]))
<1>1. Minus(wPos[c], Front(c)) = Len(fed[c]) - taken[c]
  <2>1. Front(c) \in 0..wPos[c]
    BY OfClient DEF Good, Backlog
  <2> QED
    BY <2>1, OfClient, MinusIs DEF Good, Backlog
<1> DEFINE n == Len(fed[c]) - taken[c]
           u == SubSeq(fed[c], taken[c] + 1, Len(fed[c]))
<1>2. n \in Nat /\ taken[c] \in Nat /\ fed[c] \in Seq(Units) /\ taken[c] + n = Len(fed[c])
  BY OfClient DEF Good, Backlog
<1>3. u = [i \in 1..n |-> fed[c][taken[c] + i]]
  <2> DEFINE f == fed[c]
             a == taken[c]
  <2>1. n \in Nat /\ a \in Nat /\ f \in Seq(Units) /\ a + n = Len(f)
    BY <1>2
  <2> HIDE DEF n, f, a
  <2>2. a + n <= Len(f)
    BY <2>1
  <2>3. SubSeq(f, a + 1, a + n) = [i \in 1..n |-> f[a + i]]
    BY <2>1, <2>2, PartOf
  <2>4. SubSeq(f, a + 1, Len(f)) = [i \in 1..n |-> f[a + i]]
    BY <2>1, <2>3
  <2> QED
    BY <2>4 DEF f, a
<1>4. Unread(c) = [i \in 1..n |-> buffer[c][Front(c) + i - 1]]
  BY <1>1 DEF Unread
<1>5. \A i \in 1..n : buffer[c][Front(c) + i - 1] = fed[c][taken[c] + i]
  BY DEF Good, Backlog
<1> QED
  BY <1>3, <1>4, <1>5

\* The same for what a handler read.
LEMMA ReadRightIsIntact ==
  ASSUME Parts, NEW c \in Clients, Good(c), NEW k \in 1..Len(handled[c])
  PROVE  Intact(c, handled[c][k])
<1> DEFINE h == handled[c][k]
           n == Len(h.units)
           a == h.first
<1>1. h \in Entries
  BY OfClient
<1>2. a \in Nat /\ h.units \in Seq(Cells) /\ n \in Nat
  BY <1>1 DEF Entries
<1>3. a + n <= Len(fed[c]) /\ \A i \in 1..n : h.units[i] = fed[c][a + i]
  BY DEF Good, ReadRight
<1> HIDE DEF h
<1>4. h.units = [i \in 1..n |-> h.units[i]]
  BY <1>2
<1>5. SubSeq(fed[c], a + 1, a + n) = [i \in 1..n |-> fed[c][a + i]]
  <2> HIDE DEF n, a
  <2>1. fed[c] \in Seq(Units)
    BY OfClient
  <2> QED
    BY <1>2, <1>3, <2>1, PartOf
<1>6. h.units = SubSeq(fed[c], a + 1, a + n)
  BY <1>3, <1>4, <1>5
<1> QED
  BY <1>3, <1>6 DEF Intact, h

(* As long as no window slides while the process thread is between            *)
(* DequePacketData and the end of the handler, what is unread in a client's   *)
(* buffer is, unit by unit, what was received and not taken, over any number  *)
(* of sessions (User.h:71-125).                                               *)
THEOREM TheWindowIsTheBacklog == Spec => []WindowIsBacklog
<1>1. Typed /\ [Next]_vars => Typed'
  BY TypedStep
<1>2. Typed /\ Unraced /\ [Next]_vars => Unraced'
  BY UnracedStep
<1>3. Typed /\ Unraced => WindowIsBacklog
  BY TypedParts, BacklogIsUnread DEF Unraced, WindowIsBacklog
<1> QED
  BY InitTyped, InitUnraced, <1>1, <1>2, <1>3, PTL DEF Spec

(* ... and each handler reads exactly the units GetPacket took for it, out of *)
(* the buffer a worker may be writing to (User.h:102-125,                     *)
(* PacketManager.cpp:117-167).                                                *)
THEOREM EveryRequestIsIntact == Spec => []RequestsIntact
<1>1. Typed /\ [Next]_vars => Typed'
  BY TypedStep
<1>2. Typed /\ Unraced /\ [Next]_vars => Unraced'
  BY UnracedStep
<1>3. Typed /\ Unraced => RequestsIntact
  BY TypedParts, ReadRightIsIntact DEF Unraced, RequestsIntact
<1> QED
  BY InitTyped, InitUnraced, <1>1, <1>2, <1>3, PTL DEF Spec

(* No access outside a buffer crashes the server unless a window slid while   *)
(* the process thread used it: the copies of SetPacketData always fit         *)
(* (User.h:71-100).                                                           *)
THEOREM OnlyARaceCrashes == Spec => [](alive \/ \E c \in Clients : raced[c])
<1> DEFINE Ok == alive \/ \E c \in Clients : raced[c]
<1>1. Typed /\ [Next]_vars => Typed'
  BY TypedStep
<1>2. Typed /\ Unraced /\ [Next]_vars => Unraced'
  BY UnracedStep
<1>3. Typed /\ Unraced /\ Ok /\ [Next]_vars => Ok'
  BY UnracedStep
<1>4. Init => Ok
  BY DEF Init
<1> QED
  BY InitTyped, InitUnraced, <1>1, <1>2, <1>3, <1>4, PTL DEF Spec
----------------------------------------------------------------------------
(* Counting the ends of packets, and the turns of the process thread.         *)

\* A set of numbers is all of Nat when it has 0 and every successor: a least
\* number outside it would be the successor of one inside.
LEMMA Induction ==
  ASSUME NEW S, 0 \in S, \A n \in Nat : n \in S => n + 1 \in S
  PROVE  Nat \subseteq S
<1> DEFINE T == Nat \ S
           R == {p \in Nat \X Nat : p[1] < p[2]}
<1> SUFFICES ASSUME T # {}
             PROVE  FALSE
  OBVIOUS
<1>1. IsWellFoundedOn(R, Nat)
  BY NatLessThanWellFounded DEF OpToRel
<1>2. \A x, y \in Nat : y < x => <<y, x>> \in R
  OBVIOUS
<1>3. T \subseteq Nat
  OBVIOUS
<1> HIDE DEF R
<1>4. PICK x \in T : \A y \in T : ~ (<<y, x>> \in R)
  BY <1>1, <1>3, WFMin
<1>5. x \in Nat /\ x # 0
  OBVIOUS
<1>6. x - 1 \in Nat /\ x - 1 < x /\ (x - 1) + 1 = x
  BY <1>5
<1>7. <<x - 1, x>> \in R
  BY <1>2, <1>5, <1>6
<1>8. x - 1 \in S
  BY <1>4, <1>6, <1>7
<1> QED
  BY <1>6, <1>8

\* Where a packet starts, its places follow each other up to its length.
LEMMA PacketShape ==
  ASSUME NEW k \in 1..Len(Stream), FirstOf(Stream[k])
  PROVE  \A j \in Nat : j < Stream[k].len /\ k + j <= Len(Stream)
           => Stream[k + j].o = j /\ Stream[k + j].len = Stream[k].len
<1> DEFINE L == Stream[k].len
           N == Len(Stream)
           S == {j \in Nat : j < L /\ k + j <= N => Stream[k + j].o = j /\ Stream[k + j].len = L}
<1>1. N \in Nat /\ k \in Nat /\ k >= 1 /\ L \in Nat
  BY Sizes
<1>2. 0 \in S
  BY <1>1 DEF FirstOf
<1>3. ASSUME NEW j \in Nat, j \in S
      PROVE  j + 1 \in S
  <2> SUFFICES ASSUME j + 1 < L, k + (j + 1) <= N
               PROVE  Stream[k + (j + 1)].o = j + 1 /\ Stream[k + (j + 1)].len = L
    OBVIOUS
  <2>1. j < L /\ k + j <= N /\ k + (j + 1) \in 2..N /\ (k + (j + 1)) - 1 = k + j /\ k + j \in 1..N
    BY <1>1
  <2>2. Stream[k + j].o = j /\ Stream[k + j].len = L
    BY <1>3, <2>1
  <2>3. ~LastOf(Stream[k + j])
    BY <1>1, <2>2 DEF LastOf
  <2>4. Stream[k + (j + 1)] = [Stream[k + j] EXCEPT !.o = Stream[k + j].o + 1]
    BY <2>1, <2>3, PacketAssumption
  <2>5. Stream[k + j] \in [o : Nat, len : Nat \ {0}, id : Ids]
    BY <2>1, Sizes
  <2> QED
    BY <2>2, <2>4, <2>5
<1> HIDE DEF S
<1>4. Nat \subseteq S
  BY <1>2, <1>3, Induction
<1> QED
  BY <1>4 DEF S

\* After the end of a packet another one starts, and at the start.
LEMMA AfterLastIsFirst ==
  ASSUME NEW k \in Nat, k + 1 <= Len(Stream), k = 0 \/ LastOf(Stream[k])
  PROVE  FirstOf(Stream[k + 1])
<1>1. CASE k = 0
  BY <1>1, PacketAssumption
<1>2. CASE k # 0 /\ LastOf(Stream[k])
  <2>1. k + 1 \in 2..Len(Stream) /\ (k + 1) - 1 = k
    BY <1>2, Sizes
  <2> QED
    BY <1>2, <2>1, PacketAssumption
<1> QED
  BY <1>1, <1>2

\* The ends in a range of units.
EndsIn(i, j) == {k \in i..j : LastOf(Stream[k])}

\* They are finitely many.
LEMMA EndsType ==
  ASSUME NEW i \in Int, NEW j \in Int
  PROVE  IsFiniteSet(EndsIn(i, j)) /\ Ends(i, j) \in Nat /\ Ends(i, j) = Cardinality(EndsIn(i, j))
<1>1. IsFiniteSet(i..j) /\ EndsIn(i, j) \in SUBSET (i..j)
  BY FS_Interval DEF EndsIn
<1>2. IsFiniteSet(EndsIn(i, j))
  BY <1>1, FS_Subset
<1> QED
  BY <1>2, FS_CardinalityType DEF Ends, EndsIn

\* They add up.
LEMMA EndsSplit ==
  ASSUME NEW i \in Int, NEW m \in Int, NEW j \in Int, i <= m + 1, m <= j
  PROVE  Ends(i, j) = Ends(i, m) + Ends(m + 1, j)
<1> DEFINE A == EndsIn(i, m)
           B == EndsIn(m + 1, j)
<1>1. A \cup B = EndsIn(i, j) /\ A \cap B = {}
  BY DEF EndsIn
<1>2. m + 1 \in Int
  OBVIOUS
<1>3. /\ IsFiniteSet(A) /\ IsFiniteSet(B) /\ Ends(i, m) = Cardinality(A)
      /\ Ends(m + 1, j) = Cardinality(B) /\ Ends(i, j) = Cardinality(EndsIn(i, j))
      /\ Cardinality(A) \in Nat /\ Cardinality(B) \in Nat
  BY <1>2, EndsType
<1> HIDE DEF A, B
<1>4. Cardinality(A \cup B) = Cardinality(A) + Cardinality(B) - Cardinality(A \cap B)
  BY <1>3, FS_Union
<1>5. Cardinality(A \cap B) = 0
  BY <1>1, FS_EmptySet
<1> DEFINE a == Cardinality(A)
           b == Cardinality(B)
<1>6. a \in Nat /\ b \in Nat /\ Cardinality(A \cup B) = a + b - 0
  BY <1>3, <1>4, <1>5
<1>7. Ends(i, j) = Cardinality(A \cup B) /\ Ends(i, m) = a /\ Ends(m + 1, j) = b
  BY <1>1, <1>3
<1> HIDE DEF a, b
<1> QED
  BY <1>6, <1>7

\* There are none where no unit is an end ...
LEMMA EndsNone ==
  ASSUME NEW i \in Int, NEW j \in Int, \A k \in i..j : ~LastOf(Stream[k])
  PROVE  Ends(i, j) = 0
<1>1. EndsIn(i, j) = {}
  BY DEF EndsIn
<1> QED
  BY <1>1, EndsType, FS_EmptySet

\* ... one at least where one is.
LEMMA EndsSome ==
  ASSUME NEW i \in Int, NEW j \in Int, NEW k \in i..j, LastOf(Stream[k])
  PROVE  Ends(i, j) >= 1
<1>1. EndsIn(i, j) # {}
  BY DEF EndsIn
<1>2. Cardinality(EndsIn(i, j)) # 0
  BY <1>1, EndsType, FS_EmptySet
<1> QED
  BY <1>2, EndsType

\* The notices for c in the queue.
Notices(q, c) == Cardinality({i \in 1..Len(q) : q[i] = c})

\* They are finitely many, too.
LEMMA NoticesType ==
  ASSUME NEW q \in Seq(Clients), NEW c
  PROVE  IsFiniteSet({i \in 1..Len(q) : q[i] = c}) /\ Notices(q, c) \in Nat
<1>1. IsFiniteSet(1..Len(q)) /\ {i \in 1..Len(q) : q[i] = c} \in SUBSET (1..Len(q))
  BY FS_Interval
<1>2. IsFiniteSet({i \in 1..Len(q) : q[i] = c})
  BY <1>1, FS_Subset
<1> QED
  BY <1>2, FS_CardinalityType DEF Notices

\* Entering a client adds a notice for it, and only for it.
LEMMA NoticesAppended ==
  ASSUME NEW q \in Seq(Clients), NEW c, NEW d \in Clients
  PROVE  /\ d = c => Notices(Append(q, d), c) = Notices(q, c) + 1
         /\ d # c => Notices(Append(q, d), c) = Notices(q, c)
<1> DEFINE A == {i \in 1..Len(q) : q[i] = c}
           B == {i \in 1..Len(Append(q, d)) : Append(q, d)[i] = c}
<1>1. /\ Len(q) \in Nat /\ Len(Append(q, d)) = Len(q) + 1 /\ Append(q, d)[Len(q) + 1] = d
      /\ \A i \in 1..Len(q) : Append(q, d)[i] = q[i]
  BY Appended
<1>2. Len(q) + 1 \notin A
  BY <1>1
<1>3. IsFiniteSet(A) /\ Cardinality(A) \in Nat
  BY NoticesType DEF Notices
<1>4. CASE d = c
  <2>1. B = A \cup {Len(q) + 1}
    BY <1>1, <1>4
  <2> HIDE DEF A, B
  <2>2. Cardinality(B) = Cardinality(A) + 1
    BY <1>2, <1>3, <2>1, FS_AddElement
  <2> QED
    BY <1>4, <2>2 DEF Notices, A, B
<1>5. CASE d # c
  <2>1. B = A
    BY <1>1, <1>5
  <2> QED
    BY <1>5, <2>1 DEF Notices
<1> QED
  BY <1>4, <1>5

\* Taking the front removes a notice for it, and only for it.
LEMMA NoticesTail ==
  ASSUME NEW q \in Seq(Clients), q # <<>>, NEW c
  PROVE  /\ Head(q) = c => Notices(q, c) = Notices(Tail(q), c) + 1
         /\ Head(q) # c => Notices(q, c) = Notices(Tail(q), c)
<1> DEFINE A == {i \in 1..Len(q) : q[i] = c}
           D == {i \in 2..Len(q) : q[i] = c}
           B == {i \in 1..Len(Tail(q)) : Tail(q)[i] = c}
           f == [i \in B |-> i + 1]
<1>1. /\ Len(q) \in Nat /\ Len(q) >= 1 /\ Len(Tail(q)) = Len(q) - 1 /\ Head(q) = q[1]
      /\ \A i \in 1..(Len(q) - 1) : Tail(q)[i] = q[i + 1]
  OBVIOUS
<1>2. Tail(q) \in Seq(Clients)
  BY FrontOfQueue
<1>3. IsFiniteSet(B) /\ Cardinality(B) \in Nat
  BY <1>2, NoticesType DEF Notices
<1>4. f \in Bijection(B, D)
  <2>1. \A i \in B : i + 1 \in D
    BY <1>1
  <2>2. f \in [B -> D]
    BY <2>1
  <2>3. \A a, b \in B : f[a] = f[b] => a = b
    BY <1>1
  <2>4. \A k \in D : \E i \in B : f[i] = k
    <3> SUFFICES ASSUME NEW k \in D PROVE \E i \in B : f[i] = k
      OBVIOUS
    <3>1. k - 1 \in B /\ (k - 1) + 1 = k
      BY <1>1
    <3> QED
      BY <3>1
  <2> QED
    BY <2>2, <2>3, <2>4 DEF Bijection, Injection, Surjection, IsInjective
<1>5. IsFiniteSet(D) /\ Cardinality(D) = Cardinality(B)
  BY <1>3, <1>4, FS_Bijection DEF ExistsBijection
<1>6. 1 \notin D
  BY <1>1
<1>7. CASE Head(q) = c
  <2>1. A = D \cup {1}
    BY <1>1, <1>7
  <2> HIDE DEF A, B, D
  <2>2. Cardinality(A) = Cardinality(D) + 1
    BY <1>5, <1>6, <2>1, FS_AddElement
  <2> QED
    BY <1>5, <1>7, <2>2 DEF Notices, A, B
<1>8. CASE Head(q) # c
  <2>1. A = D
    BY <1>1, <1>8
  <2> QED
    BY <1>5, <1>8, <2>1 DEF Notices
<1> QED
  BY <1>7, <1>8

(* Units are numbered as they were sent in the slot's first session, and when *)
(* packets are not coalesced what is being received ends one at most.         *)
Numbered(c) ==
  /\ slot[c] = "free" => sent[c] = 0 /\ session[c] = 0
  /\ session[c] <= 1 => sent[c] = Len(fed[c]) /\ \A i \in 1..Len(fed[c]) : fed[c][i].k = i
  /\ ~Coalesce /\ rx[c].at \in Active => Ends(sent[c] + 1, sent[c] + rx[c].n) <= 1

\* No session has begun.
LEMMA InitNumbered == Init => \A c \in Clients : Numbered(c)
BY DEF Init, Numbered, NoRecv, Active

\* Only what c's own worker does to its session, or a next session, renumbers.
LEMMA NumberedElsewhere ==
  ASSUME NEW c, Numbered(c), sent'[c] = sent[c], fed'[c] = fed[c], session'[c] = session[c],
         slot'[c] = "free" => slot[c] = "free",
         \/ rx'[c].at \in Active => rx[c].at \in Active /\ rx'[c].n = rx[c].n
  PROVE  Numbered(c)'
BY DEF Numbered, Ends

\* Every step keeps the units numbered.
LEMMA NumberedStep ==
  ASSUME Parts, NEW d \in Clients, Numbered(d), [Next]_vars
  PROVE  Numbered(d)'
<1>1. /\ sent[d] \in Nat /\ session[d] \in Nat /\ rx[d].n \in Nat /\ rx[d] \in Receives
      /\ fed[d] \in Seq(Units) /\ Len(fed[d]) \in Nat
  BY Sizes, OfClient DEF Parts, SessionTypes
<1>2. CASE UNCHANGED <<rx, sent, fed, slot, session>>
  BY <1>2, NumberedElsewhere
<1>3. ASSUME NEW c \in Clients, Accept(c) PROVE Numbered(d)'
  <2>1. /\ slot' = [slot EXCEPT ![c] = "live"] /\ session' = [session EXCEPT ![c] = session[c] + 1]
        /\ sent' = [sent EXCEPT ![c] = 0] /\ UNCHANGED <<rx, fed>>
    BY <1>3 DEF Accept
  <2>4. slot[c] = "free" \/ (slot[c] = "over" /\ rx[c] = NoRecv)
    BY <1>3 DEF Accept
  <2>2. CASE d # c
    BY <2>1, <2>2, NumberedElsewhere DEF Parts, SessionTypes, RecvTypes
  <2>3. CASE d = c
    <3>1. rx[d].at = "idle" /\ InSession(d)
      BY <2>3, <2>4 DEF Parts, InSession, NoRecv
    <3>2. slot'[d] = "live" /\ session'[d] = session[d] + 1 /\ sent'[d] = 0 /\ fed'[d] = fed[d] /\ rx'[d] = rx[d]
      BY <2>1, <2>3 DEF Parts, SessionTypes, RecvTypes
    <3>3. session'[d] <= 1 => sent[d] = 0 /\ session[d] = 0
      BY <1>1, <2>3, <2>4, <3>1, <3>2 DEF InSession, Numbered
    <3> QED
      BY <1>1, <3>1, <3>2, <3>3 DEF Numbered, Active
  <2> QED
    BY <2>2, <2>3
<1>4. ASSUME NEW c \in Clients, OnConnect(c) \/ OnClose(c) PROVE Numbered(d)'
  <2>1. /\ UNCHANGED <<rx, sent, fed, session>>
        /\ slot' = slot \/ slot' = [slot EXCEPT ![c] = "over"]
    BY <1>4 DEF OnConnect, OnClose, recvVars
  <2> QED
    BY <2>1, NumberedElsewhere DEF Parts, SessionTypes
<1>5. ASSUME NEW c \in Clients, NEW n \in 1..MaxRecv, OnReceive(c, n) PROVE Numbered(d)'
  <2>1. /\ UNCHANGED <<sent, fed, slot, session>> /\ rx' = [rx EXCEPT ![c] = [at |-> "test", n |-> n]]
        /\ Coalesce \/ Ends(sent[c] + 1, sent[c] + n) <= 1
    BY <1>5 DEF OnReceive, sessionVars
  <2>2. CASE d # c
    BY <2>1, <2>2, NumberedElsewhere DEF Parts, RecvTypes
  <2>3. CASE d = c
    <3>1. rx'[d].n = n
      BY <2>1, <2>3 DEF Parts, RecvTypes
    <3> QED
      BY <2>1, <2>3, <3>1 DEF Numbered, Ends
  <2> QED
    BY <2>2, <2>3
<1>6. ASSUME NEW c \in Clients, SlideTest(c) \/ Slide(c) \/ Rewind(c) \/ CopyIn(c) PROVE Numbered(d)'
  <2>1. /\ UNCHANGED <<sent, fed, slot, session>>
        /\ rx' = rx \/ \E l \in RxLabels : RxGo(c, l) /\ rx[c].at \in Active
    BY <1>6 DEF SlideTest, Slide, Rewind, CopyIn, sessionVars, Active, RxLabels
  <2>2. rx'[d] = rx[d] \/ (rx[d].at \in Active /\ rx'[d].n = rx[d].n)
    BY <2>1, RxGoes DEF Parts, RecvTypes
  <2> QED
    BY <2>1, <2>2, NumberedElsewhere
<1>7. ASSUME NEW c \in Clients, Advance(c) PROVE Numbered(d)'
  <2>1. /\ UNCHANGED <<slot, session>> /\ RxGo(c, "notify") /\ rx[c].at = "advance"
        /\ fed' = [fed EXCEPT ![c] = fed[c] \o Received(c)] /\ sent' = [sent EXCEPT ![c] = sent[c] + rx[c].n]
    BY <1>7 DEF Advance, sessionVars
  <2>2. "notify" \in RxLabels
    BY DEF RxLabels
  <2>3. rx'[c].at = "notify" /\ \A e \in Clients \ {c} : rx'[e] = rx[e]
    BY <2>1, <2>2, RxGoes DEF Parts, RecvTypes
  <2>4. CASE d # c
    BY <2>1, <2>3, <2>4, NumberedElsewhere DEF Parts, RecvTypes
  <2>5. CASE d = c
    <3>1. /\ Received(d) \in Seq(Units) /\ Len(Received(d)) = rx[d].n
          /\ \A i \in 1..rx[d].n : Received(d)[i] = [s |-> session[d], k |-> sent[d] + i]
      BY <2>1, <2>5, ReceivedUnits DEF Active
    <3>2. fed'[d] = fed[d] \o Received(d) /\ sent'[d] = sent[d] + rx[d].n
      BY <2>1, <2>5 DEF Parts, RecvTypes
    <3>3. /\ Len(fed'[d]) = Len(fed[d]) + rx[d].n /\ \A i \in 1..Len(fed[d]) : fed'[d][i] = fed[d][i]
          /\ \A i \in 1..rx[d].n : fed'[d][Len(fed[d]) + i] = Received(d)[i]
      <4> DEFINE f == fed[d]
                 g == Received(d)
      <4>1. f \in Seq(Units) /\ g \in Seq(Units)
        BY <1>1, <3>1
      <4> HIDE DEF f, g
      <4>2. /\ Len(f \o g) = Len(f) + Len(g) /\ \A i \in 1..Len(f) : (f \o g)[i] = f[i]
            /\ \A i \in 1..Len(g) : (f \o g)[Len(f) + i] = g[i]
        BY <4>1
      <4> QED
        BY <3>1, <3>2, <4>2 DEF f, g
    <3>4. InSession(d) /\ slot[d] # "free"
      BY <2>1, <2>5 DEF Parts, InSession
    <3>5. ASSUME session[d] <= 1, NEW i \in 1..Len(fed'[d])
          PROVE  fed'[d][i].k = i
      <4>1. sent[d] = Len(fed[d]) /\ \A j \in 1..Len(fed[d]) : fed[d][j].k = j
        BY <3>5 DEF Numbered
      <4>2. CASE i <= Len(fed[d])
        BY <1>1, <3>3, <4>1, <4>2
      <4>3. CASE i > Len(fed[d])
        <5>1. i - Len(fed[d]) \in 1..rx[d].n /\ Len(fed[d]) + (i - Len(fed[d])) = i
          BY <1>1, <3>3, <4>3
        <5>2. fed'[d][i] = [s |-> session[d], k |-> sent[d] + (i - Len(fed[d]))]
          BY <3>1, <3>3, <5>1
        <5> QED
          BY <4>1, <5>1, <5>2
      <4> QED
        BY <1>1, <3>3, <4>2, <4>3
    <3>6. session[d] <= 1 => sent'[d] = Len(fed'[d])
      BY <1>1, <3>2, <3>3 DEF Numbered
    <3> QED
      BY <2>1, <2>3, <2>5, <3>4, <3>5, <3>6 DEF Numbered, Active
  <2> QED
    BY <2>4, <2>5
<1>8. ASSUME NEW c \in Clients, EnqueuePacketData(c) PROVE Numbered(d)'
  <2>1. UNCHANGED <<sent, fed, slot, session>> /\ rx' = [rx EXCEPT ![c] = NoRecv]
    BY <1>8 DEF EnqueuePacketData, sessionVars
  <2>2. rx'[d] = rx[d] \/ rx'[d].at = "idle"
    BY <2>1 DEF Parts, RecvTypes, NoRecv
  <2> QED
    BY <2>1, <2>2, NumberedElsewhere DEF Active
<1>9. CASE ProcessPacket \/ End
  <2>1. UNCHANGED <<rx, sent, fed, slot, session>>
    BY <1>9 DEF ProcessPacket, DequeueUser, GetRemain, GetHeader, TakePacket, ProcessRecvPacket,
       ProcessSystemPacket, End, recvVars, sessionVars
  <2> QED
    BY <1>2, <2>1
<1>10. CASE UNCHANGED vars
  BY <1>2, <1>10 DEF vars, recvVars, sessionVars
<1> QED
  BY <1>3, <1>4, <1>5, <1>6, <1>7, <1>8, <1>9, <1>10 DEF Next, Step, ReceivePacketData

(* The turns promised to c, by where they are.                                *)
InNotify(c) == IF rx[c].at = "notify" THEN 1 ELSE 0
InThread(c) == IF ppc \in {"remain", "header", "take"} /\ pkt.c = c THEN 1 ELSE 0

\* What Turns adds up.
LEMMA TurnsAre ==
  ASSUME NEW c
  PROVE  Turns(c) = Notices(inq, c) + InNotify(c) + InThread(c)
BY DEF Turns, Notices, InNotify, InThread

(* GetPacket always stands at the start of a packet; a packet it takes is     *)
(* whole; and the packets that wait are at most the turns to come, one fewer  *)
(* when this turn has measured before the packet's last unit arrived.         *)
Turn(c) ==
  /\ taken[c] = 0 \/ LastOf(Stream[taken[c]])
  /\ ppc = "take" /\ pkt.c = c => taken[c] + 1 <= Len(Stream) /\ pkt.len = Stream[taken[c] + 1].len
  /\ Ends(taken[c] + 1, Len(fed[c])) <= Turns(c)
  /\ ppc = "header" /\ pkt.c = c /\ Ends(taken[c] + 1, taken[c] + pkt.rem) = 0
       => Ends(taken[c] + 1, Len(fed[c])) + 1 <= Turns(c)

\* In the first session the window is a part of the stream.
LEMMA BacklogIsStream ==
  ASSUME Parts, NEW c \in Clients, Good(c), Numbered(c), session[c] <= 1
  PROVE  /\ taken[c] \in Nat /\ Len(fed[c]) \in Nat /\ Len(Stream) \in Nat
         /\ taken[c] <= Len(fed[c]) /\ Len(fed[c]) <= Len(Stream) /\ sent[c] = Len(fed[c])
         /\ \A i \in 1..Len(fed[c]) : fed[c][i].k = i
BY OfClient, Sizes DEF Good, Backlog, Numbered, Parts, RecvTypes

\* A step that leaves c's window and turns alone keeps its promise.
LEMMA TurnKept ==
  ASSUME NEW c, Turn(c), taken'[c] = taken[c], fed'[c] = fed[c], Turns(c)' = Turns(c),
         UNCHANGED <<ppc, pkt>> \/ ppc' \notin {"header", "take"} \/ pkt'.c # c
  PROVE  Turn(c)'
BY DEF Turn, Ends

\* The same for a step of a worker that enters no notice.
LEMMA TurnOfOthers ==
  ASSUME NEW c, Turn(c), taken'[c] = taken[c], fed'[c] = fed[c],
         UNCHANGED <<inq, ppc, pkt>>, rx'[c].at = "notify" <=> rx[c].at = "notify"
  PROVE  Turn(c)'
<1>1. Turns(c)' = Turns(c)
  BY DEF Turns
<1> QED
  BY <1>1, TurnKept

\* A receive ends one packet at most, and its notice is one more turn.
LEMMA AdvanceKeepsTurn ==
  ASSUME Parts, NEW c \in Clients, Advance(c), Good(c), Numbered(c), session[c] <= 1, ~Coalesce, Turn(c)
  PROVE  Turn(c)'
<1>1. /\ UNCHANGED <<inq, ppc, pkt, taken>> /\ RxGo(c, "notify") /\ rx[c].at = "advance"
      /\ fed' = [fed EXCEPT ![c] = fed[c] \o Received(c)]
  BY DEF Advance, queueVars, threadVars, takenVars
<1> DEFINE t == taken[c]
           m == Len(fed[c])
           n == rx[c].n
           q == Notices(inq, c)
           p == InThread(c)
<1>2. t \in Nat /\ m \in Nat /\ n \in Nat /\ t <= m /\ sent[c] = m
  BY BacklogIsStream, OfClient
<1>3. q \in Nat /\ p \in {0, 1}
  BY NoticesType DEF Parts, QueueTypes, InThread
<1>4. Turns(c) = q + 0 + p
  <2>1. InNotify(c) = 0
    BY <1>1 DEF InNotify
  <2> QED
    BY <2>1, TurnsAre
<1>5. Turns(c)' = q + 1 + p
  <2>1. "notify" \in RxLabels
    BY DEF RxLabels
  <2>2. rx'[c].at = "notify"
    BY <1>1, <2>1, RxGoes DEF Parts, RecvTypes
  <2>3. InNotify(c)' = 1 /\ InThread(c)' = p /\ Notices(inq, c)' = q
    BY <1>1, <2>2 DEF InNotify, InThread, Notices
  <2>4. Turns(c)' = Notices(inq, c)' + InNotify(c)' + InThread(c)'
    BY DEF Turns, Notices, InNotify, InThread
  <2> QED
    BY <2>3, <2>4
<1>6. Len(fed'[c]) = m + n
  <2>1. Received(c) \in Seq(Units) /\ Len(Received(c)) = n /\ fed[c] \in Seq(Units)
    BY <1>1, ReceivedUnits, OfClient DEF Active
  <2>2. fed'[c] = fed[c] \o Received(c)
    BY <1>1 DEF Parts, RecvTypes
  <2> DEFINE f == fed[c]
             g == Received(c)
  <2>3. f \in Seq(Units) /\ g \in Seq(Units) /\ Len(f) = m /\ Len(g) = n /\ fed'[c] = f \o g
    BY <2>1, <2>2
  <2> HIDE DEF f, g, m, n
  <2>4. f \in Seq(Units) /\ g \in Seq(Units)
    BY <2>3
  <2>5. Len(f \o g) = Len(f) + Len(g)
    BY <2>4
  <2> QED
    BY <2>3, <2>5
<1>7. Ends(m + 1, m + n) <= 1
  BY <1>1, <1>2 DEF Numbered, Active
<1> HIDE DEF t, m, n, q, p
<1> DEFINE x == Ends(t + 1, m)
           y == Ends(m + 1, m + n)
           z == Ends(t + 1, m + n)
<1>8. z = x + y
  <2>1. t + 1 \in Int /\ m \in Int /\ m + n \in Int /\ t + 1 <= m + 1 /\ m <= m + n
    BY <1>2
  <2> HIDE DEF x, y, z
  <2> QED
    BY <2>1, EndsSplit DEF x, y, z
<1>9. x \in Nat /\ y \in Nat /\ z \in Nat /\ y <= 1
  <2>1. t + 1 \in Int /\ m \in Int /\ m + n \in Int /\ m + 1 \in Int
    BY <1>2
  <2> QED
    BY <1>7, <2>1, EndsType
<1> HIDE DEF x, y, z
<1>10. x <= q + 0 + p
  BY <1>4 DEF Turn, t, m, x
<1>11. z <= q + 1 + p
  BY <1>3, <1>8, <1>9, <1>10
<1>12. Ends(taken[c] + 1, Len(fed[c]))' = z
  BY <1>1, <1>6 DEF t, z, Ends
<1>13. ASSUME ppc = "header", pkt.c = c, Ends(taken[c] + 1, taken[c] + pkt.rem) = 0
       PROVE  z + 1 <= q + 1 + p
  <2>1. x + 1 <= q + 0 + p
    BY <1>4, <1>13 DEF Turn, t, m, x
  <2> QED
    BY <1>3, <1>8, <1>9, <2>1
<1> QED
  BY <1>1, <1>5, <1>11, <1>12, <1>13 DEF Turn, Ends

\* The notice is entered in the queue.
LEMMA EnqueueKeepsTurn ==
  ASSUME Parts, NEW c \in Clients, EnqueuePacketData(c), NEW d \in Clients, Turn(d)
  PROVE  Turn(d)'
<1>1. /\ rx[c].at = "notify" /\ inq' = Append(inq, c) /\ rx' = [rx EXCEPT ![c] = NoRecv]
      /\ UNCHANGED <<ppc, pkt, fed, taken>>
  BY DEF EnqueuePacketData, threadVars, takenVars
<1>2. inq \in Seq(Clients) /\ Notices(inq, d) \in Nat /\ InThread(d) \in {0, 1} /\ InNotify(d) \in {0, 1}
  BY NoticesType DEF Parts, QueueTypes, InThread, InNotify
<1>3. Notices(inq, d)' + InNotify(d)' = Notices(inq, d) + InNotify(d)
  <2>3. Notices(inq, d)' = Notices(Append(inq, c), d)
    BY <1>1 DEF Notices
  <2>1. CASE d = c
    <3>1. Notices(inq, d)' = Notices(inq, d) + 1
      BY <1>2, <2>1, <2>3, NoticesAppended
    <3>2. InNotify(d) = 1 /\ InNotify(d)' = 0
      BY <1>1, <2>1 DEF InNotify, NoRecv, Parts, RecvTypes
    <3> QED
      BY <1>2, <3>1, <3>2
  <2>2. CASE d # c
    <3>1. Notices(inq, d)' = Notices(inq, d)
      BY <1>2, <2>2, <2>3, NoticesAppended
    <3>2. InNotify(d)' = InNotify(d)
      BY <1>1, <2>2 DEF InNotify, Parts, RecvTypes
    <3> QED
      BY <3>1, <3>2
  <2> QED
    BY <2>1, <2>2
<1>4. InThread(d)' = InThread(d)
  BY <1>1 DEF InThread
<1>5. Turns(d)' = Turns(d)
  <2>1. Turns(d)' = Notices(inq, d)' + InNotify(d)' + InThread(d)'
    BY DEF Turns, Notices, InNotify, InThread
  <2> QED
    BY <1>3, <1>4, <2>1, TurnsAre
<1> QED
  BY <1>1, <1>5, TurnKept

\* A notice that leaves the queue becomes the turn of its client.
LEMMA DequeueKeepsTurn ==
  ASSUME Parts, DequeueUser, NEW d \in Clients, Turn(d)
  PROVE  Turn(d)'
<1>1. UNCHANGED <<rx, fed, taken>> /\ ppc = "loop" /\ ppc' \in {"exit", "system", "remain"}
  BY DEF DequeueUser, ThreadGo, recvVars, takenVars
<1>2. inq \in Seq(Clients) /\ InThread(d) = 0 /\ InNotify(d)' = InNotify(d) /\ InNotify(d) \in {0, 1}
  BY <1>1 DEF Parts, QueueTypes, InThread, InNotify
<1>3. Notices(inq, d)' + InThread(d)' = Notices(inq, d) + 0
  <2>1. CASE UNCHANGED <<inq, pkt>> /\ ppc' \in {"exit", "system"}
    BY <1>2, <2>1, NoticesType DEF InThread, Notices
  <2>2. CASE /\ inq # <<>> /\ inq' = Tail(inq) /\ pkt' = [NoPacket EXCEPT !.c = Head(inq)]
             /\ ppc' = "remain"
    <3>1. pkt'.c = Head(inq) /\ Tail(inq) \in Seq(Clients)
      BY <1>2, <2>2, FrontOfQueue DEF NoPacket
    <3>2. Notices(Tail(inq), d) \in Nat /\ Notices(inq, d) \in Nat
      BY <1>2, <3>1, NoticesType
    <3>3. Notices(inq, d)' = Notices(Tail(inq), d)
      BY <2>2 DEF Notices
    <3>4. CASE Head(inq) = d
      <4>1. InThread(d)' = 1
        BY <2>2, <3>1, <3>4 DEF InThread
      <4>2. Notices(inq, d) = Notices(Tail(inq), d) + 1
        BY <1>2, <2>2, <3>4, NoticesTail
      <4> QED
        BY <3>2, <3>3, <4>1, <4>2
    <3>5. CASE Head(inq) # d
      <4>1. InThread(d)' = 0
        BY <2>2, <3>1, <3>5 DEF InThread
      <4>2. Notices(inq, d) = Notices(Tail(inq), d)
        BY <1>2, <2>2, <3>5, NoticesTail
      <4> QED
        BY <3>2, <3>3, <4>1, <4>2
    <3> QED
      BY <3>4, <3>5
  <2> QED
    BY <2>1, <2>2 DEF DequeueUser, ThreadGo
<1>4. Turns(d)' = Turns(d)
  <2>1. Turns(d)' = Notices(inq, d)' + InNotify(d)' + InThread(d)'
    BY DEF Turns, Notices, InNotify, InThread
  <2> DEFINE a == Notices(inq, d)'
             b == InThread(d)'
             e == Notices(inq, d)
             f == InNotify(d)
  <2>2. a \in Nat /\ b \in {0, 1} /\ e \in Nat /\ f \in {0, 1}
    <3>1. inq' \in Seq(Clients)
      BY DequeueKeepsParts DEF Parts, QueueTypes
    <3>2. Notices(inq', d) \in Nat /\ Notices(inq, d) \in Nat
      BY <1>2, <3>1, NoticesType
    <3> QED
      BY <1>2, <3>2 DEF InThread, Notices
  <2>3. a + b = e + 0 /\ Turns(d)' = a + f + b /\ Turns(d) = e + f + 0
    BY <1>2, <1>3, <2>1, TurnsAre
  <2> HIDE DEF a, b, e, f
  <2> QED
    BY <2>2, <2>3
<1> QED
  BY <1>1, <1>4, TurnKept

\* GetPacket measures all that was received.
LEMMA GetRemainKeepsTurn ==
  ASSUME Parts, GetRemain, NEW d \in Clients, Good(d), ~(Sliding(d) /\ Using(d)), Turn(d)
  PROVE  Turn(d)'
<1>1. /\ UNCHANGED <<inq, rx, fed, taken>> /\ ppc = "remain" /\ ppc' = "header"
      /\ pkt' = [pkt EXCEPT !.rem = Minus(wPos[pkt.c], rPos[pkt.c])]
  BY DEF GetRemain, ThreadGo, queueVars, recvVars, takenVars
<1>2. pkt'.c = pkt.c /\ pkt'.rem = Minus(wPos[pkt.c], rPos[pkt.c])
  BY <1>1 DEF Parts, ThreadTypes, Locals
<1>3. Turns(d)' = Turns(d)
  BY <1>1, <1>2 DEF Turns
<1>4. CASE pkt.c # d
  BY <1>1, <1>2, <1>3, <1>4, TurnKept
<1>5. CASE pkt.c = d
  <2>1. Front(d) = rPos[d]
    BY <1>1, <1>5 DEF Using, Sliding, Front
  <2>2. rPos[d] \in 0..wPos[d] /\ wPos[d] - rPos[d] = Len(fed[d]) - taken[d]
    BY <2>1, OfClient DEF Good, Backlog
  <2>3. Minus(wPos[d], rPos[d]) = wPos[d] - rPos[d]
    BY <2>2, OfClient, MinusIs
  <2>4. taken[d] + pkt'.rem = Len(fed[d])
    BY <1>2, <1>5, <2>2, <2>3, OfClient
  <2>5. Turns(d)' >= 1
    <3> DEFINE a == Notices(inq, d)'
               b == InNotify(d)'
    <3>1. a \in Nat /\ b \in {0, 1} /\ InThread(d)' = 1
      <4>1. Notices(inq, d) \in Nat
        BY NoticesType DEF Parts, QueueTypes
      <4> QED
        BY <1>1, <1>2, <1>5, <4>1 DEF Notices, InNotify, InThread
    <3>2. Turns(d)' = a + b + 1
      BY <3>1 DEF Turns, Notices, InNotify, InThread
    <3> HIDE DEF a, b
    <3> QED
      BY <3>1, <3>2
  <2>6. Ends(taken[d] + 1, taken[d] + pkt.rem)' = 0 => Ends(taken[d] + 1, Len(fed[d]))' + 1 <= Turns(d)'
    <3>1. Ends(taken[d] + 1, taken[d] + pkt.rem)' = Ends(taken[d] + 1, Len(fed[d]))'
      BY <1>1, <2>4 DEF Ends
    <3> HIDE DEF Ends
    <3> QED
      BY <2>5, <3>1
  <2> QED
    BY <1>1, <1>3, <2>6 DEF Turn, Ends
<1> QED
  BY <1>4, <1>5

\* What GetPacket reads at the front of a backlog is the header of its packet.
LEMMA HeaderIsRead ==
  ASSUME Parts, NEW c \in Clients, Good(c), Numbered(c), session[c] <= 1, Turn(c),
         ppc = "header", pkt.c = c, ~Sliding(c), pkt.rem # 0
  PROVE  /\ taken[c] + 1 <= Len(fed[c]) /\ taken[c] + pkt.rem <= Len(fed[c]) /\ pkt.rem \in Nat
         /\ FirstOf(Stream[taken[c] + 1])
         /\ \A h \in HeaderAt(c, rPos[c]) : h.len = Stream[taken[c] + 1].len
<1> DEFINE t == taken[c]
           m == Len(fed[c])
           u == buffer[c][rPos[c]]
<1>1. /\ t \in Nat /\ m \in Nat /\ t <= m /\ m <= Len(Stream) /\ Len(Stream) \in Nat
      /\ \A i \in 1..m : fed[c][i].k = i
  BY BacklogIsStream
<1>2. pkt.rem \in Nat /\ pkt.rem <= wPos[c] - rPos[c] /\ rPos[c] \in Nat /\ wPos[c] \in 0..BufferSize
      /\ BufferSize \in Nat
  BY OfClient, Sizes DEF Good, Reading, Parts, ThreadTypes, Locals
<1>3. Front(c) = rPos[c]
  BY DEF Front, Sliding
<1>4. /\ wPos[c] - rPos[c] = m - t
      /\ \A i \in 1..(m - t) : buffer[c][rPos[c] + i - 1] = fed[c][t + i]
  BY <1>3 DEF Good, Backlog
<1>5. t + 1 <= m /\ t + pkt.rem <= m /\ rPos[c] \in Offsets /\ rPos[c] + 1 - 1 = rPos[c]
  <2> HIDE DEF t, m
  <2> QED
    BY <1>1, <1>2, <1>4 DEF Offsets
<1>6. u = fed[c][t + 1]
  <2>1. 1 \in 1..(m - t)
    BY <1>1, <1>5
  <2>2. buffer[c][rPos[c] + 1 - 1] = fed[c][t + 1]
    BY <1>4, <2>1
  <2> QED
    BY <1>5, <2>2
<1>7. u \in Units /\ u.k = t + 1
  <2>1. fed[c] \in Seq(Units) /\ t + 1 \in 1..m
    BY <1>1, <1>5, OfClient
  <2> QED
    BY <1>1, <1>6, <2>1
<1>8. u # Junk
  BY <1>7 DEF Units, Junk
<1>9. FirstOf(Stream[t + 1])
  BY <1>1, <1>5, AfterLastIsFirst DEF Turn
<1>10. HeaderAt(c, rPos[c]) = {[len |-> Stream[t + 1].len, id |-> Stream[t + 1].id]}
  BY <1>5, <1>7, <1>8, <1>9 DEF HeaderAt
<1> QED
  BY <1>2, <1>5, <1>9, <1>10

\* A packet that does not end among the units measured has no end among them.
LEMMA NotYetWhole ==
  ASSUME NEW t \in Nat, NEW r \in Nat, t + r <= Len(Stream),
         r = 0 \/ (FirstOf(Stream[t + 1]) /\ Stream[t + 1].len > r)
  PROVE  Ends(t + 1, t + r) = 0
<1> SUFFICES ASSUME NEW k \in (t + 1)..(t + r), LastOf(Stream[k])
             PROVE  FALSE
  BY EndsNone
<1>1. r # 0 /\ t + 1 \in 1..Len(Stream) /\ k \in 1..Len(Stream)
  BY Sizes
<1>2. Stream[t + 1].len \in Nat
  BY <1>1, Sizes
<1>3. k - (t + 1) \in Nat /\ k - (t + 1) < Stream[t + 1].len - 1 /\ (t + 1) + (k - (t + 1)) = k
  BY <1>1, <1>2
<1>4. Stream[k].o = k - (t + 1) /\ Stream[k].len = Stream[t + 1].len
  <2> DEFINE j == k - (t + 1)
             f == t + 1
             l == Stream[f].len
  <2>1. \A i \in Nat : i < l /\ f + i <= Len(Stream) => Stream[f + i].o = i /\ Stream[f + i].len = l
    BY <1>1, PacketShape
  <2>2. j \in Nat /\ j < l /\ f + j = k /\ k <= Len(Stream)
    BY <1>1, <1>2, <1>3, Sizes
  <2> HIDE DEF j, f, l
  <2>3. Stream[f + j].o = j /\ Stream[f + j].len = l
    BY <2>1, <2>2
  <2> QED
    BY <2>2, <2>3 DEF j, f, l
<1> QED
  BY <1>2, <1>3, <1>4 DEF LastOf

\* GetPacket gives up only on a packet whose notice is still to come, and
\* otherwise is right about its length.
LEMMA GetHeaderKeepsTurn ==
  ASSUME Parts, GetHeader, NEW d \in Clients, Good(d), ~(Sliding(d) /\ Using(d)),
         Numbered(d), session[d] <= 1, Turn(d)
  PROVE  Turn(d)'
<1>1. UNCHANGED <<inq, rx, fed, taken>> /\ ppc = "header" /\ ppc' \in {"system", "take"}
  BY DEF GetHeader, ThreadGo, queueVars, recvVars, takenVars
<1> DEFINE a == Notices(inq, d)
           b == InNotify(d)
           x == Ends(taken[d] + 1, Len(fed[d]))
<1>2. a \in Nat /\ b \in {0, 1} /\ a' = a /\ b' = b
  BY <1>1, NoticesType DEF Parts, QueueTypes, Notices, InNotify
<1>3. Turns(d) = a + b + InThread(d) /\ Turns(d)' = a + b + InThread(d)'
  <2>1. Turns(d)' = a' + b' + InThread(d)'
    BY DEF Turns, Notices, InNotify, InThread
  <2> HIDE DEF a, b
  <2> QED
    BY <1>2, <2>1, TurnsAre DEF a, b
<1>4. x \in Nat /\ x' = x
  <2>1. taken[d] + 1 \in Int /\ Len(fed[d]) \in Int
    BY OfClient
  <2> QED
    BY <1>1, <2>1, EndsType DEF Ends
<1>5. ppc' = "take" => pkt'.c = pkt.c
  BY <1>1 DEF GetHeader, ThreadGo, Parts, ThreadTypes, Locals
<1>6. CASE pkt.c # d
  <2>1. InThread(d) = 0 /\ InThread(d)' = 0
    BY <1>1, <1>5, <1>6 DEF InThread
  <2>2. Turns(d)' = Turns(d)
    BY <1>3, <2>1
  <2> QED
    BY <1>1, <1>5, <1>6, <2>2, TurnKept
<1>7. CASE pkt.c = d
  <2>1. InThread(d) = 1 /\ ~Sliding(d)
    BY <1>1, <1>7 DEF InThread, Using
  <2>2. CASE ppc' = "system"
    <3>1. InThread(d)' = 0
      BY <2>2 DEF InThread
    <3>2. taken[d] \in Nat /\ pkt.rem \in Nat /\ Len(Stream) \in Nat /\ Len(fed[d]) \in Nat
          /\ taken[d] <= Len(fed[d]) /\ Len(fed[d]) <= Len(Stream)
      BY BacklogIsStream, Sizes DEF Parts, ThreadTypes, Locals
    <3>3. Ends(taken[d] + 1, taken[d] + pkt.rem) = 0
      <4>1. CASE pkt.rem = 0
        BY <3>2, <4>1, NotYetWhole
      <4>2. CASE pkt.rem # 0
        <5>1. PICK h \in HeaderAt(pkt.c, rPos[pkt.c]) : h.len > pkt.rem
          BY <2>2, <4>2 DEF GetHeader, ThreadGo
        <5>2. /\ taken[d] + pkt.rem <= Len(fed[d]) /\ FirstOf(Stream[taken[d] + 1])
              /\ h.len = Stream[taken[d] + 1].len
          BY <1>1, <1>7, <2>1, <4>2, <5>1, HeaderIsRead
        <5>3. taken[d] + pkt.rem <= Len(Stream)
          BY <3>2, <5>2
        <5> QED
          BY <3>2, <5>1, <5>2, <5>3, NotYetWhole
      <4> QED
        BY <4>1, <4>2
    <3>4. x + 1 <= Turns(d)
      BY <1>1, <1>7, <3>3 DEF Turn
    <3> HIDE DEF a, b, x
    <3>5. x' <= Turns(d)'
      BY <1>2, <1>3, <1>4, <2>1, <3>1, <3>4
    <3> QED
      BY <1>1, <2>2, <3>5 DEF Turn, x, Ends
  <2>3. CASE ppc' = "take"
    <3>1. InThread(d)' = 1
      BY <1>5, <1>7, <2>3 DEF InThread
    <3>2. Turns(d)' = Turns(d)
      BY <1>3, <2>1, <3>1
    <3>3. PICK h \in HeaderAt(pkt.c, rPos[pkt.c]) :
            pkt.rem # 0 /\ pkt' = [pkt EXCEPT !.at = rPos[pkt.c], !.len = h.len, !.id = h.id]
      BY <2>3 DEF GetHeader, ThreadGo
    <3>4. pkt'.len = h.len
      BY <3>3 DEF Parts, ThreadTypes, Locals
    <3>5. taken[d] + 1 <= Len(fed[d]) /\ h.len = Stream[taken[d] + 1].len
      BY <1>1, <1>7, <2>1, <3>3, HeaderIsRead
    <3>6. taken[d] + 1 <= Len(Stream)
      BY <3>5, BacklogIsStream
    <3> QED
      BY <1>1, <2>3, <3>2, <3>4, <3>5, <3>6 DEF Turn, Ends
  <2> QED
    BY <1>1, <2>2, <2>3
<1> QED
  BY <1>6, <1>7

\* The packet that is taken was one of those that waited.
LEMMA TakeKeepsTurn ==
  ASSUME Parts, TakePacket, NEW d \in Clients, Good(d), ~(Sliding(d) /\ Using(d)),
         Numbered(d), session[d] <= 1, Turn(d)
  PROVE  Turn(d)'
<1>1. /\ UNCHANGED <<inq, rx, fed>> /\ ppc = "take" /\ ppc' \in {"system", "handle"}
      /\ taken' = [taken EXCEPT ![pkt.c] = taken[pkt.c] + pkt.len]
  BY DEF TakePacket, ThreadGo, queueVars, recvVars
<1>2. InThread(d)' = 0
  BY <1>1 DEF InThread
<1> DEFINE a == Notices(inq, d)
           b == InNotify(d)
<1>3. a \in Nat /\ b \in {0, 1} /\ a' = a /\ b' = b
  BY <1>1, NoticesType DEF Parts, QueueTypes, Notices, InNotify
<1>4. Turns(d) = a + b + InThread(d) /\ Turns(d)' = a + b + 0
  <2>1. Turns(d)' = a' + b' + InThread(d)'
    BY DEF Turns, Notices, InNotify, InThread
  <2> HIDE DEF a, b
  <2> QED
    BY <1>2, <1>3, <2>1, TurnsAre DEF a, b
<1>5. CASE pkt.c # d
  <2>1. InThread(d) = 0 /\ taken'[d] = taken[d]
    BY <1>1, <1>5 DEF InThread, Parts, TakenTypes
  <2> QED
    BY <1>1, <1>4, <2>1, TurnKept
<1>6. CASE pkt.c = d
  <2> DEFINE t == taken[d]
             m == Len(fed[d])
             l == pkt.len
  <2>1. t \in Nat /\ m \in Nat /\ t <= m /\ m <= Len(Stream) /\ Len(Stream) \in Nat
    BY BacklogIsStream
  <2>2. t + 1 <= Len(Stream) /\ l = Stream[t + 1].len /\ FirstOf(Stream[t + 1])
    BY <1>1, <1>6, <2>1, AfterLastIsFirst DEF Turn
  <2>3. l \in Nat /\ l >= 1 /\ t + 1 \in 1..Len(Stream)
    <3>1. t + 1 \in 1..Len(Stream)
      BY <2>1, <2>2
    <3> QED
      BY <2>2, <3>1, Sizes
  <2>4. t + l <= m
    <3>1. l <= wPos[d] - rPos[d]
      BY <1>1, <1>6 DEF Good, Reading
    <3>2. wPos[d] - rPos[d] = m - t
      BY <1>1, <1>6 DEF Using, Sliding, Front, Good, Backlog
    <3> HIDE DEF t, m, l
    <3> QED
      BY <2>1, <2>3, <3>1, <3>2
  <2>5. LastOf(Stream[t + l])
    <3>1. l - 1 \in Nat /\ l - 1 < l /\ (t + 1) + (l - 1) = t + l /\ t + l <= Len(Stream)
      BY <2>1, <2>3, <2>4
    <3>2. Stream[t + l].o = l - 1 /\ Stream[t + l].len = l
      <4>1. \A j \in Nat : j < Stream[t + 1].len /\ (t + 1) + j <= Len(Stream)
              => Stream[(t + 1) + j].o = j /\ Stream[(t + 1) + j].len = Stream[t + 1].len
        BY <2>2, <2>3, PacketShape
      <4> HIDE DEF t, l
      <4>2. (t + 1) + (l - 1) <= Len(Stream) /\ l - 1 < Stream[t + 1].len
        BY <2>2, <3>1
      <4>3. Stream[(t + 1) + (l - 1)].o = l - 1 /\ Stream[(t + 1) + (l - 1)].len = l
        BY <2>2, <3>1, <4>1, <4>2
      <4> QED
        BY <3>1, <4>3
    <3> QED
      BY <3>2 DEF LastOf
  <2>6. taken'[d] = t + l
    BY <1>1, <1>6 DEF Parts, TakenTypes
  <2> HIDE DEF t, m, l
  <2> DEFINE x == Ends(t + 1, t + l)
             y == Ends((t + l) + 1, m)
             z == Ends(t + 1, m)
  <2>7. t + 1 \in Int /\ t + l \in Int /\ m \in Int /\ (t + l) + 1 \in Int
    BY <2>1, <2>3
  <2>8. z = x + y
    <3>1. t + 1 <= (t + l) + 1 /\ t + l <= m
      BY <2>1, <2>3, <2>4
    <3> HIDE DEF x, y, z
    <3> QED
      BY <2>7, <3>1, EndsSplit DEF x, y, z
  <2>9. x \in Nat /\ y \in Nat /\ x >= 1
    <3>1. t + l \in (t + 1)..(t + l)
      BY <2>1, <2>3
    <3>2. x >= 1
      BY <2>5, <2>7, <3>1, EndsSome
    <3> QED
      BY <2>7, <3>2, EndsType
  <2>10. z <= a + b + 1
    <3>1. InThread(d) = 1
      BY <1>1, <1>6 DEF InThread
    <3>2. z <= Turns(d)
      BY DEF Turn, t, m
    <3> QED
      BY <1>4, <3>1, <3>2
  <2> HIDE DEF x, y, z, a, b
  <2>11. y <= a + b + 0
    BY <1>3, <2>8, <2>9, <2>10
  <2>12. Ends(taken[d] + 1, Len(fed[d]))' = y
    BY <1>1, <2>6 DEF y, m, Ends
  <2> QED
    BY <1>1, <1>4, <2>5, <2>6, <2>11, <2>12 DEF Turn
<1> QED
  BY <1>5, <1>6

(* In the first session of a slot no packet is forgotten, as long as no       *)
(* window slides while the thread uses it.                                    *)
Promised ==
  /\ \A c \in Clients : Numbered(c)
  /\ ~Coalesce => \A c \in Clients : session[c] <= 1 /\ ~raced[c] => Turn(c)

\* Nothing waits at the start.
LEMMA InitPromised == Init => Promised
<1> SUFFICES ASSUME Init, NEW c \in Clients
             PROVE  Turn(c)
  BY InitNumbered DEF Promised
<1>1. taken[c] = 0 /\ Len(fed[c]) = 0 /\ ppc = "loop" /\ inq = <<>> /\ rx[c].at = "idle"
  BY DEF Init, NoRecv
<1>2. Ends(taken[c] + 1, Len(fed[c])) = 0
  <2>1. \A k \in 1..0 : ~LastOf(Stream[k])
    OBVIOUS
  <2>2. Ends(1, 0) = 0
    BY <2>1, EndsNone
  <2> QED
    BY <1>1, <2>2
<1>3. Turns(c) \in Nat
  <2>1. Notices(inq, c) \in Nat
    <3>1. inq \in Seq(Clients)
      BY <1>1
    <3> QED
      BY <3>1, NoticesType
  <2>2. InNotify(c) = 0 /\ InThread(c) = 0
    BY <1>1 DEF InNotify, InThread
  <2>3. Turns(c) = Notices(inq, c) + 0 + 0
    BY <2>2, TurnsAre
  <2> QED
    BY <2>1, <2>3
<1> QED
  BY <1>1, <1>2, <1>3 DEF Turn

\* A worker keeps every client's promise.
LEMMA WorkerKeepsTurn ==
  ASSUME Parts, NEW c \in Clients, ReceivePacketData(c), NEW d \in Clients, Good(d),
         Numbered(d), session[d] <= 1, ~Coalesce, Turn(d)
  PROVE  Turn(d)'
<1>1. ASSUME SlideTest(c) \/ Slide(c) \/ Rewind(c) \/ CopyIn(c) PROVE Turn(d)'
  <2>1. /\ UNCHANGED <<inq, ppc, pkt, fed, taken>>
        /\ rx' = rx \/ \E l \in RxLabels \ {"notify"} : RxGo(c, l) /\ rx[c].at # "notify"
    BY <1>1 DEF SlideTest, Slide, Rewind, CopyIn, queueVars, threadVars, takenVars, RxLabels
  <2>2. rx'[d].at = "notify" <=> rx[d].at = "notify"
    BY <2>1, RxGoes DEF Parts, RecvTypes
  <2> QED
    BY <2>1, <2>2, TurnOfOthers
<1>2. CASE Advance(c)
  <2>1. CASE d = c
    BY <1>2, <2>1, AdvanceKeepsTurn
  <2>2. CASE d # c
    <3>1. /\ UNCHANGED <<inq, ppc, pkt, taken>> /\ RxGo(c, "notify")
          /\ fed' = [fed EXCEPT ![c] = fed[c] \o Received(c)]
      BY <1>2 DEF Advance, queueVars, threadVars, takenVars
    <3>2. "notify" \in RxLabels
      BY DEF RxLabels
    <3>3. rx'[d] = rx[d] /\ fed'[d] = fed[d]
      BY <2>2, <3>1, <3>2, RxGoes DEF Parts, RecvTypes
    <3> QED
      BY <3>1, <3>3, TurnOfOthers
  <2> QED
    BY <2>1, <2>2
<1>3. CASE EnqueuePacketData(c)
  BY <1>3, EnqueueKeepsTurn
<1> QED
  BY <1>1, <1>2, <1>3 DEF ReceivePacketData

\* So does the process thread.
LEMMA ThreadKeepsTurn ==
  ASSUME Parts, ProcessPacket, NEW d \in Clients, Good(d), ~(Sliding(d) /\ Using(d)),
         Numbered(d), session[d] <= 1, Turn(d)
  PROVE  Turn(d)'
<1>1. CASE ProcessRecvPacket \/ ProcessSystemPacket
  <2>1. /\ UNCHANGED <<inq, rx, fed, taken>> /\ ppc \in {"handle", "system"} /\ ppc' \in {"system", "loop"}
    BY <1>1 DEF ProcessRecvPacket, ProcessSystemPacket, ThreadGo, queueVars, recvVars, takenVars
  <2>2. Turns(d)' = Turns(d)
    BY <2>1 DEF Turns
  <2> QED
    BY <2>1, <2>2, TurnKept
<1> QED
  BY <1>1, DequeueKeepsTurn, GetRemainKeepsTurn, GetHeaderKeepsTurn, TakeKeepsTurn DEF ProcessPacket

\* Every step keeps the promises.
LEMMA PromisedStep ==
  ASSUME Typed, Unraced, Promised, [Next]_vars
  PROVE  Promised'
<1>1. Parts
  BY TypedParts
<1>2. \A c \in Clients : Numbered(c)'
  BY <1>1, NumberedStep DEF Promised
<1>3. ASSUME ~Coalesce, NEW d \in Clients, session'[d] <= 1, ~raced'[d]
      PROVE  Turn(d)'
  <2>1. session[d] <= 1
    <3>1. session[d] \in Nat /\ (session'[d] = session[d] \/ session'[d] = session[d] + 1)
      <4>1. session' = session \/ \E c \in Clients : session' = [session EXCEPT ![c] = session[c] + 1]
        BY DEF Next, Step, Accept, OnConnect, OnClose, OnReceive, ReceivePacketData, SlideTest, Slide,
           Rewind, CopyIn, Advance, EnqueuePacketData, ProcessPacket, DequeueUser, GetRemain, GetHeader,
           TakePacket, ProcessRecvPacket, ProcessSystemPacket, End, vars, sessionVars
      <4> QED
        BY <1>1, <4>1, Sizes DEF Parts, SessionTypes
    <3> QED
      BY <1>3, <3>1
  <2>2. ~raced[d]
    <3>1. CASE Next
      BY <1>3, <3>1, Zenon DEF Next
    <3>2. CASE UNCHANGED vars
      BY <1>3, <3>2, Zenon DEF vars
    <3> QED
      BY <3>1, <3>2
  <2>3. Good(d) /\ ~(Sliding(d) /\ Using(d)) /\ Numbered(d) /\ Turn(d)
    BY <1>3, <2>1, <2>2, Zenon DEF Unraced, RaceSeen, Promised
  <2>4. ASSUME NEW c \in Clients, Accept(c) \/ OnConnect(c) \/ OnClose(c)
        PROVE  Turn(d)'
    <3>1. UNCHANGED <<inq, rx, ppc, pkt, fed, taken>>
      BY <2>4 DEF Accept, OnConnect, OnClose, queueVars, threadVars, recvVars, takenVars
    <3> QED
      BY <2>3, <3>1, TurnOfOthers
  <2>5. ASSUME NEW c \in Clients, NEW n \in 1..MaxRecv, OnReceive(c, n)
        PROVE  Turn(d)'
    <3>1. /\ UNCHANGED <<inq, ppc, pkt, fed, taken>> /\ rx[c] = NoRecv
          /\ rx' = [rx EXCEPT ![c] = [at |-> "test", n |-> n]]
      BY <2>5 DEF OnReceive, queueVars, threadVars, takenVars
    <3>2. rx'[d].at = "notify" <=> rx[d].at = "notify"
      BY <1>1, <3>1 DEF Parts, RecvTypes, NoRecv
    <3> QED
      BY <2>3, <3>1, <3>2, TurnOfOthers
  <2>6. ASSUME NEW c \in Clients, ReceivePacketData(c)
        PROVE  Turn(d)'
    BY <1>1, <1>3, <2>1, <2>3, <2>6, WorkerKeepsTurn
  <2>7. CASE ProcessPacket
    BY <1>1, <2>1, <2>3, <2>7, ThreadKeepsTurn
  <2>8. CASE End \/ UNCHANGED vars
    <3>1. UNCHANGED <<inq, rx, ppc, pkt, fed, taken>>
      BY <2>8 DEF End, vars, queueVars, threadVars, recvVars, takenVars
    <3> QED
      BY <2>3, <3>1, TurnOfOthers
  <2> QED
    BY <2>4, <2>5, <2>6, <2>7, <2>8 DEF Next, Step
<1> QED
  BY <1>2, <1>3 DEF Promised

\* The packets that wait in a first session are the ends behind what was taken.
LEMMA WaitingIsEnds ==
  ASSUME Parts, NEW c \in Clients, Good(c), Numbered(c), session[c] <= 1
  PROVE  Waiting(c) = Ends(taken[c] + 1, Len(fed[c]))
<1>1. /\ taken[c] \in Nat /\ Len(fed[c]) \in Nat
      /\ \A i \in 1..Len(fed[c]) : fed[c][i].k = i
  BY BacklogIsStream
<1>2. \A i \in (taken[c] + 1)..Len(fed[c]) : fed[c][i].k = i
  BY <1>1
<1>3. {i \in (taken[c] + 1)..Len(fed[c]) : LastOf(Stream[fed[c][i].k])}
        = {i \in (taken[c] + 1)..Len(fed[c]) : LastOf(Stream[i])}
  BY <1>2
<1> QED
  BY <1>3 DEF Waiting, Ends

(* A notice per receive is enough when no receive ends more than one packet:  *)
(* every complete packet that waits in the buffer has a turn of the process   *)
(* thread to come, also the one GetPacket gave up on just before its last     *)
(* unit arrived (PacketManager.cpp:99-142, User.h:102-125).                   *)
THEOREM EveryPacketIsPromised == Spec => []EveryPacketHasItsTurn
<1>1. Typed /\ [Next]_vars => Typed'
  BY TypedStep
<1>2. Typed /\ Unraced /\ [Next]_vars => Unraced'
  BY UnracedStep
<1>3. Typed /\ Unraced /\ Promised /\ [Next]_vars => Promised'
  BY PromisedStep
<1>4. Typed /\ Unraced /\ Promised => EveryPacketHasItsTurn
  <2> SUFFICES ASSUME Typed, Unraced, Promised, ~Coalesce, NEW c \in Clients, session[c] <= 1, ~raced[c]
               PROVE  Waiting(c) <= Turns(c)
    BY DEF EveryPacketHasItsTurn
  <2>1. Parts /\ Good(c) /\ Numbered(c) /\ Turn(c)
    BY TypedParts DEF Unraced, Promised
  <2>2. Waiting(c) = Ends(taken[c] + 1, Len(fed[c]))
    BY <2>1, WaitingIsEnds
  <2> QED
    BY <2>1, <2>2 DEF Turn
<1> QED
  BY InitTyped, InitUnraced, InitPromised, <1>1, <1>2, <1>3, <1>4, PTL DEF Spec
=============================================================================
