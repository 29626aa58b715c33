------------------------ MODULE ClientToServer_proofs ------------------------
(* The client's readers, however many packets the server sends: what they     *)
(* handle although the queues hold pointers to a local of another thread.     *)
EXTENDS ClientToServer, TLAPS

RpcLabels == {"test", "recv", "clear", "copy", "clearGame", "copyGame", "push", "exit"}
PcLabels == {"test", "lock", "switch", "box", "call", "exit"}
Handled == [kind : Kinds \cup {"zero"}, n : 0..MaxSent]

\* What appending one element to a sequence gives.
LEMMA Appended ==
  ASSUME NEW S, NEW s \in Seq(S), NEW e \in S
  PROVE  /\ Append(s, e) \in Seq(S)
         /\ Len(Append(s, e)) = Len(s) + 1
         /\ Append(s, e)[Len(s) + 1] = e
         /\ \A i \in 1..Len(s) : Append(s, e)[i] = s[i]
OBVIOUS

----------------------------------------------------------------------------
(* Types.                                                                     *)

\* The packets and what a cleared local reads as are records a reader may note.
LEMMA PacketsAreHandled ==
  /\ Packets \cup {Zeroed} \subseteq Handled
  /\ \A p \in Packets : QueueOf(p) \in Readers
BY ClientAssumption DEF Packets, Zeroed, Handled, QueueOf, Readers, Kinds

\* Both queues start empty.
LEMMA InitTypes == Init => TypeOK
<1> SUFFICES ASSUME Init
             PROVE  TypeOK
  OBVIOUS
<1>1. /\ queue \in [Readers -> Nat]
      /\ data \in [Readers -> Packets \cup {Zeroed}]
      /\ pc \in [Readers -> PcLabels]
      /\ case \in [Readers -> Kinds \cup {"zero"}]
  BY DEF Init, PcLabels
<1>2. /\ got \in [Readers -> Seq(Packets)]
      /\ done \in [Readers -> Seq(Handled)]
  BY DEF Init
<1>3. /\ connected \in BOOLEAN /\ alive \in BOOLEAN /\ overwritten \in BOOLEAN
      /\ holder \in Readers \cup {"none"} /\ rpc \in RpcLabels
      /\ input \in Packets \cup {Zeroed}
      /\ down \in {"no", "receiver", "lobby", "game", "closed"}
  BY DEF Init, RpcLabels
<1>4. net \in Seq(Packets) /\ sent \in 0..MaxSent
  BY ClientAssumption DEF Init
<1> QED
  BY <1>1, <1>2, <1>3, <1>4 DEF TypeOK, PcLabels, RpcLabels, Handled

\* A packet the server sends is numbered within the bound.
LEMMA ServerKeepsTypes ==
  ASSUME TypeOK, NEW kind \in Kinds, ServerSends(kind)
  PROVE  TypeOK'
<1>1. sent + 1 \in 1..MaxSent
  BY ClientAssumption DEF ServerSends, TypeOK
<1>2. [kind |-> kind, n |-> sent + 1] \in Packets
  BY <1>1 DEF Packets
<1>3. net' \in Seq(Packets) /\ sent' \in 0..MaxSent
  BY <1>1, <1>2, ClientAssumption DEF ServerSends, TypeOK
<1> QED
  BY <1>3 DEF ServerSends, TypeOK, readerVars, history

\* receive_thread keeps a packet or zeroes in its locals.
LEMMA ReceiveKeepsTypes ==
  ASSUME TypeOK, ReceiveThread
  PROVE  TypeOK'
<1> USE DEF TypeOK, readerVars, netVars, history
<1>1. CASE ReceiveTest
  BY <1>1 DEF ReceiveTest
<1>2. CASE Receive
  <2>1. CASE net = <<>>
    BY <1>2, <2>1 DEF Receive
  <2>2. CASE net # <<>>
    <3>1. PICK k \in 1..Len(net) :
            /\ input' = net[1] /\ net' = SubSeq(net, k + 1, Len(net))
            /\ got' = [got EXCEPT ![QueueOf(net[1])] = Append(@, net[1])] /\ rpc' = "clear"
      BY <1>2, <2>2 DEF Receive
    <3>2. net[1] \in Packets /\ net' \in Seq(Packets)
      BY <2>2, <3>1
    <3>3. got' \in [Readers -> Seq(Packets)]
      BY <3>1, <3>2, PacketsAreHandled
    <3> QED
      BY <1>2, <3>1, <3>2, <3>3 DEF Receive
  <2> QED
    BY <2>1, <2>2
<1>3. CASE ReceiveClear
  BY <1>3 DEF ReceiveClear, Clear
<1>4. CASE ReceiveCopy
  BY <1>4 DEF ReceiveCopy, Copy
<1>5. CASE ReceiveClearGame
  BY <1>5 DEF ReceiveClearGame, Clear
<1>6. CASE ReceiveCopyGame
  BY <1>6 DEF ReceiveCopyGame, Copy
<1>7. CASE ReceivePush
  BY <1>7 DEF ReceivePush, Readers, QueueOf
<1> QED
  BY <1>1, <1>2, <1>3, <1>4, <1>5, <1>6, <1>7 DEF ReceiveThread

(* A reader that handles something holds the mutex and has not popped the     *)
(* pointer yet, so that its queue is not empty.                               *)
Busy(t) == pc[t] \in {"switch", "box", "call"}
BusyHasOne == \A t \in Readers : Busy(t) => queue[t] > 0

\* The readers note well-formed records and never pop an empty queue.
LEMMA ReadKeepsTypes ==
  ASSUME TypeOK, BusyHasOne, NEW t \in Readers, ReadThread(t) \/ CloseBox(t)
  PROVE  TypeOK'
<1> USE DEF TypeOK, readerVars, netVars, history
<1>1. data[t] \in Handled /\ data[t].kind \in Kinds \cup {"zero"} /\ data[t].n \in 0..MaxSent
  BY PacketsAreHandled DEF Handled
<1>8. done[t] \in Seq(Handled)
  BY DEF Handled
<1>2. CASE ReadTest(t)
  BY <1>2 DEF ReadTest
<1>3. CASE ReadLock(t)
  BY <1>3 DEF ReadLock
<1>4. CASE CloseBox(t)
  BY <1>4 DEF CloseBox
<1>5. CASE Dies
  BY <1>5 DEF Dies
<1>6. CASE ReadSwitch(t) /\ ~Dies
  <2>1. queue[t] - 1 \in Nat
    BY <1>6 DEF ReadSwitch, BusyHasOne, Busy
  <2>2. Append(done[t], data[t]) \in Seq(Handled)
    BY <1>1, <1>8, Appended
  <2>3. case' \in [Readers -> Kinds \cup {"zero"}]
    BY <1>1, <1>6 DEF ReadSwitch
  <2>4. done' \in [Readers -> Seq(Handled)]
    <3>1. done' = done \/ done' = [done EXCEPT ![t] = Append(done[t], data[t])]
      BY <1>6 DEF ReadSwitch
    <3> QED
      BY <2>2, <3>1 DEF Handled
  <2>5. /\ queue' \in [Readers -> Nat]
        /\ pc' \in [Readers -> PcLabels]
        /\ holder' \in Readers \cup {"none"}
    BY <1>6, <2>1 DEF ReadSwitch, Pop, PcLabels
  <2> QED
    BY <1>6, <2>3, <2>4, <2>5 DEF ReadSwitch, PcLabels, Handled
<1>7. CASE ReadCall(t) /\ ~Dies
  <2>1. queue[t] - 1 \in Nat
    BY <1>7 DEF ReadCall, BusyHasOne, Busy
  <2>2. [kind |-> case[t], n |-> data[t].n] \in Handled
    <3>1. case[t] \in Kinds \cup {"zero"}
      OBVIOUS
    <3> QED
      BY <1>1, <3>1 DEF Handled
  <2>3. done' \in [Readers -> Seq(Handled)]
    <3>1. Append(done[t], [kind |-> case[t], n |-> data[t].n]) \in Seq(Handled)
      BY <1>8, <2>2, Appended
    <3>2. done' = [done EXCEPT ![t] = Append(done[t], [kind |-> case[t], n |-> data[t].n])]
      BY <1>7 DEF ReadCall
    <3> QED
      BY <3>1, <3>2 DEF Handled
  <2> QED
    BY <1>7, <2>1, <2>3 DEF ReadCall, Pop, Handled
<1> QED
  BY <1>2, <1>3, <1>4, <1>5, <1>6, <1>7 DEF ReadThread

\* Shutting down touches no packet.
LEMMA ShutdownKeepsTypes ==
  ASSUME TypeOK, Shutdown \/ Join
  PROVE  TypeOK'
BY DEF TypeOK, Shutdown, Join, readerVars, netVars, history

\* Only the reader itself pops, and then it is no longer busy.
LEMMA BusyStep ==
  ASSUME TypeOK, BusyHasOne, [Next]_vars
  PROVE  BusyHasOne'
<1> USE DEF TypeOK, BusyHasOne, Busy, readerVars
<1>1. CASE UNCHANGED <<queue, pc>>
  BY <1>1
<1>2. CASE ReceivePush
  BY <1>2 DEF ReceivePush
<1>3. ASSUME NEW t \in Readers, ReadTest(t) \/ ReadLock(t) \/ CloseBox(t)
      PROVE  BusyHasOne'
  BY <1>3 DEF ReadTest, ReadLock, CloseBox
<1>4. ASSUME NEW t \in Readers, ReadSwitch(t) \/ ReadCall(t)
      PROVE  BusyHasOne'
  <2>1. CASE UNCHANGED <<queue, pc>>
    BY <2>1
  <2>2. CASE pc' = [pc EXCEPT ![t] = "box"] /\ UNCHANGED queue /\ pc[t] = "switch"
    BY <2>2
  <2>3. CASE Pop(t)
    BY <2>3 DEF Pop
  <2> QED
    BY <1>4, <2>1, <2>2, <2>3 DEF ReadSwitch, ReadCall, Dies
<1> QED
  BY <1>1, <1>2, <1>3, <1>4 DEF Next, Step, vars, ReceiveThread, ReadThread, ServerSends,
     ReceiveTest, Receive, ReceiveClear, ReceiveCopy, ReceiveClearGame, ReceiveCopyGame,
     Clear, Copy, Shutdown, Join

\* Every step keeps the types.
LEMMA TypeStep ==
  ASSUME TypeOK, BusyHasOne, [Next]_vars
  PROVE  TypeOK'
<1>1. CASE UNCHANGED vars
  BY <1>1 DEF TypeOK, vars, readerVars, netVars, history
<1> QED
  BY <1>1, ServerKeepsTypes, ReceiveKeepsTypes, ReadKeepsTypes, ShutdownKeepsTypes
     DEF Next, Step

(* Every state of the client is well-typed; in particular no reader pops a    *)
(* pointer that is not there (Client_To_Server.cpp:126-175, 184-206).         *)
THEOREM ClientTypes == Spec => [](TypeOK /\ BusyHasOne)
<1>1. Init => TypeOK /\ BusyHasOne
  BY InitTypes DEF Init, BusyHasOne, Busy
<1>2. TypeOK /\ BusyHasOne /\ [Next]_vars => (TypeOK /\ BusyHasOne)'
  BY TypeStep, BusyStep
<1> QED
  BY <1>1, <1>2, PTL DEF Spec

----------------------------------------------------------------------------
(* What the in-game reader is shown.                                          *)

(* The local of the in-game queue is written only after Login_data has been   *)
(* found to hold an in-game packet, so it never shows anything else, and      *)
(* neither does what the in-game reader switched on.                          *)
InGame == {"game", "zero"}
GameLocal ==
  /\ data["game"].kind \in InGame
  /\ case["game"] \in InGame
  /\ rpc \in {"clearGame", "copyGame"} => input.kind = "game"
  /\ InGameReaderSeesNoLobbyPacket

\* At the start the local is zeroed.
LEMMA InitGameLocal == Init => GameLocal
BY DEF Init, GameLocal, InGame, InGameReaderSeesNoLobbyPacket, Readers, Zeroed

\* receive_thread writes the local only with an in-game packet.
LEMMA ReceiveKeepsGameLocal ==
  ASSUME TypeOK, GameLocal, ReceiveThread
  PROVE  GameLocal'
<1> USE DEF TypeOK, GameLocal, InGame, InGameReaderSeesNoLobbyPacket, readerVars, Readers
<1>1. UNCHANGED <<case, done>>
  BY DEF ReceiveThread, ReceiveTest, Receive, ReceiveClear, ReceiveCopy, ReceiveClearGame,
     ReceiveCopyGame, ReceivePush, Clear, Copy
<1>2. CASE ReceiveTest \/ Receive \/ ReceivePush
  BY <1>1, <1>2 DEF ReceiveTest, Receive, ReceivePush
<1>3. CASE ReceiveClear \/ ReceiveClearGame
  <2>1. data'["game"] \in {data["game"], Zeroed}
    BY <1>3 DEF ReceiveClear, ReceiveClearGame, Clear
  <2>2. rpc' \in {"copy", "copyGame"} /\ (rpc' = "copyGame" => input'.kind = "game")
    BY <1>3 DEF ReceiveClear, ReceiveClearGame, Clear
  <2> QED
    BY <1>1, <2>1, <2>2 DEF Zeroed
<1>4. CASE ReceiveCopy \/ ReceiveCopyGame
  BY <1>1, <1>4 DEF ReceiveCopy, ReceiveCopyGame, Copy
<1> QED
  BY <1>2, <1>3, <1>4 DEF ReceiveThread

\* The in-game reader notes what its local, or its switch, shows.
LEMMA ReadKeepsGameLocal ==
  ASSUME TypeOK, GameLocal, NEW t \in Readers, ReadThread(t) \/ CloseBox(t)
  PROVE  GameLocal'
<1>1. UNCHANGED <<data, rpc, input>>
  BY DEF ReadThread, CloseBox, ReadTest, ReadLock, ReadSwitch, ReadCall, Dies
<1>2. case'["game"] \in InGame
  <2>1. case' = case \/ case' = [case EXCEPT ![t] = data[t].kind]
    BY DEF ReadThread, CloseBox, ReadTest, ReadLock, ReadSwitch, ReadCall, Dies, readerVars
  <2> QED
    BY <2>1 DEF TypeOK, GameLocal, Readers
<1>3. InGameReaderSeesNoLobbyPacket'
  <2>1. \/ done' = done
        \/ \E e : done' = [done EXCEPT ![t] = Append(done[t], e)] /\ e.kind \in {data[t].kind, case[t]}
                  /\ e \in Handled
    <3>1. CASE ReadSwitch(t)
      <4>1. data[t] \in Handled
        BY PacketsAreHandled DEF TypeOK
      <4> QED
        BY <3>1, <4>1 DEF ReadSwitch, Dies
    <3>2. CASE ReadCall(t)
      <4>1. [kind |-> case[t], n |-> data[t].n] \in Handled
        <5>1. data[t] \in Handled /\ case[t] \in Kinds \cup {"zero"}
          BY PacketsAreHandled DEF TypeOK
        <5> QED
          BY <5>1 DEF Handled
      <4> QED
        BY <3>2, <4>1 DEF ReadCall, Dies
    <3> QED
      BY <3>1, <3>2 DEF ReadThread, CloseBox, ReadTest, ReadLock
  <2>2. CASE done' = done
    BY <2>2 DEF GameLocal, InGameReaderSeesNoLobbyPacket
  <2>3. CASE t # "game" /\ done' # done
    <3>1. done'["game"] = done["game"]
      BY <2>1, <2>3 DEF TypeOK, Readers
    <3> QED
      BY <3>1 DEF GameLocal, InGameReaderSeesNoLobbyPacket
  <2>4. CASE t = "game" /\ done' # done
    <3>1. PICK e \in Handled : /\ done' = [done EXCEPT !["game"] = Append(done["game"], e)]
                               /\ e.kind \in InGame
      BY <2>1, <2>4 DEF GameLocal
    <3>2. done["game"] \in Seq(Handled) /\ done'["game"] = Append(done["game"], e)
      BY <3>1 DEF TypeOK, Handled, Readers
    <3> QED
      BY <3>1, <3>2, Appended DEF GameLocal, InGameReaderSeesNoLobbyPacket, InGame
  <2> QED
    BY <2>2, <2>3, <2>4
<1> QED
  BY <1>1, <1>2, <1>3 DEF GameLocal

\* Every step keeps the in-game local to in-game packets.
LEMMA GameLocalStep ==
  ASSUME TypeOK, GameLocal, [Next]_vars
  PROVE  GameLocal'
<1>1. CASE UNCHANGED <<data, case, rpc, input, done>>
  BY <1>1 DEF GameLocal, InGameReaderSeesNoLobbyPacket
<1> QED
  BY <1>1, ReceiveKeepsGameLocal, ReadKeepsGameLocal
     DEF Next, Step, vars, readerVars, ServerSends, Shutdown, Join

(* However the copies of receive_thread and the reads of the two readers      *)
(* interleave, the in-game reader is never shown a packet of the lobby        *)
(* (Client_To_Server.cpp:101-113, 184-206).                                   *)
THEOREM InGameReaderIsShownItsOwn == Spec => []InGameReaderSeesNoLobbyPacket
<1>1. TypeOK /\ GameLocal /\ [Next]_vars => GameLocal'
  BY GameLocalStep
<1>2. GameLocal => InGameReaderSeesNoLobbyPacket
  BY DEF GameLocal
<1> QED
  BY ClientTypes, InitGameLocal, <1>1, <1>2, PTL DEF Spec

----------------------------------------------------------------------------
(* As long as no packet arrives while an earlier one waits.                   *)

(* Where receive_thread is with the packet it looked at: on its way to queue  *)
(* t, with the local of queue t already cleared; and what is still to be      *)
(* handled of what was meant for t.                                           *)
Receiving(t) == rpc \in {"clear", "copy", "clearGame", "copyGame", "push"} /\ QueueOf(input) = t
Waits(t) == IF Receiving(t) THEN queue[t] + 1 ELSE queue[t]
Cleared(t) ==
  IF t = "lobby" THEN rpc \in {"copy", "clearGame", "copyGame", "push"}
  ELSE rpc = "copyGame" \/ (rpc = "push" /\ input.kind = "game")

(* The reader of t has handled all but the packets that wait, in order; what  *)
(* waits is one packet, and the local shows it.                               *)
InOrder(t) ==
  /\ Len(got[t]) = Len(done[t]) + Waits(t)
  /\ \A i \in 1..Len(done[t]) : done[t][i] = got[t][i]
OneWaits(t) ==
  /\ queue[t] <= 1
  /\ Cleared(t) => queue[t] = 0
Shown(t) ==
  /\ Receiving(t) => got[t][Len(got[t])] = input
  /\ rpc = "push" /\ QueueOf(input) = t => data[t] = input
  /\ queue[t] = 1 => data[t] = got[t][Len(done[t]) + 1]
  /\ pc[t] \in {"box", "call"} => case[t] = data[t].kind
OneAtATime == ~overwritten => \A t \in Readers : InOrder(t) /\ OneWaits(t) /\ Shown(t)

\* A sequence is a prefix when it is as long or shorter and agrees everywhere.
LEMMA PrefixPointwise ==
  ASSUME NEW S, NEW T, NEW s \in Seq(S), NEW u \in Seq(T), Len(s) <= Len(u),
         \A i \in 1..Len(s) : s[i] = u[i]
  PROVE  IsPrefix(s, u)
BY DEF IsPrefix

\* At the start nothing waits.
LEMMA InitOneAtATime == Init => OneAtATime
<1> SUFFICES ASSUME Init, NEW t \in Readers
             PROVE  InOrder(t) /\ OneWaits(t) /\ Shown(t)
  BY DEF OneAtATime
<1> QED
  BY DEF Init, InOrder, OneWaits, Shown, Receiving, Waits, Cleared, Readers

\* receive_thread writes to a local whose queue is empty, or overwrites a packet.
LEMMA ReceiveKeepsOrder ==
  ASSUME TypeOK, BusyHasOne, GameLocal, OneAtATime, ReceiveThread, ~overwritten',
         NEW t \in Readers
  PROVE  (InOrder(t) /\ OneWaits(t) /\ Shown(t))'
<1>1. UNCHANGED <<pc, case, done>>
  BY DEF ReceiveThread, ReceiveTest, Receive, ReceiveClear, ReceiveCopy, ReceiveClearGame,
     ReceiveCopyGame, ReceivePush, Clear, Copy, readerVars
<1>2. ~overwritten /\ InOrder(t) /\ OneWaits(t) /\ Shown(t)
  <2>1. ~overwritten
    BY DEF ReceiveThread, ReceiveTest, Receive, ReceiveClear, ReceiveCopy, ReceiveClearGame,
       ReceiveCopyGame, ReceivePush, Clear, Copy, history
  <2> QED
    BY <2>1 DEF OneAtATime
<1>3. /\ queue[t] \in Nat /\ (Busy(t) => queue[t] > 0)
      /\ done[t] \in Seq(Handled) /\ got[t] \in Seq(Packets)
      /\ input.kind = "game" <=> QueueOf(input) = "game"
      /\ t \in {"lobby", "game"}
  BY DEF TypeOK, BusyHasOne, Handled, QueueOf, Readers
<1> USE DEF InOrder, OneWaits, Shown, Receiving, Waits, Cleared, Busy
<1>4. CASE ReceiveTest
  BY <1>1, <1>2, <1>3, <1>4 DEF ReceiveTest, history
<1>5. CASE Receive /\ net = <<>>
  BY <1>1, <1>2, <1>3, <1>5 DEF Receive
<1>6. CASE Receive /\ net # <<>>
  <2>1. /\ rpc = "recv" /\ rpc' = "clear" /\ input' = net[1] /\ UNCHANGED <<queue, data>>
        /\ got' = [got EXCEPT ![QueueOf(net[1])] = Append(got[QueueOf(net[1])], net[1])]
        /\ net[1] \in Packets
    BY <1>6 DEF Receive, TypeOK
  <2>2. CASE QueueOf(net[1]) = t
    <3>1. got'[t] = Append(got[t], net[1])
      BY <2>1, <2>2 DEF TypeOK
    <3>2. /\ Len(got'[t]) = Len(got[t]) + 1 /\ got'[t][Len(got[t]) + 1] = net[1]
          /\ \A i \in 1..Len(got[t]) : got'[t][i] = got[t][i]
      BY <1>3, <2>1, <3>1, Appended
    <3>3. InOrder(t)'
      BY <1>1, <1>2, <1>3, <2>1, <2>2, <3>2
    <3>4. OneWaits(t)'
      BY <1>2, <2>1
    <3>5. Shown(t)'
      BY <1>1, <1>2, <1>3, <2>1, <2>2, <3>2
    <3> QED
      BY <3>3, <3>4, <3>5
  <2>3. CASE QueueOf(net[1]) # t
    <3>1. got'[t] = got[t]
      BY <2>1, <2>3 DEF TypeOK
    <3> QED
      BY <1>1, <1>2, <1>3, <2>1, <2>3, <3>1
  <2> QED
    BY <2>2, <2>3
<1>7. CASE ReceiveClear \/ ReceiveClearGame
  <2> DEFINE w == IF rpc = "clear" THEN "lobby" ELSE "game"
  <2>1. /\ data' = [data EXCEPT ![w] = Zeroed] /\ queue[w] = 0
        /\ UNCHANGED <<queue, got, input>> /\ w \in Readers
        /\ \/ rpc = "clear" /\ rpc' = "copy" /\ w = "lobby"
           \/ rpc = "clearGame" /\ rpc' = "copyGame" /\ w = "game"
    <3>1. rpc = "clear" \/ rpc = "clearGame"
      BY <1>7 DEF ReceiveClear, ReceiveClearGame
    <3>2. /\ data' = [data EXCEPT ![w] = Zeroed] /\ (overwritten' = (overwritten \/ queue[w] > 0))
          /\ UNCHANGED <<queue, got, input>>
      BY <1>7 DEF ReceiveClear, ReceiveClearGame, Clear
    <3>3. w \in Readers /\ queue[w] \in Nat
      BY DEF TypeOK, Readers
    <3>4. queue[w] = 0
      <4>1. ~(queue[w] > 0)
        BY <3>2, Zenon
      <4> QED
        BY <3>3, <4>1
    <3> QED
      BY <1>7, <3>1, <3>2, <3>3, <3>4 DEF ReceiveClear, ReceiveClearGame
  <2> HIDE DEF w
  <2>2. t # w => data'[t] = data[t]
    BY <2>1 DEF TypeOK
  <2>3. InOrder(t)' /\ OneWaits(t)'
    BY <1>1, <1>2, <1>3, <2>1
  <2>4. Shown(t)'
    BY <1>1, <1>2, <1>3, <2>1, <2>2
  <2> QED
    BY <2>3, <2>4
<1>8. CASE ReceiveCopy \/ ReceiveCopyGame
  <2> DEFINE w == IF rpc = "copy" THEN "lobby" ELSE "game"
  <2>1. /\ data' = [data EXCEPT ![w] = input] /\ w \in Readers
        /\ UNCHANGED <<queue, got, input>>
        /\ \/ rpc = "copy" /\ rpc' \in {"clearGame", "push"} /\ w = "lobby"
              /\ (rpc' = "clearGame" <=> input.kind = "game")
           \/ rpc = "copyGame" /\ rpc' = "push" /\ w = "game" /\ input.kind = "game"
    <3>1. CASE ReceiveCopy
      BY <3>1 DEF ReceiveCopy, Copy, Readers, history
    <3>2. CASE ReceiveCopyGame
      BY <3>2 DEF ReceiveCopyGame, Copy, Readers, GameLocal, history
    <3> QED
      BY <1>8, <3>1, <3>2
  <2> HIDE DEF w
  <2>2. t # w => data'[t] = data[t]
    BY <2>1 DEF TypeOK
  <2>3. data'[w] = input
    BY <2>1 DEF TypeOK
  <2>4. w = t => queue[t] = 0
    BY <1>2, <2>1
  <2>5. InOrder(t)' /\ OneWaits(t)'
    BY <1>1, <1>2, <1>3, <2>1
  <2>6. Shown(t)'
    BY <1>1, <1>2, <1>3, <2>1, <2>2, <2>3, <2>4
  <2> QED
    BY <2>5, <2>6
<1>9. CASE ReceivePush
  <2>1. /\ rpc = "push" /\ rpc' = "test" /\ UNCHANGED <<data, got, input>>
        /\ queue' = [queue EXCEPT ![QueueOf(input)] = queue[QueueOf(input)] + 1]
    BY <1>9 DEF ReceivePush, history
  <2>2. queue'[t] = IF QueueOf(input) = t THEN queue[t] + 1 ELSE queue[t]
    BY <2>1 DEF TypeOK
  <2>3. QueueOf(input) = t => queue[t] = 0
    BY <1>2, <1>3, <2>1
  <2>4. InOrder(t)' /\ OneWaits(t)'
    BY <1>1, <1>2, <1>3, <2>1, <2>2, <2>3
  <2>5. Shown(t)'
    BY <1>1, <1>2, <1>3, <2>1, <2>2, <2>3
  <2> QED
    BY <2>4, <2>5
<1> QED
  BY <1>4, <1>5, <1>6, <1>7, <1>8, <1>9 DEF ReceiveThread

\* A reader handles the one packet its local shows.
LEMMA ReadKeepsOrder ==
  ASSUME TypeOK, BusyHasOne, OneAtATime, ~overwritten',
         NEW u \in Readers, ReadThread(u) \/ CloseBox(u), NEW t \in Readers
  PROVE  (InOrder(t) /\ OneWaits(t) /\ Shown(t))'
<1>1. UNCHANGED <<data, rpc, input, got, overwritten>>
  BY DEF ReadThread, CloseBox, ReadTest, ReadLock, ReadSwitch, ReadCall, Dies, history
<1>2. InOrder(t) /\ OneWaits(t) /\ Shown(t)
  BY <1>1 DEF OneAtATime
<1>3. /\ queue[t] \in Nat /\ (Busy(t) => queue[t] > 0)
      /\ done[t] \in Seq(Handled) /\ got[t] \in Seq(Packets)
      /\ data[t] = [kind |-> data[t].kind, n |-> data[t].n]
      /\ t \in {"lobby", "game"} /\ data[t] \in Handled
  BY PacketsAreHandled DEF TypeOK, BusyHasOne, Handled, Readers, Packets, Zeroed
<1> USE DEF InOrder, OneWaits, Shown, Receiving, Waits, Cleared, Busy
<1>4. CASE UNCHANGED <<queue, done>> /\ (pc'[t] \in {"box", "call"} => case'[t] = data[t].kind)
  BY <1>1, <1>2, <1>4
<1>5. CASE /\ queue'[t] = queue[t] - 1 /\ done'[t] = Append(done[t], data[t])
           /\ pc'[t] = "test" /\ Busy(t)
  <2>1. queue[t] = 1 /\ queue'[t] = 0 /\ data[t] = got[t][Len(done[t]) + 1]
    BY <1>2, <1>3, <1>5
  <2>2. /\ Len(done'[t]) = Len(done[t]) + 1 /\ done'[t][Len(done[t]) + 1] = data[t]
        /\ \A i \in 1..Len(done[t]) : done'[t][i] = done[t][i]
    BY <1>3, <1>5, Appended
  <2>5. rpc' = rpc /\ input' = input /\ got'[t] = got[t] /\ data'[t] = data[t]
    BY <1>1
  <2>6. Waits(t)' + 1 = Waits(t) /\ Waits(t) \in Nat /\ Waits(t)' \in Nat
    BY <2>1, <2>5
  <2>7. Len(got'[t]) = Len(done'[t]) + Waits(t)'
    <3>1. Len(done[t]) \in Nat /\ Len(got[t]) = Len(done[t]) + Waits(t)
      BY <1>2, <1>3
    <3>2. Len(got'[t]) = Len(done[t]) + (Waits(t)' + 1)
      BY <2>5, <2>6, <3>1
    <3>3. Waits(t)' \in Nat
      BY <2>6
    <3> HIDE DEF Waits
    <3>4. Len(done[t]) + (Waits(t)' + 1) = (Len(done[t]) + 1) + Waits(t)'
      BY <3>1, <3>3
    <3> QED
      BY <2>2, <3>2, <3>4
  <2>8. \A i \in 1..Len(done'[t]) : done'[t][i] = got'[t][i]
    BY <1>2, <1>3, <2>1, <2>2, <2>5
  <2>3. InOrder(t)'
    BY <2>7, <2>8
  <2>9. OneWaits(t)'
    BY <2>1
  <2>4. Shown(t)'
    <3>1. (Receiving(t) => got[t][Len(got[t])] = input)'
      BY <1>1, <1>2, <2>5
    <3>2. (rpc = "push" /\ QueueOf(input) = t => data[t] = input)'
      BY <1>1, <1>2, <2>5
    <3>3. queue'[t] # 1 /\ pc'[t] \notin {"box", "call"}
      BY <1>5, <2>1
    <3> QED
      BY <3>1, <3>2, <3>3
  <2> QED
    BY <2>3, <2>4, <2>9
<1>6. CASE t # u
  <2>1. queue'[t] = queue[t] /\ done'[t] = done[t] /\ pc'[t] = pc[t] /\ case'[t] = case[t]
    BY <1>6 DEF TypeOK, ReadThread, CloseBox, ReadTest, ReadLock, ReadSwitch, ReadCall, Dies,
       Pop, readerVars
  <2> QED
    BY <1>1, <1>2, <2>1
<1>7. CASE t = u /\ (ReadTest(u) \/ ReadLock(u) \/ CloseBox(u))
  BY <1>2, <1>4, <1>7 DEF ReadTest, ReadLock, CloseBox, TypeOK, readerVars
<1>8. CASE t = u /\ ReadSwitch(u)
  <2>1. CASE Dies
    BY <1>2, <1>4, <2>1 DEF Dies, readerVars
  <2>2. CASE ~Dies /\ Handles(t, data[t].kind)
    BY <1>4, <1>8, <2>2 DEF ReadSwitch, TypeOK
  <2>3. CASE ~Dies /\ ~Handles(t, data[t].kind)
    <3>1. /\ queue' = [queue EXCEPT ![t] = queue[t] - 1] /\ pc' = [pc EXCEPT ![t] = "test"]
          /\ done' = [done EXCEPT ![t] = Append(done[t], data[t])] /\ pc[t] = "switch"
      BY <1>8, <2>3 DEF ReadSwitch, Pop
    <3> QED
      BY <1>5, <3>1 DEF TypeOK
  <2> QED
    BY <2>1, <2>2, <2>3
<1>9. CASE t = u /\ ReadCall(u)
  <2>1. CASE Dies
    BY <1>2, <1>4, <2>1 DEF Dies, readerVars
  <2>2. CASE ~Dies
    <3>1. /\ queue' = [queue EXCEPT ![t] = queue[t] - 1] /\ pc' = [pc EXCEPT ![t] = "test"]
          /\ done' = [done EXCEPT ![t] = Append(done[t], [kind |-> case[t], n |-> data[t].n])]
          /\ pc[t] = "call"
      BY <1>9, <2>2 DEF ReadCall, Pop
    <3>2. [kind |-> case[t], n |-> data[t].n] = data[t]
      BY <1>2, <1>3, <3>1
    <3> QED
      BY <1>5, <3>1, <3>2 DEF TypeOK
  <2> QED
    BY <2>1, <2>2
<1> QED
  BY <1>6, <1>7, <1>8, <1>9 DEF ReadThread

\* Every step keeps the order, or overwrites a packet.
LEMMA OneAtATimeStep ==
  ASSUME TypeOK, BusyHasOne, GameLocal, OneAtATime, [Next]_vars
  PROVE  OneAtATime'
<1>1. CASE UNCHANGED <<queue, data, pc, case, rpc, input, got, done, overwritten>>
  BY <1>1 DEF OneAtATime, InOrder, OneWaits, Shown, Receiving, Waits, Cleared
<1> QED
  BY <1>1, ReceiveKeepsOrder, ReadKeepsOrder
     DEF OneAtATime, Next, Step, vars, readerVars, history, ServerSends, Shutdown, Join

(* As long as no local is cleared while a pointer to it waits, every reader   *)
(* handles the packets that arrived for it, in their order and each once,     *)
(* the kind it switched on and the contents it passed on from the same packet *)
(* (Client_To_Server.cpp:86-112, 126-206).                                    *)
THEOREM RightUnlessOverwritten == Spec => []HandledUnlessOverwritten
<1>1. TypeOK /\ BusyHasOne /\ GameLocal /\ [Next]_vars => GameLocal'
  BY GameLocalStep
<1>2. TypeOK /\ BusyHasOne /\ GameLocal /\ OneAtATime /\ [Next]_vars => OneAtATime'
  BY OneAtATimeStep
<1>3. TypeOK /\ OneAtATime => HandledUnlessOverwritten
  <2> SUFFICES ASSUME TypeOK, OneAtATime, ~overwritten, NEW t \in Readers
               PROVE  IsPrefix(done[t], got[t])
    BY DEF HandledUnlessOverwritten, FirstReceivedIsHandled
  <2>1. done[t] \in Seq(Handled) /\ got[t] \in Seq(Packets) /\ queue[t] \in Nat
    BY DEF TypeOK, Handled
  <2>2. Len(done[t]) <= Len(got[t]) /\ \A i \in 1..Len(done[t]) : done[t][i] = got[t][i]
    BY <2>1 DEF OneAtATime, InOrder, Waits
  <2> QED
    BY <2>1, <2>2, PrefixPointwise
<1> QED
  BY ClientTypes, InitGameLocal, InitOneAtATime, <1>1, <1>2, <1>3, PTL DEF Spec
=============================================================================
