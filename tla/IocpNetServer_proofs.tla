------------------------ MODULE IocpNetServer_proofs ------------------------
(***************************************************************************)
(* Theorems about IocpNetServer, for any sets of slots and workers, any    *)
(* bounds, any waiting time and any set of faults: its types, and the send *)
(* queue of a slot: the one outstanding WSASend always carries the front   *)
(* of send_data_queue_, and no message is left behind without one unless   *)
(* the socket failed.                                                      *)
(***************************************************************************)
EXTENDS IocpNetServer, TLAPS, SequenceTheorems
-----------------------------------------------------------------------------
(* Type correctness.                                                       *)

\* The program starts with values of the right types.
LEMMA TypeInit == Init => TypeOK
BY ServerAssumption
DEF Init, TypeOK, SlotTypes, SendTypes, IoTypes, WorkerTypes, Idle, Handling

\* Each part of the types stays where its variables do.
LEMMA TypeFrame ==
  /\ SlotTypes /\ UNCHANGED slotVars => SlotTypes'
  /\ SendTypes /\ UNCHANGED sendVars => SendTypes'
  /\ IoTypes /\ UNCHANGED ioVars => IoTypes'
  /\ WorkerTypes /\ UNCHANGED workerVars => WorkerTypes'
BY DEF SlotTypes, SendTypes, IoTypes, WorkerTypes, slotVars, sendVars, ioVars, workerVars

\* A worker that handles something holds a well-formed completion.
LEMMA WorkerItem ==
  ASSUME WorkerTypes, NEW w \in Workers, pc[w] \in Handling
  PROVE  /\ item[w] \in Items
         /\ item[w].c \in Clients /\ item[w].s \in 0..MaxSession /\ item[w].m \in 0..MaxSend
         /\ item[w].op \in Ops
BY DEF WorkerTypes, Items

\* A worker may go anywhere, to handle something only with an item.
LEMMA GoType ==
  ASSUME WorkerTypes, NEW w \in Workers, NEW label \in Idle \cup Handling, Go(w, label),
         label \in Handling => item[w] \in Items, UNCHANGED <<item, cntRead>>
  PROVE  WorkerTypes'
BY DEF WorkerTypes, Go, Idle, Handling

\* A worker that returns to its loop may drop its item.
LEMMA BackType ==
  ASSUME WorkerTypes, NEW w \in Workers, Back(w), UNCHANGED cntRead
  PROVE  WorkerTypes'
BY DEF WorkerTypes, Back, Go, Idle, Handling

\* 0 stands for no message, the others count from 1.
LEMMA MessageNumbers == 0 \in 0..MaxSend /\ \A m \in 1..MaxSend : m \in 0..MaxSend
BY ServerAssumption

\* WSASend, posted or refused, leaves well-formed I/O behind.
LEMMA SendIOType ==
  ASSUME SlotTypes, SendTypes, IoTypes, NEW c \in Clients, NEW m \in 0..MaxSend, SendIO(c, m)
  PROVE  pending' \subseteq Items /\ stalled' \in [Clients -> BOOLEAN]
<1>1. SendItem(c, sock[c], m) \in Items
  BY DEF SlotTypes, SendItem, Items, Ops
<1> QED
  BY <1>1 DEF SendTypes, IoTypes, SendIO

\* So does WSARecv.
LEMMA RecvType ==
  ASSUME SlotTypes, IoTypes, NEW c \in Clients, RecvPosted(c) \/ RecvRefused(c)
  PROVE  pending' \subseteq Items
<1>1. RecvItem(c, sock[c]) \in Items
  BY MessageNumbers DEF SlotTypes, RecvItem, Items, Ops
<1> QED
  BY <1>1 DEF IoTypes, RecvPosted, RecvRefused

\* The accepter's step keeps the types.
LEMMA TypeReadyAccept ==
  ASSUME TypeOK, NEW c \in Clients, ReadyAccept(c) PROVE TypeOK'
<1>1. SlotTypes'
  <2>1. 0 \in 0..MaxSession /\ (sess[c] < MaxSession => sess[c] + 1 \in 0..MaxSession)
    BY ServerAssumption DEF TypeOK, SlotTypes
  <2>2. /\ sess' \in [Clients -> 0..MaxSession] /\ sock' \in [Clients -> 0..MaxSession]
        /\ link' \in [Clients -> {"none", "up", "gone", "shut"}]
        /\ bound' \in [Clients -> BOOLEAN]
    <3>1. CASE UNCHANGED <<sess, link, bound>> /\ sock' = [sock EXCEPT ![c] = 0]
      BY <2>1, <3>1 DEF TypeOK, SlotTypes
    <3>2. CASE /\ sess[c] < MaxSession
               /\ sess' = [sess EXCEPT ![c] = @ + 1]
               /\ sock' = [sock EXCEPT ![c] = sess[c] + 1]
               /\ link' = [link EXCEPT ![c] = "none"]
               /\ bound' = [bound EXCEPT ![c] = FALSE]
      BY <2>1, <3>2 DEF TypeOK, SlotTypes
    <3> QED
      BY <3>1, <3>2 DEF ReadyAccept
  <2>3. closedAge' \in [Clients -> 0..(ReuseWait + 1) \cup {Never}]
    BY DEF TypeOK, SlotTypes, ReadyAccept, ArmedStamp
  <2> QED
    BY <2>2, <2>3 DEF TypeOK, SlotTypes, ReadyAccept
<1>2. pending' \subseteq Items
  <2>1. sess[c] < MaxSession => AcceptItem(c, sess[c] + 1) \in Items
    BY ServerAssumption, MessageNumbers DEF TypeOK, SlotTypes, AcceptItem, Items, Ops
  <2> QED
    BY <2>1 DEF TypeOK, IoTypes, ReadyAccept
<1>3. told' \in [Clients -> SUBSET {"OnConnect", "OnClose"}]
  BY DEF TypeOK, ReadyAccept
<1> QED
  BY <1>1, <1>2, <1>3, TypeFrame DEF TypeOK, IoTypes, ReadyAccept

\* A message is queued, and sent if it is the only one.
LEMMA TypeSendMsg ==
  ASSUME TypeOK, NEW c \in Clients, SendMsg(c) PROVE TypeOK'
<1>1. pushed[c] + 1 \in 1..MaxSend /\ sendq[c] \in Seq(1..MaxSend)
  BY ServerAssumption DEF TypeOK, SendTypes, SendMsg
<1>2. Append(sendq[c], pushed[c] + 1) \in Seq(1..MaxSend)
  BY <1>1, AppendProperties
<1>3. pending' \subseteq Items /\ stalled' \in [Clients -> BOOLEAN]
  <2>1. CASE SendIO(c, pushed[c] + 1)
    BY <1>1, <2>1, SendIOType DEF TypeOK
  <2>2. CASE UNCHANGED <<pending, stalled>>
    BY <2>2 DEF TypeOK, SendTypes, IoTypes
  <2> QED
    BY <2>1, <2>2 DEF SendMsg
<1>4. SendTypes'
  <2> DEFINE q == Append(sendq[c], pushed[c] + 1)
  <2>1. q \in Seq(1..MaxSend) /\ sendq' = [sendq EXCEPT ![c] = q]
    BY <1>2 DEF SendMsg
  <2>2. pushed[c] + 1 \in 0..MaxSend
    BY <1>1, MessageNumbers
  <2> HIDE DEF q
  <2>3. sendq' \in [Clients -> Seq(1..MaxSend)]
    BY <2>1 DEF TypeOK, SendTypes
  <2>4. pushed' \in [Clients -> 0..MaxSend]
    BY <2>2 DEF TypeOK, SendTypes, SendMsg
  <2> QED
    BY <1>3, <2>3, <2>4 DEF SendTypes
<1> QED
  BY <1>3, <1>4, TypeFrame DEF TypeOK, IoTypes, SendMsg

\* The front of the queue is dropped and the next one sent.
LEMMA TypeSendCompleted ==
  ASSUME TypeOK, NEW w \in Workers, SendCompleted(w) PROVE TypeOK'
<1> DEFINE c == item[w].c
<1>1. c \in Clients /\ sendq[c] \in Seq(1..MaxSend)
  BY WorkerItem DEF SendCompleted, TypeOK, SendTypes, Handling
<1>2. SendTypes' /\ IoTypes' /\ alive' \in BOOLEAN
  <2>1. CASE sendq[c] = <<>>
    BY <2>1 DEF TypeOK, SendTypes, IoTypes, SendCompleted
  <2>2. CASE sendq[c] # <<>>
    <3>1. Tail(sendq[c]) \in Seq(1..MaxSend)
      BY <1>1, <2>2, HeadTailProperties
    <3>2. pending' \subseteq Items /\ stalled' \in [Clients -> BOOLEAN]
      <4>1. CASE UNCHANGED <<pending, stalled>>
        BY <4>1 DEF TypeOK, SendTypes, IoTypes
      <4>2. CASE SendsNext(Tail(sendq[c])) /\ SendIO(c, Head(Tail(sendq[c])))
        <5>1. Head(Tail(sendq[c])) \in 1..MaxSend
          BY <3>1, <4>2, HeadTailProperties DEF SendsNext
        <5>2. Head(Tail(sendq[c])) \in 0..MaxSend
          BY <5>1, MessageNumbers
        <5> QED
          BY <1>1, <4>2, <5>2, SendIOType DEF TypeOK
      <4> QED
        BY <2>2, <4>1, <4>2 DEF SendCompleted
    <3> QED
      BY <1>1, <2>2, <3>1, <3>2 DEF TypeOK, SendTypes, IoTypes, SendCompleted
  <2> QED
    BY <2>1, <2>2
<1>3. WorkerTypes'
  BY BackType DEF SendCompleted, TypeOK
<1> QED
  BY <1>2, <1>3, TypeFrame DEF TypeOK, SendCompleted

\* An accepted slot is bound to the port and receives.
LEMMA TypeAcceptBinds ==
  ASSUME TypeOK, NEW w \in Workers, AcceptBinds(w) PROVE TypeOK'
<1>1. item[w].c \in Clients /\ item[w] \in Items
  BY WorkerItem DEF AcceptBinds, TypeOK, Handling
<1>2. pending' \subseteq Items
  BY <1>1, RecvType DEF AcceptBinds, TypeOK
<1>3. SlotTypes'
  BY <1>1 DEF AcceptBinds, TypeOK, SlotTypes, PortOpen
<1>4. WorkerTypes'
  BY <1>1, GoType DEF AcceptBinds, TypeOK, Handling
<1> QED
  BY <1>2, <1>3, <1>4, TypeFrame DEF AcceptBinds, TypeOK, IoTypes

\* A worker receives again behind OnReceive.
LEMMA TypeRebind ==
  ASSUME TypeOK, NEW w \in Workers, Rebind(w) PROVE TypeOK'
<1>1. item[w].c \in Clients
  BY WorkerItem DEF Rebind, TypeOK, Handling
<1>2. pending' \subseteq Items
  BY <1>1, RecvType DEF Rebind, TypeOK
<1> QED
  BY <1>2, BackType, TypeFrame DEF Rebind, TypeOK, IoTypes

\* What a worker takes from the port is well-formed.
LEMMA TypeDequeue ==
  ASSUME TypeOK, NEW w \in Workers, NEW i,
         (i \in done /\ DequeueDone(w, i)) \/ (i \in failed /\ DequeueFailed(w, i))
  PROVE  TypeOK'
<1>1. i \in Items /\ Handler(i.op) \in Handling /\ "closing" \in Handling
  BY DEF TypeOK, IoTypes, Items, Ops, Handler, Handling
<1>2. IoTypes' /\ alive' \in BOOLEAN
  BY DEF TypeOK, IoTypes, DequeueDone, DequeueFailed
<1>3. WorkerTypes'
  BY <1>1 DEF TypeOK, WorkerTypes, DequeueDone, DequeueFailed, Go
<1> QED
  BY <1>2, <1>3, TypeFrame DEF TypeOK, DequeueDone, DequeueFailed

\* Every step of a worker keeps the types.
LEMMA TypeWorker ==
  ASSUME TypeOK, NEW w \in Workers, Worker(w) PROVE TypeOK'
<1> USE TypeFrame DEF TypeOK
<1>1. CASE LoopTest(w)
  BY <1>1, GoType DEF LoopTest, Idle, Handling
<1>2. CASE DequeueAbandoned(w)
  BY <1>2, GoType DEF DequeueAbandoned, Idle, Handling
<1>3. CASE AcceptConnects(w)
  <2>1. item[w].c \in Clients /\ WorkerTypes'
    BY <1>3, GoType, WorkerItem DEF AcceptConnects, Handling
  <2>2. SlotTypes'
    BY <1>3, <2>1 DEF AcceptConnects, SlotTypes
  <2> QED
    BY <1>3, <2>1, <2>2 DEF AcceptConnects
<1>4. CASE CountReads(w)
  <2>1. WorkerTypes'
    BY <1>4, WorkerItem DEF CountReads, WorkerTypes, Go, Handling
  <2> QED
    BY <1>4, <2>1 DEF CountReads
<1>5. CASE Announce(w)
  <2>1. item[w].c \in Clients /\ WorkerTypes'
    BY <1>5, BackType, WorkerItem DEF Announce, Handling
  <2>2. clientCnt' \in Nat /\ told' \in [Clients -> SUBSET {"OnConnect", "OnClose"}]
    BY <1>5, <2>1 DEF Announce, WorkerTypes
  <2> QED
    BY <1>5, <2>1, <2>2 DEF Announce
<1>6. CASE Receive(w)
  BY <1>6, GoType, WorkerItem DEF Receive, Handling
<1>7. CASE CloseSocketTest(w)
  <2>1. WorkerTypes'
    BY <1>7, GoType, BackType, WorkerItem DEF CloseSocketTest, Handling
  <2> QED
    BY <1>7, <2>1 DEF CloseSocketTest
<1>8. CASE CloseShuts(w)
  <2>1. item[w].c \in Clients /\ WorkerTypes'
    BY <1>8, GoType, WorkerItem DEF CloseShuts, Handling
  <2>2. SlotTypes'
    BY <1>8, <2>1 DEF CloseShuts, SlotTypes
  <2> QED
    BY <1>8, <2>1, <2>2 DEF CloseShuts
<1>9. CASE CloseStamps(w)
  <2>1. item[w].c \in Clients /\ WorkerTypes'
    BY <1>9, GoType, WorkerItem DEF CloseStamps, Handling
  <2>2. SlotTypes'
    BY <1>9, <2>1, ServerAssumption DEF CloseStamps, ClosedStamp, SlotTypes
  <2> QED
    BY <1>9, <2>1, <2>2 DEF CloseStamps
<1>10. CASE CloseReleases(w)
  <2>1. item[w].c \in Clients /\ WorkerTypes'
    BY <1>10, GoType, WorkerItem DEF CloseReleases, Handling
  <2>2. SlotTypes'
    BY <1>10, <2>1, ServerAssumption DEF CloseReleases, SlotTypes
  <2> QED
    BY <1>10, <2>1, <2>2 DEF CloseReleases
<1>11. CASE CloseReports(w)
  <2>1. item[w].c \in Clients /\ WorkerTypes'
    BY <1>11, BackType, WorkerItem DEF CloseReports, Handling
  <2>2. told' \in [Clients -> SUBSET {"OnConnect", "OnClose"}]
    BY <1>11, <2>1 DEF CloseReports
  <2> QED
    BY <1>11, <2>1, <2>2 DEF CloseReports
<1> QED
  BY <1>1, <1>2, <1>3, <1>4, <1>5, <1>6, <1>7, <1>8, <1>9, <1>10, <1>11, TypeDequeue,
     TypeAcceptBinds, TypeRebind, TypeSendCompleted DEF Worker

\* What the kernel completes was pending, so it is well-formed.
LEMMA TypeKernel ==
  ASSUME TypeOK, NEW i \in pending, Kernel(i) PROVE TypeOK'
<1> USE DEF TypeOK
<1>1. i \in Items /\ i.c \in Clients
  BY DEF IoTypes, Items
<1>2. CASE KernelAccepts(i)
  BY <1>1, <1>2, TypeFrame DEF Kernel, KernelAccepts, SlotTypes, IoTypes
<1>3. CASE KernelReceives(i)
  BY <1>1, <1>3, TypeFrame DEF Kernel, KernelReceives, IoTypes
<1>4. CASE KernelSends(i)
  BY <1>1, <1>4, TypeFrame DEF Kernel, KernelSends, SendTypes, IoTypes
<1> QED
  BY <1>2, <1>3, <1>4 DEF Kernel

\* Every step keeps the types.
LEMMA TypeNext == TypeOK /\ [Next]_vars => TypeOK'
<1> SUFFICES ASSUME TypeOK, [Next]_vars PROVE TypeOK'
  OBVIOUS
<1>1. ASSUME NEW c \in Clients, PeerLeaves(c) PROVE TypeOK'
  BY <1>1, TypeFrame DEF PeerLeaves, TypeOK, SlotTypes
<1>2. CASE Tick
  <2>1. SlotTypes'
    BY <1>2, ServerAssumption DEF Tick, TypeOK, SlotTypes
  <2> QED
    BY <1>2, <2>1, TypeFrame DEF Tick, TypeOK
<1>3. CASE DestroyThread
  BY <1>3, TypeFrame DEF DestroyThread, TypeOK
<1>4. CASE UNCHANGED vars
  BY <1>4, TypeFrame DEF vars, TypeOK
<1> QED
  BY <1>1, <1>2, <1>3, <1>4, TypeReadyAccept, TypeSendMsg, TypeWorker, TypeKernel DEF Next

\* Every variable of the server keeps its type: in particular a worker that
\* handles a completion always holds a well-formed one.
THEOREM TypeCorrect == Spec => []TypeOK
<1> QED
  BY TypeInit, TypeNext, PTL DEF Spec
-----------------------------------------------------------------------------
(* The send queue of a slot.                                               *)

\* What a step that is neither SendMsg, SendCompleted nor the completion of a
\* WSASend leaves alone: the sends of every slot and the queues.
SendsKept ==
  /\ sendq' = sendq
  /\ \A c \in Clients : stalled[c] => stalled'[c]
  /\ \A c \in Clients : SendIn(pending', c) = SendIn(pending, c) /\ SendIn(done', c) = SendIn(done, c)
  /\ \A w \in Workers, c \in Clients :
       /\ Completing(w, c)' <=> Completing(w, c)
       /\ Completing(w, c) => item'[w] = item[w]

\* Who leaves queues and sends alone keeps both properties of them.
LEMMA SendsKeptDiscipline ==
  ASSUME SendDiscipline, NoLostSend, SendsKept PROVE SendDiscipline' /\ NoLostSend'
<1> SUFFICES ASSUME NEW c \in Clients
             PROVE  SendsInOrder(c)' /\ (sendq'[c] # <<>> /\ ~stalled'[c] => Sending(c)')
  BY DEF SendDiscipline, NoLostSend
<1>1. SendIn(pending' \cup done', c) = SendIn(pending \cup done, c)
  BY DEF SendsKept, SendIn
<1>2. SendsInOrder(c)'
  BY <1>1 DEF SendsKept, SendDiscipline, SendsInOrder
<1> QED
  BY <1>1, <1>2 DEF SendsKept, NoLostSend, Sending

\* A worker that goes on, or returns to its loop, without touching a send.
LEMMA WorkerKeepsSends ==
  ASSUME NEW w \in Workers, NEW label, label # "sent", pc[w] # "sent", Go(w, label),
         TypeOK,
         \A v \in Workers \ {w} : item'[v] = item[v],
         UNCHANGED <<sendq, stalled>>,
         \A i : i \in pending' <=> i \in pending \/ (i \in pending' /\ i.op # "SEND"),
         \A i : i \in done' <=> i \in done /\ (i \in done' \/ i.op = "SEND")
  PROVE  SendsKept
BY DEF SendsKept, SendIn, Completing, Go, TypeOK, WorkerTypes

\* So do a worker's steps that neither take nor handle a finished send.
LEMMA WorkerSends ==
  ASSUME TypeOK, SendDiscipline, NoLostSend, NEW w \in Workers, Worker(w),
         pc[w] # "sent", ~(\E i \in done : i.op = "SEND" /\ DequeueDone(w, i))
  PROVE  SendDiscipline' /\ NoLostSend'
<1> SUFFICES SendsKept
  BY SendsKeptDiscipline
<1>1. CASE LoopTest(w)
  BY <1>1, WorkerKeepsSends DEF LoopTest, sendVars, ioVars
<1>2. CASE DequeueAbandoned(w)
  BY <1>2, WorkerKeepsSends DEF DequeueAbandoned, sendVars, ioVars
<1>3. CASE AcceptConnects(w)
  BY <1>3, WorkerKeepsSends DEF AcceptConnects, sendVars, ioVars
<1>4. CASE CountReads(w)
  BY <1>4, WorkerKeepsSends DEF CountReads, sendVars, ioVars
<1>5. CASE Announce(w)
  BY <1>5, WorkerKeepsSends DEF Announce, Back, sendVars, ioVars
<1>6. CASE Receive(w)
  BY <1>6, WorkerKeepsSends DEF Receive, sendVars, ioVars
<1>7. CASE CloseSocketTest(w)
  <2>1. CASE connected[item[w].c]
    BY <1>7, <2>1, WorkerKeepsSends DEF CloseSocketTest, sendVars, ioVars
  <2>2. CASE ~connected[item[w].c]
    <3>1. Back(w) /\ UNCHANGED <<sendVars, ioVars>> /\ pc[w] = "closing"
      BY <1>7, <2>2 DEF CloseSocketTest
    <3> QED
      BY <3>1, WorkerKeepsSends DEF Back, sendVars, ioVars
  <2> QED
    BY <2>1, <2>2
<1>8. CASE CloseShuts(w)
  BY <1>8, WorkerKeepsSends DEF CloseShuts, sendVars, ioVars
<1>9. CASE CloseStamps(w)
  BY <1>9, WorkerKeepsSends DEF CloseStamps, sendVars, ioVars
<1>10. CASE CloseReleases(w)
  BY <1>10, WorkerKeepsSends DEF CloseReleases, sendVars, ioVars
<1>11. CASE CloseReports(w)
  BY <1>11, WorkerKeepsSends DEF CloseReports, Back, sendVars, ioVars
<1>12. CASE AcceptBinds(w)
  BY <1>12, WorkerKeepsSends DEF AcceptBinds, RecvPosted, RecvRefused, RecvItem, sendVars
<1>13. CASE Rebind(w)
  BY <1>13, WorkerKeepsSends DEF Rebind, Back, RecvPosted, RecvRefused, RecvItem, sendVars
<1>14. ASSUME NEW i \in done, DequeueDone(w, i) PROVE SendsKept
  <2>1. i.op \in {"ACCEPT", "RECV"} /\ Handler(i.op) # "sent"
    BY <1>14 DEF TypeOK, IoTypes, Items, Ops, Handler
  <2> QED
    BY <1>14, <2>1, WorkerKeepsSends DEF DequeueDone, sendVars
<1>15. ASSUME NEW i \in failed, DequeueFailed(w, i) PROVE SendsKept
  <2>1. CASE i.op = "ACCEPT"
    BY <1>15, <2>1 DEF DequeueFailed, sendVars, SendsKept, Completing
  <2>2. CASE i.op # "ACCEPT"
    <3>1. Go(w, "closing") /\ UNCHANGED <<sendVars, pending, done>> /\ item' = [item EXCEPT ![w] = i]
      BY <1>15, <2>2 DEF DequeueFailed
    <3>2. \A v \in Workers \ {w} : item'[v] = item[v]
      BY <3>1 DEF TypeOK, WorkerTypes
    <3> QED
      BY <3>1, <3>2, WorkerKeepsSends DEF sendVars
  <2> QED
    BY <2>1, <2>2
<1> QED
  BY <1>1, <1>2, <1>3, <1>4, <1>5, <1>6, <1>7, <1>8, <1>9, <1>10, <1>11, <1>12, <1>13, <1>14, <1>15
  DEF Worker, SendCompleted

\* A completion packet of a WSASend moves from the port to a worker.
LEMMA DequeueSends ==
  ASSUME TypeOK, SendDiscipline, NoLostSend, NEW w \in Workers, NEW i \in done,
         i.op = "SEND", DequeueDone(w, i)
  PROVE  SendDiscipline' /\ NoLostSend'
<1>1. /\ i.c \in Clients /\ i \in SendIn(done, i.c) /\ pc[w] = "wait"
      /\ done' = done \ {i} /\ pending' = pending /\ sendq' = sendq /\ stalled' = stalled
      /\ pc' = [pc EXCEPT ![w] = "sent"] /\ item' = [item EXCEPT ![w] = i]
  BY DEF DequeueDone, TypeOK, IoTypes, Items, SendIn, Handler, Go, sendVars
<1>2. \A v \in Workers, c \in Clients :
        /\ v # w => (Completing(v, c)' <=> Completing(v, c)) /\ item'[v] = item[v]
        /\ Completing(w, c)' <=> c = i.c
        /\ ~Completing(w, c)
  BY <1>1 DEF TypeOK, WorkerTypes, Completing
<1>3. \A c \in Clients : c # i.c => SendIn(done', c) = SendIn(done, c)
  BY <1>1 DEF SendIn
<1>4. SendsInOrder(i.c) /\ SendIn(pending \cup done, i.c) = SendIn(pending, i.c) \cup SendIn(done, i.c)
  BY <1>1 DEF SendDiscipline, SendIn
<1>5. SendIn(pending' \cup done', i.c) = {} /\ SendIn(pending', i.c) = {}
  <2>1. SendIn(pending, i.c) \cup SendIn(done, i.c) = {i}
    BY <1>1, <1>4 DEF SendsInOrder
  <2> QED
    BY <1>1, <1>4, <2>1 DEF SendIn, SendsInOrder
<1>6. /\ sendq[i.c] # <<>> /\ Head(sendq[i.c]) = i.m
      /\ \A v \in Workers : ~Completing(v, i.c)
  BY <1>1, <1>4 DEF SendsInOrder, SendIn
<1>7. item'[w] = i
  BY <1>1 DEF TypeOK, WorkerTypes
<1>8. SendsInOrder(i.c)'
  BY <1>1, <1>2, <1>5, <1>6, <1>7 DEF SendsInOrder
<1>9. ASSUME NEW c \in Clients, c # i.c
      PROVE  SendsInOrder(c)' /\ SendIn(pending' \cup done', c) = SendIn(pending \cup done, c)
  <2>1. SendIn(pending' \cup done', c) = SendIn(pending \cup done, c)
    BY <1>1, <1>9 DEF SendIn
  <2> QED
    <3>1. \A v \in Workers : /\ Completing(v, c)' <=> Completing(v, c)
                             /\ Completing(v, c) => item'[v] = item[v]
      BY <1>2, <1>9
    <3>2. SendIn(pending', c) = SendIn(pending, c) /\ SendIn(done', c) = SendIn(done, c) /\ sendq' = sendq
      BY <1>1, <1>3, <1>9
    <3>3. SendsInOrder(c)
      BY DEF SendDiscipline
    <3> QED
      BY <2>1, <3>1, <3>2, <3>3 DEF SendsInOrder
<1>10. SendDiscipline'
  BY <1>8, <1>9 DEF SendDiscipline
<1>11. Completing(w, i.c)'
  BY <1>1, <1>2
<1>12. ASSUME NEW c \in Clients, sendq'[c] # <<>>, ~stalled'[c] PROVE Sending(c)'
  <2>1. CASE c = i.c
    BY <1>11, <2>1 DEF Sending
  <2>2. CASE c # i.c
    <3>1. Sending(c)
      BY <1>1, <1>12 DEF NoLostSend
    <3> QED
      BY <1>2, <1>9, <2>2, <3>1 DEF Sending
  <2> QED
    BY <2>1, <2>2
<1> QED
  BY <1>10, <1>12 DEF NoLostSend

\* SendIO gives the front of the queue an outstanding WSASend, or the socket failed.
LEMMA SendIOSends ==
  ASSUME TypeOK, NEW c \in Clients, NEW m, SendIO(c, m), SendIn(pending \cup done, c) = {},
         done' = done
  PROVE  /\ \A i, j \in SendIn(pending' \cup done', c) : i = j /\ i.m = m
         /\ SendIn(pending', c) \cap SendIn(done', c) = {}
         /\ SendIn(pending' \cup done', c) # {} \/ stalled'[c]
         /\ \A d \in Clients \ {c} : /\ SendIn(pending', d) = SendIn(pending, d)
                                     /\ SendIn(pending' \cup done', d) = SendIn(pending \cup done, d)
                                     /\ stalled'[d] = stalled[d]
<1>1. CASE pending' = pending \cup {SendItem(c, sock[c], m)} /\ UNCHANGED stalled
  <2> DEFINE x == SendItem(c, sock[c], m)
  <2>1. x.c = c /\ x.op = "SEND" /\ x.m = m /\ pending' = pending \cup {x}
    BY <1>1 DEF SendItem
  <2> HIDE DEF x
  <2>2. SendIn(pending', c) = {x} /\ SendIn(pending' \cup done', c) = {x} /\ SendIn(done', c) = {}
    BY <1>1, <2>1 DEF SendIn
  <2>3. \A d \in Clients \ {c} : /\ SendIn(pending', d) = SendIn(pending, d)
                               /\ SendIn(pending' \cup done', d) = SendIn(pending \cup done, d)
    BY <1>1, <2>1 DEF SendIn
  <2> QED
    BY <1>1, <2>1, <2>2, <2>3
<1>2. CASE stalled' = [stalled EXCEPT ![c] = TRUE] /\ UNCHANGED pending
  BY <1>2 DEF SendIn, TypeOK, SendTypes
<1> QED
  BY <1>1, <1>2 DEF SendIO

\* The slots other than the one whose queue a step changes.
LEMMA OtherSends ==
  ASSUME SendDiscipline, NoLostSend, NEW c \in Clients,
         \A d \in Clients \ {c} :
           /\ SendIn(pending', d) = SendIn(pending, d) /\ SendIn(done', d) = SendIn(done, d)
           /\ SendIn(pending' \cup done', d) = SendIn(pending \cup done, d)
           /\ sendq'[d] = sendq[d] /\ stalled'[d] = stalled[d]
           /\ \A w \in Workers : /\ Completing(w, d)' <=> Completing(w, d)
                                 /\ Completing(w, d) => item'[w] = item[w],
         SendsInOrder(c)', sendq'[c] # <<>> /\ ~stalled'[c] => Sending(c)'
  PROVE  SendDiscipline' /\ NoLostSend'
<1>1. ASSUME NEW d \in Clients \ {c} PROVE SendsInOrder(d)' /\ (sendq'[d] # <<>> /\ ~stalled'[d] => Sending(d)')
  <2>1. SendsInOrder(d) /\ (sendq[d] # <<>> /\ ~stalled[d] => Sending(d))
    BY <1>1 DEF SendDiscipline, NoLostSend
  <2>2. SendsInOrder(d)'
    BY <1>1, <2>1 DEF SendsInOrder
  <2> QED
    BY <1>1, <2>1, <2>2 DEF Sending
<1> QED
  BY <1>1 DEF SendDiscipline, NoLostSend

\* A message goes behind the front, or is the front.
LEMMA AppendFacts ==
  ASSUME NEW q \in Seq(1..MaxSend), NEW m \in 1..MaxSend
  PROVE  /\ Append(q, m) # <<>>
         /\ q = <<>> => Len(Append(q, m)) = 1 /\ Head(Append(q, m)) = m
         /\ q # <<>> => Len(Append(q, m)) # 1 /\ Head(Append(q, m)) = Head(q)
<1>1. Append(q, m) # <<>> /\ Len(Append(q, m)) = Len(q) + 1 /\ Len(q) \in Nat
  BY AppendProperties, LenProperties
<1>2. (q = <<>> => Len(q) = 0) /\ (q # <<>> => Len(q) # 0)
  BY EmptySeq
<1>3. Head(Append(q, m)) = IF q = <<>> THEN m ELSE Head(q)
  BY HeadTailAppend
<1> QED
  BY <1>1, <1>2, <1>3

\* SendMsg starts a send only when there is none for the slot.
LEMMA SendMsgSends ==
  ASSUME TypeOK, SendDiscipline, NoLostSend, NEW c \in Clients, SendMsg(c)
  PROVE  SendDiscipline' /\ NoLostSend'
<1> DEFINE n == pushed[c] + 1
           q == Append(sendq[c], n)
<1>1. sendq[c] \in Seq(1..MaxSend) /\ n \in 1..MaxSend
  BY ServerAssumption DEF TypeOK, SendTypes, SendMsg
<1>2. /\ q # <<>>
      /\ sendq[c] = <<>> => Len(q) = 1 /\ Head(q) = n
      /\ sendq[c] # <<>> => Len(q) # 1 /\ Head(q) = Head(sendq[c])
  BY <1>1, AppendFacts
<1>3. /\ sendq' = [sendq EXCEPT ![c] = q] /\ done' = done /\ pc' = pc /\ item' = item
      /\ IF Len(q) = 1 THEN SendIO(c, n) ELSE UNCHANGED <<pending, stalled>>
  <2>1. sendq' = [sendq EXCEPT ![c] = q] /\ done' = done /\ pc' = pc /\ item' = item
    BY DEF SendMsg, workerVars
  <2>2. sendq'[c] = q
    BY <2>1 DEF TypeOK, SendTypes
  <2> QED
    BY <2>1, <2>2 DEF SendMsg, StartsSend
<1> HIDE DEF q, n
<1>4. sendq'[c] = q /\ \A d \in Clients \ {c} : sendq'[d] = sendq[d]
  BY <1>3 DEF TypeOK, SendTypes
<1>5. SendsInOrder(c) /\ \A w \in Workers, d \in Clients : Completing(w, d)' <=> Completing(w, d)
  BY <1>3 DEF SendDiscipline, Completing
<1>6. CASE sendq[c] = <<>>
  <2>1. SendIO(c, n) /\ SendIn(pending \cup done, c) = {} /\ \A w \in Workers : ~Completing(w, c)
    BY <1>2, <1>3, <1>5, <1>6 DEF SendsInOrder
  <2>2. /\ \A i, j \in SendIn(pending' \cup done', c) : i = j /\ i.m = n
        /\ SendIn(pending', c) \cap SendIn(done', c) = {}
        /\ SendIn(pending' \cup done', c) # {} \/ stalled'[c]
        /\ \A d \in Clients \ {c} : /\ SendIn(pending', d) = SendIn(pending, d)
                                    /\ SendIn(pending' \cup done', d) = SendIn(pending \cup done, d)
                                    /\ stalled'[d] = stalled[d]
    BY <1>3, <2>1, SendIOSends
  <2>3. SendsInOrder(c)' /\ (sendq'[c] # <<>> /\ ~stalled'[c] => Sending(c)')
    BY <1>2, <1>4, <1>5, <1>6, <2>1, <2>2 DEF SendsInOrder, Sending
  <2> QED
    BY <1>3, <1>4, <1>5, <2>2, <2>3, OtherSends
<1>7. CASE sendq[c] # <<>>
  <2>1. UNCHANGED <<pending, stalled, done>>
    BY <1>2, <1>3, <1>7
  <2>2. SendsInOrder(c)' /\ (sendq'[c] # <<>> /\ ~stalled'[c] => Sending(c)')
    BY <1>2, <1>3, <1>4, <1>5, <1>7, <2>1 DEF SendsInOrder, NoLostSend, Sending
  <2> QED
    BY <1>3, <1>4, <1>5, <2>1, <2>2, OtherSends
<1> QED
  BY <1>6, <1>7

\* The one outstanding send hands over to the next message, if any.
LEMMA SendCompletedSends ==
  ASSUME TypeOK, SendDiscipline, NoLostSend, NEW w \in Workers, SendCompleted(w),
         NEW c \in Clients, c = item[w].c
  PROVE  SendDiscipline' /\ NoLostSend' /\ alive'
<1> DEFINE q == Tail(sendq[c])
<1>1. Completing(w, c) /\ SendsInOrder(c)
  BY DEF SendCompleted, Completing, SendDiscipline
<1>2. /\ sendq[c] # <<>> /\ SendIn(pending \cup done, c) = {}
      /\ \A v \in Workers \ {w} : ~Completing(v, c)
  BY <1>1 DEF SendsInOrder
<1>3. /\ pc' = [pc EXCEPT ![w] = "loop"] /\ item' = [item EXCEPT ![w] = Nothing] /\ pc[w] = "sent"
      /\ sendq' = [sendq EXCEPT ![c] = q] /\ done' = done /\ alive' /\ alive
      /\ IF q # <<>> THEN SendIO(c, Head(q)) ELSE UNCHANGED <<pending, stalled>>
  BY <1>2 DEF SendCompleted, SendsNext, Back, Go
<1> HIDE DEF q
<1>4. sendq'[c] = q /\ \A d \in Clients \ {c} : sendq'[d] = sendq[d]
  BY <1>1, <1>3 DEF TypeOK, SendTypes
<1>5. /\ \A v \in Workers : ~Completing(v, c)'
      /\ \A v \in Workers, d \in Clients \ {c} :
           /\ Completing(v, d)' <=> Completing(v, d)
           /\ Completing(v, d) => item'[v] = item[v]
  <2>1. pc'[w] = "loop" /\ \A v \in Workers \ {w} : pc'[v] = pc[v] /\ item'[v] = item[v]
    BY <1>3 DEF TypeOK, WorkerTypes
  <2> QED
    BY <1>2, <2>1 DEF Completing
<1>6. CASE q # <<>>
  <2>1. SendIO(c, Head(q))
    BY <1>3, <1>6
  <2>2. /\ \A i, j \in SendIn(pending' \cup done', c) : i = j /\ i.m = Head(q)
        /\ SendIn(pending', c) \cap SendIn(done', c) = {}
        /\ SendIn(pending' \cup done', c) # {} \/ stalled'[c]
        /\ \A d \in Clients \ {c} : /\ SendIn(pending', d) = SendIn(pending, d)
                                    /\ SendIn(pending' \cup done', d) = SendIn(pending \cup done, d)
                                    /\ stalled'[d] = stalled[d]
    BY <1>1, <1>2, <1>3, <2>1, SendIOSends
  <2>3. SendsInOrder(c)' /\ (sendq'[c] # <<>> /\ ~stalled'[c] => Sending(c)')
    BY <1>4, <1>5, <1>6, <2>2 DEF SendsInOrder, Sending
  <2> QED
    BY <1>1, <1>3, <1>4, <1>5, <2>2, <2>3, OtherSends
<1>7. CASE q = <<>>
  <2>1. UNCHANGED <<pending, stalled, done>>
    BY <1>3, <1>7
  <2>2. SendsInOrder(c)' /\ (sendq'[c] # <<>> /\ ~stalled'[c] => Sending(c)')
    BY <1>1, <1>2, <1>4, <1>5, <1>7, <2>1 DEF SendsInOrder
  <2> QED
    BY <1>1, <1>3, <1>4, <1>5, <2>1, <2>2, OtherSends
<1> QED
  BY <1>6, <1>7

\* A send that ends is still the one of its slot, in the port.
LEMMA KernelSendsSends ==
  ASSUME TypeOK, SendDiscipline, NoLostSend, NEW i \in pending, KernelSends(i),
         UNCHANGED workerVars
  PROVE  SendDiscipline' /\ NoLostSend'
<1> DEFINE c == i.c
<1>1. c \in Clients /\ i \in SendIn(pending, c) /\ SendsInOrder(c)
  BY DEF KernelSends, TypeOK, IoTypes, Items, SendIn, SendDiscipline
<1>2. /\ pending' = pending \ {i} /\ sendq' = sendq
      /\ pc' = pc /\ item' = item
      /\ \/ done' = done \cup {i} /\ stalled' = stalled
         \/ done' = done /\ stalled' = [stalled EXCEPT ![c] = TRUE]
  BY DEF KernelSends, workerVars
<1>3. /\ \A v \in Workers : ~Completing(v, c)'
      /\ \A v \in Workers, d \in Clients : Completing(v, d)' <=> Completing(v, d)
  BY <1>1, <1>2 DEF SendsInOrder, Completing, SendIn
<1>4. SendIn(pending, c) = {i} /\ SendIn(done, c) = {}
  BY <1>1 DEF SendsInOrder, SendIn
<1>5. SendIn(pending', c) = {} /\ SendIn(pending' \cup done', c) = SendIn(done', c)
  BY <1>2, <1>4 DEF SendIn
<1>6. \/ SendIn(done', c) = {i} /\ stalled' = stalled
      \/ SendIn(done', c) = {} /\ stalled' = [stalled EXCEPT ![c] = TRUE]
  BY <1>1, <1>2, <1>4 DEF SendIn
<1>7. sendq[c] # <<>> /\ Head(sendq[c]) = i.m
  BY <1>1 DEF SendsInOrder, SendIn
<1>8. SendsInOrder(c)' /\ (sendq'[c] # <<>> /\ ~stalled'[c] => Sending(c)')
  <2>1. stalled' = [stalled EXCEPT ![c] = TRUE] => stalled'[c]
    BY <1>1 DEF TypeOK, SendTypes
  <2>2. SendIn(done', c) \in {{i}, {}} /\ SendIn(pending', c) \cap SendIn(done', c) = {}
    BY <1>5, <1>6
  <2>3. SendsInOrder(c)'
    <3>1. SendIn(pending' \cup done', c) \in {{i}, {}} /\ sendq'[c] # <<>> /\ Head(sendq'[c]) = i.m
      BY <1>2, <1>5, <1>7, <2>2
    <3> QED
      BY <1>3, <2>2, <3>1 DEF SendsInOrder
  <2> QED
    BY <1>5, <1>6, <2>1, <2>3 DEF Sending
<1>9. \A d \in Clients \ {c} :
        /\ SendIn(pending', d) = SendIn(pending, d) /\ SendIn(done', d) = SendIn(done, d)
        /\ SendIn(pending' \cup done', d) = SendIn(pending \cup done, d)
        /\ stalled'[d] = stalled[d]
  BY <1>2 DEF SendIn, TypeOK, SendTypes
<1> QED
  BY <1>1, <1>2, <1>3, <1>8, <1>9, OtherSends

\* The inductive invariant of the send queues.
SendInv == TypeOK /\ SendDiscipline /\ NoLostSend

\* The other completions have no part in sends.
LEMMA OtherKernelSends ==
  ASSUME TypeOK, SendDiscipline, NoLostSend, NEW i \in pending,
         KernelAccepts(i) \/ KernelReceives(i), UNCHANGED workerVars
  PROVE  SendDiscipline' /\ NoLostSend'
<1>1. /\ i.op # "SEND" /\ pending' = pending \ {i} /\ done' \in {done, done \cup {i}}
      /\ UNCHANGED <<sendq, stalled, pc, item>>
  BY DEF KernelAccepts, KernelReceives, workerVars, sendVars
<1>2. \A c \in Clients : SendIn(pending', c) = SendIn(pending, c) /\ SendIn(done', c) = SendIn(done, c)
  BY <1>1 DEF SendIn
<1> QED
  BY <1>1, <1>2, SendsKeptDiscipline DEF SendsKept, Completing

\* Every step keeps the discipline and loses no send.
LEMMA SendQueueStep ==
  ASSUME SendInv, Next PROVE SendDiscipline' /\ NoLostSend'
<1> USE DEF SendInv
<1>1. ASSUME NEW c \in Clients, ReadyAccept(c) PROVE SendsKept
  BY <1>1 DEF ReadyAccept, SendsKept, SendIn, AcceptItem, Completing, sendVars, workerVars
<1>2. ASSUME NEW c \in Clients, PeerLeaves(c) PROVE SendsKept
  BY <1>2 DEF PeerLeaves, SendsKept, SendIn, Completing, sendVars, ioVars, workerVars
<1>3. CASE Tick \/ DestroyThread
  BY <1>3, SendsKeptDiscipline
  DEF Tick, DestroyThread, SendsKept, SendIn, Completing, sendVars, ioVars, workerVars
<1>4. ASSUME NEW i \in pending, Kernel(i) PROVE SendDiscipline' /\ NoLostSend'
  BY <1>4, OtherKernelSends, KernelSendsSends DEF Kernel
<1>5. ASSUME NEW w \in Workers, Worker(w) PROVE SendDiscipline' /\ NoLostSend'
  <2>1. CASE pc[w] = "sent"
    <3>1. SendCompleted(w) /\ item[w].c \in Clients
      BY <1>5, <2>1, WorkerItem
      DEF TypeOK, Handling, Worker, LoopTest, DequeueDone, DequeueFailed, DequeueAbandoned,
          AcceptConnects, AcceptBinds, CountReads, Announce, Receive, Rebind, CloseSocketTest,
          CloseShuts, CloseStamps, CloseReleases, CloseReports
    <3> QED
      BY <3>1, SendCompletedSends
  <2>2. CASE \E i \in done : i.op = "SEND" /\ DequeueDone(w, i)
    BY <2>2, DequeueSends
  <2> QED
    BY <1>5, <2>1, <2>2, WorkerSends
<1> QED
  BY <1>1, <1>2, <1>3, <1>4, <1>5, SendMsgSends, SendsKeptDiscipline DEF Next

\* At the start all queues are empty.
LEMMA SendInvInit == Init => SendInv
<1>1. Init => SendDiscipline /\ NoLostSend
  BY DEF Init, SendDiscipline, SendsInOrder, SendIn, Completing, NoLostSend
<1> QED
  BY <1>1, TypeInit DEF SendInv

\* Types, discipline and no lost send together are inductive.
LEMMA SendInvNext == SendInv /\ [Next]_vars => SendInv'
<1>1. CASE SendInv /\ Next
  BY <1>1, TypeNext, SendQueueStep DEF SendInv
<1>2. CASE SendInv /\ UNCHANGED vars
  <2>1. SendsKept
    BY <1>2 DEF vars, sendVars, ioVars, workerVars, SendsKept, SendIn, Completing
  <2> QED
    BY <1>2, <2>1, TypeNext, SendsKeptDiscipline DEF SendInv
<1> QED
  BY <1>1, <1>2

\* However SendMsg, the workers and the kernel interleave, a slot has at most one
\* WSASend outstanding and it carries the front of send_data_queue_.
THEOREM SendsAreOrdered == Spec => []SendDiscipline
<1>1. SendInv => SendDiscipline
  BY DEF SendInv
<1> QED
  BY <1>1, SendInvInit, SendInvNext, PTL DEF Spec

\* The hand-over between SendMsg and SendCompleted loses no wake-up.
THEOREM NoSendIsLost == Spec => []NoLostSend
<1>1. SendInv => NoLostSend
  BY DEF SendInv
<1> QED
  BY <1>1, SendInvInit, SendInvNext, PTL DEF Spec

\* What a step can crash on is a failed accept and nothing else.
LEMMA CrashStep == ASSUME SendInv, Next PROVE alive' \/ FailedAccept
<1>1. ASSUME NEW w \in Workers, SendCompleted(w) PROVE alive'
  <2>1. item[w].c \in Clients
    BY <1>1, WorkerItem DEF SendInv, TypeOK, SendCompleted, Handling
  <2> QED
    BY <1>1, <2>1, SendCompletedSends DEF SendInv
<1>2. ASSUME NEW w \in Workers, NEW i \in failed, DequeueFailed(w, i)
      PROVE  alive' \/ FailedAccept
  BY <1>2 DEF DequeueFailed, FailedAccept
<1>3. ASSUME NEW w \in Workers, Worker(w) PROVE alive' \/ FailedAccept
  BY <1>1, <1>2, <1>3
  DEF Worker, LoopTest, DequeueDone, DequeueAbandoned, AcceptConnects, AcceptBinds, CountReads,
      Announce, Receive, Rebind, CloseSocketTest, CloseShuts, CloseStamps, CloseReleases,
      CloseReports
<1>4. Next => alive' \/ \E w \in Workers : Worker(w)
  BY DEF Next, ReadyAccept, SendMsg, PeerLeaves, Kernel, Tick, DestroyThread
<1> QED
  BY <1>3, <1>4

\* SendCompleted never takes front() of an empty queue (ClientInfo.h:220-240):
\* the only step that crashes a worker is the completion of a failed accept, with
\* the null completion key of the listen socket (IocpNetServer.h:271).
THEOREM WorkersDoNotCrash == Spec => OnlyAcceptCrashes
<1>1. SendInv /\ [Next]_vars => [alive' \/ FailedAccept]_vars
  BY CrashStep
<1> QED
  BY <1>1, SendInvInit, SendInvNext, PTL DEF Spec, OnlyAcceptCrashes
=============================================================================
