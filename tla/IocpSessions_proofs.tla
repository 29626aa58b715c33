------------------------- MODULE IocpSessions_proofs -------------------------
(***************************************************************************)
(* Theorems about the sessions of a slot: no I/O of an old session is left *)
(* when a new one begins, one worker at a time receives for a slot, and    *)
(* the server implements SlotLifecycle.                                    *)
(***************************************************************************)
EXTENDS IocpNetServer_proofs

\* Worker w is at one of the labels on a completion of slot c.
At(w, c, labels) == pc[w] \in labels /\ item[w].c = c

\* I/O of a closed slot is over after DrainTime seconds.
Drained == \A c \in Clients : closedAge[c] # Never /\ closedAge[c] > DrainTime => Quiet(c)

\* The slot's socket is the one of its newest session.
SockIsNewest == \A c \in Clients : sock[c] \in {0, sess[c]}

\* Only the worker that is in the middle of Close leaves a socket in a closed slot.
ClosedHasNoSocket ==
  \A c \in Clients : closedAge[c] # Never /\ sock[c] # 0 => \E w \in Workers : At(w, c, {"release"})

\* A slot that has had no session has had no I/O.
FreshIsQuiet == \A c \in Clients : sess[c] = 0 => Quiet(c)

SessionInv == TypeOK /\ NoStaleIo /\ Drained /\ SockIsNewest /\ ClosedHasNoSocket /\ FreshIsQuiet

ClosingLabels == {"close", "stamp", "release", "report"}

\* A slot that waits for a peer is not connected and nobody closes it.
AcceptingIsClosed ==
  \A c \in Clients : Accepting(c) =>
    ~connected[c] /\ \A w \in Workers : ~At(w, c, ClosingLabels)

\* A slot whose closing has begun stays disconnected until it has been reported.
ClosingIsClosed ==
  \A c \in Clients, w \in Workers : At(w, c, {"stamp", "release", "report"}) => ~connected[c]

\* A slot with a closing time is free.
ClosedIsFree ==
  \A c \in Clients : closedAge[c] # Never => ~connected[c] /\ ~Accepting(c)

\* The end of its session has been reported, or is about to be.
ReportIsDue ==
  \A c \in Clients : closedAge[c] # Never /\ sess[c] > 0 =>
    "OnClose" \in told[c] \/ \E w \in Workers : At(w, c, {"release", "report"})

SlotInv == /\ SessionInv /\ OneReceiver /\ AcceptingIsClosed /\ ClosingIsClosed
           /\ ClosedIsFree /\ ReportIsDue
-----------------------------------------------------------------------------
(* What a step may add to the I/O of a slot.                               *)

\* I/O of a slot comes from I/O of the slot, or is posted on its present socket.
IoOfPresentSocket ==
  /\ \A i \in Queued' : i \in Queued \/ (i.c \in Clients /\ i.s = sock[i.c] /\ CanPost(i.c))
  /\ \A w \in Workers : pc'[w] \in Handling =>
       (pc[w] \in Handling /\ item'[w] = item[w]) \/ (item'[w] \in done \cup failed)

\* A worker that goes on, or returns to its loop, handling what it handled.
LEMMA WorkerGoesOn ==
  ASSUME TypeOK, NEW w \in Workers, NEW label, Go(w, label),
         \/ pc[w] \in Handling /\ item' = item
         \/ label \notin Handling /\ item' \in {item, [item EXCEPT ![w] = Nothing]},
         \A i \in Queued' : i \in Queued \/ (i.c \in Clients /\ i.s = sock[i.c] /\ CanPost(i.c))
  PROVE  IoOfPresentSocket
BY DEF IoOfPresentSocket, Go, TypeOK, WorkerTypes

\* A WSARecv is on the socket that the slot has now.
LEMMA RecvGrows ==
  ASSUME NEW c \in Clients, RecvPosted(c) \/ RecvRefused(c), UNCHANGED <<done, failed>>
  PROVE  \A i \in Queued' : i \in Queued \/ (i.c \in Clients /\ i.s = sock[i.c] /\ CanPost(i.c))
BY DEF RecvPosted, RecvRefused, RecvItem, Queued

\* So is a WSASend.
LEMMA SendGrows ==
  ASSUME NEW c \in Clients, NEW m, SendIO(c, m) \/ UNCHANGED pending, UNCHANGED <<done, failed>>
  PROVE  \A i \in Queued' : i \in Queued \/ (i.c \in Clients /\ i.s = sock[i.c] /\ CanPost(i.c))
BY DEF SendIO, SendItem, Queued

\* A worker posts I/O on the present socket only.
LEMMA WorkerIo ==
  ASSUME TypeOK, NEW w \in Workers, Worker(w) PROVE IoOfPresentSocket
<1>1. CASE LoopTest(w) \/ DequeueAbandoned(w)
  BY <1>1, WorkerGoesOn DEF LoopTest, DequeueAbandoned, Handling, ioVars, Queued
<1>2. CASE AcceptConnects(w) \/ CountReads(w) \/ Receive(w)
  BY <1>2, WorkerGoesOn DEF AcceptConnects, CountReads, Receive, Handling, ioVars, Queued
<1>3. CASE CloseShuts(w) \/ CloseStamps(w) \/ CloseReleases(w)
  BY <1>3, WorkerGoesOn DEF CloseShuts, CloseStamps, CloseReleases, Handling, ioVars, Queued
<1>4. CASE Announce(w) \/ CloseReports(w)
  BY <1>4, WorkerGoesOn DEF Announce, CloseReports, Back, Handling, ioVars, Queued
<1>5. CASE CloseSocketTest(w)
  BY <1>5, WorkerGoesOn DEF CloseSocketTest, Back, Handling, ioVars, Queued
<1>6. CASE AcceptBinds(w)
  <2>1. item[w].c \in Clients
    BY <1>6, WorkerItem DEF AcceptBinds, TypeOK, Handling
  <2> QED
    BY <1>6, <2>1, RecvGrows, WorkerGoesOn DEF AcceptBinds, Handling
<1>7. CASE Rebind(w)
  <2>1. item[w].c \in Clients
    BY <1>7, WorkerItem DEF Rebind, TypeOK, Handling
  <2> QED
    BY <1>7, <2>1, RecvGrows, WorkerGoesOn DEF Rebind, Back, Handling
<1>8. CASE SendCompleted(w)
  <2>1. item[w].c \in Clients
    BY <1>8, WorkerItem DEF SendCompleted, TypeOK, Handling
  <2> QED
    BY <1>8, <2>1, SendGrows, WorkerGoesOn DEF SendCompleted, Back, Handling
<1>9. ASSUME NEW i \in done, DequeueDone(w, i) PROVE IoOfPresentSocket
  BY <1>9 DEF DequeueDone, IoOfPresentSocket, Queued, Go, TypeOK, WorkerTypes
<1>10. ASSUME NEW i \in failed, DequeueFailed(w, i) PROVE IoOfPresentSocket
  BY <1>10 DEF DequeueFailed, IoOfPresentSocket, Queued, Go, TypeOK, WorkerTypes
<1> QED
  BY <1>1, <1>2, <1>3, <1>4, <1>5, <1>6, <1>7, <1>8, <1>9, <1>10 DEF Worker

\* So does everybody else but the accepter.
LEMMA OtherIo ==
  ASSUME TypeOK,
         \/ \E c \in Clients : SendMsg(c) \/ PeerLeaves(c)
         \/ \E i \in pending : Kernel(i)
         \/ Tick \/ DestroyThread \/ UNCHANGED vars
  PROVE  IoOfPresentSocket /\ pc' = pc /\ item' = item /\ sess' = sess /\ sock' = sock
<1>1. ASSUME NEW c \in Clients, SendMsg(c)
      PROVE IoOfPresentSocket /\ pc' = pc /\ item' = item /\ sess' = sess /\ sock' = sock
  <2>1. UNCHANGED <<pc, item, sess, sock, done, failed>>
    BY <1>1 DEF SendMsg, slotVars, workerVars
  <2>2. SendIO(c, pushed[c] + 1) \/ UNCHANGED pending
    BY <1>1 DEF SendMsg
  <2> QED
    BY <2>1, <2>2, SendGrows DEF IoOfPresentSocket
<1>2. ASSUME NEW i \in pending, Kernel(i)
      PROVE IoOfPresentSocket /\ pc' = pc /\ item' = item /\ sess' = sess /\ sock' = sock
  BY <1>2 DEF Kernel, KernelAccepts, KernelReceives, KernelSends, IoOfPresentSocket, Queued,
              slotVars, workerVars
<1>3. CASE \/ \E c \in Clients : PeerLeaves(c)
           \/ Tick \/ DestroyThread \/ UNCHANGED vars
  BY <1>3 DEF PeerLeaves, Tick, DestroyThread, vars, IoOfPresentSocket, Queued, slotVars, ioVars,
              workerVars
<1> QED
  BY <1>1, <1>2, <1>3

\* A worker moves itself; a socket changes only by release and an age by stamp.
LEMMA WorkerLocal ==
  ASSUME TypeOK, NEW w \in Workers, Worker(w)
  PROVE  /\ \A v \in Workers \ {w} : pc'[v] = pc[v] /\ item'[v] = item[v]
         /\ sess' = sess
         /\ sock' = sock \/ CloseReleases(w)
         /\ closedAge' = closedAge \/ CloseStamps(w)
         /\ pc[w] = "release" => CloseReleases(w)
<1> USE DEF TypeOK, WorkerTypes, Go, Back, slotVars
<1>1. CASE LoopTest(w) \/ DequeueAbandoned(w) \/ AcceptConnects(w) \/ CountReads(w) \/ Receive(w)
  BY <1>1 DEF LoopTest, DequeueAbandoned, AcceptConnects, CountReads, Receive
<1>2. CASE CloseShuts(w) \/ CloseStamps(w) \/ CloseReleases(w)
  BY <1>2 DEF CloseShuts, CloseStamps, CloseReleases
<1>3. CASE Announce(w) \/ CloseReports(w)
  BY <1>3 DEF Announce, CloseReports
<1>4. CASE CloseSocketTest(w)
  BY <1>4 DEF CloseSocketTest
<1>5. CASE AcceptBinds(w) \/ Rebind(w) \/ SendCompleted(w)
  BY <1>5 DEF AcceptBinds, Rebind, SendCompleted
<1>6. CASE (\E i \in done : DequeueDone(w, i)) \/ (\E i \in failed : DequeueFailed(w, i))
  BY <1>6 DEF DequeueDone, DequeueFailed
<1> QED
  BY <1>1, <1>2, <1>3, <1>4, <1>5, <1>6 DEF Worker

\* A quiet slot whose socket cannot post stays quiet.
LEMMA QuietStays ==
  ASSUME IoOfPresentSocket, NEW c \in Clients, Quiet(c), ~CanPost(c) PROVE Quiet(c)'
BY DEF IoOfPresentSocket, Quiet, Busy, Queued

\* Steps within the sessions make no old I/O.
LEMMA NoStaleStep ==
  ASSUME TypeOK, IoOfPresentSocket, sess' = sess, NoStaleIo, SockIsNewest PROVE NoStaleIo'
<1>1. \A i \in Queued' : i.s = sess[i.c]
  BY DEF IoOfPresentSocket, NoStaleIo, SockIsNewest, CanPost
<1>2. \A w \in Busy' : item'[w].s = sess[item'[w].c]
  BY DEF IoOfPresentSocket, NoStaleIo, Busy, Queued
<1> QED
  BY <1>1, <1>2 DEF NoStaleIo

\* A slot that waits for its reuse in silence cannot post.
LEMMA QuietHasNoSocket ==
  ASSUME SessionInv, NEW c \in Clients, closedAge[c] # Never, Quiet(c) PROVE ~CanPost(c)
<1>1. \A w \in Workers : ~At(w, c, {"release"})
  BY DEF Quiet, Busy, At, Handling
<1> QED
  BY <1>1 DEF SessionInv, ClosedHasNoSocket, CanPost

\* The sessions' invariant is kept by the workers,
LEMMA SessionWorker ==
  ASSUME SessionInv, NEW w \in Workers, Worker(w) PROVE SessionInv'
<1>1. TypeOK' /\ TypeOK /\ IoOfPresentSocket /\ sess' = sess
  BY TypeNext, WorkerIo, WorkerLocal DEF SessionInv, Next
<1>2. NoStaleIo'
  BY <1>1, NoStaleStep DEF SessionInv
<1>3. SockIsNewest'
  BY <1>1, WorkerLocal DEF SessionInv, SockIsNewest, CloseReleases, TypeOK, SlotTypes
<1>4. Drained'
  <2> SUFFICES ASSUME NEW c \in Clients, closedAge'[c] # Never, closedAge'[c] > DrainTime PROVE Quiet(c)'
    BY DEF Drained
  <2>1. closedAge'[c] = closedAge[c]
    BY <1>1, WorkerLocal, ServerAssumption DEF CloseStamps, ClosedStamp, TypeOK, SlotTypes
  <2>2. Quiet(c)
    BY <2>1 DEF SessionInv, Drained
  <2> QED
    BY <1>1, <2>1, <2>2, QuietHasNoSocket, QuietStays
<1>5. FreshIsQuiet'
  <2> SUFFICES ASSUME NEW c \in Clients, sess[c] = 0 PROVE Quiet(c)'
    BY <1>1 DEF FreshIsQuiet
  <2>1. Quiet(c) /\ ~CanPost(c)
    BY DEF SessionInv, FreshIsQuiet, SockIsNewest, CanPost
  <2> QED
    BY <1>1, <2>1, QuietStays
<1>6. ClosedHasNoSocket'
  <2> SUFFICES ASSUME NEW c \in Clients, closedAge'[c] # Never, sock'[c] # 0
               PROVE  \E v \in Workers : At(v, c, {"release"})'
    BY DEF ClosedHasNoSocket
  <2>1. CASE CloseStamps(w) /\ c = item[w].c
    <3>1. pc'[w] = "release" /\ item'[w] = item[w]
      BY <1>1, <2>1 DEF CloseStamps, Go, TypeOK, WorkerTypes
    <3> QED
      BY <2>1, <3>1 DEF At
  <2>2. CASE CloseReleases(w) /\ c = item[w].c
    BY <1>1, <2>2 DEF CloseReleases, TypeOK, SlotTypes
  <2>3. CASE ~(CloseStamps(w) /\ c = item[w].c) /\ ~(CloseReleases(w) /\ c = item[w].c)
    <3>1. closedAge[c] = closedAge'[c] /\ sock[c] = sock'[c]
      BY <1>1, <2>3, WorkerLocal DEF CloseStamps, CloseReleases, TypeOK, SlotTypes
    <3>2. PICK v \in Workers : At(v, c, {"release"})
      BY <3>1 DEF SessionInv, ClosedHasNoSocket
    <3>3. v # w
      BY <1>1, <2>3, <3>2, WorkerLocal DEF At
    <3> QED
      BY <1>1, <3>2, <3>3, WorkerLocal DEF At
  <2> QED
    BY <2>1, <2>2, <2>3
<1> QED
  BY <1>1, <1>2, <1>3, <1>4, <1>5, <1>6 DEF SessionInv

\* by the kernel, the peers, the clock and the shutdown,
LEMMA SessionOther ==
  ASSUME SessionInv,
         \/ \E c \in Clients : SendMsg(c) \/ PeerLeaves(c)
         \/ \E i \in pending : Kernel(i)
         \/ Tick \/ DestroyThread \/ UNCHANGED vars
  PROVE  SessionInv'
<1>1. TypeOK' /\ IoOfPresentSocket /\ pc' = pc /\ item' = item /\ sess' = sess /\ sock' = sock
  BY TypeNext, OtherIo DEF SessionInv, Next
<1>2. NoStaleIo' /\ SockIsNewest'
  BY <1>1, NoStaleStep DEF SessionInv, SockIsNewest
<1>3. \A c \in Clients : Quiet(c) /\ ~CanPost(c) => Quiet(c)'
  BY <1>1, QuietStays
<1>4. closedAge' = closedAge \/ Tick
  BY DEF SendMsg, PeerLeaves, Kernel, KernelAccepts, KernelReceives, KernelSends, DestroyThread,
         vars, slotVars
<1>5. Drained'
  <2> SUFFICES ASSUME NEW c \in Clients, closedAge'[c] # Never, closedAge'[c] > DrainTime PROVE Quiet(c)'
    BY DEF Drained
  <2>1. closedAge[c] # Never /\ Quiet(c)
    <3>1. CASE closedAge' = closedAge
      BY <3>1 DEF SessionInv, Drained
    <3>2. CASE Tick
      <4>1. closedAge[c] # Never /\ closedAge[c] >= DrainTime
        BY <3>2, ServerAssumption DEF Tick, SessionInv, TypeOK, SlotTypes
      <4> QED
        BY <3>2, <4>1, ServerAssumption DEF Tick, SessionInv, Drained, TypeOK, SlotTypes
    <3> QED
      BY <1>4, <3>1, <3>2
  <2> QED
    BY <1>3, <2>1, QuietHasNoSocket
<1>6. FreshIsQuiet'
  BY <1>1, <1>3 DEF SessionInv, FreshIsQuiet, SockIsNewest, CanPost
<1>7. ClosedHasNoSocket'
  <2>1. \A c \in Clients : closedAge'[c] # Never => closedAge[c] # Never
    BY <1>4 DEF Tick
  <2> QED
    BY <1>1, <2>1 DEF SessionInv, ClosedHasNoSocket, At
<1> QED
  BY <1>1, <1>2, <1>5, <1>6, <1>7 DEF SessionInv

\* The accepter re-arms a slot only after its I/O is over.
LEMMA ReuseIsQuiet ==
  ASSUME SessionInv, NEW c \in Clients, MayReuse(c) PROVE Quiet(c) /\ closedAge[c] # Never
BY ServerAssumption DEF MayReuse, SessionInv, Drained, TypeOK, SlotTypes

\* and by the accepter, which begins a session in a quiet slot.
LEMMA SessionReadyAccept ==
  ASSUME SessionInv, NEW c \in Clients, ReadyAccept(c) PROVE SessionInv'
<1>1. TypeOK' /\ Quiet(c)
  BY TypeNext, ReuseIsQuiet DEF SessionInv, Next, ReadyAccept
<1>2. /\ closedAge' = [closedAge EXCEPT ![c] = Never] /\ UNCHANGED <<done, failed, pc, item, connected>>
      /\ \/ /\ sess' = [sess EXCEPT ![c] = @ + 1] /\ sock' = [sock EXCEPT ![c] = sess[c] + 1]
            /\ pending' \in {pending, pending \cup {AcceptItem(c, sess[c] + 1)}}
         \/ sess' = sess /\ pending' = pending /\ sock' = [sock EXCEPT ![c] = 0]
  BY DEF ReadyAccept, ArmedStamp, workerVars
<1>3. /\ closedAge'[c] = Never
      /\ \A d \in Clients \ {c} :
           closedAge'[d] = closedAge[d] /\ sock'[d] = sock[d] /\ sess'[d] = sess[d] /\ (Quiet(d) => Quiet(d)')
  BY <1>2 DEF SessionInv, TypeOK, SlotTypes, Quiet, Busy, Queued, AcceptItem
<1>4. sess[c] \in Nat
  BY ServerAssumption DEF SessionInv, TypeOK, SlotTypes
<1>5. sock'[c] \in {0, sess'[c]} /\ (sess'[c] = 0 => Quiet(c)')
  BY <1>1, <1>2, <1>4 DEF SessionInv, TypeOK, SlotTypes, Quiet, Busy, Queued
<1>6. NoStaleIo'
  <2>1. ASSUME NEW i \in Queued' PROVE i.s = sess'[i.c]
    <3>1. i \in Queued => i.c \in Clients \ {c} /\ i.s = sess[i.c]
      BY <1>1 DEF SessionInv, NoStaleIo, Quiet, TypeOK, IoTypes, Items, Queued
    <3>2. i \notin Queued => i.c = c /\ i.s = sess'[c]
      BY <1>2, <1>4, <2>1 DEF Queued, AcceptItem, SessionInv, TypeOK, SlotTypes
    <3> QED
      BY <1>3, <3>1, <3>2
  <2>2. ASSUME NEW w \in Busy' PROVE item'[w].s = sess'[item'[w].c]
    <3>1. w \in Busy /\ w \in Workers /\ item' = item
      BY <1>2, <2>2 DEF Busy
    <3>2. item[w].c \in Clients \ {c} /\ item[w].s = sess[item[w].c]
      BY <1>1, <3>1, WorkerItem DEF SessionInv, NoStaleIo, Quiet, Busy, TypeOK
    <3> QED
      BY <1>3, <3>1, <3>2
  <2> QED
    BY <2>1, <2>2 DEF NoStaleIo
<1> QED
  BY <1>1, <1>2, <1>3, <1>5, <1>6
  DEF SessionInv, Drained, SockIsNewest, ClosedHasNoSocket, FreshIsQuiet, At

\* At the start no slot has been used.
LEMMA SessionInit == Init => SessionInv
<1> SUFFICES ASSUME Init PROVE SessionInv
  OBVIOUS
<1>1. \A c \in Clients : Quiet(c)
  BY DEF Init, Quiet, Busy, Queued, Handling
<1>2. NoStaleIo /\ SockIsNewest /\ ClosedHasNoSocket
  BY DEF Init, NoStaleIo, Busy, Queued, Handling, SockIsNewest, ClosedHasNoSocket
<1> QED
  BY <1>1, <1>2, TypeInit DEF SessionInv, Drained, FreshIsQuiet

\* Every step keeps it.
LEMMA SessionNext == SessionInv /\ [Next]_vars => SessionInv'
BY SessionWorker, SessionOther, SessionReadyAccept DEF Next

\* RE_USE_SESSION_WAIT_TIMESEC does what its comment hopes for, provided the I/O of
\* a closed session is over after DrainTime seconds: whatever the interleaving, no
\* operation, completion packet or worker of an old session is left in a slot that
\* has a new socket.
THEOREM NoStaleIoEver == Spec => []NoStaleIo
<1>1. SessionInv => NoStaleIo
  BY DEF SessionInv
<1> QED
  BY <1>1, SessionInit, SessionNext, PTL DEF Spec
-----------------------------------------------------------------------------
(* One receiver per slot.                                                  *)

\* What a step that neither posts nor dequeues an ACCEPT or a RECV leaves alone.
ReceiversKept(c) ==
  /\ RecvIn(pending', c) = RecvIn(pending, c) /\ RecvIn(done', c) = RecvIn(done, c)
  /\ \A w \in Workers : Receiving(w, c)' <=> Receiving(w, c)

\* Where receives and their handlers stay, one stays one.
LEMMA ReceiversKeptOne ==
  ASSUME NEW c, OneReceiverOf(c), ReceiversKept(c) PROVE OneReceiverOf(c)'
<1>1. RecvIn(pending' \cup done', c) = RecvIn(pending \cup done, c)
  BY DEF ReceiversKept, RecvIn
<1> QED
  BY <1>1 DEF ReceiversKept, OneReceiverOf

\* A worker that stays, or stays out of, the receiving labels.
LEMMA WorkerReceiversKept ==
  ASSUME NEW w \in Workers, NEW label, Go(w, label), TypeOK,
         \A v \in Workers \ {w} : item'[v] = item[v],
         \/ label \notin {"accept", "bind", "receive", "rebind"} /\ pc[w] \notin {"accept", "bind", "receive", "rebind"}
         \/ label \in {"bind", "rebind"} /\ pc[w] \in {"accept", "receive"} /\ item' = item,
         \A i : i.op # "SEND" => (i \in pending' <=> i \in pending) /\ (i \in done' <=> i \in done),
         NEW c
  PROVE  ReceiversKept(c)
BY DEF ReceiversKept, RecvIn, Receiving, Go, TypeOK, WorkerTypes

\* A worker posts a receive only once it has read what the last one brought.
LEMMA ReceiverWorker ==
  ASSUME TypeOK, NEW w \in Workers, Worker(w), NEW c \in Clients, OneReceiverOf(c)
  PROVE  OneReceiverOf(c)'
<1>1. CASE LoopTest(w) \/ DequeueAbandoned(w) \/ CountReads(w) \/ AcceptConnects(w) \/ Receive(w)
  BY <1>1, WorkerReceiversKept, ReceiversKeptOne
  DEF LoopTest, DequeueAbandoned, CountReads, AcceptConnects, Receive, ioVars
<1>2. CASE CloseShuts(w) \/ CloseStamps(w) \/ CloseReleases(w)
  BY <1>2, WorkerReceiversKept, ReceiversKeptOne DEF CloseShuts, CloseStamps, CloseReleases, ioVars
<1>3. CASE Announce(w) \/ CloseReports(w)
  <2>1. Back(w) /\ UNCHANGED ioVars /\ pc[w] \in {"announce", "report"}
    BY <1>3 DEF Announce, CloseReports
  <2> QED
    BY <2>1, WorkerReceiversKept, ReceiversKeptOne DEF Back, ioVars
<1>4. CASE CloseSocketTest(w)
  <2>1. CASE connected[item[w].c]
    BY <1>4, <2>1, WorkerReceiversKept, ReceiversKeptOne DEF CloseSocketTest, ioVars
  <2>2. CASE ~connected[item[w].c]
    <3>1. Back(w) /\ UNCHANGED ioVars /\ pc[w] = "closing"
      BY <1>4, <2>2 DEF CloseSocketTest
    <3> QED
      BY <3>1, WorkerReceiversKept, ReceiversKeptOne DEF Back, ioVars
  <2> QED
    BY <2>1, <2>2
<1>5. CASE SendCompleted(w)
  <2>1. \A i : i.op # "SEND" => (i \in pending' <=> i \in pending) /\ (i \in done' <=> i \in done)
    <3>1. done' = done /\ \E x : x.op = "SEND" /\ pending' \in {pending, pending \cup {x}}
      <4>1. done' = done /\ (UNCHANGED pending \/ \E d, m : SendIO(d, m))
        BY <1>5 DEF SendCompleted
      <4>2. \A d, m : SendItem(d, sock[d], m).op = "SEND"
        BY DEF SendItem
      <4>3. \E x : x.op = "SEND"
        BY <4>2
      <4> QED
        BY <4>1, <4>2, <4>3 DEF SendIO
    <3> QED
      BY <3>1
  <2>2. Go(w, "loop") /\ item' = [item EXCEPT ![w] = Nothing] /\ pc[w] = "sent"
    BY <1>5 DEF SendCompleted, Back
  <2>3. \A v \in Workers \ {w} : item'[v] = item[v]
    BY <2>2 DEF TypeOK, WorkerTypes
  <2> QED
    BY <2>1, <2>2, <2>3, WorkerReceiversKept, ReceiversKeptOne
<1>6. CASE AcceptBinds(w) \/ Rebind(w)
  <2>1. /\ Receiving(w, item[w].c) /\ done' = done /\ pc'[w] \in {"count", "closing", "loop"}
        /\ \A v \in Workers \ {w} : pc'[v] = pc[v] /\ item'[v] = item[v]
        /\ \/ pending' = pending
           \/ pending' = pending \cup {RecvItem(item[w].c, sock[item[w].c])}
    BY <1>6 DEF AcceptBinds, Rebind, Back, Go, Receiving, RecvPosted, RecvRefused, TypeOK, WorkerTypes
  <2>2. \A v \in Workers : Receiving(v, c)' => v # w /\ Receiving(v, c)
    BY <2>1 DEF Receiving
  <2>3. CASE c # item[w].c
    <3>1. RecvIn(pending', c) = RecvIn(pending, c) /\ RecvIn(done', c) = RecvIn(done, c)
      BY <2>1, <2>3 DEF RecvIn, RecvItem
    <3>2. \A v \in Workers : Receiving(v, c) => v # w /\ Receiving(v, c)'
      BY <2>1, <2>3 DEF Receiving
    <3> QED
      BY <2>2, <3>1, <3>2, ReceiversKeptOne DEF ReceiversKept
  <2>4. CASE c = item[w].c
    <3>1. RecvIn(pending \cup done, c) = {} /\ \A v \in Workers : ~Receiving(v, c)'
      BY <2>1, <2>2, <2>4 DEF OneReceiverOf
    <3>2. PICK x : RecvIn(pending' \cup done', c) \subseteq {x}
      BY <2>1, <2>4, <3>1 DEF RecvIn
    <3>3. RecvIn(done', c) = {}
      BY <2>1, <3>1 DEF RecvIn
    <3> QED
      BY <3>1, <3>2, <3>3 DEF OneReceiverOf
  <2> QED
    BY <2>3, <2>4
<1>7. ASSUME NEW i \in done, DequeueDone(w, i) PROVE OneReceiverOf(c)'
  <2>1. /\ i.op \in Ops /\ pending' = pending /\ done' = done \ {i} /\ pc[w] = "wait"
        /\ pc'[w] = Handler(i.op) /\ item'[w] = i
        /\ \A v \in Workers \ {w} : pc'[v] = pc[v] /\ item'[v] = item[v]
    BY <1>7 DEF DequeueDone, Go, TypeOK, IoTypes, WorkerTypes, Items
  <2>2. \A v \in Workers \ {w} : Receiving(v, c)' <=> Receiving(v, c)
    BY <2>1 DEF Receiving
  <2>3. Receiving(w, c)' <=> i.c = c /\ i.op # "SEND"
    BY <2>1 DEF Receiving, Handler, Ops
  <2>4. ~Receiving(w, c)
    BY <2>1 DEF Receiving
  <2>5. CASE i.c # c \/ i.op = "SEND"
    <3>1. RecvIn(pending', c) = RecvIn(pending, c) /\ RecvIn(done', c) = RecvIn(done, c)
      BY <2>1, <2>5 DEF RecvIn
    <3> QED
      BY <2>2, <2>3, <2>4, <2>5, <3>1, ReceiversKeptOne DEF ReceiversKept
  <2>6. CASE i.c = c /\ i.op # "SEND"
    <3>1. i \in RecvIn(done, c) /\ i \in RecvIn(pending \cup done, c)
      BY <2>6 DEF RecvIn
    <3>2. RecvIn(pending' \cup done', c) = {} /\ RecvIn(done', c) = {}
      BY <2>1, <3>1 DEF OneReceiverOf, RecvIn
    <3>3. \A v \in Workers \ {w} : ~Receiving(v, c)'
      BY <2>2, <3>1 DEF OneReceiverOf
    <3> QED
      BY <3>2, <3>3 DEF OneReceiverOf
  <2> QED
    BY <2>5, <2>6
<1>8. ASSUME NEW i \in failed, DequeueFailed(w, i) PROVE OneReceiverOf(c)'
  <2>1. CASE i.op = "ACCEPT"
    BY <1>8, <2>1, ReceiversKeptOne DEF DequeueFailed, ReceiversKept, Receiving
  <2>2. CASE i.op # "ACCEPT"
    <3>1. /\ Go(w, "closing") /\ UNCHANGED <<pending, done>> /\ item' = [item EXCEPT ![w] = i]
          /\ pc[w] = "wait"
      BY <1>8, <2>2 DEF DequeueFailed
    <3>2. \A v \in Workers \ {w} : item'[v] = item[v]
      BY <3>1 DEF TypeOK, WorkerTypes
    <3> QED
      BY <3>1, <3>2, WorkerReceiversKept, ReceiversKeptOne
  <2> QED
    BY <2>1, <2>2
<1> QED
  BY <1>1, <1>2, <1>3, <1>4, <1>5, <1>6, <1>7, <1>8 DEF Worker

\* The kernel turns the pending receive into a completion.
LEMMA ReceiverKernel ==
  ASSUME TypeOK, NEW i \in pending, Kernel(i), NEW c \in Clients, OneReceiverOf(c)
  PROVE  OneReceiverOf(c)'
<1>1. /\ pending' = pending \ {i} /\ done' \in {done, done \cup {i}} /\ pc' = pc /\ item' = item
  BY DEF Kernel, KernelAccepts, KernelReceives, KernelSends, workerVars
<1>2. \A w \in Workers : Receiving(w, c)' <=> Receiving(w, c)
  BY <1>1 DEF Receiving
<1>3. CASE i \in RecvIn(pending, c)
  <2>1. /\ RecvIn(pending, c) = {i} /\ RecvIn(done, c) = {} /\ \A w \in Workers : ~Receiving(w, c)
    BY <1>3 DEF OneReceiverOf, RecvIn
  <2>2. RecvIn(pending', c) = {} /\ RecvIn(pending' \cup done', c) \subseteq {i}
    BY <1>1, <2>1 DEF RecvIn
  <2> QED
    BY <1>2, <2>1, <2>2 DEF OneReceiverOf
<1>4. CASE i \notin RecvIn(pending, c)
  <2>1. RecvIn(pending', c) = RecvIn(pending, c) /\ RecvIn(done', c) = RecvIn(done, c)
    BY <1>1, <1>4 DEF RecvIn
  <2> QED
    BY <1>2, <2>1, ReceiversKeptOne DEF ReceiversKept
<1> QED
  BY <1>3, <1>4

\* A slot that is armed has neither a receive nor a reader.
LEMMA ReceiverReadyAccept ==
  ASSUME SessionInv, NEW d \in Clients, ReadyAccept(d), NEW c \in Clients, OneReceiverOf(c)
  PROVE  OneReceiverOf(c)'
<1>1. Quiet(d)
  BY ReuseIsQuiet DEF ReadyAccept
<1>2. /\ UNCHANGED <<done, pc, item>>
      /\ pending' \in {pending, pending \cup {AcceptItem(d, sess[d] + 1)}}
  BY DEF ReadyAccept, workerVars
<1>3. \A w \in Workers : Receiving(w, c)' <=> Receiving(w, c)
  BY <1>2 DEF Receiving
<1>4. CASE c = d
  <2>1. RecvIn(pending, c) = {} /\ RecvIn(done, c) = {} /\ \A w \in Workers : ~Receiving(w, c)
    BY <1>1, <1>4 DEF Quiet, Queued, Busy, RecvIn, Receiving, Handling
  <2>2. RecvIn(done', c) = {} /\ RecvIn(pending' \cup done', c) \subseteq {AcceptItem(d, sess[d] + 1)}
    BY <1>2, <2>1 DEF RecvIn
  <2> QED
    BY <1>3, <2>1, <2>2 DEF OneReceiverOf
<1>5. CASE c # d
  <2>1. AcceptItem(d, sess[d] + 1).c = d
    BY DEF AcceptItem
  <2>2. RecvIn(pending', c) = RecvIn(pending, c) /\ RecvIn(done', c) = RecvIn(done, c)
    BY <1>2, <1>5, <2>1 DEF RecvIn
  <2> QED
    BY <1>3, <2>2, ReceiversKeptOne DEF ReceiversKept
<1> QED
  BY <1>4, <1>5

\* Every step keeps one receiver per slot.
LEMMA ReceiverStep == ASSUME SessionInv, OneReceiver, [Next]_vars PROVE OneReceiver'
<1> SUFFICES ASSUME NEW c \in Clients, OneReceiverOf(c) PROVE OneReceiverOf(c)'
  BY DEF OneReceiver
<1>1. ASSUME NEW d \in Clients, SendMsg(d) PROVE OneReceiverOf(c)'
  <2>1. UNCHANGED <<done, pc, item>> /\ (UNCHANGED pending \/ \E m : SendIO(d, m))
    BY <1>1 DEF SendMsg, workerVars
  <2>2. RecvIn(pending', c) = RecvIn(pending, c)
    BY <2>1 DEF RecvIn, SendIO, SendItem
  <2> QED
    BY <2>1, <2>2, ReceiversKeptOne DEF ReceiversKept, Receiving
<1>2. CASE (\E d \in Clients : PeerLeaves(d)) \/ Tick \/ DestroyThread \/ UNCHANGED vars
  BY <1>2, ReceiversKeptOne
  DEF PeerLeaves, Tick, DestroyThread, vars, ReceiversKept, Receiving, RecvIn, ioVars, workerVars
<1> QED
  BY <1>1, <1>2, ReceiverWorker, ReceiverKernel, ReceiverReadyAccept DEF Next, SessionInv

\* At most one WSARecv is outstanding per slot, and only one worker reads its
\* recv_buf_ and runs OnReceive for it.
THEOREM OneReceiverEver == Spec => []OneReceiver
<1>1. Init => OneReceiver
  BY DEF Init, OneReceiver, OneReceiverOf, RecvIn, Receiving
<1>2. SessionInv /\ OneReceiver /\ [Next]_vars => SessionInv' /\ OneReceiver'
  BY SessionNext, ReceiverStep
<1> QED
  BY <1>1, <1>2, SessionInit, PTL DEF Spec
-----------------------------------------------------------------------------
(* The state of a slot.                                                    *)

\* Whether a slot is accepting is changed by the worker that connects it alone.
LEMMA AcceptingWorker ==
  ASSUME TypeOK, NEW w \in Workers, Worker(w), NEW c \in Clients,
         ~(AcceptConnects(w) /\ item[w].c = c)
  PROVE  Accepting(c)' <=> Accepting(c)
<1> DEFINE Queue(S) == {i \in S : i.c = c /\ i.op = "ACCEPT"}
<1>1. \A v \in Workers \ {w} : pc'[v] = pc[v] /\ item'[v] = item[v]
  BY WorkerLocal
<1>2. CASE /\ Queue(pending' \cup done') = Queue(pending \cup done)
           /\ (pc'[w] = "accept" /\ item'[w].c = c <=> pc[w] = "accept" /\ item[w].c = c)
  BY <1>1, <1>2 DEF Accepting
<1>3. CASE UNCHANGED <<pending, done>> /\ pc[w] # "accept" /\ pc'[w] # "accept"
  BY <1>2, <1>3
<1>4. CASE \/ LoopTest(w) \/ DequeueAbandoned(w) \/ CountReads(w) \/ Announce(w) \/ Receive(w)
           \/ CloseSocketTest(w) \/ CloseShuts(w) \/ CloseStamps(w) \/ CloseReleases(w) \/ CloseReports(w)
  <2>1. UNCHANGED <<pending, done>> /\ pc[w] # "accept" /\ pc'[w] # "accept"
    BY <1>4 DEF LoopTest, DequeueAbandoned, CountReads, Announce, Receive, CloseSocketTest, CloseShuts,
                CloseStamps, CloseReleases, CloseReports, Go, Back, ioVars, TypeOK, WorkerTypes
  <2> QED
    BY <1>3, <2>1
<1>5. CASE AcceptConnects(w)
  BY <1>2, <1>5 DEF AcceptConnects, Go, ioVars, TypeOK, WorkerTypes
<1>6. CASE AcceptBinds(w) \/ Rebind(w) \/ SendCompleted(w)
  <2>1. /\ done' = done /\ pc[w] # "accept" /\ pc'[w] # "accept"
        /\ \/ pending' = pending
           \/ \E d : RecvPosted(d)
           \/ \E d, m : SendIO(d, m)
    BY <1>6 DEF AcceptBinds, Rebind, SendCompleted, RecvRefused, Go, Back, TypeOK, WorkerTypes
  <2>2. \E x : x.op # "ACCEPT" /\ pending' \in {pending, pending \cup {x}}
    <3>1. \A d, m : SendItem(d, sock[d], m).op # "ACCEPT" /\ RecvItem(d, sock[d]).op # "ACCEPT"
      BY DEF SendItem, RecvItem
    <3>2. \E x : x.op # "ACCEPT"
      BY <3>1
    <3> QED
      BY <2>1, <3>1, <3>2 DEF RecvPosted, SendIO
  <2> QED
    BY <1>2, <2>1, <2>2
<1>7. ASSUME NEW i \in done, DequeueDone(w, i) PROVE Accepting(c)' <=> Accepting(c)
  <2>1. /\ i.op \in Ops /\ pending' = pending /\ done' = done \ {i} /\ pc[w] = "wait"
        /\ pc'[w] = Handler(i.op) /\ item'[w] = i
    BY <1>7 DEF DequeueDone, Go, TypeOK, IoTypes, WorkerTypes, Items
  <2>2. CASE i.op = "ACCEPT" /\ i.c = c
    BY <1>7, <2>1, <2>2 DEF Accepting, Handler
  <2>3. CASE ~(i.op = "ACCEPT" /\ i.c = c)
    <3>1. ~(pc'[w] = "accept" /\ item'[w].c = c)
      BY <2>1, <2>3 DEF Handler, Ops
    <3>2. Queue(pending' \cup done') = Queue(pending \cup done)
      BY <2>1, <2>3
    <3> QED
      BY <1>2, <2>1, <3>1, <3>2
  <2> QED
    BY <2>2, <2>3
<1>8. ASSUME NEW i \in failed, DequeueFailed(w, i) PROVE Accepting(c)' <=> Accepting(c)
  <2>1. UNCHANGED <<pending, done>> /\ pc[w] # "accept" /\ pc'[w] # "accept"
    BY <1>8 DEF DequeueFailed, Go, TypeOK, WorkerTypes
  <2> QED
    BY <1>3, <2>1
<1> QED
  BY <1>4, <1>5, <1>6, <1>7, <1>8 DEF Worker

\* There is only one accept, and it ends when its worker connects.
LEMMA AcceptingConnects ==
  ASSUME TypeOK, NEW w \in Workers, AcceptConnects(w), NEW c \in Clients, item[w].c = c,
         OneReceiverOf(c)
  PROVE  Accepting(c) /\ ~Accepting(c)'
<1>1. Receiving(w, c) /\ pc[w] = "accept" /\ pc' = [pc EXCEPT ![w] = "bind"] /\ item' = item /\ UNCHANGED ioVars
  BY DEF AcceptConnects, Go, Receiving
<1>2. RecvIn(pending \cup done, c) = {} /\ \A v \in Workers \ {w} : ~Receiving(v, c)
  BY <1>1 DEF OneReceiverOf
<1>3. \A v \in Workers : ~(pc'[v] = "accept" /\ item'[v].c = c)
  BY <1>1, <1>2 DEF Receiving, TypeOK, WorkerTypes
<1> QED
  BY <1>1, <1>2, <1>3 DEF Accepting, RecvIn, ioVars

\* The steps of a worker that neither open nor close a slot.
LEMMA WorkerCalm ==
  ASSUME TypeOK, NEW w \in Workers, Worker(w), ~AcceptConnects(w), ~CloseSocketTest(w), ~CloseShuts(w),
         ~CloseStamps(w), ~CloseReleases(w), ~CloseReports(w)
  PROVE  /\ connected' = connected /\ closedAge' = closedAge
         /\ \A c \in Clients : "OnClose" \in told'[c] <=> "OnClose" \in told[c]
         /\ pc[w] \notin ClosingLabels /\ pc'[w] \notin ClosingLabels
<1>1. CASE Announce(w)
  BY <1>1 DEF Announce, Back, Go, slotVars, ClosingLabels, TypeOK, WorkerTypes
<1>2. CASE LoopTest(w) \/ DequeueAbandoned(w) \/ CountReads(w) \/ Receive(w)
  BY <1>2 DEF LoopTest, DequeueAbandoned, CountReads, Receive, Go, slotVars, ClosingLabels, TypeOK, WorkerTypes
<1>3. CASE AcceptBinds(w) \/ Rebind(w) \/ SendCompleted(w)
  BY <1>3 DEF AcceptBinds, Rebind, SendCompleted, Back, Go, slotVars, ClosingLabels, TypeOK, WorkerTypes
<1>4. ASSUME NEW i \in done, DequeueDone(w, i)
      PROVE  /\ UNCHANGED <<connected, closedAge, told>>
             /\ pc[w] \notin ClosingLabels /\ pc'[w] \notin ClosingLabels
  <2>1. Handler(i.op) \in {"accept", "receive", "sent"}
    BY <1>4 DEF Handler, TypeOK, IoTypes, Items, Ops
  <2> QED
    BY <1>4, <2>1 DEF DequeueDone, Go, slotVars, ClosingLabels, TypeOK, WorkerTypes
<1>5. ASSUME NEW i \in failed, DequeueFailed(w, i)
      PROVE  /\ UNCHANGED <<connected, closedAge, told>>
             /\ pc[w] \notin ClosingLabels /\ pc'[w] \notin ClosingLabels
  BY <1>5 DEF DequeueFailed, Go, slotVars, ClosingLabels, TypeOK, WorkerTypes
<1> QED
  BY <1>1, <1>2, <1>3, <1>4, <1>5 DEF Worker

SlotParts == AcceptingIsClosed /\ ClosingIsClosed /\ ClosedIsFree /\ ReportIsDue

\* A step that neither opens nor closes a slot.
LEMMA CalmKeepsSlots ==
  ASSUME SlotInv, connected' = connected, sess' = sess,
         \A c \in Clients : /\ Accepting(c)' => Accepting(c)
                            /\ closedAge'[c] # Never => closedAge[c] # Never
                            /\ "OnClose" \in told[c] => "OnClose" \in told'[c],
         \A w \in Workers : pc[w] \in ClosingLabels \/ pc'[w] \in ClosingLabels =>
                              pc'[w] = pc[w] /\ item'[w] = item[w]
  PROVE  SlotParts'
<1>1. \A c \in Clients, w \in Workers :
        /\ At(w, c, ClosingLabels)' <=> At(w, c, ClosingLabels)
        /\ At(w, c, {"stamp", "release", "report"})' <=> At(w, c, {"stamp", "release", "report"})
        /\ At(w, c, {"release", "report"})' <=> At(w, c, {"release", "report"})
  BY DEF At, ClosingLabels
<1>2. AcceptingIsClosed' /\ ClosingIsClosed'
  BY <1>1 DEF SlotInv, AcceptingIsClosed, ClosingIsClosed
<1>3. ClosedIsFree'
  BY DEF SlotInv, ClosedIsFree
<1>4. ReportIsDue'
  BY <1>1 DEF SlotInv, ReportIsDue
<1> QED
  BY <1>2, <1>3, <1>4 DEF SlotParts

\* Each part of the slots' invariant is kept by a worker, in its own slot.
LEMMA SlotPartsWorker ==
  ASSUME SlotInv, NEW w \in Workers, Worker(w), NEW c \in Clients, pc[w] \in Handling => item[w].c = c
  PROVE  SlotParts'
<1> USE DEF SlotInv, SessionInv, TypeOK
<1>1. /\ \A v \in Workers \ {w} : pc'[v] = pc[v] /\ item'[v] = item[v]
      /\ sess' = sess /\ TypeOK
      /\ pc \in [Workers -> Idle \cup Handling] /\ connected \in [Clients -> BOOLEAN]
  BY WorkerLocal DEF WorkerTypes, SlotTypes
<1>2. CASE AcceptConnects(w)
  <2>1. /\ connected' = [connected EXCEPT ![c] = TRUE] /\ closedAge' = closedAge /\ told' = told
        /\ pc[w] = "accept" /\ pc'[w] = "bind" /\ item[w].c = c
    BY <1>1, <1>2 DEF AcceptConnects, Go, Handling
  <2>2. Accepting(c) /\ ~Accepting(c)' /\ \A d \in Clients \ {c} : Accepting(d)' <=> Accepting(d)
    BY <1>2, <2>1, AcceptingConnects, AcceptingWorker DEF OneReceiver
  <2>3. \A v \in Workers, d \in Clients :
          At(v, d, ClosingLabels)' <=> At(v, d, ClosingLabels)
    BY <1>1, <2>1 DEF At, ClosingLabels
  <2>4. \A v \in Workers, d \in Clients :
          /\ At(v, d, {"stamp", "release", "report"})' <=> At(v, d, {"stamp", "release", "report"})
          /\ At(v, d, {"release", "report"})' <=> At(v, d, {"release", "report"})
    BY <1>1, <2>1 DEF At
  <2>5. \A v \in Workers : ~At(v, c, ClosingLabels)
    BY <2>2 DEF AcceptingIsClosed
  <2>6. closedAge[c] = Never
    BY <2>2 DEF ClosedIsFree
  <2>7. connected'[c] /\ \A d \in Clients \ {c} : connected'[d] = connected[d]
    BY <1>1, <2>1
  <2>8. AcceptingIsClosed'
    BY <2>2, <2>3, <2>7 DEF AcceptingIsClosed
  <2>9. ClosingIsClosed'
    BY <2>4, <2>5, <2>7 DEF ClosingIsClosed, At, ClosingLabels
  <2>10. ClosedIsFree' /\ ReportIsDue'
    BY <1>1, <2>1, <2>2, <2>4, <2>6, <2>7 DEF ClosedIsFree, ReportIsDue
  <2> QED
    BY <2>8, <2>9, <2>10 DEF SlotParts
<1>3. ASSUME ~AcceptConnects(w) PROVE \A d \in Clients : Accepting(d)' <=> Accepting(d)
  BY <1>3, AcceptingWorker
<1>4. CASE CloseSocketTest(w) /\ ~connected[c]
  <2>1. UNCHANGED <<connected, closedAge, told>> /\ pc[w] = "closing" /\ pc'[w] = "loop"
    BY <1>1, <1>4 DEF CloseSocketTest, Back, Go, slotVars, Handling
  <2> QED
    BY <1>1, <1>3, <2>1, CalmKeepsSlots DEF AcceptConnects, ClosingLabels
<1>5. CASE CloseSocketTest(w) /\ connected[c]
  <2>1. /\ UNCHANGED <<connected, closedAge, told>> /\ pc[w] = "closing" /\ pc'[w] = "close"
        /\ item'[w] = item[w] /\ item[w].c = c
    BY <1>1, <1>5 DEF CloseSocketTest, Go, slotVars, Handling
  <2>2. \A d \in Clients : Accepting(d)' <=> Accepting(d)
    BY <1>3, <2>1 DEF AcceptConnects
  <2>3. \A v \in Workers, d \in Clients :
          /\ At(v, d, {"stamp", "release", "report"})' <=> At(v, d, {"stamp", "release", "report"})
          /\ At(v, d, {"release", "report"})' <=> At(v, d, {"release", "report"})
          /\ At(v, d, ClosingLabels)' => At(v, d, ClosingLabels) \/ d = c
    BY <1>1, <2>1 DEF At, ClosingLabels
  <2>4. AcceptingIsClosed'
    BY <1>5, <2>1, <2>2, <2>3 DEF AcceptingIsClosed
  <2>5. ClosingIsClosed' /\ ClosedIsFree' /\ ReportIsDue'
    BY <1>1, <2>1, <2>2, <2>3 DEF ClosingIsClosed, ClosedIsFree, ReportIsDue
  <2> QED
    BY <2>4, <2>5 DEF SlotParts
<1>6. CASE CloseShuts(w)
  <2>1. /\ connected' = [connected EXCEPT ![c] = FALSE] /\ UNCHANGED <<closedAge, told>>
        /\ pc[w] = "close" /\ pc'[w] = "stamp" /\ item'[w] = item[w] /\ item[w].c = c
    BY <1>1, <1>6 DEF CloseShuts, Go, Handling
  <2>2. \A d \in Clients : Accepting(d)' <=> Accepting(d)
    BY <1>3, <2>1 DEF AcceptConnects
  <2>3. ~connected'[c] /\ \A d \in Clients \ {c} : connected'[d] = connected[d]
    BY <1>1, <2>1
  <2>4. \A v \in Workers, d \in Clients :
          /\ At(v, d, {"stamp", "release", "report"})' => At(v, d, {"stamp", "release", "report"}) \/ d = c
          /\ At(v, d, {"release", "report"})' <=> At(v, d, {"release", "report"})
          /\ At(v, d, ClosingLabels)' <=> At(v, d, ClosingLabels)
    BY <1>1, <2>1 DEF At, ClosingLabels
  <2>5. AcceptingIsClosed' /\ ClosingIsClosed'
    BY <2>2, <2>3, <2>4 DEF AcceptingIsClosed, ClosingIsClosed
  <2>6. ClosedIsFree' /\ ReportIsDue'
    BY <1>1, <2>1, <2>2, <2>3, <2>4 DEF ClosedIsFree, ReportIsDue
  <2> QED
    BY <2>5, <2>6 DEF SlotParts
<1>7. CASE CloseStamps(w)
  <2>1. /\ UNCHANGED <<connected, told>> /\ \A d \in Clients \ {c} : closedAge'[d] = closedAge[d]
        /\ pc[w] = "stamp" /\ pc'[w] = "release" /\ item'[w] = item[w] /\ item[w].c = c
    BY <1>1, <1>7 DEF CloseStamps, Go, Handling, SlotTypes
  <2>2. \A d \in Clients : Accepting(d)' <=> Accepting(d)
    BY <1>3, <2>1 DEF AcceptConnects
  <2>3. ~connected[c] /\ ~Accepting(c)
    BY <2>1 DEF ClosingIsClosed, AcceptingIsClosed, At, ClosingLabels
  <2>4. \A v \in Workers, d \in Clients :
          /\ At(v, d, {"stamp", "release", "report"})' <=> At(v, d, {"stamp", "release", "report"})
          /\ At(v, d, {"release", "report"}) => At(v, d, {"release", "report"})'
          /\ At(v, d, ClosingLabels)' <=> At(v, d, ClosingLabels)
          /\ At(w, c, {"release", "report"})'
    BY <1>1, <2>1 DEF At, ClosingLabels
  <2>5. AcceptingIsClosed' /\ ClosingIsClosed'
    BY <2>1, <2>2, <2>4 DEF AcceptingIsClosed, ClosingIsClosed
  <2>6. ClosedIsFree'
    BY <2>1, <2>2, <2>3 DEF ClosedIsFree
  <2>7. ReportIsDue'
    BY <1>1, <2>1, <2>4 DEF ReportIsDue
  <2> QED
    BY <2>5, <2>6, <2>7 DEF SlotParts
<1>8. CASE CloseReleases(w) \/ CloseReports(w)
  <2>1. /\ UNCHANGED <<connected, closedAge>>
        /\ \A d \in Clients : "OnClose" \in told[d] => "OnClose" \in told'[d]
        /\ pc[w] \in {"release", "report"} /\ pc'[w] \in {"report", "loop"} /\ item[w].c = c
        /\ pc'[w] = "report" => item'[w] = item[w]
        /\ pc'[w] = "loop" => "OnClose" \in told'[c]
    BY <1>1, <1>8 DEF CloseReleases, CloseReports, Back, Go, slotVars, Handling
  <2>2. \A d \in Clients : Accepting(d)' <=> Accepting(d)
    BY <1>3, <2>1 DEF AcceptConnects
  <2>3. \A v \in Workers, d \in Clients :
          /\ At(v, d, {"stamp", "release", "report"})' => At(v, d, {"stamp", "release", "report"})
          /\ At(v, d, {"release", "report"}) => At(v, d, {"release", "report"})' \/ "OnClose" \in told'[d]
          /\ At(v, d, ClosingLabels)' => At(v, d, ClosingLabels)
    BY <1>1, <2>1 DEF At, ClosingLabels
  <2> QED
    BY <1>1, <2>1, <2>2, <2>3 DEF AcceptingIsClosed, ClosingIsClosed, ClosedIsFree, ReportIsDue, SlotParts
<1>9. CASE /\ ~AcceptConnects(w) /\ ~CloseSocketTest(w) /\ ~CloseShuts(w)
           /\ ~CloseStamps(w) /\ ~CloseReleases(w) /\ ~CloseReports(w)
  BY <1>1, <1>3, <1>9, WorkerCalm, CalmKeepsSlots
<1> QED
  BY <1>2, <1>4, <1>5, <1>6, <1>7, <1>8, <1>9

\* The kernel begins no accept, and ends none of another slot.
LEMMA AcceptingKernel ==
  ASSUME NEW c \in Clients, NEW i \in pending, Kernel(i)
  PROVE  /\ Accepting(c)' => Accepting(c)
         /\ i.c # c => (Accepting(c) => Accepting(c)')
BY DEF Kernel, KernelAccepts, KernelReceives, KernelSends, Accepting, workerVars

\* Messages, peers, clock and shutdown have nothing to do with accepts.
LEMMA AcceptingOther ==
  ASSUME NEW c \in Clients,
         (\E d \in Clients : SendMsg(d) \/ PeerLeaves(d)) \/ Tick \/ DestroyThread \/ UNCHANGED vars
  PROVE  Accepting(c)' <=> Accepting(c)
<1>1. ASSUME NEW d \in Clients, SendMsg(d) PROVE Accepting(c)' <=> Accepting(c)
  <2>1. UNCHANGED <<done, pc, item>> /\ (UNCHANGED pending \/ \E m : SendIO(d, m))
    BY <1>1 DEF SendMsg, workerVars
  <2>2. \A i : i.op = "ACCEPT" => (i \in pending' <=> i \in pending)
    BY <2>1 DEF SendIO, SendItem
  <2> QED
    BY <2>1, <2>2 DEF Accepting
<1>2. ASSUME NEW d \in Clients, PeerLeaves(d) PROVE Accepting(c)' <=> Accepting(c)
  BY <1>2 DEF PeerLeaves, Accepting, ioVars, workerVars
<1>3. CASE Tick \/ DestroyThread \/ UNCHANGED vars
  BY <1>3 DEF Tick, DestroyThread, vars, Accepting, ioVars, workerVars
<1> QED
  BY <1>1, <1>2, <1>3

\* What arming a slot does to the slots.
LEMMA ReadyAcceptSlots ==
  ASSUME SlotInv, NEW d \in Clients, ReadyAccept(d)
  PROVE  /\ ~connected[d] /\ ~Accepting(d) /\ connected' = connected /\ pc' = pc /\ item' = item
         /\ sess[d] > 0 => "OnClose" \in told[d]
         /\ closedAge' = [closedAge EXCEPT ![d] = Never]
         /\ \A w \in Workers : ~At(w, d, ClosingLabels)
         /\ \A c \in Clients \ {d} : Accepting(c)' <=> Accepting(c)
         /\ \/ sess' = [sess EXCEPT ![d] = @ + 1] /\ told' = [told EXCEPT ![d] = {}]
            \/ sess' = sess /\ told' = told /\ pending' = pending
<1>1. Quiet(d) /\ closedAge[d] # Never /\ ~connected[d]
  BY ReuseIsQuiet DEF SlotInv, ReadyAccept, MayReuse
<1>2. \A w \in Workers : ~At(w, d, ClosingLabels) /\ ~At(w, d, {"release", "report"})
  BY <1>1 DEF Quiet, Busy, At, ClosingLabels, Handling
<1>3. ~Accepting(d) /\ (sess[d] > 0 => "OnClose" \in told[d])
  BY <1>1, <1>2 DEF SlotInv, ClosedIsFree, ReportIsDue
<1>4. /\ UNCHANGED <<done, pc, item, connected>> /\ closedAge' = [closedAge EXCEPT ![d] = Never]
      /\ \/ /\ sess' = [sess EXCEPT ![d] = @ + 1] /\ told' = [told EXCEPT ![d] = {}]
            /\ pending' \in {pending, pending \cup {AcceptItem(d, sess[d] + 1)}}
         \/ sess' = sess /\ told' = told /\ pending' = pending
  BY DEF ReadyAccept, ArmedStamp, workerVars
<1>5. ASSUME NEW c \in Clients \ {d} PROVE Accepting(c)' <=> Accepting(c)
  <2>1. AcceptItem(d, sess[d] + 1).c = d
    BY DEF AcceptItem
  <2> QED
    BY <1>4, <2>1 DEF Accepting
<1> QED
  BY <1>1, <1>2, <1>3, <1>4, <1>5

\* Every step keeps the slots' invariant.
LEMMA SlotInvNext == SlotInv /\ [Next]_vars => SlotInv'
<1> SUFFICES ASSUME SlotInv, [Next]_vars PROVE SlotInv'
  OBVIOUS
<1>1. SessionInv' /\ OneReceiver' /\ SessionInv /\ TypeOK
  BY SessionNext, ReceiverStep DEF SlotInv, SessionInv
<1>2. ASSUME NEW w \in Workers, Worker(w) PROVE SlotParts'
  <2>1. CASE Clients = {}
    BY <2>1 DEF SlotParts, AcceptingIsClosed, ClosingIsClosed, ClosedIsFree, ReportIsDue
  <2>2. CASE Clients # {}
    <3>1. PICK c \in Clients : pc[w] \in Handling => item[w].c = c
      BY <1>1, <2>2, WorkerItem DEF TypeOK
    <3> QED
      BY <1>2, <3>1, SlotPartsWorker
  <2> QED
    BY <2>1, <2>2
<1>3. ASSUME NEW d \in Clients, ReadyAccept(d) PROVE SlotParts'
  <2>1. \A w \in Workers, c \in Clients, L \in {ClosingLabels, {"stamp", "release", "report"}, {"release", "report"}} :
          At(w, c, L)' <=> At(w, c, L)
    BY <1>3, ReadyAcceptSlots DEF At
  <2>2. closedAge'[d] = Never /\ \A c \in Clients \ {d} : /\ closedAge'[c] = closedAge[c] /\ sess'[c] = sess[c]
                                                       /\ told'[c] = told[c]
    BY <1>1, <1>3, ReadyAcceptSlots DEF TypeOK, SlotTypes
  <2> QED
    BY <1>3, <2>1, <2>2, ReadyAcceptSlots
    DEF SlotInv, SlotParts, AcceptingIsClosed, ClosingIsClosed, ClosedIsFree, ReportIsDue
<1>4. ASSUME \/ \E c \in Clients : SendMsg(c) \/ PeerLeaves(c)
             \/ \E i \in pending : Kernel(i)
             \/ Tick \/ DestroyThread \/ UNCHANGED vars
      PROVE  SlotParts'
  <2>1. connected' = connected /\ told' = told /\ (closedAge' = closedAge \/ Tick)
    BY <1>4 DEF SendMsg, PeerLeaves, Kernel, KernelAccepts, KernelReceives, KernelSends, Tick,
                DestroyThread, vars, slotVars
  <2>2. pc' = pc /\ item' = item /\ sess' = sess
    BY <1>1, <1>4, OtherIo
  <2>3. \A c \in Clients : closedAge'[c] # Never => closedAge[c] # Never
    BY <2>1 DEF Tick
  <2>4. ASSUME NEW c \in Clients PROVE Accepting(c)' => Accepting(c)
    BY <1>4, AcceptingKernel, AcceptingOther
  <2>5. \A c \in Clients : "OnClose" \in told[c] => "OnClose" \in told'[c]
    BY <2>1
  <2> QED
    BY <2>1, <2>2, <2>3, <2>4, <2>5, CalmKeepsSlots
<1>5. SlotParts'
  BY <1>2, <1>3, <1>4 DEF Next
<1> QED
  BY <1>1, <1>5 DEF SlotInv, SlotParts

\* At the start every slot is free and unused.
LEMMA SlotInvInit == Init => SlotInv
<1> SUFFICES ASSUME Init PROVE SlotInv
  OBVIOUS
<1>1. OneReceiver
  BY DEF Init, OneReceiver, OneReceiverOf, RecvIn, Receiving
<1>2. \A c \in Clients : ~Accepting(c) /\ ~connected[c] /\ sess[c] = 0
  BY DEF Init, Accepting
<1>3. \A w \in Workers, c \in Clients : pc[w] = "loop"
  BY DEF Init
<1> QED
  BY <1>1, <1>2, <1>3, SessionInit
  DEF SlotInv, AcceptingIsClosed, ClosingIsClosed, ClosedIsFree, ReportIsDue

\* A slot that may be armed again was reported closed.
LEMMA ReportedBeforeReuse == SlotInv => ClosedIsReported
<1> SUFFICES ASSUME SlotInv, NEW c \in Clients, MayReuse(c), sess[c] > 0 PROVE "OnClose" \in told[c]
  BY DEF ClosedIsReported
<1>1. Quiet(c) /\ closedAge[c] # Never
  BY ReuseIsQuiet DEF SlotInv
<1>2. \A w \in Workers : ~At(w, c, {"release", "report"})
  BY <1>1 DEF Quiet, Busy, At, Handling
<1> QED
  BY <1>1, <1>2 DEF SlotInv, ReportIsDue

\* A slot that has been in use is offered to the next peer only after OnClose was
\* called for the old one.
THEOREM ReuseIsReported == Spec => []ClosedIsReported
<1> QED
  BY SlotInvInit, SlotInvNext, ReportedBeforeReuse, PTL DEF Spec
-----------------------------------------------------------------------------
(* The server implements SlotLifecycle: initial states map to initial      *)
(* states, and every step maps to a step of one slot or to a stutter.      *)

Slots == [c \in Clients |-> SlotState(c)]
Reported == [c \in Clients |-> "OnClose" \in told[c]]

\* The slots start as the life cycle says.
LEMMA LifecycleInit == Init => Lifecycle!Init
<1> SUFFICES ASSUME Init PROVE Lifecycle!Init
  OBVIOUS
<1>1. \A c \in Clients : SlotState(c) = "free" /\ sess[c] = 0 /\ "OnClose" \notin told[c]
  BY DEF Init, SlotState, Accepting
<1>2. Slots = [c \in Clients |-> "free"] /\ sess = [c \in Clients |-> 0]
  BY <1>1 DEF Init, Slots
<1>3. Reported = [c \in Clients |-> FALSE]
  <2>1. \A c \in Clients : ("OnClose" \in told[c]) = FALSE
    BY <1>1
  <2> QED
    BY <2>1, Zenon DEF Reported
<1> QED
  BY <1>2, <1>3 DEF Lifecycle!Init, Slots, Reported

\* Nothing happens to a slot.
LEMMA SlotsStutter ==
  ASSUME sess' = sess, \A c \in Clients : SlotState(c)' = SlotState(c) /\ told'[c] = told[c]
  PROVE  UNCHANGED Lifecycle!vars
BY DEF Lifecycle!vars

\* One slot changes its state; sessions and reports stay.
LEMMA OneSlotMoves ==
  ASSUME TypeOK, NEW c \in Clients, sess' = sess, told' = told,
         \A d \in Clients \ {c} : SlotState(d)' = SlotState(d),
         \/ SlotState(c)' = SlotState(c)
         \/ SlotState(c) = "armed" /\ SlotState(c)' = "open"
         \/ SlotState(c) # "free" /\ SlotState(c)' = "free"
  PROVE  [Lifecycle!Next]_(Lifecycle!vars)
<1>1. CASE SlotState(c)' = SlotState(c)
  BY <1>1, SlotsStutter
<1>2. Slots' = [Slots EXCEPT ![c] = SlotState(c)'] /\ Slots[c] = SlotState(c) /\ Reported' = Reported
  BY DEF Slots, Reported
<1>3. CASE SlotState(c) = "armed" /\ SlotState(c)' = "open"
  <2>1. Lifecycle!Open(c)
    BY <1>2, <1>3 DEF Lifecycle!Open, Slots, Reported
  <2> QED
    BY <2>1 DEF Lifecycle!Next
<1>4. CASE SlotState(c) # "free" /\ SlotState(c)' = "free"
  <2>1. Lifecycle!Release(c)
    BY <1>2, <1>4 DEF Lifecycle!Release, Slots, Reported
  <2> QED
    BY <2>1 DEF Lifecycle!Next
<1> QED
  BY <1>1, <1>3, <1>4

\* The accepter arms a free slot, or leaves it free when a call fails.
LEMMA ReadyAcceptArms ==
  ASSUME SlotInv, NEW d \in Clients, ReadyAccept(d) PROVE [Lifecycle!Next]_(Lifecycle!vars)
<1>1. /\ ~connected[d] /\ ~Accepting(d) /\ connected' = connected /\ pc' = pc /\ item' = item
      /\ sess[d] > 0 => "OnClose" \in told[d]
      /\ \A c \in Clients \ {d} : Accepting(c)' <=> Accepting(c)
      /\ \/ sess' = [sess EXCEPT ![d] = @ + 1] /\ told' = [told EXCEPT ![d] = {}]
         \/ sess' = sess /\ told' = told /\ pending' = pending
  BY ReadyAcceptSlots
<1>2. SlotState(d) = "free" /\ SlotState(d)' \in {"free", "armed"}
  BY <1>1 DEF SlotState
<1>3. \A c \in Clients \ {d} : SlotState(c)' = SlotState(c)
  BY <1>1 DEF SlotState
<1>4. CASE sess' = [sess EXCEPT ![d] = @ + 1] /\ told' = [told EXCEPT ![d] = {}]
  <2>1. Slots' = [Slots EXCEPT ![d] = SlotState(d)'] /\ Slots[d] = "free"
    BY <1>2, <1>3 DEF Slots
  <2>2. Slots' = [Slots EXCEPT ![d] = "armed"] \/ Slots' = Slots
    BY <1>2, <2>1 DEF Slots
  <2>3. Reported' = [Reported EXCEPT ![d] = FALSE] /\ (sess[d] > 0 => Reported[d])
    <3>1. told'[d] = {} /\ \A c \in Clients \ {d} : told'[c] = told[c]
      BY <1>4 DEF SlotInv, SessionInv, TypeOK
    <3>2. \A c \in Clients : ("OnClose" \in told'[c]) = [Reported EXCEPT ![d] = FALSE][c]
      <4>1. ("OnClose" \in told'[d]) = FALSE /\ [Reported EXCEPT ![d] = FALSE][d] = FALSE
        BY <3>1 DEF Reported
      <4>2. ASSUME NEW c \in Clients \ {d} PROVE ("OnClose" \in told'[c]) = [Reported EXCEPT ![d] = FALSE][c]
        <5>1. [Reported EXCEPT ![d] = FALSE][c] = ("OnClose" \in told[c])
          BY Zenon DEF Reported
        <5> QED
          BY <3>1, <5>1
      <4> QED
        BY <4>1, <4>2
    <3>3. Reported' = [c \in Clients |-> "OnClose" \in told'[c]]
      BY DEF Reported
    <3>4. [Reported EXCEPT ![d] = FALSE] = [c \in Clients |-> [Reported EXCEPT ![d] = FALSE][c]]
      BY DEF Reported
    <3>5. Reported' = [Reported EXCEPT ![d] = FALSE]
      BY <3>2, <3>3, <3>4, Zenon
    <3> QED
      BY <1>1, <3>5 DEF Reported
  <2>4. Lifecycle!Arm(d)
    BY <1>4, <2>1, <2>2, <2>3 DEF Lifecycle!Arm, Slots, Reported
  <2> QED
    BY <2>4 DEF Lifecycle!Next
<1>5. CASE sess' = sess /\ told' = told /\ pending' = pending
  <2>1. ~Accepting(d)'
    BY <1>1, <1>5 DEF Accepting, ReadyAccept
  <2>2. SlotState(d)' = SlotState(d)
    BY <1>1, <1>2, <2>1 DEF SlotState
  <2> QED
    BY <1>3, <1>5, <2>2, SlotsStutter
<1> QED
  BY <1>1, <1>4, <1>5

\* A completion leaves a slot as it is, or frees it.
LEMMA KernelReleases ==
  ASSUME SlotInv, NEW i \in pending, Kernel(i) PROVE [Lifecycle!Next]_(Lifecycle!vars)
<1>1. /\ TypeOK /\ i.c \in Clients /\ sess' = sess /\ told' = told /\ connected' = connected
  BY DEF SlotInv, SessionInv, TypeOK, IoTypes, Items, Kernel, KernelAccepts, KernelReceives, KernelSends,
         slotVars
<1>2. \A d \in Clients \ {i.c} : SlotState(d)' = SlotState(d)
  BY <1>1, AcceptingKernel DEF SlotState
<1>3. SlotState(i.c)' = SlotState(i.c) \/ (SlotState(i.c) # "free" /\ SlotState(i.c)' = "free")
  <2>1. (Accepting(i.c)' => Accepting(i.c)) /\ connected'[i.c] = connected[i.c]
    BY <1>1, AcceptingKernel
  <2>2. CASE connected[i.c]
    BY <2>1, <2>2 DEF SlotState
  <2>3. CASE ~connected[i.c]
    BY <2>1, <2>3 DEF SlotState
  <2> QED
    BY <2>2, <2>3
<1> QED
  BY <1>1, <1>2, <1>3, OneSlotMoves

\* Messages, peers, clock and shutdown do not show in the life cycle.
LEMMA OthersStutter ==
  ASSUME SlotInv,
         (\E d \in Clients : SendMsg(d) \/ PeerLeaves(d)) \/ Tick \/ DestroyThread \/ UNCHANGED vars
  PROVE  [Lifecycle!Next]_(Lifecycle!vars)
<1>1. sess' = sess /\ told' = told /\ connected' = connected
  BY DEF SendMsg, PeerLeaves, Tick, DestroyThread, vars, slotVars
<1>2. \A c \in Clients : SlotState(c)' = SlotState(c)
  BY <1>1, AcceptingOther DEF SlotState
<1> QED
  BY <1>1, <1>2, SlotsStutter

\* A worker's step is one of the life cycle, or does not show in it.
LEMMA WorkerMoves ==
  ASSUME SlotInv, NEW w \in Workers, Worker(w) PROVE [Lifecycle!Next]_(Lifecycle!vars)
<1> DEFINE k == item[w].c
<1>1. TypeOK /\ sess' = sess
  BY WorkerLocal DEF SlotInv, SessionInv
<1>2. pc[w] \in Handling => item[w].c \in Clients /\ sess[item[w].c] # 0
  BY <1>1, WorkerItem DEF SlotInv, SessionInv, FreshIsQuiet, Quiet, Busy, TypeOK
<1>3. CASE AcceptConnects(w)
  <2>1. PICK c \in Clients : item[w].c = c
    BY <1>2, <1>3 DEF AcceptConnects, Handling
  <2>2. connected' = [connected EXCEPT ![c] = TRUE] /\ told' = told
    BY <1>3, <2>1 DEF AcceptConnects
  <2>3. Accepting(c) /\ \A d \in Clients \ {c} : Accepting(d)' <=> Accepting(d)
    BY <1>1, <1>3, <2>1, AcceptingConnects, AcceptingWorker DEF SlotInv, OneReceiver
  <2>4. SlotState(c) = "armed"
    BY <2>3 DEF SlotInv, AcceptingIsClosed, SlotState
  <2>5. SlotState(c)' = "open" /\ \A d \in Clients \ {c} : SlotState(d)' = SlotState(d)
    BY <1>1, <2>2, <2>3 DEF TypeOK, SlotTypes, SlotState
  <2> QED
    BY <1>1, <2>2, <2>4, <2>5, OneSlotMoves
<1>4. ASSUME ~AcceptConnects(w) PROVE \A c \in Clients : Accepting(c)' <=> Accepting(c)
  BY <1>1, <1>4, AcceptingWorker
<1>5. CASE CloseShuts(w)
  <2>1. PICK c \in Clients : item[w].c = c
    BY <1>2, <1>5 DEF CloseShuts, Handling
  <2>2. connected' = [connected EXCEPT ![c] = FALSE] /\ told' = told /\ pc[w] = "close"
    BY <1>5, <2>1 DEF CloseShuts
  <2>3. ~Accepting(c)
    BY <2>1, <2>2 DEF SlotInv, AcceptingIsClosed, At, ClosingLabels
  <2>4. \A d \in Clients : Accepting(d)' <=> Accepting(d)
    BY <1>4, <2>2 DEF AcceptConnects
  <2>5. SlotState(c)' = "free" /\ \A d \in Clients \ {c} : SlotState(d)' = SlotState(d)
    BY <1>1, <2>2, <2>3, <2>4 DEF TypeOK, SlotTypes, SlotState
  <2> QED
    BY <1>1, <2>2, <2>5, OneSlotMoves
<1>6. CASE CloseReports(w)
  <2>1. PICK c \in Clients : item[w].c = c /\ sess[c] # 0
    BY <1>2, <1>6 DEF CloseReports, Handling
  <2>2. connected' = connected /\ told' = [told EXCEPT ![c] = @ \cup {"OnClose"}] /\ pc[w] = "report"
    BY <1>6, <2>1 DEF CloseReports, slotVars
  <2>3. \A d \in Clients : Accepting(d)' <=> Accepting(d)
    BY <1>4, <2>2 DEF AcceptConnects
  <2>4. ~connected[c] /\ ~Accepting(c)
    BY <2>1, <2>2 DEF SlotInv, ClosingIsClosed, AcceptingIsClosed, At, ClosingLabels
  <2>5. Slots' = Slots /\ Slots[c] = "free"
    BY <2>2, <2>3, <2>4 DEF Slots, SlotState
  <2>6. Reported' = [Reported EXCEPT ![c] = TRUE]
    BY <1>1, <2>2 DEF Reported, TypeOK
  <2>7. sess[c] > 0
    BY <1>1, <2>1, ServerAssumption DEF TypeOK, SlotTypes
  <2>8. Lifecycle!Report(c)
    BY <1>1, <2>5, <2>6, <2>7 DEF Lifecycle!Report, Slots, Reported
  <2> QED
    BY <2>8 DEF Lifecycle!Next
<1>7. CASE ~AcceptConnects(w) /\ ~CloseShuts(w) /\ ~CloseReports(w)
  <2>1. connected' = connected /\ \A c \in Clients : "OnClose" \in told'[c] <=> "OnClose" \in told[c]
    BY <1>1, <1>7, WorkerCalm DEF CloseSocketTest, CloseStamps, CloseReleases, slotVars
  <2>2. \A c \in Clients : SlotState(c)' = SlotState(c)
    BY <1>4, <1>7, <2>1 DEF SlotState
  <2>3. Slots' = Slots /\ Reported' = Reported
    BY <2>1, <2>2 DEF Slots, Reported
  <2> QED
    BY <1>1, <2>3 DEF Lifecycle!vars, Slots, Reported
<1> QED
  BY <1>3, <1>5, <1>6, <1>7

\* Every step of the server is a step of the life cycle, or none.
LEMMA LifecycleNext == SlotInv /\ [Next]_vars => [Lifecycle!Next]_(Lifecycle!vars)
BY ReadyAcceptArms, KernelReleases, OthersStutter, WorkerMoves DEF Next

\* Whatever the workers, the accepter and the kernel do, each slot lives as
\* SlotLifecycle says: armed only when it is free and its last session has been
\* reported, opened only when it is armed, reported only when it is free.
THEOREM ServerImplementsLifecycle == Spec => ImplementsLifecycle
<1> QED
  BY LifecycleInit, LifecycleNext, SlotInvInit, SlotInvNext, PTL DEF Spec, ImplementsLifecycle, Lifecycle!Spec
=============================================================================
