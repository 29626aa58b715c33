---------------------------- MODULE IocpNetServer ----------------------------
(***************************************************************************)
(* The I/O-completion-port server of GameInstance: IocpNetServer.h (worker *)
(* threads, accepter thread, CloseSocket, DestroyThread), the per-slot     *)
(* ClientInfo.h (accept, receive, send queue, close) and the parts of      *)
(* Windows sockets they rely on.                                           *)
(*                                                                         *)
(* A slot of client_Infos_ serves one connection after another.  Every     *)
(* socket WSASocket creates for slot c opens a new session: sess[c] counts *)
(* them, and a socket is named by its session number (0 is INVALID_SOCKET).*)
(* Time is counted in seconds since latest_closed_time_sec_, which is all  *)
(* the accepter looks at.                                                  *)
(***************************************************************************)
EXTENDS Naturals, Sequences, FiniteSets

CONSTANTS
  Clients,     \* the slots of client_Infos_ (MAX_CLIENT of them)
  Workers,     \* the I/O worker threads (MAX_IO_WORKER_THREAD of them)
  ReuseWait,   \* RE_USE_SESSION_WAIT_TIMESEC
  DrainTime,   \* seconds after which no I/O of a closed session is left (see Tick)
  Never,       \* latest_closed_time_sec_ = UINT32_MAX
  Faults,      \* the Windows calls that may fail although the link is sound
  MaxSession,  \* bound: sessions per slot
  MaxSend      \* bound: messages pushed per slot

FaultNames == {"WSASocket", "AcceptEx", "Accept", "WSARecv", "WSASend"}

ASSUME ServerAssumption ==
  /\ ReuseWait \in Nat
  /\ DrainTime \in 0..ReuseWait
  /\ Never \notin Nat
  /\ Faults \subseteq FaultNames
  /\ MaxSession \in Nat
  /\ MaxSend \in Nat

VARIABLES
  connected,  \* is_connect_ of each slot
  closedAge,  \* now - latest_closed_time_sec_, counted up to ReuseWait + 1
  sock,       \* socket_
  sess,       \* number of sockets created for the slot
  link,       \* the TCP connection behind the newest socket
  bound,      \* that socket is associated with the completion port
  sendq,      \* send_data_queue_
  pushed,     \* number of messages pushed on sendq
  stalled,    \* history: a WSASend failed, or its completion failed or was never queued
  told,       \* history: the callbacks made in this session
  pending,    \* overlapped operations the kernel has not completed
  done,       \* completion packets: success
  failed,     \* completion packets: error, or zero bytes of a RECV
  pc,         \* where each worker thread is
  item,       \* the completion it is handling
  cntRead,    \* client_cnt_ as it read it in ++client_cnt_
  clientCnt,  \* client_cnt_
  phase,      \* progress of DestroyThread
  alive       \* the process has not crashed

slotVars == <<connected, closedAge, sock, sess, link, bound>>
sendVars == <<sendq, pushed, stalled>>
ioVars == <<pending, done, failed>>
workerVars == <<pc, item, cntRead>>
vars == <<slotVars, sendVars, told, ioVars, workerVars, clientCnt, phase, alive>>

Ops == {"ACCEPT", "RECV", "SEND"}
Items == [op : Ops, c : Clients, s : 0..MaxSession, m : 0..MaxSend]
Nothing == [op |-> "none"]

AcceptItem(c, s) == [op |-> "ACCEPT", c |-> c, s |-> s, m |-> 0]
RecvItem(c, s) == [op |-> "RECV", c |-> c, s |-> s, m |-> 0]
SendItem(c, s, m) == [op |-> "SEND", c |-> c, s |-> s, m |-> m]

Idle == {"loop", "wait", "exit"}
Handling == {"accept", "bind", "count", "announce", "receive", "rebind", "sent",
             "closing", "close", "stamp", "release", "report"}

\* The operations under way: in the kernel, in the port, or in a worker's hands.
Busy == {w \in Workers : pc[w] \in Handling}
Queued == pending \cup done \cup failed
Quiet(c) == /\ \A i \in Queued : i.c # c
            /\ \A w \in Busy : item[w].c # c

WorkerRun == phase = "run"
PortOpen == phase \in {"run", "flagged"}
AccepterRun == phase # "down"
-----------------------------------------------------------------------------
Init ==
  /\ connected = [c \in Clients |-> FALSE]
  /\ closedAge = [c \in Clients |-> ReuseWait + 1]
  /\ sock = [c \in Clients |-> 0]
  /\ sess = [c \in Clients |-> 0]
  /\ link = [c \in Clients |-> "none"]
  /\ bound = [c \in Clients |-> FALSE]
  /\ sendq = [c \in Clients |-> <<>>]
  /\ pushed = [c \in Clients |-> 0]
  /\ stalled = [c \in Clients |-> FALSE]
  /\ told = [c \in Clients |-> {}]
  /\ pending = {}
  /\ done = {}
  /\ failed = {}
  /\ pc = [w \in Workers |-> "loop"]
  /\ item = [w \in Workers |-> Nothing]
  /\ cntRead = [w \in Workers |-> 0]
  /\ clientCnt = 0
  /\ phase = "run"
  /\ alive = TRUE

Go(w, label) == pc' = [pc EXCEPT ![w] = label]
Back(w) == /\ Go(w, "loop")
           /\ item' = [item EXCEPT ![w] = Nothing]
-----------------------------------------------------------------------------
(* The accepter thread and ClientInfo::ReadyAccept.                        *)

\* Mutant: the wait is one second too short (diff < RE_USE_SESSION_WAIT_TIMESEC).
MayReuseEarly(c) ==
  /\ ~connected[c]
  /\ closedAge[c] # Never
  /\ closedAge[c] >= ReuseWait

\* AccepterThread's three continues: a slot is offered again when it is not
\* connected, is not already waiting for a connection, and has been closed
\* for more than RE_USE_SESSION_WAIT_TIMESEC.
MayReuse(c) ==
  /\ ~connected[c]
  /\ closedAge[c] # Never
  /\ closedAge[c] > ReuseWait

\* Mutant: ReadyAccept forgets to take the slot out of AccepterThread's reach.
ArmedStampForgotten(c) == closedAge[c]

\* latest_closed_time_sec_ = UINT32_MAX
ArmedStamp(c) == Never

\* ReadyAccept stamps UINT32_MAX first; nothing undoes it when WSASocket or
\* AcceptEx then fails.
ReadyAccept(c) ==
  /\ alive /\ AccepterRun
  /\ MayReuse(c)
  /\ closedAge' = [closedAge EXCEPT ![c] = ArmedStamp(c)]
  /\ \/ /\ sess[c] < MaxSession
        /\ sess' = [sess EXCEPT ![c] = @ + 1]
        /\ sock' = [sock EXCEPT ![c] = sess[c] + 1]
        /\ link' = [link EXCEPT ![c] = "none"]
        /\ bound' = [bound EXCEPT ![c] = FALSE]
        /\ told' = [told EXCEPT ![c] = {}]
        /\ \/ pending' = pending \cup {AcceptItem(c, sess[c] + 1)}
           \/ "AcceptEx" \in Faults /\ UNCHANGED pending
     \/ /\ "WSASocket" \in Faults
        /\ sock' = [sock EXCEPT ![c] = 0]
        /\ UNCHANGED <<sess, link, bound, told, pending>>
  /\ UNCHANGED <<connected, sendVars, done, failed, workerVars, clientCnt, phase, alive>>
-----------------------------------------------------------------------------
(* ClientInfo::SendMsg, SendCompleted and SendIO, each under send_lock_.   *)

\* Mutants: every SendMsg starts a send; SendCompleted stops one message early.
StartsAlways(q) == TRUE
SendsNextLate(q) == Len(q) > 1

\* SendMsg starts a send when its message is alone in the queue, SendCompleted
\* when messages are left after the pop.
StartsSend(q) == Len(q) = 1
SendsNext(q) == q # <<>>

CanPost(c) == sock[c] # 0 /\ link[c] \in {"up", "gone"}

\* SendIO posts the front of the queue; an immediate error leaves it there.
SendIO(c, m) ==
  \/ /\ CanPost(c)
     /\ pending' = pending \cup {SendItem(c, sock[c], m)}
     /\ UNCHANGED stalled
  \/ /\ ~CanPost(c) \/ link[c] = "gone" \/ "WSASend" \in Faults
     /\ stalled' = [stalled EXCEPT ![c] = TRUE]
     /\ UNCHANGED pending

\* Called through SendPacketFunc / BroadcastSendMsg; it does not look at is_connect_.
SendMsg(c) ==
  /\ alive
  /\ pushed[c] < MaxSend
  /\ pushed' = [pushed EXCEPT ![c] = @ + 1]
  /\ sendq' = [sendq EXCEPT ![c] = Append(@, pushed[c] + 1)]
  /\ IF StartsSend(sendq'[c])
     THEN SendIO(c, pushed[c] + 1)
     ELSE UNCHANGED <<pending, stalled>>
  /\ UNCHANGED <<slotVars, told, done, failed, workerVars, clientCnt, phase, alive>>

SendCompleted(w) ==
  LET c == item[w].c IN
  /\ alive
  /\ pc[w] = "sent"
  /\ Back(w)
  /\ IF sendq[c] = <<>>
     THEN alive' = FALSE /\ UNCHANGED <<sendq, pending, stalled>>  \* front() of an empty queue
     ELSE /\ alive' = alive
          /\ sendq' = [sendq EXCEPT ![c] = Tail(@)]
          /\ IF SendsNext(Tail(sendq[c]))
             THEN SendIO(c, Head(Tail(sendq[c])))
             ELSE UNCHANGED <<pending, stalled>>
  /\ UNCHANGED <<slotVars, pushed, told, done, failed, cntRead, clientCnt, phase>>
-----------------------------------------------------------------------------
(* WorkerThread.                                                           *)

\* while (is_worker_run_)
LoopTest(w) ==
  /\ alive
  /\ pc[w] = "loop"
  /\ Go(w, IF WorkerRun THEN "wait" ELSE "exit")
  /\ UNCHANGED <<slotVars, sendVars, told, ioVars, item, cntRead, clientCnt, phase, alive>>

\* The label that handles a successful completion of each operation.
Handler(op) == CASE op = "ACCEPT" -> "accept"
                 [] op = "RECV" -> "receive"
                 [] op = "SEND" -> "sent"

\* Mutant: the completion key of the packet is not fetched.
DequeueWithoutKey(w, i) ==
  /\ alive /\ PortOpen
  /\ pc[w] = "wait"
  /\ i \in done
  /\ done' = done \ {i}
  /\ Go(w, Handler(i.op))
  /\ UNCHANGED <<slotVars, sendVars, told, pending, failed, item, cntRead, clientCnt, phase, alive>>

DequeueDone(w, i) ==
  /\ alive /\ PortOpen
  /\ pc[w] = "wait"
  /\ i \in done
  /\ done' = done \ {i}
  /\ item' = [item EXCEPT ![w] = i]
  /\ Go(w, Handler(i.op))
  /\ UNCHANGED <<slotVars, sendVars, told, pending, failed, cntRead, clientCnt, phase, alive>>

\* A failed completion goes to CloseSocket(P_client_info).  The listen socket
\* is registered with key 0, so a failed ACCEPT hands CloseSocket a null pointer.
DequeueFailed(w, i) ==
  /\ alive /\ PortOpen
  /\ pc[w] = "wait"
  /\ i \in failed
  /\ failed' = failed \ {i}
  /\ IF i.op = "ACCEPT"
     THEN alive' = FALSE /\ UNCHANGED <<pc, item>>
     ELSE /\ alive' = alive
          /\ item' = [item EXCEPT ![w] = i]
          /\ Go(w, "closing")
  /\ UNCHANGED <<slotVars, sendVars, told, pending, done, cntRead, clientCnt, phase>>

\* GetQueuedCompletionStatus returns without an OVERLAPPED once the handle is closed.
DequeueAbandoned(w) ==
  /\ alive /\ ~PortOpen
  /\ pc[w] = "wait"
  /\ Go(w, "loop")
  /\ UNCHANGED <<slotVars, sendVars, told, ioVars, item, cntRead, clientCnt, phase, alive>>

\* AcceptCompletion -> ClientInfo::OnConnect: the slot is connected before its
\* socket is associated with the port and before its first WSARecv.
AcceptConnects(w) ==
  /\ alive
  /\ pc[w] = "accept"
  /\ connected' = [connected EXCEPT ![item[w].c] = TRUE]
  /\ Go(w, "bind")
  /\ UNCHANGED <<closedAge, sock, sess, link, bound, sendVars, told, ioVars, item, cntRead,
                 clientCnt, phase, alive>>

\* WSARecv on the slot's present socket.
RecvPosted(c) ==
  /\ CanPost(c)
  /\ pending' = pending \cup {RecvItem(c, sock[c])}
RecvRefused(c) ==
  /\ ~CanPost(c) \/ link[c] = "gone" \/ "WSARecv" \in Faults
  /\ UNCHANGED pending

\* SetIocpBindSocket and the first BindRecv; on failure CloseSocket(.., true).
AcceptBinds(w) ==
  LET c == item[w].c IN
  /\ alive
  /\ pc[w] = "bind"
  /\ bound' = [bound EXCEPT ![c] = PortOpen]
  /\ \/ RecvPosted(c) /\ Go(w, "count")
     \/ RecvRefused(c) /\ Go(w, "closing")
  /\ UNCHANGED <<connected, closedAge, sock, sess, link, sendVars, told, done, failed, item,
                 cntRead, clientCnt, phase, alive>>

\* ++client_cnt_ of several workers without a lock: a read, then a write.
CountReads(w) ==
  /\ alive
  /\ pc[w] = "count"
  /\ cntRead' = [cntRead EXCEPT ![w] = clientCnt]
  /\ Go(w, "announce")
  /\ UNCHANGED <<slotVars, sendVars, told, ioVars, item, clientCnt, phase, alive>>

\* ... and the virtual OnConnect.
Announce(w) ==
  /\ alive
  /\ pc[w] = "announce"
  /\ clientCnt' = cntRead[w] + 1
  /\ told' = [told EXCEPT ![item[w].c] = @ \cup {"OnConnect"}]
  /\ Back(w)
  /\ UNCHANGED <<slotVars, sendVars, ioVars, cntRead, phase, alive>>

\* Mutant: the next WSARecv is posted before recv_buf_ has been read.
ReceiveAfterRebind(w) ==
  /\ alive
  /\ pc[w] = "receive"
  /\ RecvPosted(item[w].c) \/ RecvRefused(item[w].c)
  /\ Go(w, "rebind")
  /\ UNCHANGED <<slotVars, sendVars, told, done, failed, item, cntRead, clientCnt, phase, alive>>

\* OnReceive copies the bytes out of recv_buf_ ...
Receive(w) ==
  /\ alive
  /\ pc[w] = "receive"
  /\ Go(w, "rebind")
  /\ UNCHANGED <<slotVars, sendVars, told, ioVars, item, cntRead, clientCnt, phase, alive>>

\* ... and then BindRecv posts the next WSARecv; the worker ignores its result.
Rebind(w) ==
  /\ alive
  /\ pc[w] = "rebind"
  /\ RecvPosted(item[w].c) \/ RecvRefused(item[w].c)
  /\ Back(w)
  /\ UNCHANGED <<slotVars, sendVars, told, done, failed, cntRead, clientCnt, phase, alive>>

\* CloseSocket returns early when the slot is already closed.  Two workers may
\* both pass this test.
CloseSocketTest(w) ==
  /\ alive
  /\ pc[w] = "closing"
  /\ IF connected[item[w].c] THEN Go(w, "close") /\ item' = item ELSE Back(w)
  /\ UNCHANGED <<slotVars, sendVars, told, ioVars, cntRead, clientCnt, phase, alive>>

\* ClientInfo::Close: shutdown, is_connect_ = 0 ...
CloseShuts(w) ==
  LET c == item[w].c IN
  /\ alive
  /\ pc[w] = "close"
  /\ connected' = [connected EXCEPT ![c] = FALSE]
  /\ link' = [link EXCEPT ![c] = IF sock[c] = 0 THEN @ ELSE "shut"]
  /\ Go(w, "stamp")
  /\ UNCHANGED <<closedAge, sock, sess, bound, sendVars, told, ioVars, item, cntRead, clientCnt,
                 phase, alive>>

\* Mutant: the closing time is not recorded.
ClosedStampForgotten(c) == closedAge[c]

\* Age of latest_closed_time_sec_ = now.
ClosedStamp(c) == 0

\* ... latest_closed_time_sec_ = now ...
CloseStamps(w) ==
  /\ alive
  /\ pc[w] = "stamp"
  /\ closedAge' = [closedAge EXCEPT ![item[w].c] = ClosedStamp(item[w].c)]
  /\ Go(w, "release")
  /\ UNCHANGED <<connected, sock, sess, link, bound, sendVars, told, ioVars, item, cntRead,
                 clientCnt, phase, alive>>

\* Mutants: Close also empties send_data_queue_; Close is not followed by OnClose.
CloseReleasesAndClears(w) ==
  /\ alive
  /\ pc[w] = "release"
  /\ sock' = [sock EXCEPT ![item[w].c] = 0]
  /\ sendq' = [sendq EXCEPT ![item[w].c] = <<>>]
  /\ Go(w, "report")
  /\ UNCHANGED <<connected, closedAge, sess, link, bound, pushed, stalled, told, ioVars, item,
                 cntRead, clientCnt, phase, alive>>
\* ... closesocket, socket_ = INVALID_SOCKET.
CloseReleases(w) ==
  /\ alive
  /\ pc[w] = "release"
  /\ sock' = [sock EXCEPT ![item[w].c] = 0]
  /\ Go(w, "report")
  /\ UNCHANGED <<connected, closedAge, sess, link, bound, sendVars, told, ioVars, item, cntRead,
                 clientCnt, phase, alive>>

\* The virtual OnClose.
CloseReports(w) ==
  /\ alive
  /\ pc[w] = "report"
  /\ told' = [told EXCEPT ![item[w].c] = @ \cup {"OnClose"}]
  /\ Back(w)
  /\ UNCHANGED <<slotVars, sendVars, ioVars, cntRead, clientCnt, phase, alive>>

Worker(w) ==
  \/ LoopTest(w)
  \/ \E i \in done : DequeueDone(w, i)
  \/ \E i \in failed : DequeueFailed(w, i)
  \/ DequeueAbandoned(w)
  \/ AcceptConnects(w)
  \/ AcceptBinds(w)
  \/ CountReads(w)
  \/ Announce(w)
  \/ Receive(w)
  \/ Rebind(w)
  \/ SendCompleted(w)
  \/ CloseSocketTest(w)
  \/ CloseShuts(w)
  \/ CloseStamps(w)
  \/ CloseReleases(w)
  \/ CloseReports(w)
-----------------------------------------------------------------------------
(* The peer and the kernel.  A completion is queued only while the socket  *)
(* is associated with the port (an ACCEPT belongs to the listen socket).   *)

\* The socket of operation i can still receive.
Live(i) == i.s = sess[i.c] /\ link[i.c] = "up"

KernelAccepts(i) ==
  /\ i \in pending /\ i.op = "ACCEPT"
  /\ pending' = pending \ {i}
  /\ \/ /\ done' = done \cup {i}
        /\ link' = [link EXCEPT ![i.c] = "up"]
        /\ UNCHANGED failed
     \/ /\ "Accept" \in Faults
        /\ failed' = failed \cup {i}
        /\ UNCHANGED <<done, link>>
  /\ UNCHANGED <<connected, closedAge, sock, sess, bound, sendVars>>

KernelReceives(i) ==
  /\ i \in pending /\ i.op = "RECV"
  /\ pending' = pending \ {i}
  /\ IF Live(i)
     THEN done' = done \cup {i} /\ UNCHANGED failed
     ELSE failed' = failed \cup {i} /\ UNCHANGED done
  /\ UNCHANGED <<slotVars, sendVars>>

KernelSends(i) ==
  /\ i \in pending /\ i.op = "SEND"
  /\ pending' = pending \ {i}
  /\ IF bound[i.c]
     THEN \/ done' = done \cup {i} /\ UNCHANGED <<failed, stalled>>
          \/ /\ ~Live(i)
             /\ failed' = failed \cup {i}
             /\ stalled' = [stalled EXCEPT ![i.c] = TRUE]
             /\ UNCHANGED done
     ELSE stalled' = [stalled EXCEPT ![i.c] = TRUE] /\ UNCHANGED <<done, failed>>
  /\ UNCHANGED <<slotVars, sendq, pushed>>

Kernel(i) ==
  /\ alive
  /\ KernelAccepts(i) \/ KernelReceives(i) \/ KernelSends(i)
  /\ UNCHANGED <<told, workerVars, clientCnt, phase, alive>>

PeerLeaves(c) ==
  /\ alive
  /\ link[c] = "up"
  /\ link' = [link EXCEPT ![c] = "gone"]
  /\ UNCHANGED <<connected, closedAge, sock, sess, bound, sendVars, told, ioVars, workerVars,
                 clientCnt, phase, alive>>

\* One second passes.  The wait of RE_USE_SESSION_WAIT_TIMESEC is a bet that the
\* I/O of a closed session is over by then: time does not pass while a slot
\* closed DrainTime seconds ago still has some.
Tick ==
  /\ alive
  /\ \A c \in Clients : closedAge[c] = DrainTime => Quiet(c)
  /\ \E c \in Clients : closedAge[c] # Never /\ closedAge[c] <= ReuseWait
  /\ closedAge' = [c \in Clients |->
                     IF closedAge[c] # Never /\ closedAge[c] <= ReuseWait
                     THEN closedAge[c] + 1
                     ELSE closedAge[c]]
  /\ UNCHANGED <<connected, sock, sess, link, bound, sendVars, told, ioVars, workerVars, clientCnt,
                 phase, alive>>
-----------------------------------------------------------------------------
(* DestroyThread: clear is_worker_run_, close the port, join the workers,  *)
(* then clear is_accepter_run_ and join the accepter.                      *)

\* Mutant: the workers are joined before the port they wait on is closed.
DestroyJoinsFirst ==
  /\ alive
  /\ \/ phase = "run" /\ phase' = "flagged"
     \/ phase = "flagged" /\ (\A w \in Workers : pc[w] = "exit") /\ phase' = "closed"
     \/ phase = "closed" /\ phase' = "down"
  /\ UNCHANGED <<slotVars, sendVars, told, ioVars, workerVars, clientCnt, alive>>

DestroyThread ==
  /\ alive
  /\ \/ phase = "run" /\ phase' = "flagged"
     \/ phase = "flagged" /\ phase' = "closed"
     \/ phase = "closed" /\ (\A w \in Workers : pc[w] = "exit") /\ phase' = "down"
  /\ UNCHANGED <<slotVars, sendVars, told, ioVars, workerVars, clientCnt, alive>>

Next ==
  \/ \E c \in Clients : ReadyAccept(c) \/ SendMsg(c) \/ PeerLeaves(c)
  \/ \E w \in Workers : Worker(w)
  \/ \E i \in pending : Kernel(i)
  \/ Tick
  \/ DestroyThread

Spec == Init /\ [][Next]_vars

\* Some worker takes a completion packet of slot c's operation op.
Dequeue(c, op) ==
  \E w \in Workers : \/ \E i \in done : i.c = c /\ i.op = op /\ DequeueDone(w, i)
                     \/ \E i \in failed : i.c = c /\ i.op = op /\ DequeueFailed(w, i)

\* Threads are scheduled, the kernel answers what it must answer, the clock
\* runs.  The completion port hands its packets out in FIFO order; here it is a
\* set, and strong fairness says that no packet is passed over for ever.  No
\* peer has to connect, to send data or to leave.
Fairness ==
  /\ \A w \in Workers : WF_vars(Worker(w))
  /\ \A c \in Clients, op \in Ops : SF_vars(Dequeue(c, op))
  /\ \A c \in Clients : WF_vars(ReadyAccept(c))
  /\ \A c \in Clients : WF_vars(\E i \in pending : i.c = c /\ i.op = "RECV" /\ ~Live(i) /\ Kernel(i))
  /\ \A c \in Clients : WF_vars(\E i \in pending : i.c = c /\ i.op = "SEND" /\ Kernel(i))
  /\ WF_vars(Tick)
  /\ WF_vars(phase # "run" /\ DestroyThread)

FairSpec == Spec /\ Fairness
-----------------------------------------------------------------------------
(* Properties.                                                             *)

SlotTypes ==
  /\ connected \in [Clients -> BOOLEAN]
  /\ closedAge \in [Clients -> 0..(ReuseWait + 1) \cup {Never}]
  /\ sock \in [Clients -> 0..MaxSession]
  /\ sess \in [Clients -> 0..MaxSession]
  /\ link \in [Clients -> {"none", "up", "gone", "shut"}]
  /\ bound \in [Clients -> BOOLEAN]
SendTypes ==
  /\ sendq \in [Clients -> Seq(1..MaxSend)]
  /\ pushed \in [Clients -> 0..MaxSend]
  /\ stalled \in [Clients -> BOOLEAN]
IoTypes ==
  /\ pending \subseteq Items
  /\ done \subseteq Items
  /\ failed \subseteq Items
WorkerTypes ==
  /\ pc \in [Workers -> Idle \cup Handling]
  /\ item \in [Workers -> Items \cup {Nothing}]
  /\ \A w \in Workers : pc[w] \in Handling => item[w] \in Items
  /\ cntRead \in [Workers -> Nat]

\* Type invariant of the server; a worker that handles a completion packet has
\* the packet's key and operation at hand.
TypeOK ==
  /\ SlotTypes /\ SendTypes /\ IoTypes /\ WorkerTypes
  /\ told \in [Clients -> SUBSET {"OnConnect", "OnClose"}]
  /\ clientCnt \in Nat
  /\ phase \in {"run", "flagged", "closed", "down"}
  /\ alive \in BOOLEAN

\* What RE_USE_SESSION_WAIT_TIMESEC is for: no operation, completion packet or
\* worker of an earlier session is left once a slot has a new socket, so a late
\* completion never closes, re-reads or writes to somebody else's connection.
NoStaleIo ==
  /\ \A i \in Queued : i.s = sess[i.c]
  /\ \A w \in Busy : item[w].s = sess[item[w].c]

\* The owners of a slot's receive buffer: its posted ACCEPT or RECV and the
\* workers that are about to post a WSARecv or are reading recv_buf_.
RecvIn(S, c) == {i \in S : i.c = c /\ i.op # "SEND"}
Receiving(w, c) == pc[w] \in {"accept", "bind", "receive", "rebind"} /\ item[w].c = c

OneReceiverOf(c) ==
  /\ \A i, j \in RecvIn(pending \cup done, c) : i = j
  /\ RecvIn(pending, c) \cap RecvIn(done, c) = {}
  /\ \A w \in Workers : Receiving(w, c) =>
       /\ RecvIn(pending \cup done, c) = {}
       /\ \A v \in Workers \ {w} : ~Receiving(v, c)

\* At most one WSARecv per slot, so at most one worker runs OnReceive (and hence
\* User::SetPacketData) for a client, although no lock is held there.
OneReceiver == \A c \in Clients : OneReceiverOf(c)

\* The owners of the front of a send queue: the posted WSASend, or the worker
\* that is about to run SendCompleted.
SendIn(S, c) == {i \in S : i.c = c /\ i.op = "SEND"}
Completing(w, c) == pc[w] = "sent" /\ item[w].c = c
Sending(c) == \/ SendIn(pending \cup done, c) # {}
              \/ \E w \in Workers : Completing(w, c)

SendsInOrder(c) ==
  /\ \A i, j \in SendIn(pending \cup done, c) : i = j
  /\ SendIn(pending, c) \cap SendIn(done, c) = {}
  /\ \A i \in SendIn(pending \cup done, c) : sendq[c] # <<>> /\ Head(sendq[c]) = i.m
  /\ \A w \in Workers : Completing(w, c) =>
       /\ SendIn(pending \cup done, c) = {}
       /\ \A v \in Workers \ {w} : ~Completing(v, c)
       /\ sendq[c] # <<>> /\ Head(sendq[c]) = item[w].m

\* At most one WSASend is outstanding per slot and it carries the front of
\* send_data_queue_: SendCompleted frees the buffer that was sent, and the
\* messages go out in the order SendMsg pushed them.
SendDiscipline == \A c \in Clients : SendsInOrder(c)

\* The hand-over between SendMsg (starts a send when it is alone in the queue)
\* and SendCompleted (starts the next) never loses a wake-up: a queue can only
\* be left without a WSASend by an error of the socket.
NoLostSend ==
  \A c \in Clients : sendq[c] # <<>> /\ ~stalled[c] => Sending(c)

\* A slot that has been in use is offered to the next peer only after OnClose
\* was called for the old one: PacketManager always learns of the end of a
\* session before it can see data of the next.
ClosedIsReported ==
  \A c \in Clients : MayReuse(c) /\ sess[c] > 0 => "OnClose" \in told[c]

\* The detailed slot implements the abstract one.
Accepting(c) == \/ \E i \in pending \cup done : i.c = c /\ i.op = "ACCEPT"
                \/ \E w \in Workers : pc[w] = "accept" /\ item[w].c = c
SlotState(c) == IF connected[c] THEN "open" ELSE IF Accepting(c) THEN "armed" ELSE "free"

Lifecycle == INSTANCE SlotLifecycle WITH
  state <- [c \in Clients |-> SlotState(c)],
  session <- sess,
  reported <- [c \in Clients |-> "OnClose" \in told[c]]

\* Every behaviour of the server is one of SlotLifecycle: whatever the workers,
\* the accepter and the kernel do, a slot is never opened twice, never armed
\* while open, and never armed again before its last session was reported.
ImplementsLifecycle == Lifecycle!Spec

\* No step makes a worker dereference a null client or pop an empty send queue,
\* but the completion of a failed accept.
FailedAccept == \E w \in Workers, i \in failed : i.op = "ACCEPT" /\ DequeueFailed(w, i)
OnlyAcceptCrashes == [][alive' \/ FailedAccept]_vars

\* A peer that has left is noticed and its slot accepts connections again, with
\* one exception: the peer left between the completion of a WSARecv and the next
\* BindRecv, whose failure the worker ignores (IocpNetServer.h:298).  Such a slot
\* is deaf: open, with nothing under way.  None is deaf whose peer is still there
\* (while no call fails on a sound link), so the next WSARecv is never forgotten.
Deaf(c) == connected[c] /\ Quiet(c)
SlotIsReused ==
  \A c \in Clients :
    /\ [](Deaf(c) => link[c] = "gone" \/ phase # "run")
    /\ connected[c] /\ link[c] = "gone" /\ sess[c] < MaxSession
         ~> (\E i \in pending : i.op = "ACCEPT" /\ i.c = c) \/ Deaf(c) \/ phase # "run"

\* A message SendMsg accepted leaves the queue unless the socket failed.
QueueDrains ==
  \A c \in Clients : sendq[c] # <<>> ~> sendq[c] = <<>> \/ stalled[c] \/ phase # "run"

\* DestroyThread returns: every worker leaves its loop and can be joined.
DestroyReturns == phase = "flagged" ~> phase = "down"
=============================================================================
