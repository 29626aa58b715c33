---------------------------- MODULE ClientToServer ----------------------------
(***************************************************************************)
(* The client's end of the connection, UClient_To_Server: a thread that    *)
(* receives, two threads that handle what was received, and the game       *)
(* thread that shuts them down.  received_data_mutex guards the two queues *)
(* of pointers, but every pointer pushed is the address of a local of      *)
(* receive_thread: Login_data for one queue, in_game_move_data_ for the    *)
(* other.  The locals keep their place on the stack from one iteration to  *)
(* the next, so what a queued pointer shows is what was received last.     *)
(*                                                                         *)
(* Left out: the requests the game thread sends (send on a non-blocking    *)
(* socket whose result is ignored), and packets cut in two by a recv.      *)
(***************************************************************************)
EXTENDS Naturals, Sequences, SequencesExt

CONSTANT MaxSent   \* bound: packets the server sends

ASSUME ClientAssumption == MaxSent \in Nat

Readers == {"lobby", "game"}
\* 201-206 (a message box and, for success, no argument), 302 and 402.
Kinds == {"login", "chat", "game"}
Packets == [kind : Kinds, n : 1..MaxSent]
Zeroed == [kind |-> "zero", n |-> 0]

VARIABLES
  connected,   \* recevie_connected
  queue,       \* how many pointers each of the two queues holds
  data,        \* the local each queue's pointers point to
  holder,      \* the reader that holds received_data_mutex, or "none"
  rpc, input,  \* where receive_thread is, and the first packet in its buffer
  pc, case,    \* where each reader is, and the packet_id it switched on
  down,        \* what Client_Shutdown is waiting for
  net,         \* packets on their way to the client
  sent,        \* number of packets the server sent
  got,         \* history: the packets receive_thread looked at, by queue
  done,        \* history: the calls each reader made, with what it read
  overwritten, \* history: a local was cleared while its queue was not empty
  alive        \* FALSE: a reader touched the stack of the finished thread

readerVars == <<pc, case, holder>>
netVars == <<net, sent>>
history == <<got, overwritten>>
vars == <<connected, queue, data, readerVars, rpc, input, down, netVars, history, done, alive>>

\* Server_Connect: the three threads start once the socket is connected.
Init ==
  /\ connected = TRUE
  /\ queue = [t \in Readers |-> 0]
  /\ data = [t \in Readers |-> Zeroed]
  /\ holder = "none"
  /\ rpc = "test" /\ input = Zeroed
  /\ pc = [t \in Readers |-> "test"]
  /\ case = [t \in Readers |-> "zero"]
  /\ down = "no"
  /\ net = <<>> /\ sent = 0
  /\ got = [t \in Readers |-> <<>>] /\ done = [t \in Readers |-> <<>>]
  /\ overwritten = FALSE
  /\ alive = TRUE

ServerSends(kind) ==
  /\ sent < MaxSent
  /\ sent' = sent + 1
  /\ net' = Append(net, [kind |-> kind, n |-> sent + 1])
  /\ UNCHANGED <<connected, queue, data, readerVars, rpc, input, down, history, done, alive>>
-----------------------------------------------------------------------------
(* receive_thread.                                                         *)

QueueOf(p) == IF p.kind = "game" THEN "game" ELSE "lobby"

ReceiveTest ==
  /\ rpc = "test"
  /\ rpc' = IF connected THEN "recv" ELSE "exit"
  /\ UNCHANGED <<connected, queue, data, readerVars, input, down, netVars, history, done, alive>>

\* recv takes all the bytes that are there, whatever packets they make up; only
\* the packet at the start of the buffer is looked at.
Receive ==
  /\ rpc = "recv"
  /\ IF net = <<>>
     THEN rpc' = "test" /\ UNCHANGED <<input, net, got>>
     ELSE \E k \in 1..Len(net) :
            /\ input' = net[1]
            /\ net' = SubSeq(net, k + 1, Len(net))
            /\ got' = [got EXCEPT ![QueueOf(net[1])] = Append(@, net[1])]
            /\ rpc' = "clear"
  /\ UNCHANGED <<connected, queue, data, readerVars, down, sent, overwritten, done, alive>>

\* Every packet goes through Login_data first, whichever queue it is for.
\* Neither ZeroMemory nor CopyMemory is under the mutex.
Clear(t) ==
  /\ data' = [data EXCEPT ![t] = Zeroed]
  /\ overwritten' = (overwritten \/ queue[t] > 0)
  /\ UNCHANGED <<connected, queue, readerVars, input, down, netVars, got, done, alive>>

\* Mutant: the in-game queue is given the packets of the lobby too.
CopyBoth(t) ==
  /\ data' = [u \in Readers |-> input]
  /\ UNCHANGED <<connected, queue, readerVars, input, down, netVars, history, done, alive>>

Copy(t) ==
  /\ data' = [data EXCEPT ![t] = input]
  /\ UNCHANGED <<connected, queue, readerVars, input, down, netVars, history, done, alive>>

ReceiveClear == rpc = "clear" /\ rpc' = "copy" /\ Clear("lobby")
ReceiveCopy ==
  /\ rpc = "copy"
  /\ rpc' = IF input.kind = "game" THEN "clearGame" ELSE "push"
  /\ Copy("lobby")
ReceiveClearGame == rpc = "clearGame" /\ rpc' = "copyGame" /\ Clear("game")
ReceiveCopyGame == rpc = "copyGame" /\ rpc' = "push" /\ Copy("game")

ReceivePush ==
  /\ rpc = "push" /\ holder = "none"
  /\ queue' = [queue EXCEPT ![QueueOf(input)] = @ + 1]
  /\ rpc' = "test"
  /\ UNCHANGED <<connected, data, readerVars, input, down, netVars, history, done, alive>>
-----------------------------------------------------------------------------
(* receive_data_read_thread and receive_ingame_moveinfo_data_read_thread.  *)

ReadTest(t) ==
  /\ pc[t] = "test"
  /\ pc' = [pc EXCEPT ![t] = IF connected THEN "lock" ELSE "exit"]
  /\ UNCHANGED <<connected, queue, data, case, holder, rpc, input, down, netVars, history, done, alive>>

\* Mutant: a reader leaves its loop with the mutex locked.
LockAndLeave(t) ==
  /\ pc[t] = "lock" /\ holder = "none"
  /\ holder' = t
  /\ pc' = [pc EXCEPT ![t] = IF ~connected THEN "exit" ELSE IF queue[t] = 0 THEN "test" ELSE "switch"]
  /\ UNCHANGED <<connected, queue, data, case, rpc, input, down, netVars, history, done, alive>>

\* lock_guard is released at the end of each round of the loop.
ReadLock(t) ==
  /\ pc[t] = "lock" /\ holder = "none"
  /\ IF queue[t] = 0
     THEN pc' = [pc EXCEPT ![t] = "test"] /\ UNCHANGED holder
     ELSE pc' = [pc EXCEPT ![t] = "switch"] /\ holder' = t
  /\ UNCHANGED <<connected, queue, data, case, rpc, input, down, netVars, history, done, alive>>

\* Once receive_thread has returned its stack may be unmapped.
Dangling == rpc = "exit"

Dies ==
  /\ Dangling
  /\ alive' = FALSE
  /\ UNCHANGED <<connected, queue, data, readerVars, rpc, input, down, netVars, history, done>>

\* The cases of the two switches.  The in-game reader's case of a refused login is
\* left out: its storage takes packets of the game alone.
Handles(t, kind) == kind = "game" \/ (t = "lobby" /\ kind \in {"login", "chat"})

Pop(t) ==
  /\ queue' = [queue EXCEPT ![t] = @ - 1]
  /\ holder' = "none"
  /\ pc' = [pc EXCEPT ![t] = "test"]

\* Mutant: the pointer is popped and the mutex released before the box is opened.
SwitchThenPop(t) ==
  /\ pc[t] = "switch"
  /\ \/ Dies
     \/ /\ case' = [case EXCEPT ![t] = data[t].kind]
        /\ queue' = [queue EXCEPT ![t] = @ - 1]
        /\ holder' = "none"
        /\ IF Handles(t, data[t].kind)
           THEN pc' = [pc EXCEPT ![t] = "box"] /\ UNCHANGED done
           ELSE pc' = [pc EXCEPT ![t] = "test"] /\ done' = [done EXCEPT ![t] = Append(@, data[t])]
        /\ UNCHANGED <<connected, data, rpc, input, down, netVars, history, alive>>

\* The switch reads packet_id; a case that is not the default opens a message
\* box and stays in it, mutex held, until the user closes it.
ReadSwitch(t) ==
  /\ pc[t] = "switch"
  /\ \/ Dies
     \/ /\ case' = [case EXCEPT ![t] = data[t].kind]
        /\ IF Handles(t, data[t].kind)
           THEN pc' = [pc EXCEPT ![t] = "box"] /\ UNCHANGED <<queue, holder, done>>
           ELSE /\ Pop(t)
                /\ done' = [done EXCEPT ![t] = Append(@, data[t])]
        /\ UNCHANGED <<connected, data, rpc, input, down, netVars, history, alive>>

CloseBox(t) ==
  /\ pc[t] = "box"
  /\ pc' = [pc EXCEPT ![t] = "call"]
  /\ UNCHANGED <<connected, queue, data, case, holder, rpc, input, down, netVars, history, done, alive>>

\* After the box the packet is read again, for the log and for the delegate's
\* argument.
ReadCall(t) ==
  /\ pc[t] = "call"
  /\ \/ Dies
     \/ /\ done' = [done EXCEPT ![t] = Append(@, [kind |-> case[t], n |-> data[t].n])]
        /\ Pop(t)
        /\ UNCHANGED <<connected, data, case, rpc, input, down, netVars, history, alive>>
-----------------------------------------------------------------------------
(* Client_Shutdown.                                                        *)

Shutdown ==
  /\ down = "no"
  /\ connected' = FALSE
  /\ down' = "receiver"
  /\ UNCHANGED <<queue, data, readerVars, rpc, input, netVars, history, done, alive>>

Join ==
  /\ \/ down = "receiver" /\ rpc = "exit" /\ down' = "lobby"
     \/ down = "lobby" /\ pc["lobby"] = "exit" /\ down' = "game"
     \/ down = "game" /\ pc["game"] = "exit" /\ down' = "closed"
  /\ UNCHANGED <<connected, queue, data, readerVars, rpc, input, netVars, history, done, alive>>
-----------------------------------------------------------------------------
ReceiveThread ==
  ReceiveTest \/ Receive \/ ReceiveClear \/ ReceiveCopy \/ ReceiveClearGame \/ ReceiveCopyGame
  \/ ReceivePush
ReadThread(t) == ReadTest(t) \/ ReadLock(t) \/ ReadSwitch(t) \/ ReadCall(t)

Step ==
  \/ \E kind \in Kinds : ServerSends(kind)
  \/ ReceiveThread
  \/ \E t \in Readers : ReadThread(t) \/ CloseBox(t)
  \/ Shutdown \/ Join
Next == alive /\ Step

Spec == Init /\ [][Next]_vars

\* The threads run and the user closes the boxes; that Client_Shutdown is called,
\* or the server sends anything, is not assumed.  The mutex is not fair.
FairSpec ==
  /\ Spec
  /\ WF_vars(alive /\ ReceiveThread) /\ WF_vars(alive /\ Join)
  /\ \A t \in Readers : WF_vars(alive /\ ReadThread(t)) /\ WF_vars(alive /\ CloseBox(t))
-----------------------------------------------------------------------------
(* Properties.                                                             *)

TypeOK ==
  /\ connected \in BOOLEAN /\ alive \in BOOLEAN /\ overwritten \in BOOLEAN
  /\ queue \in [Readers -> Nat]
  /\ data \in [Readers -> Packets \cup {Zeroed}]
  /\ holder \in Readers \cup {"none"}
  /\ rpc \in {"test", "recv", "clear", "copy", "clearGame", "copyGame", "push", "exit"}
  /\ input \in Packets \cup {Zeroed}
  /\ pc \in [Readers -> {"test", "lock", "switch", "box", "call", "exit"}]
  /\ case \in [Readers -> Kinds \cup {"zero"}]
  /\ down \in {"no", "receiver", "lobby", "game", "closed"}
  /\ net \in Seq(Packets) /\ sent \in 0..MaxSent
  /\ got \in [Readers -> Seq(Packets)]
  /\ done \in [Readers -> Seq([kind : Kinds \cup {"zero"}, n : 0..MaxSent])]

\* Each reader handles the packets of its queue in the order of their arrival,
\* id and contents from the same packet (Client_To_Server.cpp:129 and :184).
FirstReceivedIsHandled == \A t \in Readers : IsPrefix(done[t], got[t])

\* What the locals cost: the readers are right for as long as no packet arrives
\* while an earlier one waits or is being handled (Client_To_Server.cpp:86-112).
HandledUnlessOverwritten == ~overwritten => FirstReceivedIsHandled

\* The reader of one queue is never shown a packet of the lobby's when it is the
\* in-game reader, however the copies interleave (Client_To_Server.cpp:101-113).
InGameReaderSeesNoLobbyPacket ==
  \A i \in DOMAIN done["game"] : done["game"][i].kind \in {"game", "zero"}

\* Client_Shutdown comes back, unless a reader dies in the meantime: no thread
\* waits for a mutex that a thread which has left its loop still holds.
ShutdownReturns == (down = "receiver") ~> (down = "closed" \/ ~alive)
=============================================================================
