---------------------------- MODULE PacketManager ----------------------------
(***************************************************************************)
(* The packet layer above IocpNetServer: AppServer's callbacks,            *)
(* PacketManager's queues and process thread, and the packet buffer of     *)
(* each User, which the I/O workers fill and the process thread empties.   *)
(* lock_ guards the two queues; nothing guards the buffers.                *)
(*                                                                         *)
(* IocpNetServer calls back as its model allows: OnReceive of one client   *)
(* runs on one worker at a time (OneReceiver), and no callback of a        *)
(* session is left when the slot's next session begins (NoStaleIo,         *)
(* ClosedIsReported).                                                      *)
(***************************************************************************)
EXTENDS Naturals, Sequences, FiniteSets

CONSTANTS
  Clients,      \* the client indices, each with its User
  Stream,       \* what every session sends, unit by unit: [o, len, id]
  BufferSize,   \* PACKET_DATA_BUFFER_SIZE, in units
  MaxRecv,      \* MAX_SOCKBUF, in units
  MaxBacklog,   \* what a client sends ahead of the server (see UserBuffer)
  WordSize,     \* 2^32: the positions are UINT32
  Coalesce,     \* whether one receive may bring the ends of several packets
  WaitCovers,   \* whether RE_USE_SESSION_WAIT_TIMESEC covers the process thread's lag
  MaxSession    \* bound: sessions per slot

Ids == {"SYSTEM", "LOGIN_REQUEST", "SIGNIN_REQUEST", "CHAT_SEND_REQUEST", "IN_GAME_REQUEST", "OTHER"}

\* A packet of len units has places 0..len - 1; place 0 is its PACKET_HEADER.
FirstOf(u) == u.o = 0
LastOf(u) == u.o = u.len - 1

ASSUME PacketAssumption ==
  /\ Stream \in Seq([o : Nat, len : Nat \ {0}, id : Ids])
  /\ Stream # <<>> /\ FirstOf(Stream[1])
  /\ \A k \in 2..Len(Stream) :
       IF LastOf(Stream[k - 1])
       THEN FirstOf(Stream[k])
       ELSE Stream[k] = [Stream[k - 1] EXCEPT !.o = @ + 1]
  /\ {BufferSize, MaxRecv, MaxBacklog, WordSize, MaxSession} \subseteq Nat
  /\ 2 * MaxBacklog <= BufferSize
  /\ BufferSize < WordSize
  /\ {Coalesce, WaitCovers} \subseteq BOOLEAN

VARIABLES
  buffer,   \* packet_data_buffer_ of each User
  wPos,     \* packet_data_buffer_w_pos_
  rPos,     \* packet_data_buffer_r_pos_
  domain,   \* cur_domain_state_
  inq,      \* in_coming_packet_user_index_
  sysq,     \* system_packet_queue_
  rx,       \* the OnReceive under way for each client
  ppc,      \* where the process thread is
  pkt,      \* its locals: the user, re_main_byte and the PacketInfo
  running,  \* is_run_process_thread_
  slot,     \* the connection: free, live, or over (OnClose was called)
  session,  \* number of sessions of the slot
  greeted,  \* OnConnect of this session was called
  sent,     \* units of this session that were received
  fed,      \* history: the units received, of all sessions
  taken,    \* history: how many of them GetPacket took
  handled,  \* history: what each packet handler read, and whom it answered
  raced,    \* history: the window slid while the process thread used it
  alive     \* no access outside a buffer crashed the process

userVars == <<buffer, wPos, rPos, domain>>
queueVars == <<inq, sysq>>
threadVars == <<ppc, pkt>>
sessionVars == <<slot, session, greeted>>
recvVars == <<rx, sent, fed>>
takenVars == <<taken, handled>>
vars == <<userVars, queueVars, threadVars, running, sessionVars, recvVars, takenVars, raced, alive>>

\* Unit k of session s; Junk is what new char[] left in the buffer.
Junk == [s |-> 0, k |-> 0]
Offsets == 0..(BufferSize - 1)
Minus(a, b) == (a + WordSize - b) % WordSize

NoRecv == [at |-> "idle", n |-> 0]
NoPacket == [c |-> 0, rem |-> 0, at |-> 0, len |-> 0, id |-> "none"]

Init ==
  /\ buffer = [c \in Clients |-> [i \in Offsets |-> Junk]]
  /\ wPos = [c \in Clients |-> 0]
  /\ rPos = [c \in Clients |-> 0]
  /\ domain = [c \in Clients |-> "NONE"]
  /\ inq = <<>>
  /\ sysq = <<>>
  /\ rx = [c \in Clients |-> NoRecv]
  /\ ppc = "loop"
  /\ pkt = NoPacket
  /\ running = TRUE
  /\ slot = [c \in Clients |-> "free"]
  /\ session = [c \in Clients |-> 0]
  /\ greeted = [c \in Clients |-> TRUE]
  /\ sent = [c \in Clients |-> 0]
  /\ fed = [c \in Clients |-> <<>>]
  /\ taken = [c \in Clients |-> 0]
  /\ handled = [c \in Clients |-> <<>>]
  /\ raced = [c \in Clients |-> FALSE]
  /\ alive = TRUE
-----------------------------------------------------------------------------
(* The callbacks of IocpNetServer.                                         *)

Using(c) == ppc \in {"remain", "header", "take", "handle"} /\ pkt.c = c
Sliding(c) == rx[c].at \in {"slide", "rewind"}

\* The accepter offers the slot to a next session; the bytes the last one left
\* in its User are still there.
Accept(c) ==
  /\ \/ slot[c] = "free"
     \/ /\ slot[c] = "over" /\ greeted[c] /\ rx[c] = NoRecv
        /\ WaitCovers => ~Using(c) /\ \A i \in 1..Len(inq) : inq[i] # c
  /\ session[c] < MaxSession
  /\ slot' = [slot EXCEPT ![c] = "live"]
  /\ session' = [session EXCEPT ![c] = @ + 1]
  /\ greeted' = [greeted EXCEPT ![c] = FALSE]
  /\ sent' = [sent EXCEPT ![c] = 0]
  /\ UNCHANGED <<userVars, queueVars, threadVars, running, rx, fed, takenVars, alive>>

\* AppServer::OnConnect.  The first receive is posted before it is called, so
\* OnReceive and even OnClose of the session may come first.
OnConnect(c) ==
  /\ ~greeted[c]
  /\ greeted' = [greeted EXCEPT ![c] = TRUE]
  /\ sysq' = Append(sysq, [c |-> c, id |-> "PACKET_CHATNAME_REQ"])
  /\ UNCHANGED <<userVars, inq, threadVars, running, slot, session, recvVars, takenVars, alive>>

\* AppServer::OnClose.
OnClose(c) ==
  /\ slot[c] = "live"
  /\ slot' = [slot EXCEPT ![c] = "over"]
  /\ sysq' = Append(sysq, [c |-> c, id |-> "SYS_USER_DISCONNECT"])
  /\ UNCHANGED <<userVars, inq, threadVars, running, session, greeted, recvVars, takenVars, alive>>

\* How many packets end in units i..j of a session.
Ends(i, j) == Cardinality({k \in i..j : LastOf(Stream[k])})

\* AppServer::OnReceive -> ReceivePacketData: n more units of the session.
OnReceive(c, n) ==
  /\ slot[c] # "free"
  /\ rx[c] = NoRecv
  /\ sent[c] + n <= Len(Stream)
  /\ Len(fed[c]) - taken[c] + n <= MaxBacklog
  /\ Coalesce \/ Ends(sent[c] + 1, sent[c] + n) <= 1
  /\ rx' = [rx EXCEPT ![c] = [at |-> "test", n |-> n]]
  /\ UNCHANGED <<userVars, queueVars, threadVars, running, sessionVars, sent, fed, takenVars, alive>>
-----------------------------------------------------------------------------
(* User::SetPacketData, step by step, then EnqueuePacketData.              *)

RxGo(c, label) == rx' = [rx EXCEPT ![c].at = label]

SlideTest(c) ==
  /\ rx[c].at = "test"
  /\ RxGo(c, IF wPos[c] + rx[c].n >= BufferSize THEN "slide" ELSE "copy")
  /\ UNCHANGED <<userVars, queueVars, threadVars, running, sessionVars, sent, fed, takenVars, alive>>

\* Mutant: the rest of the window is forgotten when it slides.
SlideForgets(c) ==
  /\ rx[c].at = "slide"
  /\ wPos' = [wPos EXCEPT ![c] = 0]
  /\ RxGo(c, "rewind")
  /\ UNCHANGED <<buffer, rPos, domain, queueVars, threadVars, running, sessionVars, sent, fed,
                 takenVars, alive>>

\* re_main_data_size is read, the rest of the window is copied down, wPos is set.
Slide(c) ==
  LET rest == Minus(wPos[c], rPos[c]) IN
  /\ rx[c].at = "slide"
  /\ IF rPos[c] + rest > BufferSize
     THEN alive' = FALSE /\ UNCHANGED <<buffer, wPos, rx>>
     ELSE /\ alive' = alive
          /\ buffer' = [buffer EXCEPT ![c] =
                          [i \in Offsets |-> IF i < rest THEN @[rPos[c] + i] ELSE @[i]]]
          /\ wPos' = [wPos EXCEPT ![c] = rest]
          /\ RxGo(c, "rewind")
  /\ UNCHANGED <<rPos, domain, queueVars, threadVars, running, sessionVars, sent, fed, takenVars>>

Rewind(c) ==
  /\ rx[c].at = "rewind"
  /\ rPos' = [rPos EXCEPT ![c] = 0]
  /\ RxGo(c, "copy")
  /\ UNCHANGED <<buffer, wPos, domain, queueVars, threadVars, running, sessionVars, sent, fed,
                 takenVars, alive>>

\* The received units are copied behind the window ...
CopyIn(c) ==
  LET n == rx[c].n IN
  /\ rx[c].at = "copy"
  /\ IF wPos[c] + n > BufferSize
     THEN alive' = FALSE /\ UNCHANGED <<buffer, rx>>
     ELSE /\ alive' = alive
          /\ buffer' = [buffer EXCEPT ![c] =
                          [i \in Offsets |->
                             IF i >= wPos[c] /\ i < wPos[c] + n
                             THEN [s |-> session[c], k |-> sent[c] + (i - wPos[c]) + 1]
                             ELSE @[i]]]
          /\ RxGo(c, "advance")
  /\ UNCHANGED <<wPos, rPos, domain, queueVars, threadVars, running, sessionVars, sent, fed, takenVars>>

Received(c) == [i \in 1..rx[c].n |-> [s |-> session[c], k |-> sent[c] + i]]

\* ... and become part of it.
Advance(c) ==
  /\ rx[c].at = "advance"
  /\ wPos' = [wPos EXCEPT ![c] = @ + rx[c].n]
  /\ fed' = [fed EXCEPT ![c] = @ \o Received(c)]
  /\ sent' = [sent EXCEPT ![c] = @ + rx[c].n]
  /\ RxGo(c, "notify")
  /\ UNCHANGED <<buffer, rPos, domain, queueVars, threadVars, running, sessionVars, takenVars, alive>>

\* Mutant: a client that is already in the queue is not entered again.
EnqueueOnce(c) ==
  /\ rx[c].at = "notify"
  /\ inq' = IF \E i \in 1..Len(inq) : inq[i] = c THEN inq ELSE Append(inq, c)
  /\ rx' = [rx EXCEPT ![c] = NoRecv]
  /\ UNCHANGED <<userVars, sysq, threadVars, running, sessionVars, sent, fed, takenVars, alive>>

EnqueuePacketData(c) ==
  /\ rx[c].at = "notify"
  /\ inq' = Append(inq, c)
  /\ rx' = [rx EXCEPT ![c] = NoRecv]
  /\ UNCHANGED <<userVars, sysq, threadVars, running, sessionVars, sent, fed, takenVars, alive>>

ReceivePacketData(c) ==
  \/ SlideTest(c) \/ Slide(c) \/ Rewind(c) \/ CopyIn(c) \/ Advance(c) \/ EnqueuePacketData(c)
-----------------------------------------------------------------------------
(* ProcessPacket: one request, then one system packet, per turn.           *)

ThreadGo(label) == ppc' = label

\* while (is_run_process_thread_), then the first half of DequePacketData.
DequeueUser ==
  /\ ppc = "loop"
  /\ IF ~running
     THEN ThreadGo("exit") /\ UNCHANGED <<inq, pkt>>
     ELSE IF inq = <<>>
          THEN ThreadGo("system") /\ UNCHANGED <<inq, pkt>>
          ELSE /\ inq' = Tail(inq)
               /\ pkt' = [NoPacket EXCEPT !.c = Head(inq)]
               /\ ThreadGo("remain")
  /\ UNCHANGED <<userVars, sysq, running, sessionVars, recvVars, takenVars, alive>>

\* User::GetPacket: re_main_byte ...
GetRemain ==
  /\ ppc = "remain"
  /\ pkt' = [pkt EXCEPT !.rem = Minus(wPos[pkt.c], rPos[pkt.c])]
  /\ ThreadGo("header")
  /\ UNCHANGED <<userVars, queueVars, running, sessionVars, recvVars, takenVars, alive>>

\* What a PACKET_HEADER at offset i may say: in the middle of a packet, or past
\* what was written, anything.
HeaderAt(c, i) ==
  LET u == IF i \in Offsets THEN buffer[c][i] ELSE Junk IN
  IF u # Junk /\ FirstOf(Stream[u.k])
  THEN {[len |-> Stream[u.k].len, id |-> Stream[u.k].id]}
  ELSE [len : 0..MaxBacklog, id : {"CHAT_SEND_REQUEST", "OTHER"}]

\* ... the header, if a whole packet is there ...
GetHeader ==
  /\ ppc = "header"
  /\ IF pkt.rem = 0
     THEN pkt' = NoPacket /\ ThreadGo("system")
     ELSE \E h \in HeaderAt(pkt.c, rPos[pkt.c]) :
            IF h.len > pkt.rem
            THEN pkt' = NoPacket /\ ThreadGo("system")
            ELSE /\ pkt' = [pkt EXCEPT !.at = rPos[pkt.c], !.len = h.len, !.id = h.id]
                 /\ ThreadGo("take")
  /\ UNCHANGED <<userVars, queueVars, running, sessionVars, recvVars, takenVars, alive>>

\* Mutant: P_data_ptr_ is set after the position has moved.
TakeThenPoint ==
  /\ ppc = "take"
  /\ rPos' = [rPos EXCEPT ![pkt.c] = @ + pkt.len]
  /\ taken' = [taken EXCEPT ![pkt.c] = @ + pkt.len]
  /\ pkt' = [pkt EXCEPT !.at = @ + pkt.len]
  /\ ThreadGo("handle")
  /\ UNCHANGED <<buffer, wPos, domain, queueVars, running, sessionVars, recvVars, handled, alive>>

\* ... and the window moves on.  Ids up to SYS_END are dropped.
TakePacket ==
  /\ ppc = "take"
  /\ rPos' = [rPos EXCEPT ![pkt.c] = @ + pkt.len]
  /\ taken' = [taken EXCEPT ![pkt.c] = @ + pkt.len]
  /\ IF pkt.id = "SYSTEM"
     THEN pkt' = NoPacket /\ ThreadGo("system")
     ELSE ThreadGo("handle") /\ UNCHANGED pkt
  /\ UNCHANGED <<buffer, wPos, domain, queueVars, running, sessionVars, recvVars, handled, alive>>

\* Whom the handler of recv_funtion_dictionary_ answers.
Answered(c, id) ==
  CASE id \in {"LOGIN_REQUEST", "SIGNIN_REQUEST"} -> {c}
    [] id \in {"CHAT_SEND_REQUEST", "IN_GAME_REQUEST"} -> Clients
    [] OTHER -> {}

\* ProcessRecvPacket: the handler reads the packet through P_data_ptr_, which
\* points into the buffer, and answers by client index.
ProcessRecvPacket ==
  LET c == pkt.c IN
  /\ ppc = "handle"
  /\ handled' = [handled EXCEPT ![c] =
       Append(@, [first |-> taken[c] - pkt.len,
                  units |-> [i \in 1..pkt.len |->
                               IF pkt.at + i - 1 \in Offsets THEN buffer[c][pkt.at + i - 1] ELSE Junk],
                  session |-> session[c],
                  to |-> Answered(c, pkt.id)])]
  /\ pkt' = NoPacket
  /\ ThreadGo("system")
  /\ UNCHANGED <<userVars, queueVars, running, sessionVars, recvVars, taken, alive>>

\* User::Clear, which ClearConnectionInfo calls only for a user that has logged
\* in or entered a room: nothing ever sets that state.
ClearConnectionInfo(c) ==
  IF domain[c] # "NONE"
  THEN /\ wPos' = [wPos EXCEPT ![c] = 0]
       /\ rPos' = [rPos EXCEPT ![c] = 0]
       /\ domain' = [domain EXCEPT ![c] = "NONE"]
  ELSE UNCHANGED <<wPos, rPos, domain>>

\* One system packet; PACKET_CHATNAME_REQ has no handler.
ProcessSystemPacket ==
  /\ ppc = "system"
  /\ IF sysq # <<>> /\ Head(sysq).id = "SYS_USER_DISCONNECT"
     THEN ClearConnectionInfo(Head(sysq).c)
     ELSE UNCHANGED <<wPos, rPos, domain>>
  /\ sysq' = IF sysq = <<>> THEN sysq ELSE Tail(sysq)
  /\ ThreadGo("loop")
  /\ UNCHANGED <<buffer, inq, pkt, running, sessionVars, recvVars, takenVars, alive>>

ProcessPacket ==
  \/ DequeueUser \/ GetRemain \/ GetHeader \/ TakePacket \/ ProcessRecvPacket
  \/ ProcessSystemPacket

\* PacketManager::End; the process thread is joined when it has left its loop.
End ==
  /\ running
  /\ running' = FALSE
  /\ UNCHANGED <<userVars, queueVars, threadVars, sessionVars, recvVars, takenVars, alive>>
-----------------------------------------------------------------------------
Step ==
  \/ \E c \in Clients : \/ Accept(c) \/ OnConnect(c) \/ OnClose(c)
                        \/ \E n \in 1..MaxRecv : OnReceive(c, n)
                        \/ ReceivePacketData(c)
  \/ ProcessPacket
  \/ End

Next ==
  /\ alive
  /\ Step
  /\ raced' = [c \in Clients |-> raced[c] \/ (Sliding(c) /\ Using(c))']

Spec == Init /\ [][Next]_vars

\* The worker that runs OnReceive and the process thread are scheduled.
Fairness ==
  /\ \A c \in Clients : WF_vars(Next /\ ReceivePacketData(c))
  /\ WF_vars(Next /\ ProcessPacket)

FairSpec == Spec /\ Fairness
-----------------------------------------------------------------------------
(* Properties.                                                             *)

Units == [s : 1..MaxSession, k : 1..Len(Stream)]
Locals == [c : Clients \cup {0}, rem : 0..(WordSize - 1), at : Nat, len : Nat,
           id : Ids \cup {"none"}]

\* Type invariant of the packet layer.
TypeOK ==
  /\ buffer \in [Clients -> [Offsets -> Units \cup {Junk}]]
  /\ wPos \in [Clients -> 0..BufferSize]
  /\ rPos \in [Clients -> Nat]
  /\ domain \in [Clients -> {"NONE", "LOGIN", "ROOM"}]
  /\ inq \in Seq(Clients)
  /\ sysq \in Seq([c : Clients, id : {"PACKET_CHATNAME_REQ", "SYS_USER_DISCONNECT"}])
  /\ rx \in [Clients -> [at : {"idle", "test", "slide", "rewind", "copy", "advance", "notify"},
                         n : 0..MaxRecv]]
  /\ ppc \in {"loop", "remain", "header", "take", "handle", "system", "exit"}
  /\ pkt \in Locals
  /\ ppc \in {"remain", "header", "take", "handle"} => pkt.c \in Clients
  /\ {running, alive} \subseteq BOOLEAN
  /\ slot \in [Clients -> {"free", "live", "over"}]
  /\ session \in [Clients -> 0..MaxSession]
  /\ greeted \in [Clients -> BOOLEAN]
  /\ sent \in [Clients -> 0..Len(Stream)]
  /\ fed \in [Clients -> Seq(Units)]
  /\ taken \in [Clients -> Nat]
  /\ raced \in [Clients -> BOOLEAN]

\* The unread part of c's buffer; between Slide and Rewind it is at the front.
Front(c) == IF rx[c].at = "rewind" THEN 0 ELSE rPos[c]
Unread(c) == [i \in 1..Minus(wPos[c], Front(c)) |-> buffer[c][Front(c) + i - 1]]

\* User.h has no lock.  As long as the window does not slide while the process
\* thread is between DequePacketData and the end of the handler, what is unread
\* in the buffer is what was received and not taken, unit by unit, and no access
\* leaves the buffer.
WindowIsBacklog ==
  \A c \in Clients : ~raced[c] => Unread(c) = SubSeq(fed[c], taken[c] + 1, Len(fed[c]))

\* ... and each handler reads exactly the units GetPacket took for it, although
\* it reads them from the live buffer while a worker may be writing there.
Intact(c, h) == /\ h.first + Len(h.units) <= Len(fed[c])
                /\ h.units = SubSeq(fed[c], h.first + 1, h.first + Len(h.units))
RequestsIntact ==
  \A c \in Clients : ~raced[c] => \A i \in 1..Len(handled[c]) : Intact(c, handled[c][i])

\* Packets that are complete in c's buffer, and the turns of the process thread
\* that are promised to c.
Waiting(c) == Cardinality({i \in (taken[c] + 1)..Len(fed[c]) : LastOf(Stream[fed[c][i].k])})
Turns(c) == Cardinality({i \in 1..Len(inq) : inq[i] = c})
            + (IF rx[c].at = "notify" THEN 1 ELSE 0)
            + (IF ppc \in {"remain", "header", "take"} /\ pkt.c = c THEN 1 ELSE 0)

\* A notice per receive is enough as long as no receive ends more than one
\* packet: each complete packet has a turn to come, also when GetPacket gave up
\* on a packet whose last unit arrived right after it looked.
EveryPacketHasItsTurn ==
  ~Coalesce => \A c \in Clients : session[c] <= 1 /\ ~raced[c] => Waiting(c) <= Turns(c)

\* At least n packets of c have been received completely, and taken.
Arrived(c, n) == Cardinality({i \in 1..Len(fed[c]) : LastOf(Stream[fed[c][i].k])}) >= n
Taken(c, n) == Cardinality({i \in 1..taken[c] : LastOf(Stream[fed[c][i].k])}) >= n

\* PacketManager.cpp:74,78: "if a connected user has sent a request, process it".
EveryRequestIsTaken ==
  \A c \in Clients, n \in 1..Len(Stream) :
    Arrived(c, n) ~> Taken(c, n) \/ raced[c] \/ ~running

\* PacketManager.cpp:192: "when the connection is lost the user is returned":
\* a request that is answered is made of the bytes of the session that gets the answer.
RequestOfOneSession ==
  \A c \in Clients : \A i \in 1..Len(handled[c]) : c \in handled[c][i].to =>
    \A j \in 1..Len(handled[c][i].units) :
      handled[c][i].units[j].s \in {0, handled[c][i].session}
=============================================================================
