------------------------------ MODULE Accounts ------------------------------
(* Login, sign-up, chat and the entrance into the game, from the client's    *)
(* widgets through PacketManager's handlers to the database and back.  A     *)
(* request carries the slot it came from and its answer goes to that slot.   *)
(* The layers below are seen from above: the process thread takes complete   *)
(* requests in order; a reply arrives in order while its client stays, unless *)
(* a WSASend of the slot has failed: the message it was for stays at the     *)
(* front of the slot's queue and nothing goes out any more.                  *)
EXTENDS Naturals, SequencesExt, Odbc, Selection

CONSTANTS Slots,                    \* the server's slots
          Breaks,                  \* bound: those whose connection may break under a send
          MaxSent                  \* bound: requests, and what nobody in src/ does

ASSUME AccountsAssumption ==
  /\ IsFiniteSet(Slots) /\ Slots # {} /\ Breaks \subseteq Slots
  /\ MaxSent \in Nat

VARIABLES db,
          serving,      \* AppServer::Run has got as far as StartServer
          conn,         \* the slots that are connected
          requests,     \* what the process thread has before it
          box,          \* it waits for somebody to close the box of ErrorMsg
          silent,       \* the slots whose send queue has a failed message at its front
          down,         \* per slot, its client's packets: out, or stuck in the queue
          own,          \* per slot, the answers its client has still to get
          late,         \* history: slots taken over while a request of the last client waited
          sent          \* requests, calls and changes of the driver so far

accountVars == <<db, serving, conn, requests, box, silent, down, own, late, sent>>

AccountsInit ==
  /\ db = DbInit /\ serving = FALSE /\ conn = {} /\ requests = <<>> /\ late = {}
  /\ box = FALSE /\ silent = {}
  /\ down = [s \in Slots |-> <<>>] /\ own = [s \in Slots |-> <<>>]
  /\ sent = 0

----------------------------------------------------------------------------
(* The client.                                                               *)

Packet(kind, ok, out) == [kind |-> kind, ok |-> ok, out |-> out]
IsReply(packet) == packet.kind \in {"login", "signin"}
AnyRow == CHOOSE row \in Rows : TRUE
Request(s, kind, row) == [slot |-> s, kind |-> kind, row |-> row]

\* Server_Packet_Send
Send(s, kind, row) ==
  /\ sent < MaxSent /\ sent' = sent + 1
  /\ requests' = Append(requests, Request(s, kind, row))
  /\ own' = IF kind \in {"login", "signin"} THEN [own EXCEPT ![s] = Append(@, kind)] ELSE own

SetLoginInfo(s) ==
  /\ s \in conn /\ \E row \in Rows : Send(s, "login", row)
  /\ UNCHANGED <<db, serving, conn, box, silent, down, late>>
\* the two passwords must be the same; then they are sent once
Login_Signup(s) ==
  /\ s \in conn
  /\ \E row \in Rows : \E again \in Texts : row.pw = again /\ Send(s, "signin", row)
  /\ UNCHANGED <<db, serving, conn, box, silent, down, late>>
ChatMsgSend(s) ==
  /\ s \in conn /\ Send(s, "chat", AnyRow)
  /\ UNCHANGED <<db, serving, conn, box, silent, down, late>>

InGameAccept(s) ==
  /\ sent < MaxSent /\ sent' = sent + 1
  /\ requests' = Append(requests, Request(s, "inGame", AnyRow))
\* receive_data_read_thread: a successful login asks for the game at once
\* (ULogin::InGameConnect), if a login widget has bound itself
ReadData(s) ==
  /\ s \in conn /\ down[s] # <<>> /\ down' = [down EXCEPT ![s] = Tail(@)]
  /\ LET packet == Head(down[s])
     IN  /\ packet.out
         /\ own' = IF IsReply(packet) /\ own[s] # <<>>
                  THEN [own EXCEPT ![s] = Tail(@)] ELSE own
         /\ \/ packet.kind = "login" /\ packet.ok /\ InGameAccept(s)
            \/ UNCHANGED <<requests, sent>>
  /\ UNCHANGED <<db, serving, conn, box, silent, late>>

----------------------------------------------------------------------------
(* The server.                                                               *)

\* AppServer::Run after the process thread is started: DbRun, StartServer
DbRun ==
  /\ ~serving /\ serving' = TRUE
  /\ \E failing \in SUBSET MayFail : db' = Load(ConnetMssql(db, failing))
  /\ UNCHANGED <<conn, requests, box, silent, down, own, late, sent>>

Connect(s) ==
  /\ serving /\ s \notin conn /\ conn' = conn \cup {s}
  /\ down' = [down EXCEPT ![s] = <<>>] /\ own' = [own EXCEPT ![s] = <<>>]
  /\ late' = IF \E i \in DOMAIN requests : requests[i].slot = s THEN late \cup {s} ELSE late \ {s}
  /\ UNCHANGED <<db, serving, requests, box, silent, sent>>
\* CloseSocket: nothing takes the requests of the slot back; a WSASend that is
\* under way may fail, and its message stays in the queue
Disconnect(s) ==
  /\ s \in conn /\ conn' = conn \ {s}
  /\ \/ UNCHANGED silent
     \/ s \in Breaks /\ down[s] # <<>> /\ silent' = silent \cup {s}
  /\ UNCHANGED <<db, serving, requests, box, down, own, late, sent>>

\* UChatting's strcpy_s is told the size of a pointer: a text longer than that
\* ends the client's program
FStringToCharArray(s) == Disconnect(s)

\* ClientInfo::SendMsg of each of these slots, whether it is connected or not.  A
\* WSASend may fail, and does where no client is; behind one that failed none is
\* started.  That a packet will not get out is settled as it is queued.
SendMsg(to, kind, ok) ==
  \E failing \in SUBSET (to \cap conn \cap Breaks) :
    /\ silent' = silent \cup failing \cup (to \ conn)
    /\ down' = [c \in Slots |-> IF c \in to \cap conn
                               THEN Append(down[c], Packet(kind, ok, c \notin silent'))
                               ELSE down[c]]

\* Mutant: only good news is sent.
AnsweredIfOk(request, ok) ==
  IF ok THEN SendMsg({request.slot}, request.kind, ok) ELSE UNCHANGED <<down, silent>>
Answered(request, ok) == SendMsg({request.slot}, request.kind, ok)

\* The answer to the first request, or the message box before bad news: nothing
\* goes on until it is closed.
Concluded(ok) == requests' = Tail(requests) /\ Answered(Head(requests), ok)
Reported(outcome) ==
  /\ db' = outcome.db /\ box' = ~outcome.ok
  /\ IF outcome.ok THEN Concluded(TRUE) ELSE UNCHANGED <<requests, down, silent>>

ProcessLogin(request) == \E check \in LoginCheckSQL(db, request.row) : Reported(check)
ProcessSignup(request) == \E added \in AddSQL(db, request.row) : Reported(added)
\* BroadcastSendMsg
Broadcast(kind) ==
  requests' = Tail(requests) /\ SendMsg(conn, kind, TRUE) /\ UNCHANGED <<db, box>>
ProcessChatting(request) == Broadcast("chat")
ProocessInGame(request) == Broadcast("inGame")

ProcessRecvPacket ==
  /\ requests # <<>> /\ ~box
  /\ LET request == Head(requests)
     IN  CASE request.kind = "login" -> ProcessLogin(request)
           [] request.kind = "signin" -> ProcessSignup(request)
           [] request.kind = "chat" -> ProcessChatting(request)
           [] OTHER -> ProocessInGame(request)
  /\ UNCHANGED <<serving, conn, own, late, sent>>
\* somebody at the server closes the box
ErrorMsg ==
  /\ box /\ box' = FALSE /\ Concluded(FALSE)
  /\ UNCHANGED <<db, serving, conn, own, late, sent>>

----------------------------------------------------------------------------
(* What no code in src/ calls, on the process thread; and the driver.        *)

Backstage(after) ==
  /\ serving /\ ~box /\ sent < MaxSent /\ sent' = sent + 1 /\ db' = after
  /\ UNCHANGED <<serving, conn, requests, box, silent, down, own, late>>
UpdateUser == \E row \in {r \in Rows : FitsBoth(r)}, name \in Fits, written \in BOOLEAN :
                Backstage(UpdateSQL(db, row, name, written).db)
ReadUser == \E name \in Fits, written \in BOOLEAN : Backstage(ReadRecord(db, name, written).db)
DeleteUser == \E name \in Texts : Backstage(DeleteSQL(db, name).db)
DriverChanges ==
  /\ sent < MaxSent /\ sent' = sent + 1
  /\ \E driver \in Drivers : db' = [db EXCEPT !.driver = driver]
  /\ UNCHANGED <<serving, conn, requests, box, silent, down, own, late>>

AccountsNext ==
  \/ DbRun \/ ProcessRecvPacket \/ ErrorMsg \/ UpdateUser \/ ReadUser \/ DeleteUser \/ DriverChanges
  \/ \E s \in Slots : Connect(s) \/ Disconnect(s) \/ FStringToCharArray(s) \/ ReadData(s)
                      \/ SetLoginInfo(s) \/ Login_Signup(s) \/ ChatMsgSend(s)

AccountsSpec == AccountsInit /\ [][AccountsNext]_accountVars

----------------------------------------------------------------------------
Kinds(seq) == [i \in DOMAIN seq |-> seq[i].kind]
Replies == [kind : {"login", "signin"}, ok : BOOLEAN, out : BOOLEAN]
OwnRequests(s) == [slot : {s}, kind : {"login", "signin"}, row : Rows]

(* Every login and every sign-up gets exactly one answer, in the order they  *)
(* were sent, however chats, other clients' requests and the entrances into  *)
(* the game come between, and the answer goes out unless the slot is silent. *)
(* It is silent once a WSASend of it failed, if only one to an empty slot;   *)
(* what is sent then waits in the queue for good.  A slot that was taken     *)
(* over with requests of its last client waiting is excepted, since the      *)
(* answers go by slot (PacketManager.cpp:197-320, IocpNetServer.h:152-169,   *)
(* ClientInfo.h:189-269).                                                    *)
OneAnswerEach ==
  \A s \in conn \ late :
    /\ own[s] = Kinds(Selected(down[s], Replies)) \o Kinds(Selected(requests, OwnRequests(s)))
    /\ s \notin silent => \A i \in DOMAIN down[s] : down[s][i].out

(* While the driver is up, both statements were prepared and the indicator   *)
(* says SQL_NTS, a login whose texts fit is answered with success exactly    *)
(* when the table has the row, and a sign-up whose texts fit leaves the row  *)
(* there: no earlier call has spoilt the statement or what is bound to it,   *)
(* not even one whose texts ran over.  Bad news, and no other, waits for the *)
(* message box (Odbc.cpp:136-157, 255-277, 496-525; PacketManager.cpp:197).  *)
AnswersAgree ==
  [][LET request == Head(requests)
         answered == requests # <<>> /\ requests' = Tail(requests)
         decided == requests # <<>> /\ ~box /\ (answered \/ box')
     IN  /\ answered /\ request.kind \in {"login", "signin"} /\ request.slot \in conn
              => Last(down'[request.slot]).ok = ~box
         /\ (/\ decided /\ FitsBoth(request.row) /\ {"signup", "loginCheck"} \subseteq db.prepared
             /\ db.driver = "up" /\ db.nts)
             => /\ request.kind = "login" => (answered <=> request.row \in db.rows)
                /\ request.kind = "signin" => answered /\ request.row \in db'.rows]_accountVars
=============================================================================
