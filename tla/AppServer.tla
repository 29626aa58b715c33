------------------------------ MODULE AppServer ------------------------------
(* The server's life as a whole: what the button of the settings calls, step *)
(* by step on the game thread, with the threads it starts along the way      *)
(* running beside it, and AppServer::End.  Nothing looks at what Init and    *)
(* BindAndListen return, and nothing keeps the button from being pressed     *)
(* again.  What the threads do once they serve is in IocpNetServer and       *)
(* PacketManager.  The line of UAZGameInstance that creates the server is a  *)
(* comment; here it has been created.                                        *)
EXTENDS Naturals

CONSTANTS MaxClient, MaxIoWorker,   \* MAX_CLIENT, MAX_IO_WORKER_THREAD
          MaxPress                  \* bound: how often the button is pressed

ASSUME AppAssumption == {MaxClient, MaxIoWorker} \subseteq Nat \ {0} /\ MaxPress \in Nat

VARIABLES pc,         \* where the game thread is in ServerStart or End
          net,        \* IocpNetServer: listen_socket_, iocp_handle_, the flags and how many
                      \* threads and slots there are; held: a socket of
                      \* an earlier press, that is never closed, has the address
          manager,    \* P_packet_manager_: users, process thread, whether the database was asked for
          accepted,   \* how many clients were accepted by this server
          pressed,
          terminated  \* std::terminate: a thread was overwritten or destroyed unjoined

appVars == <<pc, net, manager, accepted, pressed, terminated>>

NoManager == [made |-> FALSE, users |-> 0, thread |-> "none", db |-> FALSE]
AppInit ==
  /\ pc = "idle"
  /\ net = [socket |-> FALSE, listens |-> FALSE, held |-> FALSE, port |-> FALSE, wanted |-> 0,
            slots |-> 0, workers |-> 0, accepter |-> "none",
            is_worker_run_ |-> TRUE, is_accepter_run_ |-> TRUE]
  /\ manager = NoManager /\ accepted = 0 /\ pressed = 0 /\ terminated = FALSE

\* USetting_Choice::ServerStart, AppServer::ServerStart
ServerStart ==
  /\ pc = "idle" /\ pressed < MaxPress
  /\ pressed' = pressed + 1 /\ pc' = "init"
  /\ UNCHANGED <<net, manager, accepted, terminated>>

\* WSAStartup and WSASocket; only their success sets how many workers there will be
InitNet ==
  /\ pc = "init" /\ pc' = "bind"
  /\ LET left == [net EXCEPT !.held = @ \/ net.listens, !.listens = FALSE]
     IN  \/ net' = [left EXCEPT !.socket = TRUE, !.wanted = MaxIoWorker]
         \/ net' = [left EXCEPT !.socket = FALSE]
  /\ UNCHANGED <<manager, accepted, pressed, terminated>>

\* Each call may fail, and what is after it is left out.
BindAndListen ==
  /\ pc = "bind" /\ pc' = "manager"
  /\ \/ UNCHANGED net
     \/ net.socket /\ ~net.held /\ net' = [net EXCEPT !.port = FALSE]
     \/ net.socket /\ ~net.held /\ net' = [net EXCEPT !.port = TRUE]
     \/ net.socket /\ ~net.held /\ net' = [net EXCEPT !.port = TRUE, !.listens = TRUE]
  /\ UNCHANGED <<manager, accepted, pressed, terminated>>

\* The steps of Run.
MakeManager ==
  /\ terminated' = (manager.thread = "runs")
  /\ manager' = [NoManager EXCEPT !.made = TRUE] /\ UNCHANGED net
InitUsers == manager' = [manager EXCEPT !.users = MaxClient] /\ UNCHANGED <<net, terminated>>
RunProcess == manager' = [manager EXCEPT !.thread = "runs"] /\ UNCHANGED <<net, terminated>>
RunDb == manager' = [manager EXCEPT !.db = TRUE] /\ UNCHANGED <<net, terminated>>
CreateClient ==
  /\ net' = [net EXCEPT !.slots = @ + MaxClient] /\ UNCHANGED <<manager, terminated>>
CreateWokerThread ==
  /\ net' = [net EXCEPT !.workers = IF net.is_worker_run_ THEN @ + net.wanted ELSE @]
  /\ UNCHANGED <<manager, terminated>>
CreateAccepterThread ==
  /\ terminated' = (net.accepter = "runs")
  /\ net' = [net EXCEPT !.accepter = "runs"] /\ UNCHANGED manager

RunsThrough(steps) ==
  \E i \in 1..7 :
    /\ pc = steps[i] /\ pc' = IF i = 7 THEN "idle" ELSE steps[i + 1]
    /\ CASE pc = "manager" -> MakeManager
         [] pc = "users" -> InitUsers
         [] pc = "process" -> RunProcess
         [] pc = "db" -> RunDb
         [] pc = "clients" -> CreateClient
         [] pc = "workers" -> CreateWokerThread
         [] pc = "accepter" -> CreateAccepterThread
    /\ UNCHANGED <<accepted, pressed>>
\* Mutant: the server is started before the database is asked for.
RunDbLast ==
  RunsThrough(<<"manager", "users", "process", "clients", "workers", "accepter", "db">>)
Run == RunsThrough(<<"manager", "users", "process", "db", "clients", "workers", "accepter">>)

\* End: the process thread is joined, then the workers, then the accepter.
End ==
  /\ UNCHANGED <<accepted, pressed, terminated>>
  /\ \/ /\ pc = "idle" /\ manager.made /\ pc' = "endWorkers"
        /\ manager' = [manager EXCEPT !.thread = "joined"] /\ UNCHANGED net
     \/ /\ pc = "endWorkers" /\ pc' = "endAccepter"
        /\ net' = [net EXCEPT !.is_worker_run_ = FALSE, !.port = FALSE, !.workers = 0]
        /\ UNCHANGED manager
     \/ /\ pc = "endAccepter" /\ pc' = "idle"
        /\ net' = [net EXCEPT !.is_accepter_run_ = FALSE, !.socket = FALSE, !.listens = FALSE,
                              !.accepter = "joined"]
        /\ UNCHANGED manager

\* A client connects: the accepter has posted its AcceptEx and a worker reports it.
Accept ==
  /\ net.accepter = "runs" /\ net.is_accepter_run_ /\ net.workers > 0
  /\ net.port /\ net.listens /\ accepted < MaxClient
  /\ accepted' = accepted + 1
  /\ UNCHANGED <<pc, net, manager, pressed, terminated>>

AppNext == ~terminated /\ (ServerStart \/ InitNet \/ BindAndListen \/ Run \/ End \/ Accept)

AppSpec == AppInit /\ [][AppNext]_appVars

----------------------------------------------------------------------------
(* A client that is accepted finds what its packets need: a user for its     *)
(* index, a process thread that has not been joined unless the server is     *)
(* being ended, and a database that was asked for by then - the threads that *)
(* accept run while ServerStart is still under way (AppServer.h:60-89).      *)
AcceptedFindsAll ==
  [][accepted' # accepted =>
       /\ manager.users = MaxClient /\ manager.db
       /\ manager.thread = "runs" \/ pc = "endWorkers"]_appVars
=============================================================================
