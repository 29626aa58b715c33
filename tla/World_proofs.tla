---------------------------- MODULE World_proofs ----------------------------
(* What holds of the start of the server, the game states, the button, the   *)
(* maps, the accounts, the screens and the tables, however many clients,     *)
(* threads, states, pointers and lines there are.                            *)
EXTENDS AppServer, GameStateMachine, Button, MapMgr, Accounts, Frontend, TableMgr, Integers,
        FiniteSetTheorems, SequenceTheorems, WellFoundedInduction, TLAPS

----------------------------------------------------------------------------
(* The start of the server: a client that the starting or ending server      *)
(* accepts finds what its packets need, however often the button is pressed. *)

Nets ==
  [socket : BOOLEAN, listens : BOOLEAN, held : BOOLEAN, port : BOOLEAN, wanted : Nat,
   slots : Nat, workers : Nat, accepter : {"none", "runs", "joined"},
   is_worker_run_ : BOOLEAN, is_accepter_run_ : BOOLEAN]
Managers ==
  [made : BOOLEAN, users : Nat, thread : {"none", "runs", "joined"}, db : BOOLEAN]

AppTypeOK ==
  /\ net \in Nets /\ manager \in Managers
  /\ accepted \in Nat /\ pressed \in Nat /\ terminated \in BOOLEAN
  /\ pc \in {"idle", "init", "bind", "manager", "users", "process", "db", "clients",
             "workers", "accepter", "endWorkers", "endAccepter"}

\* the accepter goes round, with or without workers to report what it accepts
Accepts == net.accepter = "runs" /\ net.is_accepter_run_

(* Run has made the parts of the manager in their order, and while somebody  *)
(* accepts they are all there: a second press destroys the manager with its  *)
(* thread, which ends the program, and End leaves flags behind with which    *)
(* nobody accepts again.                                                     *)
Complete == manager.users = MaxClient /\ manager.db
AppInv ==
  /\ pc \in {"process", "db", "clients", "workers", "accepter"} => manager.users = MaxClient
  /\ pc \in {"db", "clients", "workers", "accepter"} => manager.thread = "runs"
  /\ pc \in {"clients", "workers", "accepter"} => manager.db
  /\ Accepts /\ ~terminated =>
       /\ Complete
       /\ \/ pc \in {"idle", "init", "bind", "manager"} /\ manager.thread = "runs"
          \/ pc = "endWorkers"
          \/ pc = "endAccepter" /\ net.workers = 0

\* What each step of Run is (AppServer.h:60-89).
RunStep(from, to, Step) == pc = from /\ pc' = to /\ Step /\ UNCHANGED <<accepted, pressed>>

\* Run is one of the press's seven calls, each with its own guard.
LEMMA RunIsSevenSteps ==
  ASSUME Run
  PROVE  \/ RunStep("manager", "users", MakeManager)
         \/ RunStep("users", "process", InitUsers)
         \/ RunStep("process", "db", RunProcess)
         \/ RunStep("db", "clients", RunDb)
         \/ RunStep("clients", "workers", CreateClient)
         \/ RunStep("workers", "accepter", CreateWokerThread)
         \/ RunStep("accepter", "idle", CreateAccepterThread)
<1> DEFINE order == <<"manager", "users", "process", "db", "clients", "workers", "accepter">>
<1>1. PICK i \in 1..7 :
        /\ pc = order[i] /\ pc' = IF i = 7 THEN "idle" ELSE order[i + 1]
        /\ CASE pc = "manager" -> MakeManager
             [] pc = "users" -> InitUsers
             [] pc = "process" -> RunProcess
             [] pc = "db" -> RunDb
             [] pc = "clients" -> CreateClient
             [] pc = "workers" -> CreateWokerThread
             [] pc = "accepter" -> CreateAccepterThread
        /\ UNCHANGED <<accepted, pressed>>
  BY DEF Run, RunsThrough
<1>2. i = 1 \/ i = 2 \/ i = 3 \/ i = 4 \/ i = 5 \/ i = 6 \/ i = 7
  OBVIOUS
<1>3. CASE i = 1
  BY <1>1, <1>3 DEF RunStep
<1>4. CASE i = 2
  BY <1>1, <1>4 DEF RunStep
<1>5. CASE i = 3
  BY <1>1, <1>5 DEF RunStep
<1>6. CASE i = 4
  BY <1>1, <1>6 DEF RunStep
<1>7. CASE i = 5
  BY <1>1, <1>7 DEF RunStep
<1>8. CASE i = 6
  BY <1>1, <1>8 DEF RunStep
<1>9. CASE i = 7
  BY <1>1, <1>9 DEF RunStep
<1> QED
  BY <1>2, <1>3, <1>4, <1>5, <1>6, <1>7, <1>8, <1>9

\* The three steps of End: the process thread, the workers, the accepter.
EndProcess ==
  /\ pc = "idle" /\ manager.made /\ pc' = "endWorkers"
  /\ manager' = [manager EXCEPT !.thread = "joined"] /\ UNCHANGED net
EndWorkers ==
  /\ pc = "endWorkers" /\ pc' = "endAccepter"
  /\ net' = [net EXCEPT !.is_worker_run_ = FALSE, !.port = FALSE, !.workers = 0]
  /\ UNCHANGED manager
EndAccepter ==
  /\ pc = "endAccepter" /\ pc' = "idle"
  /\ net' = [net EXCEPT !.is_accepter_run_ = FALSE, !.socket = FALSE, !.listens = FALSE,
                        !.accepter = "joined"]
  /\ UNCHANGED manager

\* End is one of its three steps.
LEMMA EndIsThreeSteps ==
  ASSUME End
  PROVE  /\ EndProcess \/ EndWorkers \/ EndAccepter
         /\ UNCHANGED <<accepted, pressed, terminated>>
BY DEF End, EndProcess, EndWorkers, EndAccepter

\* A fresh application meets the invariant.
LEMMA AppInitHolds ==
  ASSUME AppInit
  PROVE  AppTypeOK /\ AppInv
BY AppAssumption DEF AppInit, AppTypeOK, AppInv, Nets, Managers, NoManager, Accepts

\* Every step keeps the types.
LEMMA AppTypeStep ==
  ASSUME AppTypeOK, [AppNext]_appVars
  PROVE  AppTypeOK'
<1> USE AppAssumption DEF AppTypeOK, Nets, Managers
<1>1. CASE ServerStart
  BY <1>1 DEF ServerStart
<1>2. CASE InitNet
  <2> DEFINE isHeld == net.held \/ net.listens
             left == [net EXCEPT !.held = isHeld, !.listens = FALSE]
  <2>1. isHeld \in BOOLEAN
    OBVIOUS
  <2>2. \/ net' = [left EXCEPT !.socket = TRUE, !.wanted = MaxIoWorker]
        \/ net' = [left EXCEPT !.socket = FALSE]
    BY <1>2 DEF InitNet
  <2> HIDE DEF isHeld
  <2>3. left \in Nets
    BY <2>1
  <2> HIDE DEF left
  <2>4. net' \in Nets
    BY <2>2, <2>3
  <2> QED
    BY <1>2, <2>4 DEF InitNet
<1>3. CASE BindAndListen
  <2>1. net' \in Nets
    BY <1>3 DEF BindAndListen
  <2> QED
    BY <1>3, <2>1 DEF BindAndListen
<1>4. CASE RunStep("manager", "users", MakeManager)
  BY <1>4 DEF RunStep, MakeManager, NoManager
<1>5. CASE RunStep("users", "process", InitUsers)
  BY <1>5 DEF RunStep, InitUsers
<1>6. CASE RunStep("process", "db", RunProcess)
  BY <1>6 DEF RunStep, RunProcess
<1>7. CASE RunStep("db", "clients", RunDb)
  BY <1>7 DEF RunStep, RunDb
<1>8. CASE RunStep("clients", "workers", CreateClient)
  BY <1>8 DEF RunStep, CreateClient
<1>9. CASE RunStep("workers", "accepter", CreateWokerThread)
  <2>1. net' \in Nets
    BY <1>9 DEF RunStep, CreateWokerThread
  <2> QED
    BY <1>9, <2>1 DEF RunStep, CreateWokerThread
<1>10. CASE RunStep("accepter", "idle", CreateAccepterThread)
  BY <1>10 DEF RunStep, CreateAccepterThread
<1>11. CASE End
  <2>1. UNCHANGED <<accepted, pressed, terminated>>
    BY <1>11, EndIsThreeSteps
  <2>2. CASE EndProcess
    BY <2>1, <2>2 DEF EndProcess
  <2>3. CASE EndWorkers
    BY <2>1, <2>3 DEF EndWorkers
  <2>4. CASE EndAccepter
    BY <2>1, <2>4 DEF EndAccepter
  <2> QED
    BY <1>11, <2>2, <2>3, <2>4, EndIsThreeSteps
<1>12. CASE Accept
  BY <1>12 DEF Accept
<1>13. CASE UNCHANGED appVars
  BY <1>13 DEF appVars
<1> QED
  BY <1>1, <1>2, <1>3, <1>4, <1>5, <1>6, <1>7, <1>8, <1>9, <1>10, <1>11, <1>12, <1>13,
     RunIsSevenSteps DEF AppNext

\* Every step keeps what an accepted client relies on.
LEMMA AppInvStep ==
  ASSUME AppTypeOK, AppInv, [AppNext]_appVars
  PROVE  AppInv'
<1> USE AppAssumption DEF AppTypeOK, AppInv, Nets, Managers, Accepts, Complete
<1>1. CASE ServerStart
  BY <1>1 DEF ServerStart
<1>2. CASE InitNet
  <2>1. /\ net'.accepter = net.accepter /\ net'.is_accepter_run_ = net.is_accepter_run_
        /\ net'.workers = net.workers
    BY <1>2 DEF InitNet
  <2> QED
    BY <1>2, <2>1 DEF InitNet
<1>3. CASE BindAndListen
  <2>1. /\ net'.accepter = net.accepter /\ net'.is_accepter_run_ = net.is_accepter_run_
        /\ net'.workers = net.workers
    BY <1>3 DEF BindAndListen
  <2> QED
    BY <1>3, <2>1 DEF BindAndListen
<1>4. CASE RunStep("manager", "users", MakeManager) /\ ~terminated
  \* while somebody accepts, the process thread runs: the program ends here
  BY <1>4 DEF RunStep, MakeManager, NoManager
<1>5. CASE RunStep("users", "process", InitUsers)
  BY <1>5 DEF RunStep, InitUsers
<1>6. CASE RunStep("process", "db", RunProcess)
  BY <1>6 DEF RunStep, RunProcess
<1>7. CASE RunStep("db", "clients", RunDb)
  BY <1>7 DEF RunStep, RunDb
<1>8. CASE RunStep("clients", "workers", CreateClient)
  BY <1>8 DEF RunStep, CreateClient
<1>9. CASE RunStep("workers", "accepter", CreateWokerThread) /\ ~terminated
  <2>1. net'.accepter = net.accepter /\ net'.is_accepter_run_ = net.is_accepter_run_
    BY <1>9 DEF RunStep, CreateWokerThread
  <2>2. UNCHANGED <<manager, terminated>> /\ pc = "workers" /\ pc' = "accepter"
    BY <1>9 DEF RunStep, CreateWokerThread
  <2> QED
    BY <2>1, <2>2
<1>10. CASE RunStep("accepter", "idle", CreateAccepterThread)
  <2>1. UNCHANGED manager /\ pc = "accepter" /\ pc' = "idle"
    BY <1>10 DEF RunStep, CreateAccepterThread
  <2>2. Complete /\ manager.thread = "runs"
    BY <2>1
  <2> QED
    BY <2>1, <2>2
<1>11. CASE End
  <2>1. UNCHANGED <<accepted, pressed, terminated>>
    BY <1>11, EndIsThreeSteps
  <2>2. CASE EndProcess
    BY <2>1, <2>2 DEF EndProcess
  <2>3. CASE EndWorkers
    BY <2>1, <2>3 DEF EndWorkers
  <2>4. CASE EndAccepter
    BY <2>1, <2>4 DEF EndAccepter
  <2> QED
    BY <1>11, <2>2, <2>3, <2>4, EndIsThreeSteps
<1>12. CASE Accept
  BY <1>12 DEF Accept
<1>13. CASE UNCHANGED appVars
  BY <1>13 DEF appVars
<1> QED
  BY <1>1, <1>2, <1>3, <1>4, <1>5, <1>6, <1>7, <1>8, <1>9, <1>10, <1>11, <1>12, <1>13,
     RunIsSevenSteps DEF AppNext

\* A step that accepts is Accept, which asks for somebody who accepts.
LEMMA AcceptFindsAll ==
  ASSUME AppTypeOK, AppInv, AppNext, accepted' # accepted
  PROVE  /\ manager.users = MaxClient /\ manager.db
         /\ manager.thread = "runs" \/ pc = "endWorkers"
<1>1. ~(ServerStart \/ InitNet \/ BindAndListen \/ End)
  BY DEF ServerStart, InitNet, BindAndListen, End
<1>2. ~Run
  BY RunIsSevenSteps DEF RunStep
<1>3. Accept /\ ~terminated
  BY <1>1, <1>2 DEF AppNext
<1>4. Accepts /\ net.workers > 0
  BY <1>3 DEF Accept, Accepts
<1> QED
  BY <1>3, <1>4 DEF AppInv, Complete

(* The server that starts, or ends, accepts nobody before or after the       *)
(* packet manager is whole (AppServer.h:22-42, 60-89).                       *)
THEOREM StartingServerIsWhole == AppSpec => AcceptedFindsAll
<1>1. AppInit => AppTypeOK /\ AppInv
  BY AppInitHolds
<1>2. AppTypeOK /\ AppInv /\ [AppNext]_appVars => (AppTypeOK /\ AppInv)'
  BY AppTypeStep, AppInvStep
<1>3. AppTypeOK /\ AppInv /\ [AppNext]_appVars =>
        [accepted' # accepted =>
           /\ manager.users = MaxClient /\ manager.db
           /\ manager.thread = "runs" \/ pc = "endWorkers"]_appVars
  BY AcceptFindsAll DEF appVars
<1> QED
  BY <1>1, <1>2, <1>3, PTL DEF AppSpec, AcceptedFindsAll

----------------------------------------------------------------------------
(* The game states: none ever serves a request of an earlier life, whatever  *)
(* states there are, which of them block each other and what their handlers  *)
(* ask.                                                                      *)

Transitions == [on : BOOLEAN, to : Ids, time : Nat]

GsmTypeOK ==
  /\ cur \in GameStates \cup {NoState}
  /\ prev \in [GameStates -> GameStates \cup {NoState}]
  /\ change \in [GameStates -> Transitions]
  /\ asked \in Nat /\ fallen \in BOOLEAN
  /\ requested \subseteq Ids

\* A request gives a transition of the right type.
LEMMA TransitionTypes ==
  /\ Nowhere \in Transitions
  /\ \A r \in Requests : r \in Transitions /\ (r.on => r.to \in Ids)
  /\ \A s \in Ids, n \in Nat : Towards(s, n) \in Transitions
  /\ \A c \in Transitions : Served(c) \in Transitions /\ ~Served(c).on
<1>1. Nowhere \in Transitions
  BY DEF Nowhere, Transitions, Ids
<1>2. ASSUME NEW s \in Ids, NEW n \in Nat
      PROVE  Towards(s, n) \in Transitions
  BY DEF Towards, Transitions
<1>3. ASSUME NEW r \in Requests
      PROVE  r \in Transitions /\ (r.on => r.to \in Ids)
  <2>1. CASE r = Nowhere
    <3>1. r.on = FALSE
      BY <2>1 DEF Nowhere
    <3> QED
      BY <1>1, <2>1, <3>1
  <2>2. ASSUME NEW s \in Ids, r = Towards(s, 0)
        PROVE  r \in Transitions /\ r.to \in Ids
    BY <1>2, <2>2 DEF Towards
  <2> QED
    BY <2>1, <2>2 DEF Requests
<1>4. ASSUME NEW c \in Transitions
      PROVE  Served(c) \in Transitions /\ ~Served(c).on
  BY DEF Served, Transitions
<1> QED
  BY <1>1, <1>2, <1>3, <1>4

\* A state that is entered has at most the request that its BeginState made.
LEMMA EnteredIsFresh ==
  ASSUME GsmTypeOK, NEW s \in GameStates, NEW restore \in BOOLEAN,
         NEW left \in [GameStates -> Transitions],
         Entered(s, restore, left)
  PROVE  /\ cur' = s
         /\ prev' \in [GameStates -> GameStates \cup {NoState}]
         /\ change' \in [GameStates -> Transitions]
         /\ requested' \subseteq Ids
         /\ change'[s].on => change'[s].to \in requested'
<1>1. PICK ends \in Requests, begins \in Requests :
        /\ cur' = s /\ prev' = Linked(s, restore)
        /\ BeginState(s, IF cur # NoState /\ ends.on THEN [left EXCEPT ![cur] = ends] ELSE left,
                      begins)
  BY DEF Entered
<1> DEFINE kept == IF cur # NoState /\ ends.on THEN [left EXCEPT ![cur] = ends] ELSE left
<1>2. kept \in [GameStates -> Transitions]
  BY TransitionTypes DEF GsmTypeOK
<1>3. change' = [kept EXCEPT ![s] = begins]
  BY <1>1 DEF BeginState
<1>4. requested' = IF begins.on THEN {begins.to} ELSE {}
  BY <1>1 DEF BeginState
<1>5. change' \in [GameStates -> Transitions] /\ change'[s] = begins
  BY <1>2, <1>3, TransitionTypes
<1>6. prev' \in [GameStates -> GameStates \cup {NoState}]
  BY <1>1 DEF Linked, GsmTypeOK
<1> QED
  BY <1>1, <1>4, <1>5, <1>6, TransitionTypes

\* SetState enters the state, or changes nothing but what is left, whether the id
\* has a state or not.
LEMMA SetStateKeeps ==
  ASSUME GsmTypeOK, NEW s \in Ids, NEW restore \in BOOLEAN,
         NEW left \in [GameStates -> Transitions],
         cur # NoState /\ left[cur].on => left[cur].to \in requested,
         SetState(s, restore, left)
  PROVE  /\ cur' \in GameStates \cup {NoState}
         /\ prev' \in [GameStates -> GameStates \cup {NoState}]
         /\ change' \in [GameStates -> Transitions]
         /\ requested' \subseteq Ids /\ fallen' \in BOOLEAN
         /\ NoStaleTransition'
<1>1. CASE s \in GameStates /\ Entered(s, restore, left) /\ UNCHANGED fallen
  BY <1>1, EnteredIsFresh DEF NoStaleTransition, GsmTypeOK
<1>2. CASE change' = left /\ UNCHANGED <<cur, prev, requested>> /\ fallen' \in {fallen, TRUE}
  BY <1>2 DEF GsmTypeOK, NoStaleTransition
<1> QED
  BY <1>1, <1>2 DEF SetState

GsmInv == GsmTypeOK /\ NoStaleTransition

\* The machine starts with no request.
LEMMA GsmInitHolds ==
  ASSUME GsmInit
  PROVE  GsmInv
BY GameStateAssumption DEF GsmInit, GsmInv, GsmTypeOK, NoStaleTransition, Nowhere, Transitions,
   Ids

\* A request that is served at once, or is due, is gone before SetState.
LEMMA ServedLeavesNothing ==
  ASSUME GsmTypeOK, cur # NoState, NEW c \in Transitions
  PROVE  /\ [change EXCEPT ![cur] = Served(c)] \in [GameStates -> Transitions]
         /\ ~[change EXCEPT ![cur] = Served(c)][cur].on
BY TransitionTypes DEF GsmTypeOK

\* Every step keeps the types and the absence of stale requests.
LEMMA GsmStep ==
  ASSUME GsmInv, [GsmNext]_gsmVars
  PROVE  GsmInv'
<1> USE GameStateAssumption DEF GsmInv
<1>1. CASE OnStart
  <2>1. cur = NoState /\ UNCHANGED asked /\ change \in [GameStates -> Transitions]
    BY <1>1 DEF OnStart, GsmTypeOK
  <2>2. PICK s \in Ids : SetState(s, FALSE, change)
    BY <1>1 DEF OnStart, Ids
  <2> QED
    BY <2>1, <2>2, SetStateKeeps DEF GsmTypeOK
<1>2. ASSUME NEW s \in GameStates, ChangeStateFirst(s)
      PROVE  GsmInv'
  <2>1. cur = NoState /\ asked' \in Nat /\ change \in [GameStates -> Transitions]
    BY <1>2 DEF ChangeStateFirst, GsmTypeOK
  <2>2. SetState(s, FALSE, change)
    BY <1>2 DEF ChangeStateFirst
  <2> QED
    BY <2>1, <2>2, SetStateKeeps DEF GsmTypeOK, Ids
<1>3. ASSUME NEW s \in Ids, NEW time \in 0..MaxDelay, Ask(s, time)
      PROVE  GsmInv'
  <2>1. cur \in GameStates /\ UNCHANGED <<cur, prev, fallen>> /\ asked' \in Nat
    BY <1>3 DEF Ask, GsmTypeOK, Ids
  <2>2. Towards(s, time) \in Transitions /\ Towards(s, time).to = s
    BY TransitionTypes DEF Towards
  <2>3. change' \in [GameStates -> Transitions] /\ change'[cur] = Towards(s, time)
    BY <1>3, <2>1, <2>2 DEF Ask, GsmTypeOK
  <2>4. requested' \subseteq Ids /\ s \in requested'
    BY <1>3 DEF Ask, GsmTypeOK
  <2> QED
    BY <2>1, <2>2, <2>3, <2>4 DEF GsmTypeOK, NoStaleTransition
<1>4. ASSUME NEW s \in Ids, NEW time \in 0..MaxDelay, AskImmediately(s, time)
      PROVE  GsmInv'
  <2>1. cur \in GameStates /\ cur # NoState /\ asked' \in Nat
    BY <1>4 DEF AskImmediately, GsmTypeOK
  <2>2. CASE Due(Towards(s, time))
    <3>1. Towards(s, time) \in Transitions
      BY TransitionTypes
    <3>2. SetState(s, FALSE, [change EXCEPT ![cur] = Served(Towards(s, time))])
      BY <1>4, <2>2 DEF AskImmediately
    <3> QED
      BY <2>1, <3>1, <3>2, ServedLeavesNothing, SetStateKeeps DEF GsmTypeOK
  <2>3. CASE ~Due(Towards(s, time))
    <3>1. time - 1 \in Nat
      BY <2>3 DEF Due, Towards
    <3>2. Towards(s, time - 1) \in Transitions /\ Towards(s, time - 1).to = s
      BY <3>1, TransitionTypes DEF Towards
    <3>3. /\ change' = [change EXCEPT ![cur] = Towards(s, time - 1)]
          /\ requested' = requested \cup {s} /\ UNCHANGED <<cur, prev, fallen>>
      BY <1>4, <2>3 DEF AskImmediately
    <3>4. change' \in [GameStates -> Transitions] /\ change'[cur] = Towards(s, time - 1)
      BY <2>1, <3>2, <3>3 DEF GsmTypeOK
    <3> QED
      BY <2>1, <3>2, <3>3, <3>4 DEF GsmTypeOK, NoStaleTransition
  <2> QED
    BY <2>2, <2>3
<1>5. CASE GsmTick
  <2>1. /\ cur \in GameStates /\ cur # NoState /\ asked' = asked
        /\ change[cur].on /\ change[cur] \in Transitions
    BY <1>5 DEF GsmTick, GsmTypeOK
  <2>2. change[cur].to \in Ids
    BY <2>1 DEF NoStaleTransition, GsmTypeOK
  <2>3. CASE Due(change[cur])
    <3>1. SetState(change[cur].to, FALSE, [change EXCEPT ![cur] = Served(change[cur])])
      BY <1>5, <2>3 DEF GsmTick
    <3> QED
      BY <2>1, <2>2, <3>1, ServedLeavesNothing, SetStateKeeps DEF GsmTypeOK
  <2>4. CASE ~Due(change[cur])
    <3>1. /\ change' = [change EXCEPT ![cur].time = change[cur].time - 1]
          /\ UNCHANGED <<cur, prev, requested, fallen>>
      BY <1>5, <2>4 DEF GsmTick
    <3>2. change[cur].time - 1 \in Nat
      BY <2>1, <2>4 DEF Due, Transitions
    <3>3. /\ change' \in [GameStates -> Transitions]
          /\ change'[cur].to = change[cur].to
      BY <2>1, <3>1, <3>2 DEF GsmTypeOK, Transitions
    <3> QED
      BY <2>1, <3>1, <3>3 DEF GsmTypeOK, NoStaleTransition
  <2> QED
    BY <2>3, <2>4
<1>6. CASE SetPreState
  <2>1. cur \in GameStates /\ asked' \in Nat /\ change \in [GameStates -> Transitions]
    BY <1>6 DEF SetPreState, GsmTypeOK
  <2>2. PICK s \in Ids : SetState(s, TRUE, change)
    BY <1>6, <2>1 DEF SetPreState, GsmTypeOK, Ids
  <2> QED
    BY <2>1, <2>2, SetStateKeeps DEF GsmTypeOK, NoStaleTransition
<1>7. CASE ReleaseSubobjects
  BY <1>7, TransitionTypes DEF ReleaseSubobjects, GsmTypeOK, NoStaleTransition
<1>8. CASE UNCHANGED gsmVars
  BY <1>8 DEF gsmVars, GsmTypeOK, NoStaleTransition
<1> QED
  BY <1>1, <1>2, <1>3, <1>4, <1>5, <1>6, <1>7, <1>8 DEF GsmNext

(* A state never starts a transition it was asked for before it began, for   *)
(* any id, whether it has a state or not (AZStateMachine.cpp:95-139).        *)
THEOREM NoTransitionIsStale == GsmSpec => [](GsmTypeOK /\ NoStaleTransition)
<1>1. GsmInit => GsmInv
  BY GsmInitHolds
<1>2. GsmInv /\ [GsmNext]_gsmVars => GsmInv'
  BY GsmStep
<1> QED
  BY <1>1, <1>2, PTL DEF GsmSpec, GsmInv

----------------------------------------------------------------------------
(* The button.  A pressed button has a pointer on it that is down; while      *)
(* nothing else is down that pointer went down here and has stayed near the  *)
(* place the button remembers.                                               *)

Buttons == [pressed : BOOLEAN, hovered : BOOLEAN, pressedAt : Int, begun : BOOLEAN,
            action : {"None", "Execute", "Release"}]

ButtonTypeOK ==
  /\ at \in [Pointers -> Places \union {Away}] /\ since \in [Pointers -> Places \union {Away}]
  /\ held \subseteq Pointers \union {Right}
  /\ button \in Buttons
  /\ crowded \in BOOLEAN
SomebodyPresses == button.pressed => \E p \in held \ {Right} : at[p] # Away
AloneIsOne == ~crowded => \A x, y \in held : x = y
AloneStays ==
  ~crowded /\ button.pressed => \A p \in held :
    /\ p # Right /\ at[p] # Away
    /\ since[p] # Away /\ button.pressedAt = since[p]
ButtonInv == ButtonTypeOK /\ SomebodyPresses /\ AloneIsOne /\ AloneStays /\ ClickIsOwn

\* What the handlers make of a button: only a button that goes down is pressed.
LEMMA HandlersOfAButton ==
  ASSUME NEW b \in Buttons
  PROVE  /\ Press(b) \in Buttons /\ Press(b).pressed /\ Press(b).pressedAt = b.pressedAt
         /\ Release(b) \in Buttons /\ ~Release(b).pressed /\ Release(b).pressedAt = b.pressedAt
         /\ OnMouseEnter(b) \in Buttons
         /\ OnMouseEnter(b).pressed = b.pressed /\ OnMouseEnter(b).pressedAt = b.pressedAt
         /\ OnMouseLeave(b) \in Buttons /\ ~OnMouseLeave(b).pressed
<1>1. ASSUME NEW c \in Buttons, NEW to \in {"Execute", "Release"}
      PROVE  /\ BeginAction(c, to) \in Buttons
             /\ BeginAction(c, to).pressed = c.pressed
             /\ BeginAction(c, to).pressedAt = c.pressedAt
  BY DEF BeginAction, Buttons
<1>2. ASSUME NEW value \in BOOLEAN
      PROVE  /\ [b EXCEPT !.pressed = value] \in Buttons
             /\ [b EXCEPT !.pressed = value].pressed = value
             /\ [b EXCEPT !.pressed = value].pressedAt = b.pressedAt
  BY DEF Buttons
<1>3. Press(b) \in Buttons /\ Press(b).pressed /\ Press(b).pressedAt = b.pressedAt
  <2>1. CASE b.pressed
    BY <2>1 DEF Press
  <2>2. CASE ~b.pressed
    <3> DEFINE c == [b EXCEPT !.pressed = TRUE]
    <3>1. c \in Buttons /\ c.pressed = TRUE /\ c.pressedAt = b.pressedAt
      BY <1>2
    <3>2. Press(b) = BeginAction(c, "Execute")
      BY <2>2 DEF Press
    <3> HIDE DEF c
    <3> QED
      BY <1>1, <3>1, <3>2
  <2> QED
    BY <2>1, <2>2
<1>4. Release(b) \in Buttons /\ ~Release(b).pressed /\ Release(b).pressedAt = b.pressedAt
  <2>1. CASE ~b.pressed
    BY <2>1 DEF Release
  <2>2. CASE b.pressed
    <3> DEFINE c == [b EXCEPT !.pressed = FALSE]
    <3>1. c \in Buttons /\ c.pressed = FALSE /\ c.pressedAt = b.pressedAt
      BY <1>2
    <3>2. Release(b) = BeginAction(c, "Release")
      BY <2>2 DEF Release
    <3> HIDE DEF c
    <3> QED
      BY <1>1, <3>1, <3>2
  <2> QED
    BY <2>1, <2>2
<1>5. /\ OnMouseEnter(b) \in Buttons
      /\ OnMouseEnter(b).pressed = b.pressed /\ OnMouseEnter(b).pressedAt = b.pressedAt
  BY DEF OnMouseEnter, Buttons
<1>6. OnMouseLeave(b) \in Buttons /\ ~OnMouseLeave(b).pressed
  <2> DEFINE c == Release(b)
  <2>1. c \in Buttons /\ c.pressed = FALSE
    BY <1>4 DEF Buttons
  <2> HIDE DEF c
  <2>2. [c EXCEPT !.hovered = FALSE] \in Buttons /\ [c EXCEPT !.hovered = FALSE].pressed = FALSE
    BY <2>1 DEF Buttons
  <2>3. OnMouseLeave(b) = [c EXCEPT !.hovered = FALSE]
    BY DEF OnMouseLeave, c
  <2> QED
    BY <2>2, <2>3
<1> QED
  BY <1>3, <1>4, <1>5, <1>6

\* A pointer goes down on the button, or elsewhere.
LEMMA DownKeeps ==
  ASSUME ButtonInv, NEW p \in Pointers, Down(p)
  PROVE  ButtonInv'
<1>1. p # Right /\ Places \subseteq Int
  BY ButtonAssumption DEF Places
<1>2. PICK place \in Places :
        /\ at' = [at EXCEPT ![p] = place] /\ since' = [since EXCEPT ![p] = place]
        /\ button' = OnMouseButtonDown(IF p = Mouse THEN button ELSE OnMouseEnter(button), place)
  <2>1. PICK place \in IF p = Mouse THEN {at[Mouse]} \ {Away} ELSE Places :
        /\ at' = [at EXCEPT ![p] = place] /\ since' = [since EXCEPT ![p] = place]
        /\ button' = OnMouseButtonDown(IF p = Mouse THEN button ELSE OnMouseEnter(button), place)
    BY DEF Down, Becomes
  <2>2. place \in Places
    BY <2>1 DEF ButtonInv, ButtonTypeOK
  <2> QED
    BY <2>1, <2>2
<1>3. button' \in Buttons /\ button'.pressed /\ button'.pressedAt = place
  <2> DEFINE b == IF p = Mouse THEN button ELSE OnMouseEnter(button)
  <2>1. b \in Buttons
    BY HandlersOfAButton DEF ButtonInv, ButtonTypeOK
  <2> HIDE DEF b
  <2> DEFINE c == [b EXCEPT !.pressedAt = place]
  <2>2. c \in Buttons /\ c.pressedAt = place
    BY <1>1, <2>1 DEF Buttons
  <2>3. button' = Press(c)
    BY <1>2 DEF b, OnMouseButtonDown
  <2> HIDE DEF c
  <2> QED
    BY <2>2, <2>3, HandlersOfAButton
<1>4. place # Away
  BY DEF Places, Away
<1>5. /\ held' = held \union {p} /\ crowded' = (crowded \/ held # {})
      /\ click'.by = Nobody
  BY DEF Down, Comes, NoClick
<1>6. at'[p] = place /\ since'[p] = place
  BY <1>2 DEF ButtonInv, ButtonTypeOK
<1>7. ButtonTypeOK'
  BY <1>2, <1>3, <1>5 DEF ButtonInv, ButtonTypeOK
<1>8. SomebodyPresses'
  BY <1>1, <1>4, <1>5, <1>6 DEF SomebodyPresses
<1>9. AloneIsOne' /\ AloneStays'
  BY <1>1, <1>3, <1>4, <1>5, <1>6 DEF ButtonInv, AloneIsOne, AloneStays
<1> QED
  BY <1>5, <1>7, <1>8, <1>9 DEF ButtonInv, ClickIsOwn

\* Steps in which nothing goes down on the button and the place stays.
LEMMA ElsewhereKeeps ==
  ASSUME ButtonInv, NEW x \in Pointers \union {Right},
         \/ x = Right /\ RightButtonDown
         \/ x = Right /\ RightButtonUp
         \/ x \in Pointers /\ PressElsewhere(x)
         \/ x \in Pointers /\ UpElsewhere(x)
  PROVE  ButtonInv'
<1>1. UNCHANGED <<at, since>> /\ click'.by = Nobody
  BY DEF RightButtonDown, RightButtonUp, PressElsewhere, UpElsewhere, NoClick
<1>2. button' \in Buttons /\ button'.pressed = button.pressed
  <2>1. CASE x = Right /\ RightButtonDown
    <3>1. at[Mouse] \in Int
      BY DEF ButtonInv, ButtonTypeOK, Pointers, Places, Away
    <3> QED
      BY <2>1, <3>1 DEF RightButtonDown, ButtonInv, ButtonTypeOK, Buttons
  <2>2. CASE ~(x = Right /\ RightButtonDown)
    BY <2>2 DEF RightButtonUp, PressElsewhere, UpElsewhere, ButtonInv, ButtonTypeOK
  <2> QED
    BY <2>1, <2>2
<1>3. CASE held' = held \union {x} /\ crowded' = (crowded \/ held # {})
  <2>1. ButtonTypeOK'
    BY <1>1, <1>2, <1>3 DEF ButtonInv, ButtonTypeOK
  <2>2. SomebodyPresses'
    BY <1>1, <1>2, <1>3 DEF ButtonInv, SomebodyPresses
  <2>3. AloneIsOne' /\ AloneStays'
    BY <1>2, <1>3 DEF ButtonInv, AloneIsOne, AloneStays, SomebodyPresses
  <2> QED
    BY <1>1, <2>1, <2>2, <2>3 DEF ButtonInv, ClickIsOwn
<1>4. CASE held' = held \ {x} /\ crowded' = (crowded /\ held' # {}) /\ button' = button
           /\ (x = Right \/ at[x] = Away)
  <2>1. ButtonTypeOK'
    BY <1>1, <1>2, <1>4 DEF ButtonInv, ButtonTypeOK
  <2>2. SomebodyPresses'
    BY <1>1, <1>4 DEF ButtonInv, SomebodyPresses
  <2>3. AloneIsOne' /\ AloneStays'
    BY <1>1, <1>4 DEF ButtonInv, AloneIsOne, AloneStays
  <2> QED
    BY <1>1, <2>1, <2>2, <2>3 DEF ButtonInv, ClickIsOwn
<1> QED
  BY <1>3, <1>4 DEF RightButtonDown, RightButtonUp, PressElsewhere, UpElsewhere, Comes, Goes

\* A button that is left, or hears no release of its press, is not pressed.
LEMMA ReleasedKeeps ==
  ASSUME ButtonTypeOK', ~button'.pressed, AloneIsOne', ClickIsOwn'
  PROVE  ButtonInv'
  BY DEF ButtonInv, SomebodyPresses, AloneStays

\* A pointer that leaves the button, or drags too far, takes its press with it.
LEMMA MoveKeeps ==
  ASSUME ButtonInv, NEW p \in Pointers, NEW to \in Places \union {Away}, Move(p, to)
  PROVE  ButtonInv'
<1>1. /\ at' = [at EXCEPT ![p] = to] /\ UNCHANGED <<held, crowded>> /\ click'.by = Nobody
      /\ since' = IF to = Away \/ Distance(to, since[p]) >= 2
                  THEN [since EXCEPT ![p] = Away] ELSE since
  BY DEF Move, NoClick
<1>2. AloneIsOne' /\ ClickIsOwn'
  BY <1>1 DEF ButtonInv, AloneIsOne, ClickIsOwn
<1>3. since' \in [Pointers -> Places \union {Away}] /\ at' \in [Pointers -> Places \union {Away}]
  BY <1>1 DEF ButtonInv, ButtonTypeOK
<1>4. CASE to = Away
  <2>1. button' = OnMouseLeave(button)
    BY <1>4 DEF Move, Becomes
  <2>2. button' \in Buttons /\ ~button'.pressed
    BY <2>1, HandlersOfAButton DEF ButtonInv, ButtonTypeOK
  <2>3. ButtonTypeOK'
    BY <1>1, <1>3, <2>2 DEF ButtonInv, ButtonTypeOK
  <2> QED
    BY <1>2, <2>2, <2>3, ReleasedKeeps
<1>5. CASE to # Away
  <2> DEFINE b == IF at[p] = Away THEN OnMouseEnter(button) ELSE button
  <2>1. b \in Buttons /\ b.pressed = button.pressed /\ b.pressedAt = button.pressedAt
    BY HandlersOfAButton DEF ButtonInv, ButtonTypeOK
  <2>2. button' = OnMouseMove(b, to)
    BY <1>5 DEF Move, Becomes
  <2> HIDE DEF b
  <2>3. CASE b.pressed /\ DraggedFar(to)
    <3>1. button' \in Buttons /\ ~button'.pressed
      BY <2>1, <2>2, <2>3, HandlersOfAButton DEF OnMouseMove
    <3>2. ButtonTypeOK'
      BY <1>1, <1>3, <3>1 DEF ButtonInv, ButtonTypeOK
    <3> QED
      BY <1>2, <3>1, <3>2, ReleasedKeeps
  <2>4. CASE ~(b.pressed /\ DraggedFar(to))
    <3>1. button' = b
      BY <2>2, <2>4 DEF OnMouseMove
    <3>2. ButtonTypeOK'
      BY <1>1, <1>3, <2>1, <3>1 DEF ButtonInv, ButtonTypeOK
    <3>3. \A q \in Pointers : at'[q] # Away \/ at'[q] = at[q]
      BY <1>1, <1>5 DEF ButtonInv, ButtonTypeOK
    <3>4. SomebodyPresses'
      BY <1>1, <2>1, <3>1, <3>3 DEF ButtonInv, ButtonTypeOK, SomebodyPresses
    <3>5. AloneStays'
      <4> SUFFICES ASSUME ~crowded, button.pressed, NEW q \in held
                   PROVE  /\ q # Right /\ at'[q] # Away
                          /\ since'[q] # Away /\ button'.pressedAt = since'[q]
        BY <1>1, <2>1, <3>1 DEF AloneStays
      <4>1. /\ q # Right /\ at[q] # Away /\ since[q] # Away /\ button.pressedAt = since[q]
        BY DEF ButtonInv, AloneStays
      <4>2. q \in Pointers
        BY <4>1 DEF ButtonInv, ButtonTypeOK
      <4>3. CASE q # p
        BY <1>1, <2>1, <3>1, <4>1, <4>2, <4>3 DEF ButtonInv, ButtonTypeOK
      <4>4. CASE q = p
        <5>1. ~(Distance(to, since[p]) >= 2)
          BY <2>1, <2>4, <4>1, <4>4 DEF DraggedFar
        <5>2. since' = since
          BY <1>1, <1>5, <5>1
        <5> QED
          BY <2>1, <3>1, <3>3, <4>1, <4>2, <5>2
      <4> QED
        BY <4>3, <4>4
    <3> QED
      BY <1>2, <3>2, <3>4, <3>5 DEF ButtonInv
  <2> QED
    BY <2>3, <2>4
<1> QED
  BY <1>4, <1>5

\* The only step that clicks: the pointer that comes up is the one that is down.
LEMMA UpKeeps ==
  ASSUME ButtonInv, NEW p \in Pointers, Up(p)
  PROVE  ButtonInv'
<1>1. /\ p \in held /\ at[p] # Away /\ held' = held \ {p}
      /\ crowded' = (crowded /\ held' # {})
      /\ at' = (IF p = Mouse THEN at ELSE [at EXCEPT ![p] = Away])
      /\ since' = [since EXCEPT ![p] = Away]
  BY DEF Up, Goes
<1>2. button' \in Buttons /\ ~button'.pressed
  <2> DEFINE up == Release(button)
  <2>1. up \in Buttons /\ ~up.pressed
    BY HandlersOfAButton DEF ButtonInv, ButtonTypeOK
  <2>2. button' = IF p = Mouse THEN up ELSE OnMouseLeave(up)
    BY DEF Up, OnMouseButtonUp, Becomes
  <2> HIDE DEF up
  <2> QED
    BY <2>1, <2>2, HandlersOfAButton
<1>3. ButtonTypeOK'
  BY <1>1, <1>2 DEF ButtonInv, ButtonTypeOK
<1>4. AloneIsOne'
  BY <1>1 DEF ButtonInv, AloneIsOne
<1>5. ClickIsOwn'
  <2>1. CASE click' = NoClick
    BY <2>1 DEF NoClick, ClickIsOwn
  <2>2. CASE click' # NoClick
    <3>1. /\ button.pressed
          /\ click' = [by |-> p, where |-> at[p], told |-> Handled(p),
                       kept |-> since[p] # Away, crowded |-> crowded]
      BY <2>2 DEF Up, OnMouseButtonUp
    <3>2. ~crowded => since[p] # Away
      BY <1>1, <3>1 DEF ButtonInv, AloneStays
    <3>3. p \in Fingers => Handled(p) = at[p]
      BY ButtonAssumption DEF Handled
    <3>4. /\ click'.by = p /\ click'.where = at[p] /\ click'.told = Handled(p)
          /\ click'.kept = (since[p] # Away) /\ click'.crowded = crowded
      BY <3>1
    <3> QED
      BY <3>2, <3>3, <3>4 DEF ClickIsOwn
  <2> QED
    BY <2>1, <2>2
<1> QED
  BY <1>2, <1>3, <1>4, <1>5, ReleasedKeeps

\* A button that was just made is pressed by nobody.
LEMMA ButtonInitHolds ==
  ASSUME ButtonInit
  PROVE  ButtonInv
<1>1. Fresh \in Buttons /\ ~Fresh.pressed
  BY DEF Fresh, Buttons, Corner
<1>2. NoClick.by = Nobody
  BY DEF NoClick
<1> QED
  BY <1>1, <1>2 DEF ButtonInit, ButtonInv, ButtonTypeOK, SomebodyPresses, AloneIsOne,
     AloneStays, ClickIsOwn

\* Every event keeps the invariant.
LEMMA ButtonStep ==
  ASSUME ButtonInv, [ButtonNext]_buttonVars
  PROVE  ButtonInv'
<1>1. ASSUME NEW p \in Pointers, Down(p) \/ PressElsewhere(p) \/ Up(p) \/ UpElsewhere(p)
      PROVE  ButtonInv'
  BY <1>1, DownKeeps, ElsewhereKeeps, UpKeeps
<1>2. ASSUME NEW p \in Pointers, NEW to \in Places \union {Away}, Move(p, to)
      PROVE  ButtonInv'
  BY <1>2, MoveKeeps
<1>3. CASE RightButtonDown \/ RightButtonUp
  <2>1. Right \in Pointers \union {Right}
    OBVIOUS
  <2> QED
    BY <1>3, <2>1, ElsewhereKeeps
<1>4. CASE RebuildWidget
  <2>1. button' \in Buttons /\ ~button'.pressed
    BY <1>4 DEF RebuildWidget, Fresh, Buttons, Corner
  <2>2. ButtonTypeOK' /\ AloneIsOne' /\ ClickIsOwn'
    BY <1>4, <2>1 DEF RebuildWidget, ButtonInv, ButtonTypeOK, AloneIsOne, ClickIsOwn, NoClick
  <2> QED
    BY <2>1, <2>2, ReleasedKeeps
<1>5. CASE HudLeaves \/ HudComes
  <2>1. UNCHANGED <<at, held, button, since, crowded>> /\ click'.by = Nobody
    BY <1>5 DEF HudLeaves, HudComes, NoClick
  <2> QED
    BY <2>1 DEF ButtonInv, ButtonTypeOK, SomebodyPresses, AloneIsOne, AloneStays, ClickIsOwn
<1>6. CASE UNCHANGED buttonVars
  BY <1>6 DEF buttonVars, ButtonInv, ButtonTypeOK, SomebodyPresses, AloneIsOne, AloneStays,
     ClickIsOwn
<1> QED
  BY <1>1, <1>2, <1>3, <1>4, <1>5, <1>6 DEF ButtonNext

(* However many fingers there are and wherever they and the mouse go, a click*)
(* made while nothing else was down is by a pointer that went down on this   *)
(* button and stayed, and a touch is told where it was                       *)
(* (AZButton.cpp:33-127, AZHUD.cpp:100-123).                                 *)
THEOREM ClicksAreOwn == ButtonSpec => []ClickIsOwn
<1>1. ButtonInit => ButtonInv
  BY ButtonInitHolds
<1>2. ButtonInv /\ [ButtonNext]_buttonVars => ButtonInv'
  BY ButtonStep
<1>3. ButtonInv => ClickIsOwn
  BY DEF ButtonInv
<1> QED
  BY <1>1, <1>2, <1>3, PTL DEF ButtonSpec

----------------------------------------------------------------------------
(* The map manager: whatever maps and worlds there are and however long a    *)
(* round of streaming may be, a paused game is one that the streaming of its *)
(* own world will wake up, and a travel has one handle bound.                *)

Streams ==
  [state : {"None", "Waiting", "Postload", "Normal", "PrepareCinematic", "OnCinematic"},
   waited : Nat, checked : Nat, renewed : Nat,
   paused : BOOLEAN, close : BOOLEAN, begun : BOOLEAN, loaded : BOOLEAN]
Awake(s) == s \in Streams /\ (s.paused => s.state \in {"Waiting", "PrepareCinematic"})

Callbacks == {"First", "Second", "Third"}

MapInv ==
  /\ Awake(streaming) /\ IsFiniteSet(bound)
  /\ travel \in Worlds \cup {NoWorld}
  /\ timers \in Seq(Callbacks)
  /\ NeverLeftPaused
  /\ ~overlapped => bound = IF travel = NoWorld THEN {} ELSE {handle}

\* A round that starts pauses the game in a state that is looked at.
LEMMA RenewedIsAwake ==
  ASSUME NEW s \in Streams, NEW close \in BOOLEAN
  PROVE  Awake(Renewed(s, close)) /\ Renewed(s, close).state = "Waiting"
BY DEF Awake, Renewed, SetGamePaused, Streams

\* The end of a round starts another or lets the game go on.
LEMMA FinishedIsAwake ==
  ASSUME NEW s \in Streams
  PROVE  Awake(Finished(s))
<1>1. CASE s.renewed < MaxRenew
  <2> DEFINE t == Renewed(s, s.close)
  <2>1. s.close \in BOOLEAN /\ s.renewed + 1 \in Nat
    BY DEF Streams
  <2>2. Awake(t) /\ t.state = "Waiting"
    BY <2>1, RenewedIsAwake
  <2>3. Finished(s) = [t EXCEPT !.renewed = s.renewed + 1]
    BY <1>1 DEF Finished
  <2> HIDE DEF t
  <2> QED
    BY <2>1, <2>2, <2>3 DEF Awake, Streams
<1>2. CASE ~(s.renewed < MaxRenew)
  BY <1>2 DEF Finished, SetGamePaused, Awake, Streams
<1> QED
  BY <1>1, <1>2

\* A frame leaves the game awake or in a state that is looked at.
LEMMA UpdatedIsAwake ==
  ASSUME NEW s, Awake(s)
  PROVE  Awake(UpdateStreaming(s))
<1> USE MapMgrAssumption
<1>1. s \in Streams
  BY DEF Awake
<1>2. CASE s.state = "None"
  BY <1>1, <1>2, RenewedIsAwake DEF UpdateStreaming
<1>3. CASE s.state = "Waiting"
  <2>1. UpdateStreaming(s) = Awaited(s)
    BY <1>3 DEF UpdateStreaming
  <2> DEFINE t == [s EXCEPT !.waited = @ + 1]
  <2>2. t \in Streams /\ Awake(t)
    BY <1>1, <1>3 DEF Streams, Awake
  <2>3. Awaited(s) \in {Finished(s), Finished(t), t}
    BY DEF Awaited
  <2> HIDE DEF t
  <2> QED
    BY <1>1, <2>1, <2>2, <2>3, FinishedIsAwake
<1>4. CASE s.state = "Postload"
  <2>1. UpdateStreaming(s) = Rechecked(s)
    BY <1>4 DEF UpdateStreaming
  <2> DEFINE t == [s EXCEPT !.checked = @ + 1]
  <2>2. t \in Streams /\ Awake(t) /\ ~t.paused
    BY <1>1, <1>4 DEF Streams, Awake
  <2>3. Rechecked(s) \in {[t EXCEPT !.state = "Normal"], Renewed(t, FALSE), t}
    BY DEF Rechecked
  <2> HIDE DEF t
  <2>4. Awake([t EXCEPT !.state = "Normal"])
    BY <2>2 DEF Streams, Awake
  <2> QED
    BY <2>1, <2>2, <2>3, <2>4, RenewedIsAwake
<1>5. CASE s.state = "PrepareCinematic"
  <2>1. UpdateStreaming(s) = Prepared(s)
    BY <1>5 DEF UpdateStreaming
  <2>2. CASE EndWaiting(s) \/ s.waited >= MaxWait
    BY <1>1, <2>1, <2>2 DEF Prepared, SetGamePaused, Streams, Awake
  <2>3. CASE ~(EndWaiting(s) \/ s.waited >= MaxWait)
    <3>1. s.waited + 1 \in Nat
      BY <1>1 DEF Streams
    <3>2. UpdateStreaming(s) = [s EXCEPT !.waited = s.waited + 1]
      BY <2>1, <2>3 DEF Prepared
    <3> QED
      BY <1>1, <1>5, <3>1, <3>2 DEF Streams, Awake
  <2> QED
    BY <2>2, <2>3
<1>6. CASE s.state \notin {"None", "Waiting", "Postload", "PrepareCinematic"}
  BY <1>6 DEF UpdateStreaming
<1> QED
  BY <1>2, <1>3, <1>4, <1>5, <1>6

\* Nobody has paused the first game, and nothing is bound.
LEMMA MapInitHolds ==
  ASSUME MapInit
  PROVE  MapInv
BY FS_EmptySet DEF MapInit, MapInv, Awake, Streams, NeverLeftPaused, Callbacks

\* A world that is there: the handle is gone, and the game runs or streams.
LEMMA LoadedKeeps ==
  ASSUME MapInv, NEW w \in Worlds, Loaded(w)
  PROVE  MapInv'
<1>1. travel' = NoWorld /\ world' = w /\ UNCHANGED <<handle, overlapped>>
  BY DEF Loaded
<1>2. ~overlapped => bound' = {}
  BY DEF Loaded, Unbound, MapInv
<1>3. timers' \in Seq(Callbacks)
  <2> DEFINE firsts == [i \in 1..Cardinality(bound) |-> "First"]
  <2>1. w \notin Composed => timers' = timers \o firsts
    BY DEF Loaded
  <2>2. w \in Composed => timers' = timers
    BY DEF Loaded
  <2>3. CASE w \notin Composed
    <3>1. Cardinality(bound) \in Nat
      BY FS_CardinalityType DEF MapInv
    <3>2. firsts \in Seq(Callbacks)
      BY <3>1 DEF Callbacks
    <3>3. timers' = timers \o firsts /\ timers \in Seq(Callbacks)
      BY <2>1, <2>3 DEF MapInv
    <3> HIDE DEF firsts
    <3> QED
      BY <3>2, <3>3
  <2> QED
    BY <2>2, <2>3 DEF MapInv
<1>4. IsFiniteSet(bound')
  <2>1. bound = {} => bound' = {}
    BY DEF Loaded, Unbound
  <2>2. bound # {} => bound' = bound \ {handle}
    BY DEF Loaded, Unbound
  <2> QED
    BY <2>1, <2>2, FS_EmptySet, FS_RemoveElement DEF MapInv
<1> DEFINE quiet == [streaming EXCEPT !.paused = FALSE, !.begun = FALSE, !.loaded = FALSE]
           fresh == StartPlayManually(quiet)
<1>5. quiet \in Streams /\ quiet.paused = FALSE
  BY DEF MapInv, Awake, Streams
<1>6. streaming' = CASE bound = {} -> fresh
                     [] bound # {} /\ w \in Composed -> Renewed(fresh, FALSE)
                     [] OTHER -> StartPlayManuallyProc([fresh EXCEPT !.state = "None"])
  BY DEF Loaded
<1> HIDE DEF quiet
<1>7. fresh \in Streams /\ fresh.paused = FALSE
  BY <1>5 DEF StartPlayManually, Streams
<1> HIDE DEF fresh
<1>8. CASE bound = {}
  <2>1. streaming' = fresh
    BY <1>6, <1>8
  <2> QED
    BY <1>1, <1>2, <1>7, <1>3, <1>4, <2>1 DEF MapInv, Awake, NeverLeftPaused
<1>9. CASE bound # {} /\ w \in Composed
  <2>1. streaming' = Renewed(fresh, FALSE)
    BY <1>6, <1>9
  <2>2. Awake(streaming') /\ streaming'.state = "Waiting"
    BY <1>7, <2>1, RenewedIsAwake
  <2> QED
    BY <1>1, <1>2, <1>9, <1>3, <1>4, <2>2 DEF MapInv, Awake, NeverLeftPaused
<1>10. CASE bound # {} /\ w \notin Composed
  <2> DEFINE t == [fresh EXCEPT !.state = "None"]
             u == CollectAsyncLoadPackage(t)
  <2>1. streaming' = StartPlayManuallyProc(t)
    BY <1>6, <1>10
  <2>2. t \in Streams
    BY <1>7 DEF Streams
  <2> HIDE DEF t
  <2>3. u \in Streams
    BY <1>1, <1>10, <2>2 DEF CollectAsyncLoadPackage, BeginAsyncLoad, Streams
  <2>4. streaming' = SetGamePaused(u, FALSE)
    BY <2>1 DEF StartPlayManuallyProc
  <2> HIDE DEF u
  <2>5. streaming' \in Streams /\ streaming'.paused = FALSE
    BY <2>3, <2>4 DEF SetGamePaused, Streams
  <2> QED
    BY <1>1, <1>2, <1>3, <1>4, <2>5 DEF MapInv, Awake, NeverLeftPaused
<1> QED
  BY <1>8, <1>9, <1>10

\* Entering a map binds one more handle and does not touch the streaming.
LEMMA MapEnterKeeps ==
  ASSUME MapInv, NEW m \in Maps \cup {NoMap}, MapEnter(m)
  PROVE  MapInv'
<1>1. UNCHANGED <<world, streaming, timers>>
  BY DEF MapEnter
<1>2. CASE UNCHANGED <<travel, bound, handle, overlapped>>
  BY <1>1, <1>2 DEF MapInv, NeverLeftPaused
<1>3. CASE /\ m \in Maps /\ travel' = MapName[m]
           /\ handle' = handle + 1 /\ bound' = bound \cup {handle + 1}
           /\ overlapped' = (overlapped \/ bound # {})
  <2>1. travel' \in Worlds /\ travel' # NoWorld
    BY <1>3, MapMgrAssumption
  <2>2. ~overlapped' => bound' = {handle'}
    BY <1>3 DEF MapInv
  <2>3. IsFiniteSet(bound')
    BY <1>3, FS_AddElement DEF MapInv
  <2> QED
    BY <1>1, <2>1, <2>2, <2>3 DEF MapInv, NeverLeftPaused
<1> QED
  BY <1>2, <1>3 DEF MapEnter

\* Every other step leaves the travel alone.
LEMMA MapStep ==
  ASSUME MapInv, [MapNext]_mapVars
  PROVE  MapInv'
<1>1. ASSUME UNCHANGED <<travel, bound, handle, overlapped, world>>,
             timers' \in Seq(Callbacks),
             Awake(streaming'), streaming'.paused => world \in Composed
      PROVE  MapInv'
  BY <1>1 DEF MapInv, NeverLeftPaused, Awake
<1>2. ASSUME UNCHANGED <<travel, bound, handle, overlapped, world, streaming, timers>>
      PROVE  MapInv'
  BY <1>2 DEF MapInv, NeverLeftPaused
<1>3. CASE Tick
  <2>1. world \in Composed /\ streaming' = UpdateStreaming(streaming)
    BY <1>3 DEF Tick
  <2>2. Awake(streaming')
    BY <2>1, UpdatedIsAwake DEF MapInv
  <2>3. timers' \in Seq(Callbacks)
    BY <1>3 DEF Tick, MapInv, Callbacks
  <2> QED
    BY <1>1, <1>3, <2>1, <2>2, <2>3 DEF Tick, entryVars
<1>4. CASE LevelsChange \/ PawnChanges \/ OnMapEnter_Ack \/ MapDestroy
  BY <1>2, <1>4 DEF LevelsChange, PawnChanges, OnMapEnter_Ack, MapDestroy, entryVars
<1>5. CASE TravelEnds
  BY <1>5, LoadedKeeps DEF TravelEnds, MapInv
<1>6. ASSUME NEW w \in Worlds, OpenLevel(w)
      PROVE  MapInv'
  BY <1>6, LoadedKeeps DEF OpenLevel
<1>7. CASE Callback
  <2> DEFINE started == StartPlayManually(streaming)
  <2>1. /\ started \in Streams /\ started.paused = streaming.paused
        /\ started.state = streaming.state
    BY DEF StartPlayManually, MapInv, Awake, Streams
  <2>2. timers[1] \in Callbacks /\ Tail(timers) \in Seq(Callbacks)
    BY <1>7 DEF Callback, MapInv
  <2>3. timers[1] = "First" \/ timers[1] = "Second" \/ timers[1] = "Third"
    BY <2>2 DEF Callbacks
  <2>4. timers' \in Seq(Callbacks)
    <3>1. "Second" \in Callbacks /\ "Third" \in Callbacks
      BY DEF Callbacks
    <3>2. timers' \in {Tail(timers), Append(Tail(timers), "Second"),
                      Append(Tail(timers), "Third")}
      BY <1>7, <2>3 DEF Callback
    <3> QED
      BY <2>2, <3>1, <3>2
  <2>5. \/ streaming' = streaming
        \/ streaming' = started
        \/ world \in Composed /\ streaming' = Renewed(started, TRUE)
    BY <1>7, <2>3 DEF Callback
  <2> HIDE DEF started
  <2>6. Awake(streaming') /\ (streaming'.paused => world \in Composed)
    BY <2>1, <2>5, RenewedIsAwake DEF MapInv, NeverLeftPaused, Awake
  <2> QED
    BY <1>1, <1>7, <2>6, <2>4 DEF Callback, entryVars
<1>8. ASSUME NEW m \in Maps \cup {NoMap}, MapEnter(m)
      PROVE  MapInv'
  BY <1>8, MapEnterKeeps
<1>9. ASSUME NEW s, Awake(s), Asked(s)
      PROVE  MapInv'
  BY <1>1, <1>9 DEF Asked, entryVars, MapInv
<1>10. ASSUME NEW teleport \in BOOLEAN, OnRecvWarpRequest(teleport)
       PROVE  MapInv'
  <2> DEFINE s == [streaming EXCEPT !.close = @ \/ teleport]
  <2>1. Awake(s)
    BY DEF MapInv, Awake, Streams
  <2>2. Asked(s)
    BY <1>10 DEF OnRecvWarpRequest
  <2> HIDE DEF s
  <2> QED
    BY <1>9, <2>1, <2>2
<1>11. CASE SetPrepareCinematicStreaming
  <2> DEFINE prepared == SetGamePaused([streaming EXCEPT !.state = "PrepareCinematic",
                                                         !.waited = 0], TRUE)
             s == IF player THEN prepared ELSE streaming
  <2>1. Awake(prepared) /\ Awake(streaming)
    BY DEF MapInv, Awake, Streams, SetGamePaused
  <2>2. Asked(s)
    BY <1>11 DEF SetPrepareCinematicStreaming
  <2> HIDE DEF prepared
  <2>3. Awake(s)
    BY <2>1
  <2> HIDE DEF s
  <2> QED
    BY <1>9, <2>2, <2>3
<1>12. CASE FinishCinematicStreaming
  <2> DEFINE s == Finished(Renewed(streaming, FALSE))
  <2>1. Awake(s)
    BY RenewedIsAwake, FinishedIsAwake DEF MapInv, Awake
  <2>2. Asked(s)
    BY <1>12 DEF FinishCinematicStreaming
  <2> HIDE DEF s
  <2> QED
    BY <1>9, <2>1, <2>2
<1>13. CASE UNCHANGED mapVars
  BY <1>2, <1>13 DEF mapVars, entryVars
<1> QED
  BY <1>3, <1>4, <1>5, <1>6, <1>7, <1>8, <1>10, <1>11, <1>12, <1>13 DEF MapNext

(* The four callers pause and unpause in pairs that frames, worlds and       *)
(* requests come between; none leaves a game paused that nobody looks at     *)
(* (AZMapMgr.cpp:1080-1193).                                                 *)
THEOREM PausesAreWatched == MapSpec => []NeverLeftPaused
<1>1. MapInit => MapInv
  BY MapInitHolds
<1>2. MapInv /\ [MapNext]_mapVars => MapInv'
  BY MapStep
<1>3. MapInv => NeverLeftPaused
  BY DEF MapInv
<1> QED
  BY <1>1, <1>2, <1>3, PTL DEF MapSpec

(* While no map is entered during a travel, a travel under way has exactly   *)
(* the newest handle bound, and at any other time none is (AZMapMgr.cpp:191, *)
(* 345).                                                                     *)
THEOREM TravelsAreHeardOnce == MapSpec => []OnePostLoadPerEntry
<1>1. MapInit => MapInv
  BY MapInitHolds
<1>2. MapInv /\ [MapNext]_mapVars => MapInv'
  BY MapStep
<1>3. MapInv => OnePostLoadPerEntry
  BY FS_EmptySet, FS_Singleton DEF MapInv, OnePostLoadPerEntry
<1> QED
  BY <1>1, <1>2, <1>3, PTL DEF MapSpec

----------------------------------------------------------------------------
(* What is selected of a sequence: for every sequence, by induction over how *)
(* much of it has been looked at.                                            *)

\* A set of numbers is all of Nat when it has 0 and every successor: a least
\* number outside it would be the successor of one inside.
LEMMA Induction ==
  ASSUME NEW S, 0 \in S, \A n \in Nat : n \in S => n + 1 \in S
  PROVE  Nat \subseteq S
<1> DEFINE T == Nat \ S
           R == {p \in Nat \X Nat : p[1] < p[2]}
<1> SUFFICES ASSUME T # {}
             PROVE  FALSE
  OBVIOUS
<1>1. IsWellFoundedOn(R, Nat)
  BY NatLessThanWellFounded DEF OpToRel
<1>2. \A x, y \in Nat : y < x => <<y, x>> \in R
  OBVIOUS
<1>3. T \subseteq Nat
  OBVIOUS
<1> HIDE DEF R
<1>4. PICK x \in T : \A y \in T : ~ (<<y, x>> \in R)
  BY <1>1, <1>3, WFMin
<1>5. x \in Nat /\ x # 0
  OBVIOUS
<1>6. x - 1 \in Nat /\ x - 1 < x /\ (x - 1) + 1 = x
  BY <1>5
<1>7. <<x - 1, x>> \in R
  BY <1>2, <1>5, <1>6
<1>8. x - 1 \in S
  BY <1>4, <1>6, <1>7
<1> QED
  BY <1>6, <1>8

\* One step of the selection: what is selected of the first n, from what was of n - 1.
OneMore(seq, S, sel, n) ==
  IF n = 0 THEN <<>>
  ELSE IF seq[n] \in S THEN Append(sel[n - 1], seq[n]) ELSE sel[n - 1]

\* The function that Selecting asks for exists, for any number of elements.
LEMMA SelectionExists ==
  ASSUME NEW seq, NEW S
  PROVE  \A m \in Nat : \E sel : sel = [n \in 0..m |-> OneMore(seq, S, sel, n)]
<1> DEFINE Defined == {m \in Nat : \E sel : sel = [n \in 0..m |-> OneMore(seq, S, sel, n)]}
<1>1. 0 \in Defined
  <2> DEFINE f == [n \in 0..0 |-> <<>>]
  <2>1. f = [n \in 0..0 |-> OneMore(seq, S, f, n)]
    BY DEF OneMore
  <2> QED
    BY <2>1
<1>2. ASSUME NEW m \in Nat, m \in Defined
      PROVE  m + 1 \in Defined
  <2>1. PICK f : f = [n \in 0..m |-> OneMore(seq, S, f, n)]
    BY <1>2
  <2> DEFINE g == [n \in 0..(m + 1) |-> IF n = m + 1 THEN OneMore(seq, S, f, n) ELSE f[n]]
  <2>2. ASSUME NEW n \in 0..(m + 1)
        PROVE  g[n] = OneMore(seq, S, g, n)
    <3>1. n # 0 => n - 1 \in 0..m /\ g[n - 1] = f[n - 1]
      OBVIOUS
    <3>2. OneMore(seq, S, g, n) = OneMore(seq, S, f, n)
      BY <3>1 DEF OneMore
    <3>3. CASE n = m + 1
      BY <3>2, <3>3
    <3>4. CASE n # m + 1
      <4>1. n \in 0..m
        BY <3>4
      <4>2. g[n] = f[n]
        BY <3>4
      <4>3. f[n] = OneMore(seq, S, f, n)
        BY <2>1, <4>1
      <4> QED
        BY <3>2, <4>2, <4>3
    <3> QED
      BY <3>3, <3>4
  <2>3. g = [n \in 0..(m + 1) |-> OneMore(seq, S, g, n)]
    BY <2>2
  <2> HIDE DEF g
  <2>4. \E sel : sel = [n \in 0..(m + 1) |-> OneMore(seq, S, sel, n)]
    BY <2>3
  <2> QED
    BY <2>4
<1>3. Nat \subseteq Defined
  <2> HIDE DEF Defined
  <2> QED
    BY <1>1, <1>2, Induction
<1> QED
  BY <1>3

\* ... so Selecting is it.
LEMMA SelectingIs ==
  ASSUME NEW seq, NEW S, Len(seq) \in Nat
  PROVE  Selecting(seq, S) = [n \in 0..Len(seq) |-> OneMore(seq, S, Selecting(seq, S), n)]
<1>1. \E sel : sel = [n \in 0..Len(seq) |-> OneMore(seq, S, sel, n)]
  BY SelectionExists
<1>2. Selecting(seq, S) = CHOOSE sel : sel = [n \in 0..Len(seq) |-> OneMore(seq, S, sel, n)]
  BY DEF Selecting, OneMore
<1> QED
  BY <1>1, <1>2

\* The same, number by number.
LEMMA SelectingSteps ==
  ASSUME NEW S, NEW T, NEW seq \in Seq(T)
  PROVE  /\ Selecting(seq, S)[0] = <<>>
         /\ \A n \in Nat : n + 1 <= Len(seq) =>
              Selecting(seq, S)[n + 1] = IF seq[n + 1] \in S THEN Append(Selecting(seq, S)[n], seq[n + 1])
                                         ELSE Selecting(seq, S)[n]
<1> DEFINE f == Selecting(seq, S)
<1>1. Len(seq) \in Nat
  OBVIOUS
<1>2. f = [n \in 0..Len(seq) |-> OneMore(seq, S, f, n)]
  BY <1>1, SelectingIs
<1> HIDE DEF f
<1>3. \A n \in 0..Len(seq) : f[n] = OneMore(seq, S, f, n)
  BY <1>2
<1>4. f[0] = <<>>
  BY <1>1, <1>3 DEF OneMore
<1>5. ASSUME NEW n \in Nat, n + 1 <= Len(seq)
      PROVE  f[n + 1] = IF seq[n + 1] \in S THEN Append(f[n], seq[n + 1]) ELSE f[n]
  <2>1. n + 1 \in 0..Len(seq) /\ n + 1 # 0 /\ (n + 1) - 1 = n
    BY <1>1, <1>5
  <2> QED
    BY <1>3, <2>1 DEF OneMore
<1> QED
  BY <1>4, <1>5 DEF f

\* What is selected is a sequence of the same elements.
LEMMA SelectingType ==
  ASSUME NEW S, NEW T, NEW seq \in Seq(T)
  PROVE  \A n \in Nat : n <= Len(seq) => Selecting(seq, S)[n] \in Seq(T)
<1> DEFINE f == Selecting(seq, S)
           P == {n \in Nat : n <= Len(seq) => f[n] \in Seq(T)}
<1>1. /\ f[0] = <<>> /\ Len(seq) \in Nat
      /\ \A n \in Nat : n + 1 <= Len(seq) =>
           f[n + 1] = IF seq[n + 1] \in S THEN Append(f[n], seq[n + 1]) ELSE f[n]
  BY SelectingSteps
<1> HIDE DEF f
<1>2. 0 \in P
  <2>1. f[0] \in Seq(T)
    BY <1>1
  <2> QED
    BY <2>1
<1>3. ASSUME NEW n \in Nat, n \in P
      PROVE  n + 1 \in P
  <2> SUFFICES ASSUME n + 1 <= Len(seq) PROVE f[n + 1] \in Seq(T)
    OBVIOUS
  <2>1. f[n] \in Seq(T) /\ seq[n + 1] \in T
    BY <1>1, <1>3
  <2>2. Append(f[n], seq[n + 1]) \in Seq(T)
    BY <2>1
  <2> QED
    BY <1>1, <2>1, <2>2
<1> HIDE DEF P
<1>4. Nat \subseteq P
  BY <1>2, <1>3, Induction
<1> QED
  BY <1>4 DEF P, f

(* What is selected is a sequence of what there was.                          *)
LEMMA SelectedType ==
  ASSUME NEW S, NEW T, NEW seq \in Seq(T)
  PROVE  Selected(seq, S) \in Seq(T)
<1>1. Len(seq) \in Nat /\ Len(seq) <= Len(seq)
  OBVIOUS
<1> QED
  BY <1>1, SelectingType DEF Selected

\* Of nothing, nothing is selected.
LEMMA SelectedOfNone ==
  ASSUME NEW S
  PROVE  Selected(<<>>, S) = <<>>
<1>1. <<>> \in Seq({}) /\ Len(<<>>) = 0
  OBVIOUS
<1> QED
  BY <1>1, SelectingSteps DEF Selected

\* What is selected of the first n does not depend on what comes after them.
LEMMA SelectingPrefix ==
  ASSUME NEW S, NEW T, NEW u \in Seq(T), NEW v \in Seq(T), Len(u) <= Len(v),
         \A i \in 1..Len(u) : u[i] = v[i]
  PROVE  \A n \in Nat : n <= Len(u) => Selecting(u, S)[n] = Selecting(v, S)[n]
<1> DEFINE f == Selecting(u, S)
           g == Selecting(v, S)
           P == {n \in Nat : n <= Len(u) => f[n] = g[n]}
<1>1. /\ f[0] = <<>> /\ Len(u) \in Nat
      /\ \A n \in Nat : n + 1 <= Len(u) =>
           f[n + 1] = IF u[n + 1] \in S THEN Append(f[n], u[n + 1]) ELSE f[n]
  BY SelectingSteps
<1>2. /\ g[0] = <<>> /\ Len(v) \in Nat
      /\ \A n \in Nat : n + 1 <= Len(v) =>
           g[n + 1] = IF v[n + 1] \in S THEN Append(g[n], v[n + 1]) ELSE g[n]
  BY SelectingSteps
<1> HIDE DEF f, g
<1>3. 0 \in P
  BY <1>1, <1>2
<1>4. ASSUME NEW n \in Nat, n \in P
      PROVE  n + 1 \in P
  <2> SUFFICES ASSUME n + 1 <= Len(u) PROVE f[n + 1] = g[n + 1]
    OBVIOUS
  <2>1. f[n] = g[n] /\ u[n + 1] = v[n + 1] /\ n + 1 <= Len(v)
    BY <1>1, <1>2, <1>4
  <2> QED
    BY <1>1, <1>2, <2>1
<1> HIDE DEF P
<1>5. Nat \subseteq P
  BY <1>3, <1>4, Induction
<1> QED
  BY <1>5 DEF P, f, g

\* An element that is appended is selected last, or not at all.
LEMMA SelectedAppend ==
  ASSUME NEW S, NEW T, NEW seq \in Seq(T), NEW e \in T
  PROVE  /\ e \in S => Selected(Append(seq, e), S) = Append(Selected(seq, S), e)
         /\ e \notin S => Selected(Append(seq, e), S) = Selected(seq, S)
<1> DEFINE v == Append(seq, e)
           n == Len(seq)
           f == Selecting(seq, S)
           g == Selecting(v, S)
<1>1. /\ v \in Seq(T) /\ n \in Nat /\ Len(v) = n + 1 /\ v[n + 1] = e
      /\ \A i \in 1..Len(seq) : seq[i] = v[i]
  OBVIOUS
<1> HIDE DEF v
<1>2. f[n] = g[n]
  <2>1. Len(seq) <= Len(v) /\ Len(seq) <= Len(seq) /\ Len(seq) \in Nat
    BY <1>1
  <2> QED
    BY <1>1, <2>1, SelectingPrefix
<1>3. g[n + 1] = IF v[n + 1] \in S THEN Append(g[n], v[n + 1]) ELSE g[n]
  <2>1. n + 1 <= Len(v)
    BY <1>1
  <2> QED
    BY <1>1, <2>1, SelectingSteps
<1>4. Selected(seq, S) = f[n] /\ Selected(v, S) = g[n + 1]
  BY <1>1 DEF Selected
<1> HIDE DEF f, g, n
<1>5. /\ e \in S => Selected(v, S) = Append(Selected(seq, S), e)
      /\ e \notin S => Selected(v, S) = Selected(seq, S)
  BY <1>1, <1>2, <1>3, <1>4
<1> QED
  BY <1>5 DEF v

\* What appending one element to a sequence gives.
LEMMA Appended ==
  ASSUME NEW T, NEW seq \in Seq(T), NEW e \in T
  PROVE  /\ Append(seq, e) \in Seq(T) /\ Len(Append(seq, e)) = Len(seq) + 1 /\ Len(seq) \in Nat
         /\ Append(seq, e)[Len(seq) + 1] = e /\ \A i \in 1..Len(seq) : Append(seq, e)[i] = seq[i]
OBVIOUS

\* v is w with e before it.
IsBehind(v, e, w) ==
  Len(v) = Len(w) + 1 /\ v[1] = e /\ \A i \in 1..Len(w) : v[i + 1] = w[i]

\* A tail is another sequence.
LEMMA TailIsLess ==
  ASSUME NEW T, NEW seq \in Seq(T), seq # <<>>
  PROVE  Tail(seq) # seq
<1> DEFINE n == Len(seq)
<1>1. n \in Nat /\ Len(Tail(seq)) = n - 1
  OBVIOUS
<1> HIDE DEF n
<1>2. n - 1 # n
  BY <1>1
<1> QED
  BY <1>1, <1>2 DEF n

\* Appending does not disturb the front.
LEMMA BehindAppended ==
  ASSUME NEW T, NEW v \in Seq(T), NEW w \in Seq(T), NEW d \in T, NEW e \in T, IsBehind(v, e, w)
  PROVE  IsBehind(Append(v, d), e, Append(w, d))
<1> DEFINE x == Append(v, d)
           y == Append(w, d)
<1>1. /\ Len(x) = Len(v) + 1 /\ Len(v) \in Nat /\ x[Len(v) + 1] = d
      /\ \A i \in 1..Len(v) : x[i] = v[i]
  BY Appended
<1>2. /\ Len(y) = Len(w) + 1 /\ Len(w) \in Nat /\ y[Len(w) + 1] = d
      /\ \A i \in 1..Len(w) : y[i] = w[i]
  BY Appended
<1> HIDE DEF x, y
<1>3. Len(x) = Len(y) + 1 /\ x[1] = e
  BY <1>1, <1>2 DEF IsBehind
<1>4. ASSUME NEW i \in 1..Len(y)
      PROVE  x[i + 1] = y[i]
  <2>1. CASE i = Len(w) + 1
    BY <1>1, <1>2, <2>1 DEF IsBehind
  <2>2. CASE i # Len(w) + 1
    <3>1. i \in 1..Len(w) /\ i + 1 \in 1..Len(v)
      BY <1>1, <1>2, <2>2 DEF IsBehind
    <3> QED
      BY <1>1, <1>2, <3>1 DEF IsBehind
  <2> QED
    BY <2>1, <2>2
<1>5. IsBehind(x, e, y)
  BY <1>3, <1>4 DEF IsBehind
<1> QED
  BY <1>5 DEF x, y

\* The front of a sequence is selected first, or not at all.
LEMMA SelectedTail ==
  ASSUME NEW S, NEW T, NEW seq \in Seq(T), seq # <<>>
  PROVE  /\ Head(seq) \in S => IsBehind(Selected(seq, S), Head(seq), Selected(Tail(seq), S))
         /\ Head(seq) \notin S => Selected(seq, S) = Selected(Tail(seq), S)
<1> DEFINE v == Tail(seq)
           f == Selecting(seq, S)
           g == Selecting(v, S)
           h == Head(seq)
           Shifted(n) == IF h \in S THEN IsBehind(f[n + 1], h, g[n]) ELSE f[n + 1] = g[n]
           P == {n \in Nat : n <= Len(v) => Shifted(n)}
<1>1. /\ v \in Seq(T) /\ Len(seq) \in Nat /\ Len(v) \in Nat /\ Len(seq) = Len(v) + 1
      /\ h = seq[1] /\ h \in T /\ \A i \in 1..Len(v) : v[i] = seq[i + 1]
  OBVIOUS
<1> HIDE DEF v, h
<1>2. /\ f[0] = <<>>
      /\ \A n \in Nat : n + 1 <= Len(seq) =>
           f[n + 1] = IF seq[n + 1] \in S THEN Append(f[n], seq[n + 1]) ELSE f[n]
  BY SelectingSteps
<1>3. /\ g[0] = <<>>
      /\ \A n \in Nat : n + 1 <= Len(v) =>
           g[n + 1] = IF v[n + 1] \in S THEN Append(g[n], v[n + 1]) ELSE g[n]
  <2>1. v \in Seq(T)
    BY <1>1
  <2> QED
    BY <2>1, SelectingSteps
<1>4. \A n \in Nat : n <= Len(v) => g[n] \in Seq(T)
  BY <1>1, SelectingType
<1>5. \A n \in Nat : n <= Len(seq) => f[n] \in Seq(T)
  BY SelectingType
<1>6. Selected(seq, S) = f[Len(seq)] /\ Selected(v, S) = g[Len(v)]
  BY DEF Selected
<1> HIDE DEF f, g, P
<1>7. 0 \in P
  <2>1. 0 \in Nat /\ 0 + 1 <= Len(seq) /\ 0 + 1 = 1
    BY <1>1
  <2>2. f[1] = IF h \in S THEN Append(f[0], h) ELSE f[0]
    BY <1>1, <1>2, <2>1
  <2>3. Append(<<>>, h) = <<h>>
    OBVIOUS
  <2>4. Shifted(0)
    BY <1>2, <1>3, <2>1, <2>2, <2>3 DEF IsBehind
  <2> QED
    BY <2>4 DEF P
<1>8. ASSUME NEW n \in Nat, n \in P
      PROVE  n + 1 \in P
  <2> SUFFICES ASSUME n + 1 <= Len(v)
               PROVE  Shifted(n + 1)
    BY DEF P
  <2> DEFINE e == v[n + 1]
             a == g[n]
             b == f[n + 1]
  <2>1. n <= Len(v) /\ n + 1 <= Len(seq) /\ n + 1 \in Nat /\ (n + 1) + 1 <= Len(seq) /\ n + 1 \in 1..Len(v)
    BY <1>1
  <2>2. /\ e = seq[(n + 1) + 1] /\ e \in T /\ a \in Seq(T) /\ b \in Seq(T)
        /\ g[n + 1] = IF e \in S THEN Append(a, e) ELSE a
        /\ f[(n + 1) + 1] = IF e \in S THEN Append(b, e) ELSE b
    BY <1>1, <1>2, <1>3, <1>4, <1>5, <2>1
  <2>3. Shifted(n)
    BY <1>8, <2>1 DEF P
  <2>4. h \in S => IsBehind(b, h, a)
    BY <2>3
  <2>5. h \notin S => b = a
    BY <2>3
  <2> HIDE DEF e, a, b
  <2>6. CASE h \in S
    <3>1. IsBehind(Append(b, e), h, Append(a, e))
      BY <1>1, <2>2, <2>4, <2>6, BehindAppended
    <3>2. IsBehind(f[(n + 1) + 1], h, g[n + 1])
      BY <2>2, <2>4, <2>6, <3>1
    <3> QED
      BY <2>6, <3>2
  <2>7. CASE h \notin S
    BY <2>2, <2>5, <2>7
  <2> QED
    BY <2>6, <2>7
<1>9. Shifted(Len(v))
  <2>1. Nat \subseteq P
    <3> HIDE DEF Shifted
    <3> QED
      BY <1>7, <1>8, Induction
  <2> QED
    BY <1>1, <2>1 DEF P
<1> QED
  BY <1>1, <1>6, <1>9 DEF v, h

\* The elements that are selected are those of the sequence that belong to the set.
LEMMA SelectedElements ==
  ASSUME NEW S, NEW T, NEW seq \in Seq(T)
  PROVE  {Selected(seq, S)[i] : i \in 1..Len(Selected(seq, S))} = {seq[i] : i \in 1..Len(seq)} \cap S
<1> DEFINE f == Selecting(seq, S)
           P == {n \in Nat : n <= Len(seq) => {f[n][i] : i \in 1..Len(f[n])} = {seq[i] : i \in 1..n} \cap S}
<1>1. /\ f[0] = <<>> /\ Len(seq) \in Nat
      /\ \A n \in Nat : n + 1 <= Len(seq) =>
           f[n + 1] = IF seq[n + 1] \in S THEN Append(f[n], seq[n + 1]) ELSE f[n]
  BY SelectingSteps
<1>2. \A n \in Nat : n <= Len(seq) => f[n] \in Seq(T)
  BY SelectingType
<1> HIDE DEF f
<1>3. \A n \in Nat : n \in P <=> (n <= Len(seq) => {f[n][i] : i \in 1..Len(f[n])} = {seq[i] : i \in 1..n} \cap S)
  OBVIOUS
<1> HIDE DEF P
<1>4. 0 \in P
  <2>1. {f[0][i] : i \in 1..Len(f[0])} = {} /\ {seq[i] : i \in 1..0} = {}
    BY <1>1
  <2> QED
    BY <1>3, <2>1
<1>5. ASSUME NEW n \in Nat, n \in P
      PROVE  n + 1 \in P
  <2>5. n + 1 \in Nat
    OBVIOUS
  <2> SUFFICES ASSUME n + 1 <= Len(seq)
               PROVE  {f[n + 1][i] : i \in 1..Len(f[n + 1])} = {seq[i] : i \in 1..(n + 1)} \cap S
    BY <2>5, <1>3, Zenon
  <2> DEFINE e == seq[n + 1]
             a == f[n]
             A == {a[i] : i \in 1..Len(a)}
             B == {seq[i] : i \in 1..n}
  <2>1. A = B \cap S /\ a \in Seq(T) /\ e \in T
    <3>1. n <= Len(seq)
      BY <1>1
    <3>2. {f[n][i] : i \in 1..Len(f[n])} = {seq[i] : i \in 1..n} \cap S
      BY <1>5, <1>3, <3>1, Zenon
    <3>3. a \in Seq(T) /\ e \in T
      BY <1>1, <1>2, <3>1
    <3> QED
      BY <3>2, <3>3
  <2>2. {seq[i] : i \in 1..(n + 1)} = B \cup {e}
    <3>1. 1..(n + 1) = (1..n) \cup {n + 1}
      OBVIOUS
    <3> QED
      BY <3>1
  <2>3. f[n + 1] = IF e \in S THEN Append(a, e) ELSE a
    BY <1>1
  <2>4. {Append(a, e)[i] : i \in 1..Len(Append(a, e))} = A \cup {e}
    <3>1. /\ Len(a) \in Nat /\ Len(Append(a, e)) = Len(a) + 1 /\ Append(a, e)[Len(a) + 1] = e
          /\ \A i \in 1..Len(a) : Append(a, e)[i] = a[i]
      BY <2>1
    <3>2. 1..(Len(a) + 1) = (1..Len(a)) \cup {Len(a) + 1}
      BY <3>1
    <3> QED
      BY <3>1, <3>2
  <2> HIDE DEF e, B
  <2> QED
    BY <2>1, <2>2, <2>3, <2>4
<1>6. Nat \subseteq P
  BY <1>4, <1>5, Induction
<1>7. Len(seq) \in P
  BY <1>1, <1>6
<1> QED
  BY <1>1, <1>7, <1>3 DEF f, Selected

----------------------------------------------------------------------------
(* The accounts: what the database and the queues hold.                       *)

Pairs == [id : Texts, pw : Texts]
Databases ==
  [driver : Drivers, prepared : SUBSET Statements, open : SUBSET {"selectAll"}, nts : BOOLEAN,
   rows : SUBSET Pairs, list : SUBSET Pairs]
AnswerKinds == {"login", "signin"}
PacketKinds == AnswerKinds \cup {"chat", "inGame"}
AccountRequests ==
  [slot : Slots, kind : AnswerKinds, row : Rows] \cup [slot : Slots, kind : {"chat", "inGame"}, row : {AnyRow}]
AccountPackets == [kind : PacketKinds, ok : BOOLEAN, out : BOOLEAN]
AccountTypeOK ==
  /\ db \in Databases
  /\ conn \subseteq Slots /\ late \subseteq Slots /\ requests \in Seq(AccountRequests)
  /\ down \in [Slots -> Seq(AccountPackets)] /\ own \in [Slots -> Seq(AnswerKinds)]
  /\ box \in BOOLEAN /\ (box => requests # <<>>) /\ silent \subseteq Slots

\* What a client's request does to the database.
Outcomes == [ok : BOOLEAN, db : Databases]

\* What the driver may find is a pair, and is the row where both texts fit.
LEMMA BoundRowsArePairs ==
  ASSUME db \in Databases, NEW row \in Rows
  PROVE  /\ BoundRows(db, row) \subseteq Pairs
         /\ db.nts /\ FitsBoth(row) => BoundRows(db, row) = {row}
<1>1. row.id \in Texts /\ row.pw \in Texts /\ [id |-> row.id, pw |-> row.pw] = row
  BY OdbcAssumption
<1>2. Found[row.id] \subseteq Texts /\ Found[row.pw] \subseteq Texts
  BY <1>1, OdbcAssumption
<1>3. \A t \in Texts : Bound(db, t) \in Texts
  BY OdbcAssumption DEF Bound
<1>4. BoundRows(db, row) \subseteq Pairs
  BY <1>2, <1>3 DEF BoundRows, Pairs
<1>5. ASSUME db.nts, FitsBoth(row)
      PROVE  BoundRows(db, row) = {row}
  <2>1. Found[row.id] = {row.id} /\ Found[row.pw] = {row.pw}
    BY <1>5, OdbcAssumption DEF FitsBoth
  <2>2. Bound(db, row.id) = row.id /\ Bound(db, row.pw) = row.pw
    BY <1>5 DEF Bound
  <2> QED
    BY <1>1, <2>1, <2>2 DEF BoundRows
<1> QED
  BY <1>4, <1>5

\* Between two calls the only cursor that can be open is the one over the whole table.
LEMMA CallsKeepDatabase ==
  ASSUME db \in Databases
  PROVE  /\ \A row \in Rows : AddSQL(db, row) \subseteq Outcomes /\ LoginCheckSQL(db, row) \subseteq Outcomes
         /\ \A row \in Rows, name \in Texts, written \in BOOLEAN : UpdateSQL(db, row, name, written).db \in Databases
         /\ \A name \in Texts, written \in BOOLEAN : ReadRecord(db, name, written).db \in Databases
         /\ \A name \in Texts : DeleteSQL(db, name).db \in Databases
         /\ \A failing \in SUBSET MayFail : Load(ConnetMssql(db, failing)) \in Databases
         /\ \A driver \in Drivers : [db EXCEPT !.driver = driver] \in Databases
<1>2. Rows \subseteq Pairs
  BY OdbcAssumption DEF Pairs
<1>3. ASSUME NEW row \in Rows
      PROVE  AddSQL(db, row) \subseteq Outcomes
  <2>1. BoundRows(db, row) \subseteq Pairs
    BY BoundRowsArePairs
  <2>2. Overrun(db, row) \subseteq Databases
    BY DEF Overrun, Databases
  <2>3. ASSUME NEW hr, NEW pair \in Pairs, NEW after \in Databases
        PROVE  Inserted(hr, pair, after) \in Outcomes
    <3> DEFINE ok == hr = "success"
               d == IF hr = "error" THEN after ELSE [after EXCEPT !.rows = @ \cup {pair}]
    <3>1. ok \in BOOLEAN
      OBVIOUS
    <3>2. d \in Databases
      BY DEF Databases
    <3> HIDE DEF ok, d
    <3>3. Outcome(ok, d) \in Outcomes
      BY <3>1, <3>2 DEF Outcome, Outcomes
    <3> QED
      BY <3>3 DEF ok, d, Inserted
  <2>4. ASSUME NEW o \in AddSQL(db, row)
        PROVE  o \in Outcomes
    <3>1. PICK hr \in ExecuteWith(db, "signup", row), pair \in BoundRows(db, row),
               after \in Overrun(db, row) : o = Inserted(hr, pair, after)
      BY <2>4 DEF AddSQL
    <3> QED
      BY <2>1, <2>2, <2>3, <3>1
  <2> QED
    BY <2>4
<1>4. ASSUME NEW row \in Rows
      PROVE  LoginCheckSQL(db, row) \subseteq Outcomes
  <2> DEFINE d == CloseCursor(db, "loginCheck")
  <2>1. d \in Databases
    BY DEF CloseCursor, Databases
  <2>2. ASSUME NEW o \in LoginCheckSQL(db, row)
        PROVE  o \in Outcomes
    <3>1. PICK hr \in ExecuteWith(db, "loginCheck", row), pair \in BoundRows(db, row) :
                 o = Outcome(Fetched(db, hr, pair), d)
      BY <2>2 DEF LoginCheckSQL
    <3> DEFINE ok == Fetched(db, hr, pair)
    <3>2. ok \in BOOLEAN
      BY DEF Fetched
    <3> HIDE DEF ok, d
    <3> QED
      BY <2>1, <3>1, <3>2 DEF Outcome, Outcomes, ok
  <2> QED
    BY <2>2
<1>5. ASSUME NEW row \in Rows, NEW name \in Texts, NEW written \in BOOLEAN
      PROVE  UpdateSQL(db, row, name, written).db \in Databases
  <2>1. {IF r.id = name THEN row ELSE r : r \in db.rows} \subseteq Pairs
    BY <1>2 DEF Databases
  <2> QED
    BY <2>1 DEF UpdateSQL, Outcome, CloseCursor, Databases
<1>6. ASSUME NEW name \in Texts, NEW written \in BOOLEAN
      PROVE  ReadRecord(db, name, written).db \in Databases
  BY DEF ReadRecord, Outcome, CloseCursor, Databases
<1>7. ASSUME NEW name \in Texts
      PROVE  DeleteSQL(db, name).db \in Databases
  BY DEF DeleteSQL, Outcome, CloseCursor, Databases
<1>8. ASSUME NEW failing \in SUBSET MayFail
      PROVE  Load(ConnetMssql(db, failing)) \in Databases
  <2>1. ConnetMssql(db, failing) \in Databases
    BY DEF ConnetMssql, CreatePrepare, Databases
  <2> QED
    BY <2>1 DEF Load, Databases
<1>9. \A driver \in Drivers : [db EXCEPT !.driver = driver] \in Databases
  BY DEF Databases
<1> QED
  BY <1>3, <1>4, <1>5, <1>6, <1>7, <1>8, <1>9

(* The accounts start well typed.                                             *)
LEMMA AccountInitHolds == AccountsInit => AccountTypeOK
<1> SUFFICES ASSUME AccountsInit PROVE AccountTypeOK
  OBVIOUS
<1>1. db \in Databases
  BY DEF AccountsInit, DbInit, Databases, Drivers
<1>2. /\ conn \subseteq Slots /\ late \subseteq Slots /\ silent \subseteq Slots
      /\ box \in BOOLEAN /\ (box => requests # <<>>)
  BY DEF AccountsInit
<1>4. requests \in Seq(AccountRequests)
  <2>1. requests = <<>>
    BY DEF AccountsInit
  <2> QED
    BY <2>1, EmptySeq
<1>3. down \in [Slots -> Seq(AccountPackets)] /\ own \in [Slots -> Seq(AnswerKinds)]
  BY DEF AccountsInit
<1> QED
  BY <1>1, <1>2, <1>3, <1>4 DEF AccountTypeOK

\* What has an end is not empty.
LEMMA AppendedIsSomething ==
  ASSUME NEW S, NEW seq \in Seq(S), NEW e \in S
  PROVE  Append(seq, e) # <<>>
<1>1. Len(Append(seq, e)) = Len(seq) + 1 /\ Len(seq) \in Nat
  BY Appended
<1> QED
  BY <1>1

\* What the client asks for goes to the end of the requests.
LEMMA SendTypes ==
  ASSUME AccountTypeOK, NEW s \in Slots, NEW kind \in AnswerKinds \cup {"chat"}, NEW row,
         kind \in AnswerKinds => row \in Rows, kind = "chat" => row = AnyRow, Send(s, kind, row)
  PROVE  /\ requests' \in Seq(AccountRequests) /\ requests' # <<>> /\ own' \in [Slots -> Seq(AnswerKinds)]
         /\ Request(s, kind, row) \in AccountRequests
<1>1. Request(s, kind, row) \in AccountRequests
  BY DEF Request, AccountRequests, AnswerKinds
<1>2. requests' \in Seq(AccountRequests) /\ requests' # <<>>
  <2>1. requests \in Seq(AccountRequests)
    BY DEF AccountTypeOK
  <2>2. requests' = Append(requests, Request(s, kind, row))
    BY DEF Send
  <2> QED
    BY <1>1, <2>1, <2>2, Appended, AppendedIsSomething, Zenon
<1>3. own' \in [Slots -> Seq(AnswerKinds)]
  <2>1. CASE kind \in {"login", "signin"}
    <3>1. Append(own[s], kind) \in Seq(AnswerKinds)
      BY <2>1, Appended DEF AccountTypeOK, AnswerKinds
    <3> QED
      BY <2>1, <3>1 DEF Send, AccountTypeOK
  <2>2. CASE kind \notin {"login", "signin"}
    BY <2>2 DEF Send, AccountTypeOK
  <2> QED
    BY <2>1, <2>2
<1> QED
  BY <1>1, <1>2, <1>3

\* A packet is queued for a client.
Reaches(c, kind, ok) ==
  \E out \in BOOLEAN : /\ c \notin silent' => out
                       /\ Packet(kind, ok, out) \in AccountPackets
                       /\ down'[c] = Append(down[c], Packet(kind, ok, out))

\* What a request is answered with.
LEMMA SendMsgGives ==
  ASSUME AccountTypeOK, NEW to \in SUBSET Slots, NEW kind \in PacketKinds, NEW ok \in BOOLEAN,
         SendMsg(to, kind, ok)
  PROVE  /\ silent \subseteq silent' /\ silent' \subseteq Slots
         /\ down' \in [Slots -> Seq(AccountPackets)]
         /\ \A c \in to \cap conn : Reaches(c, kind, ok)
         /\ \A c \in Slots : c \notin to \cap conn => down'[c] = down[c]
<1>1. silent \subseteq silent' /\ silent' \subseteq Slots
  BY DEF SendMsg, AccountTypeOK
<1>2. down' = [c \in Slots |-> IF c \in to \cap conn
                              THEN Append(down[c], Packet(kind, ok, c \notin silent')) ELSE down[c]]
  BY DEF SendMsg
<1>3. \A out \in BOOLEAN : Packet(kind, ok, out) \in AccountPackets
  BY DEF Packet, AccountPackets
<1>4. ASSUME NEW c \in to \cap conn
      PROVE  Reaches(c, kind, ok)
  <2> DEFINE goes == c \notin silent'
  <2>1. goes \in BOOLEAN /\ (c \notin silent' => goes)
    OBVIOUS
  <2>2. down'[c] = Append(down[c], Packet(kind, ok, goes))
    BY <1>2
  <2> HIDE DEF goes
  <2> QED
    BY <2>1, <2>2, <1>3 DEF Reaches
<1>5. \A c \in Slots : c \notin to \cap conn => down'[c] = down[c]
  BY <1>2
<1>6. \A c \in Slots : down'[c] \in Seq(AccountPackets)
  <2>1. ASSUME NEW c \in to \cap conn
        PROVE  down'[c] \in Seq(AccountPackets)
    <3>1. PICK out \in BOOLEAN : /\ Packet(kind, ok, out) \in AccountPackets
                                 /\ down'[c] = Append(down[c], Packet(kind, ok, out))
      BY <1>4 DEF Reaches
    <3>2. down[c] \in Seq(AccountPackets)
      BY DEF AccountTypeOK
    <3> QED
      BY <3>1, <3>2, Appended
  <2>2. \A c \in Slots : down[c] \in Seq(AccountPackets)
    BY DEF AccountTypeOK
  <2> QED
    BY <2>1, <2>2, <1>5
<1>7. down' \in [Slots -> Seq(AccountPackets)]
  BY <1>2, <1>6
<1> QED
  BY <1>1, <1>4, <1>5, <1>7

\* What happens to the request at the front.
Waits == ~box /\ box' = TRUE /\ Head(requests).kind \in AnswerKinds /\ UNCHANGED <<requests, down, silent>>
IsAnswered ==
  /\ box' = FALSE /\ requests' = Tail(requests)
  /\ \E to \in SUBSET Slots, ok \in BOOLEAN :
       /\ SendMsg(to, Head(requests).kind, ok)
       /\ Head(requests).kind \in AnswerKinds => to = {Head(requests).slot} /\ ok = ~box

\* A request is taken off the front and answered, or its message box is opened.
LEMMA ProcessSteps ==
  ASSUME AccountTypeOK, ProcessRecvPacket \/ ErrorMsg
  PROVE  /\ requests # <<>> /\ Head(requests) \in AccountRequests /\ UNCHANGED <<conn, own, late>>
         /\ db' \in Databases /\ (Waits \/ IsAnswered)
<1> DEFINE r == Head(requests)
<1>1. requests # <<>> /\ UNCHANGED <<conn, own, late>>
  BY DEF ProcessRecvPacket, ErrorMsg, AccountTypeOK
<1>2. r \in AccountRequests
  BY <1>1 DEF AccountTypeOK
<1> HIDE DEF r
<1>3. /\ r.kind \in {"login", "signin", "chat", "inGame"} /\ r.slot \in Slots
      /\ r.kind \in AnswerKinds => r.row \in Rows
  BY <1>2 DEF AccountRequests, AnswerKinds
<1>4. ASSUME NEW ok \in BOOLEAN, Concluded(ok), box' = FALSE, ok = ~box
      PROVE  IsAnswered
  <2>1. requests' = Tail(requests) /\ SendMsg({r.slot}, r.kind, ok)
    BY <1>4 DEF Concluded, Answered, r
  <2>2. {r.slot} \in SUBSET Slots
    BY <1>3
  <2> QED
    BY <2>1, <2>2, <1>4 DEF IsAnswered, r
<1>5. CASE ProcessRecvPacket
  <2>1. ~box
    BY <1>5 DEF ProcessRecvPacket
  <2>2. CASE r.kind \in AnswerKinds
    <3>1. AddSQL(db, r.row) \subseteq Outcomes /\ LoginCheckSQL(db, r.row) \subseteq Outcomes
      BY <1>3, <2>2, CallsKeepDatabase DEF AccountTypeOK
    <3>2. ProcessLogin(r) \/ ProcessSignup(r)
      BY <1>5, <2>2 DEF ProcessRecvPacket, AnswerKinds, r
    <3>3. PICK o \in Outcomes : Reported(o)
      BY <3>1, <3>2 DEF ProcessLogin, ProcessSignup
    <3>4. db' \in Databases /\ o.ok \in BOOLEAN /\ box' = ~o.ok
      BY <3>3 DEF Reported, Outcomes
    <3>5. CASE o.ok
      <4>1. Concluded(TRUE) /\ box' = FALSE
        BY <3>3, <3>4, <3>5 DEF Reported
      <4> QED
        BY <4>1, <1>1, <1>2, <1>4, <2>1, <3>4 DEF r
    <3>6. CASE ~o.ok
      <4>1. UNCHANGED <<requests, down, silent>> /\ box' = TRUE
        BY <3>3, <3>4, <3>6 DEF Reported
      <4> QED
        BY <4>1, <1>1, <1>2, <2>1, <2>2, <3>4 DEF Waits, r
    <3> QED
      BY <3>4, <3>5, <3>6
  <2>3. CASE r.kind \notin AnswerKinds
    <3>1. Broadcast(r.kind)
      BY <1>3, <1>5, <2>3 DEF ProcessRecvPacket, ProcessChatting, ProocessInGame, AnswerKinds, r
    <3>2. requests' = Tail(requests) /\ SendMsg(conn, r.kind, TRUE) /\ db' = db /\ box' = box
      BY <3>1 DEF Broadcast
    <3>3. conn \in SUBSET Slots /\ db \in Databases /\ box' = FALSE
      BY <2>1, <3>2 DEF AccountTypeOK
    <3>4. IsAnswered
      BY <3>2, <3>3, <2>3 DEF IsAnswered, r
    <3> QED
      BY <3>2, <3>3, <3>4, <1>1, <1>2 DEF r
  <2> QED
    BY <2>2, <2>3
<1>6. CASE ErrorMsg
  <2>1. box' = FALSE /\ Concluded(FALSE) /\ box = TRUE /\ db' = db
    BY <1>6 DEF ErrorMsg, AccountTypeOK
  <2>2. db' \in Databases
    BY <2>1 DEF AccountTypeOK
  <2> QED
    BY <2>1, <2>2, <1>1, <1>2, <1>4 DEF r
<1> QED
  BY <1>5, <1>6

(* They stay well typed.                                                      *)
LEMMA AccountTypeStep == AccountTypeOK /\ [AccountsNext]_accountVars => AccountTypeOK'
<1> SUFFICES ASSUME AccountTypeOK, [AccountsNext]_accountVars
             PROVE  AccountTypeOK'
  OBVIOUS
<1>1. CASE ProcessRecvPacket \/ ErrorMsg
  <2>1. /\ requests # <<>> /\ Head(requests) \in AccountRequests /\ UNCHANGED <<conn, own, late>>
        /\ db' \in Databases /\ (Waits \/ IsAnswered)
    BY <1>1, ProcessSteps
  <2>2. CASE Waits
    BY <2>1, <2>2 DEF Waits, AccountTypeOK
  <2>3. CASE IsAnswered
    <3>1. PICK to \in SUBSET Slots, ok \in BOOLEAN : SendMsg(to, Head(requests).kind, ok)
      BY <2>3 DEF IsAnswered
    <3>2. Head(requests).kind \in PacketKinds
      BY <2>1 DEF AccountRequests, PacketKinds
    <3>3. silent' \subseteq Slots /\ down' \in [Slots -> Seq(AccountPackets)]
      BY <3>1, <3>2, SendMsgGives
    <3>4. requests' \in Seq(AccountRequests) /\ box' = FALSE
      BY <2>1, <2>3 DEF IsAnswered, AccountTypeOK
    <3> QED
      BY <2>1, <3>3, <3>4 DEF AccountTypeOK
  <2> QED
    BY <2>1, <2>2, <2>3
<1>2. CASE DbRun \/ UpdateUser \/ ReadUser \/ DeleteUser \/ DriverChanges
  <2>1. UNCHANGED <<conn, requests, box, silent, down, own, late>>
    BY <1>2 DEF DbRun, UpdateUser, ReadUser, DeleteUser, DriverChanges, Backstage
  <2>2. db \in Databases /\ \A t \in Fits : t \in Texts
    BY OdbcAssumption DEF AccountTypeOK
  <2>3. ASSUME DbRun
        PROVE  db' \in Databases
    <3>1. PICK failing \in SUBSET MayFail : db' = Load(ConnetMssql(db, failing))
      BY <2>3 DEF DbRun
    <3> QED
      BY <2>2, <3>1, CallsKeepDatabase, Zenon
  <2>4. ASSUME UpdateUser
        PROVE  db' \in Databases
    <3>1. PICK row \in Rows, name \in Texts, written \in BOOLEAN :
            db' = UpdateSQL(db, row, name, written).db
      BY <2>2, <2>4 DEF UpdateUser, Backstage
    <3> QED
      BY <2>2, <3>1, CallsKeepDatabase, Zenon
  <2>5. ASSUME ReadUser
        PROVE  db' \in Databases
    <3>1. PICK name \in Texts, written \in BOOLEAN : db' = ReadRecord(db, name, written).db
      BY <2>2, <2>5 DEF ReadUser, Backstage
    <3> QED
      BY <2>2, <3>1, CallsKeepDatabase, Zenon
  <2>6. ASSUME DeleteUser
        PROVE  db' \in Databases
    <3>1. PICK name \in Texts : db' = DeleteSQL(db, name).db
      BY <2>6 DEF DeleteUser, Backstage
    <3> QED
      BY <2>2, <3>1, CallsKeepDatabase, Zenon
  <2>7. ASSUME DriverChanges
        PROVE  db' \in Databases
    <3>1. PICK driver \in Drivers : db' = [db EXCEPT !.driver = driver]
      BY <2>7 DEF DriverChanges
    <3> QED
      BY <2>2, <3>1, CallsKeepDatabase, Zenon
  <2>8. db' \in Databases
    BY <1>2, <2>3, <2>4, <2>5, <2>6, <2>7
  <2> QED
    BY <2>1, <2>8 DEF AccountTypeOK
<1>3. ASSUME NEW s \in Slots, Connect(s)
      PROVE  AccountTypeOK'
  BY <1>3 DEF Connect, AccountTypeOK
<1>4. ASSUME NEW s \in Slots, Disconnect(s) \/ FStringToCharArray(s)
      PROVE  AccountTypeOK'
  BY <1>4 DEF Disconnect, FStringToCharArray, AccountTypeOK
<1>5. ASSUME NEW s \in Slots, ReadData(s)
      PROVE  AccountTypeOK'
  <2>1. down' \in [Slots -> Seq(AccountPackets)] /\ UNCHANGED <<db, conn, box, silent, late>>
    BY <1>5 DEF ReadData, AccountTypeOK
  <2>2. own' \in [Slots -> Seq(AnswerKinds)]
    <3>1. own' = own \/ (own[s] # <<>> /\ own' = [own EXCEPT ![s] = Tail(own[s])])
      BY <1>5 DEF ReadData
    <3>2. own[s] # <<>> => Tail(own[s]) \in Seq(AnswerKinds)
      BY DEF AccountTypeOK
    <3> QED
      BY <3>1, <3>2 DEF AccountTypeOK
  <2>3. requests' = requests \/ requests' = Append(requests, Request(s, "inGame", AnyRow))
    BY <1>5 DEF ReadData, InGameAccept
  <2>4. Request(s, "inGame", AnyRow) \in AccountRequests
    BY DEF Request, AccountRequests
  <2> DEFINE enters == Request(s, "inGame", AnyRow)
  <2> HIDE DEF enters
  <2>5. requests \in Seq(AccountRequests)
    BY DEF AccountTypeOK
  <2>6. Append(requests, enters) \in Seq(AccountRequests)
    BY <2>4, <2>5, Appended DEF enters
  <2>7. requests' \in Seq(AccountRequests) /\ (requests # <<>> => requests' # <<>>)
    <3>1. Append(requests, enters) # <<>>
      BY <2>4, <2>5, AppendedIsSomething DEF enters
    <3> QED
      BY <2>3, <2>5, <2>6, <3>1 DEF enters
  <2> QED
    BY <2>1, <2>2, <2>7 DEF AccountTypeOK
<1>6. ASSUME NEW s \in Slots, SetLoginInfo(s) \/ Login_Signup(s) \/ ChatMsgSend(s)
      PROVE  AccountTypeOK'
  <2>1. UNCHANGED <<db, conn, box, silent, down, late>>
    BY <1>6 DEF SetLoginInfo, Login_Signup, ChatMsgSend
  <2>2. PICK kind \in AnswerKinds \cup {"chat"}, row \in Rows \cup {AnyRow} :
          Send(s, kind, row) /\ (kind \in AnswerKinds => row \in Rows) /\ (kind = "chat" => row = AnyRow)
    BY <1>6 DEF SetLoginInfo, Login_Signup, ChatMsgSend, AnswerKinds
  <2>3. requests' \in Seq(AccountRequests) /\ requests' # <<>> /\ own' \in [Slots -> Seq(AnswerKinds)]
    BY <2>2, SendTypes
  <2> QED
    BY <2>1, <2>3 DEF AccountTypeOK
<1>7. CASE UNCHANGED accountVars
  BY <1>7 DEF accountVars, AccountTypeOK
<1> QED
  BY <1>1, <1>2, <1>3, <1>4, <1>5, <1>6, <1>7 DEF AccountsNext

(* A login whose texts fit is answered with success exactly when the table   *)
(* has the row, and such a sign-up leaves the row there, as long as the       *)
(* driver is up and the statements and the indicator are as CreatePrepare     *)
(* left them: whatever was called before, the cursors are closed and nothing  *)
(* is left in the parameters, even of texts that ran over; bad news, and no   *)
(* other, waits for the box (Odbc.cpp:136-157, 255-277, 496-525).             *)
THEOREM AnswersAlwaysAgree == AccountsSpec => AnswersAgree
<1> DEFINE request == Head(requests)
           answered == requests # <<>> /\ requests' = Tail(requests)
           decided == requests # <<>> /\ ~box /\ (answered \/ box')
           Told == answered /\ request.kind \in {"login", "signin"} /\ request.slot \in conn
                     => Last(down'[request.slot]).ok = ~box
           Decides == (/\ decided /\ FitsBoth(request.row) /\ {"signup", "loginCheck"} \subseteq db.prepared
                     /\ db.driver = "up" /\ db.nts)
                    => /\ request.kind = "login" => (answered <=> request.row \in db.rows)
                       /\ request.kind = "signin" => answered /\ request.row \in db'.rows
<1>1. AccountTypeOK /\ [AccountsNext]_accountVars => AccountTypeOK'
  BY AccountTypeStep
<1>2. ASSUME AccountTypeOK, AccountsNext, answered \/ decided
      PROVE  ProcessRecvPacket \/ ErrorMsg
  <2>1. requests # <<>> /\ Len(requests) \in Nat /\ Len(Tail(requests)) = Len(requests) - 1
    BY <1>2 DEF AccountTypeOK
  <2>2. requests # Tail(requests) /\ \A e \in AccountRequests : Tail(requests) # Append(requests, e)
    <3>1. \A e \in AccountRequests : Len(Append(requests, e)) = Len(requests) + 1
      BY <1>2, Appended DEF AccountTypeOK
    <3> DEFINE n == Len(requests)
    <3>2. n \in Nat /\ Len(Tail(requests)) = n - 1
      BY <2>1
    <3> HIDE DEF n
    <3>3. n - 1 # n /\ n - 1 # n + 1
      BY <3>2
    <3>4. \A e \in AccountRequests : Len(Append(requests, e)) = n + 1
      BY <3>1 DEF n
    <3>5. Tail(requests) # requests
      BY <3>2, <3>3 DEF n
    <3> QED
      BY <3>2, <3>3, <3>4, <3>5, Zenon
  <2>3. \/ ProcessRecvPacket \/ ErrorMsg
        \/ /\ box' = box
           /\ \/ requests' = requests
              \/ \E s \in Slots, kind \in {"login", "signin"}, row \in Rows :
                   requests' = Append(requests, Request(s, kind, row))
              \/ \E s \in Slots, kind \in {"chat", "inGame"} :
                   requests' = Append(requests, Request(s, kind, AnyRow))
    BY <1>2 DEF AccountsNext, DbRun, UpdateUser, ReadUser, DeleteUser, DriverChanges, Backstage, Connect,
       Disconnect, FStringToCharArray, ReadData, InGameAccept, SetLoginInfo, Login_Signup, ChatMsgSend, Send
  <2>4. /\ \A s \in Slots, kind \in {"login", "signin"}, row \in Rows : Request(s, kind, row) \in AccountRequests
        /\ \A s \in Slots, kind \in {"chat", "inGame"} : Request(s, kind, AnyRow) \in AccountRequests
    BY DEF Request, AccountRequests, AnswerKinds
  <2>5. requests' = Tail(requests) \/ box' # box
    BY <1>2
  <2> QED
    BY <2>2, <2>3, <2>4, <2>5, Zenon
<1>3. AccountTypeOK /\ AccountsNext => Told
  <2> SUFFICES ASSUME AccountTypeOK, AccountsNext,
                      answered, request.kind \in {"login", "signin"}, request.slot \in conn
               PROVE  Last(down'[request.slot]).ok = ~box
    OBVIOUS
  <2>1. ProcessRecvPacket \/ ErrorMsg
    BY <1>2
  <2>2. Waits \/ IsAnswered
    BY <2>1, ProcessSteps
  <2>3. IsAnswered
    <3>1. requests \in Seq(AccountRequests) /\ requests # <<>> /\ requests' = Tail(requests)
      BY DEF AccountTypeOK
    <3>2. requests' # requests
      BY <3>1, TailIsLess
    <3> QED
      BY <2>2, <3>2 DEF Waits
  <2>4. PICK to \in SUBSET Slots, ok \in BOOLEAN :
          SendMsg(to, request.kind, ok) /\ to = {request.slot} /\ ok = ~box
    BY <2>3 DEF IsAnswered, AnswerKinds
  <2>5. request.kind \in PacketKinds /\ request.slot \in to \cap conn
    BY <2>4 DEF PacketKinds, AnswerKinds
  <2> DEFINE k == request.kind
             c == request.slot
  <2>6. PICK out \in BOOLEAN : /\ Packet(k, ok, out) \in AccountPackets
                               /\ down'[c] = Append(down[c], Packet(k, ok, out))
    <3>1. Reaches(c, k, ok)
      BY <2>4, <2>5, SendMsgGives
    <3> QED
      BY <3>1 DEF Reaches
  <2>7. down[c] \in Seq(AccountPackets)
    BY <2>5 DEF AccountTypeOK
  <2> HIDE DEF k, c, request
  <2>8. Last(down'[c]) = Packet(k, ok, out)
    BY <2>6, <2>7, Appended DEF Last
  <2>9. Packet(k, ok, out).ok = ok
    BY DEF Packet
  <2> QED
    BY <2>4, <2>8, <2>9 DEF c
<1>4. AccountTypeOK /\ AccountsNext => Decides
  <2> SUFFICES ASSUME AccountTypeOK, AccountsNext, decided, FitsBoth(request.row),
                      {"signup", "loginCheck"} \subseteq db.prepared, db.driver = "up", db.nts
               PROVE  /\ request.kind = "login" => (answered <=> request.row \in db.rows)
                      /\ request.kind = "signin" => answered /\ request.row \in db'.rows
    OBVIOUS
  <2>1. ProcessRecvPacket
    <3>1. ProcessRecvPacket \/ ErrorMsg
      BY <1>2
    <3> QED
      BY <3>1 DEF ErrorMsg
  <2>2. request \in AccountRequests
    BY <2>1, ProcessSteps
  <2>3. request.kind \in {"login", "signin"} =>
          request.row \in Rows /\ BoundRows(db, request.row) = {request.row}
    <3>1. request.kind \in {"login", "signin"} => request.row \in Rows
      BY <2>2 DEF AccountRequests
    <3>2. db \in Databases
      BY DEF AccountTypeOK
    <3> QED
      BY <3>1, <3>2, BoundRowsArePairs
  <2>4. /\ ExecuteWith(db, "signup", request.row) = {"success"}
        /\ ExecuteWith(db, "loginCheck", request.row) = {"success"}
    <3>1. Execute(db, "signup") = "success" /\ Execute(db, "loginCheck") = "success"
      BY DEF Execute, AccountTypeOK, Databases
    <3> QED
      BY <3>1 DEF ExecuteWith
  <2>5. requests # Tail(requests)
    <3>1. requests \in Seq(AccountRequests) /\ requests # <<>>
      BY DEF AccountTypeOK
    <3> QED
      BY <3>1, TailIsLess
  <2>6. CASE request.kind = "login"
    <3> DEFINE known == request.row \in db.rows
               closed == CloseCursor(db, "loginCheck")
    <3>1. LoginCheckSQL(db, request.row) = {Outcome(known, closed)}
      <4>1. LoginCheckSQL(db, request.row) = {Outcome(Fetched(db, "success", request.row), closed)}
        <5>1. /\ ExecuteWith(db, "loginCheck", request.row) = {"success"}
              /\ BoundRows(db, request.row) = {request.row}
          BY <2>3, <2>4, <2>6
        <5> QED
          BY ONLY <5>1 DEF LoginCheckSQL
      <4>2. Fetched(db, "success", request.row) = known
        BY DEF Fetched
      <4> HIDE DEF closed, known
      <4> QED
        BY <4>1, <4>2
    <3>2. Reported(Outcome(known, closed))
      BY <2>1, <2>6, <3>1 DEF ProcessRecvPacket, ProcessLogin
    <3> HIDE DEF closed
    <3>3. (known => requests' = Tail(requests)) /\ (~known => requests' = requests)
      BY <3>2 DEF Reported, Outcome, Concluded
    <3> QED
      BY <2>5, <2>6, <3>3
  <2>7. CASE request.kind = "signin"
    <3>1. PICK added \in AddSQL(db, request.row) : Reported(added)
      BY <2>1, <2>7 DEF ProcessRecvPacket, ProcessSignup
    <3>2. PICK after \in Overrun(db, request.row) : added = Inserted("success", request.row, after)
      <4>1. PICK hr \in ExecuteWith(db, "signup", request.row), pair \in BoundRows(db, request.row),
                 after \in Overrun(db, request.row) : added = Inserted(hr, pair, after)
        BY <3>1 DEF AddSQL
      <4>2. hr = "success" /\ pair = request.row
        BY <2>3, <2>4, <2>7
      <4> QED
        BY <4>1, <4>2
    <3>3. after \in Databases
      <4>1. db \in Databases
        BY DEF AccountTypeOK
      <4>2. after = db \/ after = [db EXCEPT !.prepared = @ \ {"update"}]
        BY <3>2 DEF Overrun
      <4> QED
        BY ONLY <4>1, <4>2 DEF Databases
    <3>4. added.ok /\ request.row \in added.db.rows
      BY <3>2, <3>3 DEF Inserted, Outcome, Databases
    <3>5. db' = added.db /\ requests' = Tail(requests)
      BY <3>1, <3>4 DEF Reported, Concluded
    <3> QED
      BY <2>7, <3>1, <3>4, <3>5
  <2> QED
    BY <2>6, <2>7
<1>5. AccountTypeOK /\ [AccountsNext]_accountVars => [Told /\ Decides]_accountVars
  BY <1>3, <1>4
<1> QED
  BY AccountInitHolds, <1>1, <1>5, PTL DEF AccountsSpec, AnswersAgree

----------------------------------------------------------------------------
(* Every login and every sign-up has one answer.                              *)

\* The kinds of a and then those of b make up o.
IsJoined(o, a, b) ==
  /\ Len(o) = Len(a) + Len(b)
  /\ \A i \in 1..Len(a) : o[i] = a[i].kind
  /\ \A i \in 1..Len(b) : o[Len(a) + i] = b[i].kind

\* OneAnswerEach, element by element.
Answering ==
  \A s \in conn \ late : IsJoined(own[s], Selected(down[s], Replies), Selected(requests, OwnRequests(s)))

\* A question goes to the end of both.
LEMMA JoinedAsked ==
  ASSUME NEW O, NEW A, NEW B, NEW o \in Seq(O), NEW a \in Seq(A), NEW b \in Seq(B), NEW e \in B,
         e.kind \in O, IsJoined(o, a, b)
  PROVE  IsJoined(Append(o, e.kind), a, Append(b, e))
<1> DEFINE x == Append(o, e.kind)
           y == Append(b, e)
           n == Len(a)
           m == Len(b)
<1>1. /\ Len(x) = Len(o) + 1 /\ x[Len(o) + 1] = e.kind /\ \A i \in 1..Len(o) : x[i] = o[i]
  BY Appended
<1>2. /\ Len(y) = m + 1 /\ y[m + 1] = e /\ \A i \in 1..m : y[i] = b[i]
  BY Appended
<1>3. n \in Nat /\ m \in Nat /\ Len(o) = n + m
  BY DEF IsJoined
<1>4. (\A i \in 1..n : o[i] = a[i].kind) /\ (\A i \in 1..m : o[n + i] = b[i].kind)
  BY DEF IsJoined
<1> SUFFICES IsJoined(x, a, y)
  OBVIOUS
<1> HIDE DEF x, y, n, m
<1>5. Len(x) = n + Len(y)
  BY <1>1, <1>2, <1>3
<1>6. ASSUME NEW i \in 1..n
      PROVE  x[i] = a[i].kind
  <2>1. i \in 1..Len(o)
    BY <1>3
  <2> QED
    BY <2>1, <1>1, <1>4
<1>7. ASSUME NEW i \in 1..Len(y)
      PROVE  x[n + i] = y[i].kind
  <2>1. CASE i = m + 1
    <3>1. n + i = Len(o) + 1
      BY <1>3, <2>1
    <3> QED
      BY <3>1, <2>1, <1>1, <1>2
  <2>2. CASE i # m + 1
    <3>1. i \in 1..m /\ n + i \in 1..Len(o)
      BY <1>2, <1>3, <2>2
    <3> QED
      BY <3>1, <1>1, <1>2, <1>4
  <2> QED
    BY <2>1, <2>2
<1>8. n = Len(a)
  BY DEF n
<1> QED
  BY <1>5, <1>6, <1>7, <1>8 DEF IsJoined

\* An answer is taken off the front of both.
LEMMA JoinedRead ==
  ASSUME NEW O, NEW o \in Seq(O), NEW a, NEW p, NEW a2, NEW b, Len(a2) \in Nat, Len(b) \in Nat,
         IsBehind(a, p, a2), IsJoined(o, a, b)
  PROVE  o # <<>> /\ IsJoined(Tail(o), a2, b)
<1>1. /\ Len(a) = Len(a2) + 1 /\ a[1] = p /\ \A i \in 1..Len(a2) : a[i + 1] = a2[i]
  BY DEF IsBehind
<1>2. /\ Len(o) = Len(a) + Len(b) /\ (\A i \in 1..Len(a) : o[i] = a[i].kind)
      /\ \A i \in 1..Len(b) : o[Len(a) + i] = b[i].kind
  BY DEF IsJoined
<1>3. o # <<>>
  BY <1>1, <1>2
<1> DEFINE x == Tail(o)
           n == Len(a2)
           m == Len(b)
<1>4. /\ Len(x) = Len(o) - 1 /\ \A i \in 1..Len(x) : x[i] = o[i + 1]
  BY <1>3
<1>5. n \in Nat /\ m \in Nat /\ Len(a) = n + 1 /\ Len(o) = (n + 1) + m
  BY <1>1, <1>2
<1> SUFFICES IsJoined(x, a2, b)
  BY <1>3
<1> HIDE DEF x, n, m
<1>6. Len(x) = n + m
  BY <1>4, <1>5
<1>7. ASSUME NEW i \in 1..n
      PROVE  x[i] = a2[i].kind
  <2>1. i \in 1..Len(x) /\ i + 1 \in 1..Len(a)
    BY <1>5, <1>6
  <2>2. a[i + 1] = a2[i]
    BY <1>1 DEF n
  <2> QED
    BY <2>1, <2>2, <1>2, <1>4
<1>8. ASSUME NEW i \in 1..m
      PROVE  x[n + i] = b[i].kind
  <2>1. n + i \in 1..Len(x) /\ (n + i) + 1 = Len(a) + i
    BY <1>5, <1>6
  <2>2. o[Len(a) + i] = b[i].kind
    BY <1>2 DEF m
  <2> QED
    BY <2>1, <2>2, <1>4
<1> QED
  BY <1>6, <1>7, <1>8 DEF IsJoined, n, m

\* A question at the front of b becomes an answer at the end of a.
LEMMA JoinedAnswered ==
  ASSUME NEW A, NEW a \in Seq(A), NEW p \in A, NEW o, NEW b, NEW r, NEW b2, Len(b2) \in Nat,
         p.kind = r.kind, IsBehind(b, r, b2), IsJoined(o, a, b)
  PROVE  IsJoined(o, Append(a, p), b2)
<1> DEFINE y == Append(a, p)
           n == Len(a)
           m == Len(b2)
<1>1. /\ Len(y) = n + 1 /\ y[n + 1] = p /\ \A i \in 1..n : y[i] = a[i]
  BY Appended
<1>2. /\ Len(b) = m + 1 /\ b[1] = r /\ \A i \in 1..m : b[i + 1] = b2[i]
  BY DEF IsBehind
<1>3. /\ Len(o) = n + Len(b) /\ (\A i \in 1..n : o[i] = a[i].kind)
      /\ \A i \in 1..Len(b) : o[n + i] = b[i].kind
  BY DEF IsJoined
<1>4. n \in Nat /\ m \in Nat
  OBVIOUS
<1> SUFFICES IsJoined(o, y, b2)
  OBVIOUS
<1> HIDE DEF y, n, m
<1>5. Len(o) = Len(y) + m
  BY <1>1, <1>2, <1>3, <1>4
<1>6. ASSUME NEW i \in 1..Len(y)
      PROVE  o[i] = y[i].kind
  <2>1. CASE i = n + 1
    <3>1. 1 \in 1..Len(b)
      BY <1>2, <1>4
    <3> QED
      BY <3>1, <2>1, <1>1, <1>2, <1>3
  <2>2. CASE i # n + 1
    <3>1. i \in 1..n
      BY <2>2, <1>1, <1>4
    <3> QED
      BY <3>1, <1>1, <1>3
  <2> QED
    BY <2>1, <2>2
<1>7. ASSUME NEW i \in 1..m
      PROVE  o[Len(y) + i] = b2[i].kind
  <2>1. i + 1 \in 1..Len(b) /\ Len(y) + i = n + (i + 1)
    BY <1>1, <1>2, <1>4
  <2>2. o[n + (i + 1)] = b[i + 1].kind
    BY <2>1, <1>3
  <2> QED
    BY <2>1, <2>2, <1>2
<1> QED
  BY <1>5, <1>6, <1>7 DEF IsJoined, m

\* The definition's form.
LEMMA JoinedIsTheWhole ==
  ASSUME NEW O, NEW A, NEW B, NEW o \in Seq(O), NEW a \in Seq(A), NEW b \in Seq(B),
         \A e \in A : e.kind \in O, \A e \in B : e.kind \in O, IsJoined(o, a, b)
  PROVE  o = Kinds(a) \o Kinds(b)
<1> DEFINE x == Kinds(a)
           y == Kinds(b)
           z == x \o y
           n == Len(a)
           m == Len(b)
<1>1. /\ x \in Seq(O) /\ Len(x) = n /\ \A i \in 1..n : x[i] = a[i].kind
  BY DEF Kinds
<1>2. /\ y \in Seq(O) /\ Len(y) = m /\ \A i \in 1..m : y[i] = b[i].kind
  BY DEF Kinds
<1>3. n \in Nat /\ m \in Nat
  OBVIOUS
<1>4. /\ Len(o) = n + m /\ (\A i \in 1..n : o[i] = a[i].kind) /\ \A i \in 1..m : o[n + i] = b[i].kind
  BY DEF IsJoined
<1> HIDE DEF x, y, n, m
<1>5. /\ z \in Seq(O) /\ Len(z) = Len(x) + Len(y)
      /\ \A i \in 1..(Len(x) + Len(y)) : z[i] = IF i <= Len(x) THEN x[i] ELSE y[i - Len(x)]
  BY <1>1, <1>2, ConcatProperties
<1> HIDE DEF z
<1>6. /\ Len(z) = n + m
      /\ \A i \in 1..(n + m) : z[i] = IF i <= n THEN x[i] ELSE y[i - n]
  BY <1>1, <1>2, <1>5
<1>7. ASSUME NEW i \in 1..(n + m)
      PROVE  o[i] = z[i]
  <2>1. CASE i <= n
    <3>1. i \in 1..n
      BY <2>1, <1>3
    <3> QED
      BY <2>1, <3>1, <1>1, <1>4, <1>6
  <2>2. CASE ~(i <= n)
    <3> DEFINE j == i - n
    <3>1. j \in 1..m /\ n + j = i
      BY <2>2, <1>3
    <3>2. z[i] = y[j]
      BY <2>2, <1>6
    <3> HIDE DEF j
    <3>3. o[n + j] = b[j].kind /\ y[j] = b[j].kind
      BY <3>1, <1>2, <1>4
    <3> QED
      BY <3>1, <3>2, <3>3
  <2> QED
    BY <2>1, <2>2
<1>8. Len(o) = Len(z) /\ \A i \in 1..Len(o) : o[i] = z[i]
  BY <1>4, <1>6, <1>7
<1>9. o = z
  BY <1>5, <1>8, SeqEqual
<1> QED
  BY <1>9 DEF z, x, y

\* What Answering speaks of is well-formed.
LEMMA AnsweringTypes ==
  ASSUME AccountTypeOK, NEW s \in Slots
  PROVE  /\ own[s] \in Seq(AnswerKinds) /\ down[s] \in Seq(AccountPackets)
         /\ Selected(down[s], Replies) \in Seq(AccountPackets)
         /\ Selected(requests, OwnRequests(s)) \in Seq(AccountRequests)
<1>1. own[s] \in Seq(AnswerKinds) /\ down[s] \in Seq(AccountPackets) /\ requests \in Seq(AccountRequests)
  BY DEF AccountTypeOK
<1> QED
  BY <1>1, SelectedType

\* Which requests are a slot's own questions, and which packets are answers.
LEMMA WhatCounts ==
  /\ \A e \in AccountRequests, s \in Slots :
       e \in OwnRequests(s) <=> e.slot = s /\ e.kind \in AnswerKinds
  /\ \A p \in AccountPackets : p \in Replies <=> p.kind \in AnswerKinds
BY DEF AccountRequests, AccountPackets, OwnRequests, Replies, AnswerKinds

\* What others ask does not count.
LEMMA OthersRequest ==
  ASSUME AccountTypeOK, NEW s \in Slots, NEW e \in AccountRequests, e.slot # s \/ e.kind \notin AnswerKinds,
         requests' = requests \/ requests' = Append(requests, e)
  PROVE  Selected(requests', OwnRequests(s)) = Selected(requests, OwnRequests(s))
<1>1. e \notin OwnRequests(s)
  BY WhatCounts
<1>2. requests \in Seq(AccountRequests)
  BY DEF AccountTypeOK
<1>3. Selected(Append(requests, e), OwnRequests(s)) = Selected(requests, OwnRequests(s))
  BY <1>1, <1>2, SelectedAppend
<1> QED
  BY <1>3

(* A request that is sent leaves every other asker its answer.                *)
LEMMA AnsweringSend ==
  ASSUME AccountTypeOK, Answering, NEW s \in Slots, NEW kind \in AnswerKinds \cup {"chat"}, NEW row,
         kind \in AnswerKinds => row \in Rows, kind = "chat" => row = AnyRow,
         Send(s, kind, row), UNCHANGED <<conn, down, late>>
  PROVE  Answering'
<1> DEFINE e == Request(s, kind, row)
<1>1. e \in AccountRequests
  BY SendTypes
<1>2. e.slot = s /\ e.kind = kind
  BY DEF Request
<1>3. requests' = Append(requests, e)
  BY DEF Send
<1>4. own' = IF kind \in AnswerKinds THEN [own EXCEPT ![s] = Append(@, kind)] ELSE own
  BY DEF Send, AnswerKinds
<1> HIDE DEF e
<1> SUFFICES ASSUME NEW c \in conn \ late
             PROVE  IsJoined(own'[c], Selected(down[c], Replies), Selected(requests', OwnRequests(c)))
  BY DEF Answering
<1>5. c \in Slots /\ own \in [Slots -> Seq(AnswerKinds)]
  BY DEF AccountTypeOK
<1>6. IsJoined(own[c], Selected(down[c], Replies), Selected(requests, OwnRequests(c)))
  BY DEF Answering
<1>7. CASE c = s /\ kind \in AnswerKinds
  <2>1. Selected(requests', OwnRequests(c)) = Append(Selected(requests, OwnRequests(c)), e)
    <3>1. e \in OwnRequests(c)
      BY <1>1, <1>2, <1>5, <1>7, WhatCounts
    <3> QED
      BY <3>1, <1>1, <1>3, SelectedAppend DEF AccountTypeOK
  <2>2. own'[c] = Append(own[c], e.kind)
    BY <1>2, <1>4, <1>5, <1>7
  <2> QED
    BY <2>1, <2>2, <1>1, <1>2, <1>5, <1>6, <1>7, AnsweringTypes, JoinedAsked
<1>8. CASE ~(c = s /\ kind \in AnswerKinds)
  <2>1. own'[c] = own[c]
    BY <1>4, <1>5, <1>8
  <2>2. Selected(requests', OwnRequests(c)) = Selected(requests, OwnRequests(c))
    BY <1>1, <1>2, <1>3, <1>5, <1>8, OthersRequest
  <2> QED
    BY <2>1, <2>2, <1>6
<1> QED
  BY <1>7, <1>8

(* An answer that is read was the reader's own.                               *)
LEMMA AnsweringRead ==
  ASSUME AccountTypeOK, Answering, NEW s \in Slots, ReadData(s)
  PROVE  Answering'
<1> DEFINE p == Head(down[s])
           e == Request(s, "inGame", AnyRow)
<1>1. /\ down[s] # <<>> /\ down' = [down EXCEPT ![s] = Tail(down[s])]
      /\ own' = IF IsReply(p) /\ own[s] # <<>> THEN [own EXCEPT ![s] = Tail(own[s])] ELSE own
      /\ UNCHANGED <<conn, late>> /\ (requests' = requests \/ requests' = Append(requests, e))
  BY DEF ReadData, InGameAccept
<1>2. e \in AccountRequests /\ e.kind \notin AnswerKinds
  BY DEF Request, AccountRequests, AnswerKinds
<1>3. p \in AccountPackets /\ down[s] \in Seq(AccountPackets)
  BY <1>1 DEF AccountTypeOK
<1>4. IsReply(p) <=> p \in Replies
  BY <1>3, WhatCounts DEF IsReply, AnswerKinds
<1> SUFFICES ASSUME NEW c \in conn \ late
             PROVE  IsJoined(own'[c], Selected(down'[c], Replies), Selected(requests', OwnRequests(c)))
  BY <1>1 DEF Answering
<1>5. c \in Slots /\ own \in [Slots -> Seq(AnswerKinds)] /\ down \in [Slots -> Seq(AccountPackets)]
  BY DEF AccountTypeOK
<1>6. IsJoined(own[c], Selected(down[c], Replies), Selected(requests, OwnRequests(c)))
  BY DEF Answering
<1>7. Selected(requests', OwnRequests(c)) = Selected(requests, OwnRequests(c))
  BY <1>1, <1>2, <1>5, OthersRequest
<1>8. CASE c = s
  <2>1. down'[c] = Tail(down[c])
    BY <1>1, <1>5, <1>8
  <2>2. CASE p \in Replies
    <3>1. IsBehind(Selected(down[c], Replies), p, Selected(Tail(down[c]), Replies))
      BY <2>2, <1>1, <1>3, <1>8, SelectedTail
    <3>2. Selected(Tail(down[c]), Replies) \in Seq(AccountPackets)
      <4>1. Tail(down[c]) \in Seq(AccountPackets)
        BY <1>1, <1>3, <1>8
      <4> QED
        BY <4>1, SelectedType
    <3>3. own[c] # <<>>
          /\ IsJoined(Tail(own[c]), Selected(Tail(down[c]), Replies), Selected(requests, OwnRequests(c)))
      <4> DEFINE a == Selected(down[c], Replies)
                 a2 == Selected(Tail(down[c]), Replies)
                 b == Selected(requests, OwnRequests(c))
                 o == own[c]
      <4>1. o \in Seq(AnswerKinds) /\ Len(a2) \in Nat /\ b \in Seq(AccountRequests)
        BY <3>2, <1>5, AnsweringTypes
      <4>2. IsBehind(a, p, a2) /\ IsJoined(o, a, b)
        BY <3>1, <1>6
      <4> HIDE DEF a, a2, b, o, p
      <4>3. Len(b) \in Nat
        BY <4>1
      <4>4. o # <<>> /\ IsJoined(Tail(o), a2, b)
        BY <4>1, <4>2, <4>3, JoinedRead
      <4> QED
        BY <4>4 DEF a2, b, o
    <3>4. own'[c] = Tail(own[c])
      BY <3>3, <2>2, <1>1, <1>4, <1>5, <1>8
    <3> QED
      BY <3>3, <3>4, <2>1, <1>7
  <2>3. CASE p \notin Replies
    <3>1. Selected(down[c], Replies) = Selected(Tail(down[c]), Replies)
      BY <2>3, <1>1, <1>3, <1>8, SelectedTail
    <3>2. own'[c] = own[c]
      BY <2>3, <1>1, <1>4
    <3> QED
      BY <3>1, <3>2, <2>1, <1>6, <1>7
  <2> QED
    BY <2>2, <2>3
<1>9. CASE c # s
  <2>1. own'[c] = own[c] /\ down'[c] = down[c]
    BY <1>1, <1>5, <1>9
  <2> QED
    BY <2>1, <1>6, <1>7
<1> QED
  BY <1>8, <1>9

(* A client that comes has asked for nothing, or is late.                     *)
LEMMA AnsweringConnect ==
  ASSUME AccountTypeOK, Answering, NEW s \in Slots, Connect(s)
  PROVE  Answering'
<1>1. /\ conn' = conn \cup {s} /\ down' = [down EXCEPT ![s] = <<>>] /\ own' = [own EXCEPT ![s] = <<>>]
      /\ late' = IF \E i \in DOMAIN requests : requests[i].slot = s THEN late \cup {s} ELSE late \ {s}
      /\ requests' = requests
  BY DEF Connect
<1> SUFFICES ASSUME NEW c \in conn' \ late'
             PROVE  IsJoined(own'[c], Selected(down'[c], Replies), Selected(requests, OwnRequests(c)))
  BY <1>1 DEF Answering
<1>2. c \in Slots /\ own \in [Slots -> Seq(AnswerKinds)] /\ down \in [Slots -> Seq(AccountPackets)]
      /\ requests \in Seq(AccountRequests)
  BY <1>1 DEF AccountTypeOK
<1>3. CASE c = s
  <2>1. \A i \in 1..Len(requests) : requests[i].slot # s
    BY <1>1, <1>2, <1>3
  <2>2. {requests[i] : i \in 1..Len(requests)} \cap OwnRequests(s) = {}
    BY <2>1 DEF OwnRequests
  <2> DEFINE b == Selected(requests, OwnRequests(s))
  <2>3. {b[i] : i \in 1..Len(b)} = {} /\ b \in Seq(AccountRequests)
    <3>1. {b[i] : i \in 1..Len(b)} = {requests[i] : i \in 1..Len(requests)} \cap OwnRequests(s)
      BY <1>2, SelectedElements
    <3> QED
      BY <3>1, <2>2, <1>2, SelectedType
  <2> HIDE DEF b
  <2>4. Len(b) = 0
    <3>1. Len(b) \in Nat /\ (Len(b) >= 1 => 1 \in 1..Len(b))
      BY <2>3
    <3>2. 1 \notin 1..Len(b)
      BY <2>3
    <3> QED
      BY <3>1, <3>2
  <2>5. own'[c] = <<>> /\ Selected(down'[c], Replies) = <<>>
    BY <1>1, <1>2, <1>3, SelectedOfNone
  <2>6. IsJoined(<<>>, <<>>, b)
    BY <2>4 DEF IsJoined
  <2> QED
    BY <2>5, <2>6, <1>3 DEF b
<1>4. CASE c # s
  <2>1. c \in conn \ late /\ own'[c] = own[c] /\ down'[c] = down[c]
    BY <1>1, <1>2, <1>4
  <2> QED
    BY <2>1 DEF Answering
<1> QED
  BY <1>3, <1>4

(* A request that is answered gives way to its answer.                        *)
LEMMA AnsweringProcess ==
  ASSUME AccountTypeOK, Answering, ProcessRecvPacket \/ ErrorMsg
  PROVE  Answering'
<1> DEFINE r == Head(requests)
<1>1. /\ requests # <<>> /\ r \in AccountRequests /\ UNCHANGED <<conn, own, late>>
      /\ Waits \/ IsAnswered
  BY ProcessSteps
<1>2. requests \in Seq(AccountRequests)
  BY DEF AccountTypeOK
<1>3. CASE Waits
  BY <1>1, <1>3 DEF Waits, Answering
<1> SUFFICES ASSUME IsAnswered
             PROVE  Answering'
  BY <1>1, <1>3
<1>4. r.kind \in PacketKinds
  BY <1>1 DEF AccountRequests, PacketKinds
<1>5. PICK to \in SUBSET Slots, ok \in BOOLEAN :
        SendMsg(to, r.kind, ok) /\ (r.kind \in AnswerKinds => to = {r.slot})
  BY DEF IsAnswered
<1>6. requests' = Tail(requests)
  BY DEF IsAnswered
<1> HIDE DEF r
<1> SUFFICES ASSUME NEW c \in conn \ late
             PROVE  IsJoined(own[c], Selected(down'[c], Replies), Selected(Tail(requests), OwnRequests(c)))
  BY <1>1, <1>6 DEF Answering
<1>7. c \in Slots /\ down[c] \in Seq(AccountPackets)
  BY DEF AccountTypeOK
<1>8. IsJoined(own[c], Selected(down[c], Replies), Selected(requests, OwnRequests(c)))
  BY DEF Answering
<1>9. c \in to => \E p \in AccountPackets : p.kind = r.kind /\ down'[c] = Append(down[c], p)
  <2> SUFFICES ASSUME c \in to
               PROVE  \E p \in AccountPackets : p.kind = r.kind /\ down'[c] = Append(down[c], p)
    OBVIOUS
  <2>1. PICK out \in BOOLEAN : /\ Packet(r.kind, ok, out) \in AccountPackets
                               /\ down'[c] = Append(down[c], Packet(r.kind, ok, out))
    <3>1. Reaches(c, r.kind, ok)
      BY <1>4, <1>5, SendMsgGives
    <3> QED
      BY <3>1 DEF Reaches
  <2>2. Packet(r.kind, ok, out).kind = r.kind
    BY DEF Packet
  <2> QED
    BY <2>1, <2>2
<1>10. c \notin to => down'[c] = down[c]
  BY <1>4, <1>5, <1>7, SendMsgGives
<1>11. CASE r \in OwnRequests(c)
  <2>1. r.kind \in AnswerKinds /\ r.slot = c
    BY <1>1, <1>7, <1>11, WhatCounts
  <2>2. PICK p \in AccountPackets : p.kind = r.kind /\ down'[c] = Append(down[c], p)
    BY <2>1, <1>5, <1>9
  <2>3. p \in Replies
    BY <2>1, <2>2, WhatCounts
  <2>4. Selected(down'[c], Replies) = Append(Selected(down[c], Replies), p)
    BY <2>2, <2>3, <1>7, SelectedAppend
  <2>5. IsBehind(Selected(requests, OwnRequests(c)), r, Selected(Tail(requests), OwnRequests(c)))
    BY <1>1, <1>2, <1>11, SelectedTail DEF r
  <2>6. Selected(Tail(requests), OwnRequests(c)) \in Seq(AccountRequests)
    <3>1. Tail(requests) \in Seq(AccountRequests)
      BY <1>1, <1>2
    <3> QED
      BY <3>1, SelectedType
  <2> DEFINE a == Selected(down[c], Replies)
             b == Selected(requests, OwnRequests(c))
             b2 == Selected(Tail(requests), OwnRequests(c))
             o == own[c]
  <2>7. a \in Seq(AccountPackets) /\ b2 \in Seq(AccountRequests)
    BY <2>6, <1>7, AnsweringTypes
  <2>8. IsBehind(b, r, b2) /\ IsJoined(o, a, b)
    BY <2>5, <1>8
  <2> HIDE DEF a, b, b2, o
  <2>9. Len(b2) \in Nat
    BY <2>7
  <2>10. IsJoined(o, Append(a, p), b2)
    BY <2>7, <2>8, <2>9, <2>2, JoinedAnswered
  <2> QED
    BY <2>4, <2>10 DEF a, b2, o
<1>12. CASE r \notin OwnRequests(c)
  <2>1. Selected(Tail(requests), OwnRequests(c)) = Selected(requests, OwnRequests(c))
    BY <1>1, <1>2, <1>12, SelectedTail DEF r
  <2>2. Selected(down'[c], Replies) = Selected(down[c], Replies)
    <3>1. CASE c \notin to
      BY <3>1, <1>10
    <3>2. CASE c \in to
      <4>1. PICK p \in AccountPackets : p.kind = r.kind /\ down'[c] = Append(down[c], p)
        BY <3>2, <1>9
      <4>2. r.kind \notin AnswerKinds
        BY <3>2, <1>1, <1>5, <1>7, <1>12, WhatCounts
      <4>3. p \notin Replies
        BY <4>1, <4>2, WhatCounts
      <4> QED
        BY <4>1, <4>3, <1>7, SelectedAppend
    <3> QED
      BY <3>1, <3>2
  <2> QED
    BY <2>1, <2>2, <1>8
<1> QED
  BY <1>11, <1>12

(* So it is with every step.                                                  *)
LEMMA AnsweringStep == AccountTypeOK /\ Answering /\ [AccountsNext]_accountVars => Answering'
<1> SUFFICES ASSUME AccountTypeOK, Answering, [AccountsNext]_accountVars
             PROVE  Answering'
  OBVIOUS
<1>1. CASE ProcessRecvPacket \/ ErrorMsg
  BY <1>1, AnsweringProcess
<1>2. CASE DbRun \/ UpdateUser \/ ReadUser \/ DeleteUser \/ DriverChanges
  <2>1. UNCHANGED <<conn, requests, down, own, late>>
    BY <1>2 DEF DbRun, UpdateUser, ReadUser, DeleteUser, DriverChanges, Backstage
  <2> QED
    BY <2>1 DEF Answering
<1>3. ASSUME NEW s \in Slots, Connect(s)
      PROVE  Answering'
  BY <1>3, AnsweringConnect
<1>4. ASSUME NEW s \in Slots, Disconnect(s) \/ FStringToCharArray(s)
      PROVE  Answering'
  <2>1. conn' = conn \ {s} /\ UNCHANGED <<requests, down, own, late>>
    BY <1>4 DEF Disconnect, FStringToCharArray
  <2> QED
    BY <2>1 DEF Answering
<1>5. ASSUME NEW s \in Slots, ReadData(s)
      PROVE  Answering'
  BY <1>5, AnsweringRead
<1>6. ASSUME NEW s \in Slots, SetLoginInfo(s) \/ Login_Signup(s) \/ ChatMsgSend(s)
      PROVE  Answering'
  <2>1. UNCHANGED <<conn, down, late>>
    BY <1>6 DEF SetLoginInfo, Login_Signup, ChatMsgSend
  <2>2. PICK kind \in AnswerKinds \cup {"chat"}, row \in Rows \cup {AnyRow} :
          Send(s, kind, row) /\ (kind \in AnswerKinds => row \in Rows) /\ (kind = "chat" => row = AnyRow)
    BY <1>6 DEF SetLoginInfo, Login_Signup, ChatMsgSend, AnswerKinds
  <2> QED
    BY <2>1, <2>2, AnsweringSend
<1>7. CASE UNCHANGED accountVars
  BY <1>7 DEF accountVars, Answering
<1> QED
  BY <1>1, <1>2, <1>3, <1>4, <1>5, <1>6, <1>7 DEF AccountsNext

\* Where nothing has failed, everything gets out.
Outgoing == \A c \in Slots : c \notin silent => \A i \in DOMAIN down[c] : down[c][i].out
\* A packet that does not get out is queued only where a send has failed.
LEMMA OutgoingStep == AccountTypeOK /\ Outgoing /\ [AccountsNext]_accountVars => Outgoing'
<1> SUFFICES ASSUME AccountTypeOK, Outgoing, [AccountsNext]_accountVars,
                    NEW c \in Slots, c \notin silent', NEW i \in DOMAIN down'[c]
             PROVE  down'[c][i].out
  BY DEF Outgoing
<1>0. down \in [Slots -> Seq(AccountPackets)] /\ down[c] \in Seq(AccountPackets)
  BY DEF AccountTypeOK
<1>1. CASE ProcessRecvPacket \/ ErrorMsg
  <2>1. Head(requests) \in AccountRequests /\ (Waits \/ IsAnswered)
    BY <1>1, ProcessSteps
  <2>2. CASE Waits
    BY <2>2 DEF Waits, Outgoing
  <2>3. CASE IsAnswered
    <3> DEFINE k == Head(requests).kind
    <3>1. PICK to \in SUBSET Slots, ok \in BOOLEAN : SendMsg(to, k, ok)
      BY <2>3 DEF IsAnswered
    <3>2. k \in PacketKinds
      BY <2>1 DEF AccountRequests, PacketKinds
    <3> HIDE DEF k
    <3>3. c \notin silent
      BY <3>1, <3>2, SendMsgGives
    <3>4. CASE c \in to \cap conn
      <4>1. PICK out \in BOOLEAN : /\ c \notin silent' => out
                                   /\ Packet(k, ok, out) \in AccountPackets
                                   /\ down'[c] = Append(down[c], Packet(k, ok, out))
        <5>1. Reaches(c, k, ok)
          BY <3>1, <3>2, <3>4, SendMsgGives
        <5> QED
          BY <5>1 DEF Reaches
      <4> DEFINE p == Packet(k, ok, out)
                 n == Len(down[c])
      <4>2. p.out = TRUE
        BY <4>1 DEF Packet
      <4>3. /\ Len(Append(down[c], p)) = n + 1 /\ Append(down[c], p)[n + 1] = p
            /\ \A j \in 1..n : Append(down[c], p)[j] = down[c][j]
        <5>1. p \in AccountPackets /\ down[c] \in Seq(AccountPackets)
          BY <4>1, <1>0
        <5> HIDE DEF p
        <5> QED
          BY ONLY <5>1, Appended
      <4>4. i \in 1..(n + 1) /\ n \in Nat /\ (\A j \in 1..n : down[c][j].out)
        <5>1. DOMAIN down'[c] = 1..Len(down'[c])
          <6>1. Append(down[c], p) \in Seq(AccountPackets)
            BY <4>1, <1>0, Appended
          <6> QED
            BY <6>1, <4>1
        <5>2. DOMAIN down[c] = 1..n /\ n \in Nat
          BY <1>0
        <5> QED
          BY <5>1, <5>2, <4>1, <4>3, <3>3 DEF Outgoing
      <4> HIDE DEF p, n
      <4>5. i = n + 1 \/ i \in 1..n
        BY <4>4
      <4> QED
        BY <4>1, <4>2, <4>3, <4>4, <4>5 DEF p
    <3>5. CASE c \notin to \cap conn
      <4>1. down'[c] = down[c]
        BY <3>1, <3>2, <3>5, SendMsgGives
      <4> QED
        BY <4>1, <3>3 DEF Outgoing
    <3> QED
      BY <3>4, <3>5
  <2> QED
    BY <2>1, <2>2, <2>3
<1>2. ASSUME NEW s \in Slots, Connect(s)
      PROVE  down'[c][i].out
  <2>1. down' = [down EXCEPT ![s] = <<>>] /\ silent' = silent
    BY <1>2 DEF Connect
  <2>2. c # s
    BY <2>1, <1>0
  <2> QED
    BY <2>1, <2>2, <1>0 DEF Outgoing
<1>3. ASSUME NEW s \in Slots, ReadData(s)
      PROVE  down'[c][i].out
  <2>1. down[s] # <<>> /\ down' = [down EXCEPT ![s] = Tail(down[s])] /\ silent' = silent
    BY <1>3 DEF ReadData
  <2>2. CASE c = s
    <3> DEFINE q == down[c]
               t == Tail(q)
    <3>1. q \in Seq(AccountPackets) /\ q # <<>> /\ down'[c] = t
      BY <2>1, <2>2, <1>0
    <3>2. Len(t) = Len(q) - 1 /\ t \in Seq(AccountPackets) /\ \A j \in 1..Len(t) : t[j] = q[j + 1]
      BY <3>1
    <3>3. \A j \in 1..Len(q) : q[j].out
      BY <2>1, <1>0 DEF Outgoing
    <3> HIDE DEF q, t
    <3>4. i \in 1..Len(t) /\ Len(q) \in Nat
      BY <3>1, <3>2
    <3>5. i + 1 \in 1..Len(q)
      BY <3>2, <3>4
    <3> QED
      BY <3>1, <3>2, <3>3, <3>4, <3>5
  <2>3. CASE c # s
    BY <2>1, <2>3, <1>0 DEF Outgoing
  <2> QED
    BY <2>2, <2>3
<1>4. ASSUME NEW s \in Slots, Disconnect(s) \/ FStringToCharArray(s)
      PROVE  down'[c][i].out
  <2>1. down' = down /\ silent \subseteq silent'
    BY <1>4 DEF Disconnect, FStringToCharArray
  <2> QED
    BY <2>1 DEF Outgoing
<1>5. CASE UNCHANGED <<down, silent>>
  BY <1>5 DEF Outgoing
<1>6. ASSUME NEW s \in Slots, SetLoginInfo(s) \/ Login_Signup(s) \/ ChatMsgSend(s)
      PROVE  UNCHANGED <<down, silent>>
  BY <1>6 DEF SetLoginInfo, Login_Signup, ChatMsgSend
<1>7. DbRun \/ UpdateUser \/ ReadUser \/ DeleteUser \/ DriverChanges \/ UNCHANGED accountVars
        => UNCHANGED <<down, silent>>
  BY DEF DbRun, UpdateUser, ReadUser, DeleteUser, DriverChanges, Backstage, accountVars
<1> QED
  BY <1>1, <1>2, <1>3, <1>4, <1>5, <1>6, <1>7 DEF AccountsNext

(* Every login and every sign-up of a client gets one answer, in the order    *)
(* they were sent, whatever else is asked and answered in between, and it     *)
(* gets out unless a WSASend of the slot has failed, in a slot that was not   *)
(* taken over with requests of its last client still waiting                  *)
(* (PacketManager.cpp:197-320, IocpNetServer.h:152-169, ClientInfo.h:189-269). *)
THEOREM EveryAskerIsAnsweredOnce == AccountsSpec => []OneAnswerEach
<1>1. AccountsInit => AccountTypeOK /\ Answering /\ Outgoing
  <2>1. AccountsInit => Answering
    BY DEF AccountsInit, Answering
  <2>2. AccountsInit => Outgoing
    BY DEF AccountsInit, Outgoing
  <2> QED
    BY <2>1, <2>2, AccountInitHolds
<1>2. AccountTypeOK /\ Answering /\ Outgoing /\ [AccountsNext]_accountVars
        => AccountTypeOK' /\ Answering' /\ Outgoing'
  BY AccountTypeStep, AnsweringStep, OutgoingStep
<1>3. AccountTypeOK /\ Answering /\ Outgoing => OneAnswerEach
  <2> SUFFICES ASSUME AccountTypeOK, Answering, Outgoing, NEW s \in conn \ late
               PROVE  own[s] = Kinds(Selected(down[s], Replies)) \o Kinds(Selected(requests, OwnRequests(s)))
    BY DEF OneAnswerEach, Outgoing, AccountTypeOK
  <2> DEFINE A == {p \in AccountPackets : p.kind \in AnswerKinds}
             B == {e \in AccountRequests : e.kind \in AnswerKinds}
             a == Selected(down[s], Replies)
             b == Selected(requests, OwnRequests(s))
  <2>1. s \in Slots /\ own[s] \in Seq(AnswerKinds) /\ IsJoined(own[s], a, b)
        /\ a \in Seq(AccountPackets) /\ b \in Seq(AccountRequests)
    <3>1. s \in Slots
      BY DEF AccountTypeOK
    <3> QED
      BY <3>1, AnsweringTypes DEF Answering
  <2>2. {a[i] : i \in 1..Len(a)} \subseteq Replies
    BY SelectedElements, <2>1 DEF AccountTypeOK
  <2>3. {b[i] : i \in 1..Len(b)} \subseteq OwnRequests(s)
    BY SelectedElements, <2>1 DEF AccountTypeOK
  <2> HIDE DEF a, b
  <2>4. \A i \in 1..Len(a) : a[i] \in AccountPackets /\ a[i].kind \in AnswerKinds
    <3>1. \A p \in Replies : p.kind \in AnswerKinds
      BY DEF Replies, AnswerKinds
    <3> QED
      BY <3>1, <2>1, <2>2
  <2>5. \A i \in 1..Len(b) : b[i] \in AccountRequests /\ b[i].kind \in AnswerKinds
    <3>1. \A e \in OwnRequests(s) : e.kind \in AnswerKinds
      BY DEF OwnRequests, AnswerKinds
    <3> QED
      BY <3>1, <2>1, <2>3
  <2>6. a \in Seq(A) /\ b \in Seq(B)
    <3>1. \A i \in 1..Len(a) : a[i] \in A
      BY <2>4
    <3>2. \A i \in 1..Len(b) : b[i] \in B
      BY <2>5
    <3> HIDE DEF A, B
    <3> QED
      BY <3>1, <3>2, <2>1
  <2>7. (\A p \in A : p.kind \in AnswerKinds) /\ (\A e \in B : e.kind \in AnswerKinds)
    OBVIOUS
  <2> HIDE DEF A, B
  <2>8. own[s] = Kinds(a) \o Kinds(b)
    BY <2>1, <2>6, <2>7, JoinedIsTheWhole
  <2> QED
    BY <2>8 DEF a, b
<1> QED
  BY <1>1, <1>2, <1>3, PTL DEF AccountsSpec

----------------------------------------------------------------------------
(* The screens: the top of the stack is the current scene.                    *)

Widgets ==
  [live : BOOLEAN, shown : BOOLEAN, state : {"None", "Opened", "Closed"}, hidden : BOOLEAN,
   closing : BOOLEAN, panel : {"none", "touch", "id"}]
LoginSequences == {"Splash", "LoginPageStart", "WaitingForTouch", "ConnectLoginServerReady", "ConnectLoginServer"}
Huds ==
  [cur : Scenes \cup {NoScene}, stack : Seq(Scenes), children : [Scenes -> Seq(Scenes)],
   widget : [Scenes -> Widgets], sequence : LoginSequences]

\* Only scenes of the stack have children, unless that is lost.
Homed(lost, h) == lost \/ \A s \in Scenes : h.children[s] # <<>> => Contains(h.stack, s)
Topped(h) == h.stack # <<>> => Last(h.stack) = h.cur
SameScreens(h, g) == g.cur = h.cur /\ g.stack = h.stack /\ g.children = h.children

(* The three scenes are three.                                                *)
LEMMA ThreeScenes ==
  Launcher \in Scenes /\ Login \in Scenes /\ Menu \in Scenes /\ NoScene \notin Scenes /\ Uncreated \in Widgets
BY FrontendAssumption DEF Scenes, Uncreated, Widgets

\* What happens to one widget leaves the scenes alone.
LEMMA OneWidget ==
  ASSUME NEW h \in Huds, NEW w \in Scenes, NEW x \in Widgets
  PROVE  [h EXCEPT !.widget[w] = x] \in Huds /\ SameScreens(h, [h EXCEPT !.widget[w] = x])
BY DEF Huds, SameScreens

\* The same for each of the things that happen to one.
LEMMA WidgetCalls ==
  ASSUME NEW h \in Huds, NEW w \in Scenes
  PROVE  /\ GetOrCreateWidget(h, w) \in Huds /\ SameScreens(h, GetOrCreateWidget(h, w))
         /\ ForceHide(h, w) \in Huds /\ SameScreens(h, ForceHide(h, w))
         /\ RestoreFromForceHidden(h, w) \in Huds /\ SameScreens(h, RestoreFromForceHidden(h, w))
         /\ OnOpen(h, w) \in Huds /\ SameScreens(h, OnOpen(h, w))
         /\ Destroy(h, w) \in Huds /\ SameScreens(h, Destroy(h, w))
         /\ OnClose(h, w) \in Huds /\ SameScreens(h, OnClose(h, w))
         /\ Closed(h, w) \in Huds /\ SameScreens(h, Closed(h, w))
<1>1. h.widget \in [Scenes -> Widgets] /\ h.widget[w] \in Widgets
  BY DEF Huds
<1>2. GetOrCreateWidget(h, w) \in Huds /\ SameScreens(h, GetOrCreateWidget(h, w))
  <2>1. [Uncreated EXCEPT !.live = TRUE] \in Widgets
    BY DEF Uncreated, Widgets
  <2> QED
    BY <2>1, OneWidget DEF GetOrCreateWidget, SameScreens
<1>3. ForceHide(h, w) \in Huds /\ SameScreens(h, ForceHide(h, w))
  BY <1>1 DEF ForceHide, Huds, Widgets, SameScreens
<1>4. RestoreFromForceHidden(h, w) \in Huds /\ SameScreens(h, RestoreFromForceHidden(h, w))
  BY <1>1 DEF RestoreFromForceHidden, Huds, Widgets, SameScreens
<1>5. OnOpen(h, w) \in Huds /\ SameScreens(h, OnOpen(h, w))
  BY <1>1 DEF OnOpen, Huds, Widgets, SameScreens, LoginSequences
<1>6. ASSUME NEW g \in Huds
      PROVE  Destroy(g, w) \in Huds /\ SameScreens(g, Destroy(g, w))
  <2>1. g.widget[w] \in Widgets
    BY DEF Huds
  <2> QED
    BY <2>1 DEF Destroy, Huds, Widgets, SameScreens
<1>7. OnClose(h, w) \in Huds /\ SameScreens(h, OnClose(h, w))
  <2> DEFINE c == [h EXCEPT !.widget[w].state = "Closed"]
             d == [c EXCEPT !.widget[w].closing = TRUE]
  <2>1. c \in Huds /\ SameScreens(h, c)
    BY <1>1 DEF Huds, Widgets, SameScreens
  <2>2. c.widget[w] \in Widgets
    BY <2>1 DEF Huds
  <2>3. OnClose(h, w) = IF w \in HasCloseAnim THEN d ELSE Destroy(c, w)
    BY DEF OnClose
  <2> HIDE DEF c
  <2>4. d \in Huds /\ SameScreens(c, d)
    BY <2>1, <2>2 DEF Huds, Widgets, SameScreens
  <2>5. Destroy(c, w) \in Huds /\ SameScreens(c, Destroy(c, w))
    BY <2>1, <1>6
  <2> HIDE DEF d
  <2> QED
    BY <2>1, <2>3, <2>4, <2>5 DEF SameScreens
<1>8. Closed(h, w) \in Huds /\ SameScreens(h, Closed(h, w))
  BY <1>7 DEF Closed, SameScreens
<1> QED
  BY <1>2, <1>3, <1>4, <1>5, <1>6, <1>7, <1>8

\* Taking a scene out of a list leaves the others in.
LEMMA WithoutOne ==
  ASSUME NEW seq \in Seq(Scenes), NEW w \in Scenes
  PROVE  /\ Without(seq, w) \in Seq(Scenes)
         /\ Without(seq, w) # <<>> => seq # <<>>
         /\ \A s \in Scenes : s # w => (Contains(Without(seq, w), s) <=> Contains(seq, s))
<1> DEFINE rest == Scenes \ {w}
           u == Selected(seq, rest)
<1>1. Without(seq, w) = u
  BY DEF Without
<1>2. \A s : s \in rest <=> s \in Scenes /\ s # w
  OBVIOUS
<1> HIDE DEF rest
<1>3. u \in Seq(Scenes)
  BY SelectedType
<1>4. {u[i] : i \in 1..Len(u)} = {seq[i] : i \in 1..Len(seq)} \cap rest
  BY SelectedElements
<1> HIDE DEF u
<1>5. \A s \in Scenes : s # w => (Contains(u, s) <=> Contains(seq, s))
  <2>1. \A s : (Contains(u, s) <=> s \in {u[i] : i \in 1..Len(u)}) /\ (Contains(seq, s) <=> s \in {seq[i] : i \in 1..Len(seq)})
    BY DEF Contains
  <2> QED
    BY <1>2, <1>4, <2>1
<1>6. ASSUME u # <<>>
      PROVE  seq # <<>>
  <2>1. 1 \in 1..Len(u)
    BY <1>3, <1>6
  <2>2. u[1] \in {seq[i] : i \in 1..Len(seq)}
    BY <2>1, <1>4
  <2> QED
    BY <2>2
<1> QED
  BY <1>1, <1>3, <1>5, <1>6

\* There is a least number in a set of numbers that is not empty.
LEMMA LeastOf ==
  ASSUME NEW S, S \subseteq Nat, S # {}
  PROVE  \E i \in S : \A j \in S : i <= j
<1> DEFINE T == {n \in Nat : \A j \in S : n <= j}
<1>1. SUFFICES ASSUME \A i \in S : \E j \in S : ~(i <= j)
               PROVE  FALSE
  OBVIOUS
<1>2. 0 \in T
  OBVIOUS
<1>3. ASSUME NEW n \in Nat, n \in T
      PROVE  n + 1 \in T
  <2>1. n \notin S
    BY <1>1, <1>3
  <2>2. \A j \in S : n + 1 <= j
    BY <2>1, <1>3
  <2> QED
    BY <2>2
<1>4. Nat \subseteq T
  <2> HIDE DEF T
  <2> QED
    BY <1>2, <1>3, Induction
<1>5. PICK j \in S : TRUE
  OBVIOUS
<1>6. j + 1 \in T
  BY <1>4, <1>5
<1> QED
  BY <1>5, <1>6

\* What is below the current scene is of the stack.
LEMMA BelowIsOfTheStack ==
  ASSUME NEW h \in Huds
  PROVE  Below(h) = NoScene \/ (Below(h) \in Scenes /\ Contains(h.stack, Below(h)))
<1> DEFINE found == {i \in DOMAIN h.stack : h.stack[i] = h.cur}
           Above(i) == i + 1 \in found /\ \A j \in found : i < j
<1>1. h.stack \in Seq(Scenes) /\ DOMAIN h.stack = 1..Len(h.stack) /\ Len(h.stack) \in Nat
  BY DEF Huds
<1>2. CASE found = {} \/ 1 \in found
  BY <1>2 DEF Below
<1>3. CASE ~(found = {} \/ 1 \in found)
  <2>1. found \subseteq Nat /\ found \subseteq 1..Len(h.stack)
    BY <1>1
  <2> DEFINE k == CHOOSE i \in DOMAIN h.stack : Above(i)
  <2>2. Below(h) = h.stack[k]
    BY <1>3 DEF Below
  <2> HIDE DEF found
  <2>3. PICK m \in found : \A j \in found : m <= j
    BY <1>3, <2>1, LeastOf
  <2>4. m \in 1..Len(h.stack) /\ m # 1
    BY <2>1, <2>3, <1>3
  <2>5. m - 1 \in DOMAIN h.stack /\ Above(m - 1)
    BY <1>1, <2>1, <2>3, <2>4
  <2>6. k \in DOMAIN h.stack
    BY <2>5
  <2> HIDE DEF k
  <2> QED
    BY <2>2, <2>6, <1>1 DEF Contains
<1> QED
  BY <1>2, <1>3

Relisted(h, s, seq) == [h EXCEPT !.children[s] = seq]
\* A list of children that changes, but not from nothing to something.
LEMMA OneList ==
  ASSUME NEW h \in Huds, NEW lost \in BOOLEAN, NEW s \in Scenes, NEW seq \in Seq(Scenes), Homed(lost, h),
         seq # <<>> => h.children[s] # <<>> \/ Contains(h.stack, s)
  PROVE  /\ Relisted(h, s, seq) \in Huds /\ Homed(lost, Relisted(h, s, seq))
         /\ Relisted(h, s, seq).cur = h.cur /\ Relisted(h, s, seq).stack = h.stack
<1> DEFINE g == Relisted(h, s, seq)
<1>1. g \in Huds /\ g.cur = h.cur /\ g.stack = h.stack
      /\ \A c \in Scenes : g.children[c] = IF c = s THEN seq ELSE h.children[c]
  BY DEF Huds, Relisted
<1> HIDE DEF g
<1>2. Homed(lost, g)
  BY <1>1 DEF Homed
<1> QED
  BY <1>1, <1>2 DEF g

(* What is taken out of the open widgets leaves the others.                   *)
LEMMA TakenKeeps ==
  ASSUME NEW h \in Huds, NEW lost \in BOOLEAN, Homed(lost, h), NEW w \in Scenes
  PROVE  Taken(h, w) \in Huds /\ Homed(lost, Taken(h, w)) /\ Taken(h, w).cur = h.cur /\ Taken(h, w).stack = h.stack
<1> DEFINE holding == {i \in DOMAIN h.stack : Contains(h.children[h.stack[i]], w)}
           s == h.stack[CHOOSE i \in holding : \A j \in holding : i <= j]
<1>1. CASE ~h.widget[w].shown \/ holding = {}
  BY <1>1 DEF Taken
<1>2. CASE ~(~h.widget[w].shown \/ holding = {})
  <2>1. Taken(h, w) = Relisted(h, s, Without(h.children[s], w))
    BY <1>2 DEF Taken, Relisted
  <2>2. CASE s \in Scenes
    <3>1. h.children[s] \in Seq(Scenes)
      BY <2>2 DEF Huds
    <3> HIDE DEF s
    <3>2. Without(h.children[s], w) \in Seq(Scenes)
          /\ (Without(h.children[s], w) # <<>> => h.children[s] # <<>>)
      BY <3>1, WithoutOne
    <3> QED
      BY <2>1, <2>2, <3>2, OneList
  <2>3. CASE s \notin Scenes
    <3> HIDE DEF s
    <3>1. Relisted(h, s, Without(h.children[s], w)) = h
      BY <2>3 DEF Huds, Relisted
    <3> QED
      BY <2>1, <3>1
  <2> QED
    BY <2>2, <2>3
<1> QED
  BY <1>1, <1>2

\* A widget that opens: the current scene and the stack stay.
LEMMA OpenUIKeeps ==
  ASSUME NEW was \in Huds, NEW lost \in BOOLEAN, Homed(lost, was), NEW w \in Scenes, NEW pre \in BOOLEAN
  PROVE  /\ OpenUI(was, w, pre) \in Huds /\ Homed(lost, OpenUI(was, w, pre))
         /\ OpenUI(was, w, pre).cur = was.cur /\ OpenUI(was, w, pre).stack = was.stack
<1> DEFINE h == GetOrCreateWidget(was, w)
           below == IF pre THEN Below(h) ELSE NoScene
           again == IF ~pre /\ Contains(h.children[h.cur], w)
                    THEN [h EXCEPT !.children[h.cur] = Append(@, w)] ELSE h
           under == IF Contains(h.children[below], w) THEN h
                    ELSE [h EXCEPT !.children[below] = Append(@, w)]
           Keeps(g) == g \in Huds /\ Homed(lost, g) /\ g.cur = was.cur /\ g.stack = was.stack
<1>1. h \in Huds /\ SameScreens(was, h)
  BY WidgetCalls
<1>2. below = NoScene \/ (below \in Scenes /\ Contains(h.stack, below))
  BY <1>1, BelowIsOfTheStack
<1>3. /\ ~pre /\ h.cur = NoScene => OpenUI(was, w, pre) = h
      /\ ~(~pre /\ h.cur = NoScene) /\ below # NoScene =>
           OpenUI(was, w, pre) = ForceHide(OnOpen(under, w), w)
      /\ ~(~pre /\ h.cur = NoScene) /\ below = NoScene =>
           OpenUI(was, w, pre) = RestoreFromForceHidden(OnOpen(Taken(again, w), w), w)
  BY DEF OpenUI
<1>4. Keeps(h)
  BY <1>1 DEF SameScreens, Homed
<1>5. ASSUME NEW g, NEW f, Keeps(g), f \in Huds, SameScreens(g, f)
      PROVE  Keeps(f)
  BY <1>5 DEF SameScreens, Homed
<1>6. \A s \in Scenes : h.children[s] \in Seq(Scenes) /\ Append(h.children[s], w) \in Seq(Scenes)
  BY <1>1 DEF Huds
<1> HIDE DEF h, below
<1>7. ASSUME below # NoScene
      PROVE  Keeps(under)
  <2>1. below \in Scenes /\ Contains(h.stack, below)
    BY <1>2, <1>7
  <2>2. under = h \/ under = Relisted(h, below, Append(h.children[below], w))
    BY DEF Relisted
  <2> DEFINE longer == Append(h.children[below], w)
             g == Relisted(h, below, longer)
  <2>3. longer \in Seq(Scenes)
    BY <2>1, <1>6
  <2> HIDE DEF longer
  <2>4. g \in Huds /\ Homed(lost, g) /\ g.cur = h.cur /\ g.stack = h.stack
    BY <2>1, <2>3, <1>4, OneList
  <2>5. Keeps(g)
    BY <2>4, <1>4
  <2>6. under = h \/ under = g
    BY <2>2 DEF longer
  <2> HIDE DEF under, g, Keeps
  <2> QED
    BY <2>5, <2>6, <1>4
<1>8. ASSUME ~(~pre /\ h.cur = NoScene)
      PROVE  Keeps(again)
  <2>1. CASE ~pre /\ Contains(h.children[h.cur], w)
    <3>1. h.cur \in Scenes
      BY <2>1, <1>4, <1>8 DEF Huds
    <3>2. h.children[h.cur] # <<>>
      BY <2>1, <3>1, <1>6 DEF Contains
    <3>3. again = Relisted(h, h.cur, Append(h.children[h.cur], w))
      BY <2>1 DEF Relisted
    <3> HIDE DEF again
    <3> QED
      BY <3>1, <3>2, <3>3, <1>4, <1>6, OneList
  <2>2. CASE ~(~pre /\ Contains(h.children[h.cur], w))
    BY <2>2, <1>4
  <2> QED
    BY <2>1, <2>2
<1> HIDE DEF under, again
<1>9. CASE ~pre /\ h.cur = NoScene
  BY <1>3, <1>4, <1>9
<1>10. CASE ~(~pre /\ h.cur = NoScene) /\ below # NoScene
  <2>1. Keeps(under)
    BY <1>7, <1>10
  <2>2. Keeps(OnOpen(under, w))
    BY <2>1, <1>5, WidgetCalls
  <2> HIDE DEF Keeps
  <2>3. OnOpen(under, w) \in Huds
    BY <2>2 DEF Keeps
  <2>4. Keeps(ForceHide(OnOpen(under, w), w))
    BY <2>2, <2>3, <1>5, WidgetCalls
  <2> QED
    BY <2>4, <1>3, <1>10 DEF Keeps
<1>11. CASE ~(~pre /\ h.cur = NoScene) /\ below = NoScene
  <2> DEFINE t == Taken(again, w)
             o == OnOpen(t, w)
  <2>1. Keeps(again)
    BY <1>8, <1>11
  <2>2. Keeps(t)
    BY <2>1, TakenKeeps
  <2> HIDE DEF t
  <2>3. Keeps(o)
    BY <2>2, <1>5, WidgetCalls
  <2> HIDE DEF o
  <2>4. Keeps(RestoreFromForceHidden(o, w))
    BY <2>3, <1>5, WidgetCalls
  <2> QED
    BY <2>4, <1>3, <1>11 DEF o, t
<1> QED
  BY <1>9, <1>10, <1>11

\* The children of a scene that is left are hidden; the list may lose its end.
LEMMA HideChildrenKeeps ==
  ASSUME NEW h \in Huds, NEW lost \in BOOLEAN, Homed(lost, h), NEW s \in Scenes
  PROVE  /\ HideChildren(h, s) \in Huds /\ Homed(lost, HideChildren(h, s))
         /\ HideChildren(h, s).cur = h.cur /\ HideChildren(h, s).stack = h.stack
         /\ \A c \in Scenes : c # s => HideChildren(h, s).children[c] = h.children[c]
<1> DEFINE kids == h.children[s]
           dead == {i \in DOMAIN kids : ~h.widget[kids[i]].live}
           gone == Cardinality(dead)
           rest == SubSeq(kids, 1, Len(kids) - gone)
           drawn == [w \in Scenes |-> IF Contains(kids, w) /\ h.widget[w].live
                                       THEN [h.widget[w] EXCEPT !.hidden = TRUE] ELSE h.widget[w]]
           g == [h EXCEPT !.children[s] = rest, !.widget = drawn]
<1>1. HideChildren(h, s) = g
  BY DEF HideChildren
<1>2. kids \in Seq(Scenes) /\ DOMAIN kids = 1..Len(kids) /\ Len(kids) \in Nat
  BY DEF Huds
<1>3. gone \in Nat /\ gone <= Len(kids)
  <2>1. IsFiniteSet(1..Len(kids)) /\ Cardinality(1..Len(kids)) = Len(kids)
    BY <1>2, FS_Interval
  <2>2. dead \subseteq 1..Len(kids)
    BY <1>2
  <2> HIDE DEF dead, kids
  <2> QED
    BY <2>1, <2>2, FS_Subset, FS_CardinalityType
<1>4. drawn \in [Scenes -> Widgets]
  <2>1. \A w \in Scenes : h.widget[w] \in Widgets /\ [h.widget[w] EXCEPT !.hidden = TRUE] \in Widgets
    BY DEF Huds, Widgets
  <2> QED
    BY <2>1
<1> HIDE DEF kids, gone, drawn
<1>5. rest \in Seq(Scenes) /\ (kids = <<>> => rest = <<>>)
  <2>1. Len(kids) - gone \in 0..Len(kids)
    BY <1>2, <1>3
  <2>2. rest \in Seq(Scenes) /\ Len(rest) = Len(kids) - gone
    BY <2>1, <1>2, SubSeqProperties
  <2> QED
    BY <2>1, <2>2, <1>2
<1> HIDE DEF rest
<1>6. /\ g \in Huds /\ g.cur = h.cur /\ g.stack = h.stack
      /\ \A c \in Scenes : g.children[c] = IF c = s THEN rest ELSE h.children[c]
  BY <1>4, <1>5 DEF Huds
<1> HIDE DEF g
<1>7. Homed(lost, g)
  BY <1>5, <1>6 DEF Homed, kids
<1> QED
  BY <1>1, <1>6, <1>7

\* Appending to the stack leaves what is in it there and puts the scene on top.
LEMMA OnTop ==
  ASSUME NEW seq \in Seq(Scenes), NEW s \in Scenes
  PROVE  /\ Append(seq, s) \in Seq(Scenes) /\ Append(seq, s) # <<>> /\ Last(Append(seq, s)) = s
         /\ Contains(Append(seq, s), s)
         /\ \A c \in Scenes : Contains(seq, c) => Contains(Append(seq, s), c)
<1> DEFINE v == Append(seq, s)
<1>1. /\ v \in Seq(Scenes) /\ Len(v) = Len(seq) + 1 /\ Len(seq) \in Nat
      /\ v[Len(seq) + 1] = s /\ \A i \in 1..Len(seq) : v[i] = seq[i]
  BY Appended
<1> HIDE DEF v
<1>2. v # <<>> /\ Last(v) = s
  BY <1>1 DEF Last
<1>3. Contains(v, s)
  <2>1. Len(seq) + 1 \in 1..Len(v)
    BY <1>1
  <2> QED
    BY <2>1, <1>1 DEF Contains
<1>4. ASSUME NEW c \in Scenes, Contains(seq, c)
      PROVE  Contains(v, c)
  <2>1. PICK i \in 1..Len(seq) : seq[i] = c
    BY <1>4 DEF Contains
  <2>2. i \in 1..Len(v) /\ v[i] = c
    BY <2>1, <1>1
  <2> QED
    BY <2>2 DEF Contains
<1> QED
  BY <1>1, <1>2, <1>3, <1>4 DEF v

\* A scene that is raised out of the stack: no other leaves it.
LEMMA RaisedIsOnTop ==
  ASSUME NEW h \in Huds, NEW lost \in BOOLEAN, Homed(lost, h), NEW s \in Scenes
  PROVE  /\ RaiseOnTopFromStack(h, s) \in Huds /\ Homed(lost, RaiseOnTopFromStack(h, s))
         /\ h.cur = s /\ Contains(h.stack, s) => Topped(RaiseOnTopFromStack(h, s))
<1>1. CASE ~Contains(h.stack, s)
  BY <1>1 DEF RaiseOnTopFromStack
<1>2. CASE Contains(h.stack, s)
  <2> DEFINE rest == Without(h.stack, s)
             raised == [h EXCEPT !.stack = Append(rest, s)]
  <2>1. RaiseOnTopFromStack(h, s) = raised
    BY <1>2 DEF RaiseOnTopFromStack
  <2>2. h.stack \in Seq(Scenes)
    BY DEF Huds
  <2>3. rest \in Seq(Scenes) /\ \A c \in Scenes : c # s => (Contains(rest, c) <=> Contains(h.stack, c))
    BY <2>2, WithoutOne
  <2> HIDE DEF rest
  <2>4. /\ raised \in Huds /\ raised.cur = h.cur /\ raised.stack = Append(rest, s)
        /\ raised.children = h.children
    BY <2>3, OnTop DEF Huds
  <2> HIDE DEF raised
  <2>5. ASSUME NEW c \in Scenes, Contains(h.stack, c)
        PROVE  Contains(raised.stack, c)
    BY <2>3, <2>4, <2>5, OnTop
  <2>6. Homed(lost, raised) /\ (h.cur = s => Topped(raised))
    BY <2>3, <2>4, <2>5, OnTop DEF Homed, Topped
  <2> QED
    BY <2>1, <2>4, <2>6
<1> QED
  BY <1>1, <1>2

\* A scene that comes back is raised.
LEMMA RestoreSceneTops ==
  ASSUME NEW h \in Huds, NEW lost \in BOOLEAN, Homed(lost, h), NEW s \in Scenes, h.cur = s,
         h.children[s] # <<>>
  PROVE  /\ RestoreScene(h, s) \in Huds /\ Homed(lost, RestoreScene(h, s))
         /\ ~lost => Topped(RestoreScene(h, s))
<1> DEFINE kids == ToSet(h.children[s])
           drawn == [w \in Scenes |->
                       IF w \in kids THEN [GetOrCreateWidget(h, w).widget[w] EXCEPT !.hidden = FALSE]
                       ELSE h.widget[w]]
           back == [h EXCEPT !.widget = drawn]
<1>1. RestoreScene(h, s) = RaiseOnTopFromStack(back, s)
  BY DEF RestoreScene
<1>2. drawn \in [Scenes -> Widgets]
  <2>1. \A w \in Scenes : GetOrCreateWidget(h, w).widget[w] \in Widgets /\ h.widget[w] \in Widgets
    <3>1. \A g \in Huds : \A w \in Scenes : g.widget[w] \in Widgets
      BY DEF Huds
    <3>2. \A w \in Scenes : GetOrCreateWidget(h, w) \in Huds
      BY WidgetCalls, Zenon
    <3> QED
      BY <3>1, <3>2, Zenon
  <2>2. \A x \in Widgets : [x EXCEPT !.hidden = FALSE] \in Widgets
    BY DEF Widgets
  <2>3. ASSUME NEW w \in Scenes
        PROVE  [GetOrCreateWidget(h, w).widget[w] EXCEPT !.hidden = FALSE] \in Widgets
    <3> DEFINE x == GetOrCreateWidget(h, w).widget[w]
    <3>1. x \in Widgets
      BY <2>1
    <3> HIDE DEF x
    <3>2. [x EXCEPT !.hidden = FALSE] \in Widgets
      BY <2>2, <3>1
    <3> QED
      BY <3>2 DEF x
  <2> QED
    BY <2>1, <2>3
<1> HIDE DEF drawn, kids
<1>3. back \in Huds /\ SameScreens(h, back)
  BY <1>2 DEF Huds, SameScreens
<1> HIDE DEF back
<1>4. Homed(lost, back) /\ back.cur = s /\ back.children[s] # <<>>
  BY <1>3 DEF Homed, SameScreens
<1>5. /\ RaiseOnTopFromStack(back, s) \in Huds /\ Homed(lost, RaiseOnTopFromStack(back, s))
      /\ ~lost => Topped(RaiseOnTopFromStack(back, s))
  BY <1>3, <1>4, RaisedIsOnTop DEF Homed
<1> QED
  BY <1>1, <1>5

(* Closing one widget keeps the current scene and the stack.                  *)
LEMMA CloseUIKeeps ==
  ASSUME NEW h \in Huds, NEW lost \in BOOLEAN, Homed(lost, h), NEW w \in Scenes
  PROVE  /\ CloseUI(h, w) \in Huds /\ Homed(lost, CloseUI(h, w))
         /\ CloseUI(h, w).cur = h.cur /\ CloseUI(h, w).stack = h.stack
<1> DEFINE g == OnClose(h, w)
<1>1. g \in Huds /\ SameScreens(h, g)
  BY WidgetCalls
<1>2. \/ CloseUI(h, w) = h \/ CloseUI(h, w) = g
      \/ h.cur # NoScene /\ CloseUI(h, w) = Relisted(g, h.cur, Without(g.children[h.cur], w))
  BY DEF CloseUI, Relisted
<1> HIDE DEF g
<1>3. Homed(lost, g) /\ g.cur = h.cur /\ g.stack = h.stack
  BY <1>1 DEF Homed, SameScreens
<1>4. ASSUME h.cur # NoScene
      PROVE  LET f == Relisted(g, h.cur, Without(g.children[h.cur], w))
             IN  f \in Huds /\ Homed(lost, f) /\ f.cur = h.cur /\ f.stack = h.stack
  <2> DEFINE seq == Without(g.children[h.cur], w)
  <2>1. h.cur \in Scenes
    BY <1>4 DEF Huds
  <2>2. seq \in Seq(Scenes) /\ (seq # <<>> => g.children[h.cur] # <<>>)
    <3>1. g.children[h.cur] \in Seq(Scenes)
      BY <2>1, <1>1 DEF Huds
    <3> QED
      BY <3>1, WithoutOne
  <2> HIDE DEF seq
  <2>3. /\ Relisted(g, h.cur, seq) \in Huds /\ Homed(lost, Relisted(g, h.cur, seq))
        /\ Relisted(g, h.cur, seq).cur = g.cur /\ Relisted(g, h.cur, seq).stack = g.stack
    BY <2>1, <2>2, <1>1, <1>3, OneList
  <2> QED
    BY <2>3, <1>3 DEF seq
<1> QED
  BY <1>1, <1>2, <1>3, <1>4

(* However many of its children it closes, so does opening it without them.   *)
LEMMA CloseOthersKeeps ==
  ASSUME NEW h \in Huds, NEW lost \in BOOLEAN, Homed(lost, h), NEW s \in Scenes
  PROVE  CloseOthers(h, s) \in Huds /\ Homed(lost, CloseOthers(h, s))
<1>1. ASSUME NEW g \in Huds, Homed(lost, g)
      PROVE  CloseLast(g, s) \in Huds /\ Homed(lost, CloseLast(g, s))
  <2>1. g.children[s] \in Seq(Scenes)
    BY DEF Huds
  <2>2. Len(g.children[s]) > 1 => Last(g.children[s]) \in Scenes
    BY <2>1 DEF Last
  <2> QED
    BY <1>1, <2>2, CloseUIKeeps DEF CloseLast
<1> DEFINE a == CloseLast(h, s)
           b == CloseLast(a, s)
<1>2. a \in Huds /\ Homed(lost, a)
  BY <1>1
<1> HIDE DEF a
<1>3. b \in Huds /\ Homed(lost, b)
  BY <1>1, <1>2
<1> HIDE DEF b
<1>4. CloseLast(b, s) \in Huds /\ Homed(lost, CloseLast(b, s))
  BY <1>1, <1>3
<1> QED
  BY <1>4 DEF CloseOthers, a, b

\* A scene that is opened is the current one and, unless it is not restored, the
\* top of the stack.
LEMMA OpenSceneTops ==
  ASSUME NEW was \in Huds, NEW lost \in BOOLEAN, Homed(lost, was), NEW s \in Scenes, NEW restore \in BOOLEAN
  PROVE  /\ OpenScene(was, s, restore) \in Huds /\ Homed(lost, OpenScene(was, s, restore))
         /\ restore /\ ~lost => Topped(OpenScene(was, s, restore))
<1> DEFINE top == IF was.stack = <<>> THEN NoScene ELSE Last(was.stack)
           left == IF top \in {NoScene, s} THEN was ELSE HideChildren(was, top)
           h == [left EXCEPT !.cur = s]
           pushed == [h EXCEPT !.stack = Append(@, s)]
<1>1. /\ h.children[s] = <<>> => OpenScene(was, s, restore) = OpenUI(pushed, s, FALSE)
      /\ h.children[s] # <<>> /\ restore => OpenScene(was, s, restore) = RestoreScene(h, s)
      /\ h.children[s] # <<>> /\ ~restore => OpenScene(was, s, restore) = CloseOthers(h, s)
  BY DEF OpenScene
<1>2. top \in Scenes \cup {NoScene}
  <2>1. was.stack \in Seq(Scenes)
    BY DEF Huds
  <2>2. was.stack # <<>> => Len(was.stack) \in 1..Len(was.stack)
    BY <2>1
  <2> QED
    BY <2>1, <2>2 DEF Last
<1> HIDE DEF top
<1>3. left \in Huds /\ Homed(lost, left)
  BY <1>2, HideChildrenKeeps
<1> HIDE DEF left
<1>4. h \in Huds /\ Homed(lost, h) /\ h.cur = s
  BY <1>3 DEF Huds, Homed
<1> HIDE DEF h
<1>5. h.stack \in Seq(Scenes)
  BY <1>4 DEF Huds
<1>6. CASE h.children[s] = <<>>
  <2>1. pushed \in Huds /\ pushed.cur = s /\ pushed.stack = Append(h.stack, s) /\ pushed.children = h.children
    BY <1>4, <1>5, OnTop DEF Huds
  <2> HIDE DEF pushed
  <2>2. Homed(lost, pushed)
    BY <2>1, <1>4, <1>5, OnTop DEF Homed
  <2>3. /\ OpenUI(pushed, s, FALSE) \in Huds /\ Homed(lost, OpenUI(pushed, s, FALSE))
        /\ OpenUI(pushed, s, FALSE).cur = s /\ OpenUI(pushed, s, FALSE).stack = Append(h.stack, s)
    BY <2>1, <2>2, OpenUIKeeps
  <2> QED
    BY <2>3, <1>1, <1>5, <1>6, OnTop DEF Topped
<1>7. CASE h.children[s] # <<>> /\ restore
  BY <1>1, <1>4, <1>7, RestoreSceneTops
<1>8. CASE h.children[s] # <<>> /\ ~restore
  BY <1>1, <1>4, <1>8, CloseOthersKeeps
<1> QED
  BY <1>6, <1>7, <1>8

\* Without its top a stack has the others still.
LEMMA FrontKeepsOthers ==
  ASSUME NEW seq \in Seq(Scenes), seq # <<>>
  PROVE  /\ Front(seq) \in Seq(Scenes)
         /\ Front(seq) # <<>> => Last(Front(seq)) \in Scenes
         /\ \A c \in Scenes : Contains(seq, c) /\ c # Last(seq) => Contains(Front(seq), c)
<1> DEFINE n == Len(seq)
           f == Front(seq)
<1>1. n \in Nat /\ n >= 1 /\ \A i \in 1..n : seq[i] \in Scenes
  OBVIOUS
<1>2. f = SubSeq(seq, 1, n - 1)
  BY DEF Front
<1> HIDE DEF f, n
<1>3. 1 \in Int /\ n - 1 \in Int /\ \A i \in 1..(n - 1) : seq[i] \in Scenes
  BY <1>1
<1>4. f \in Seq(Scenes) /\ Len(f) = (IF 1 <= n - 1 THEN (n - 1) - 1 + 1 ELSE 0)
      /\ \A i \in 1..((n - 1) - 1 + 1) : f[i] = seq[1 + i - 1]
  BY <1>2, <1>3, SubSeqProperties
<1>5. Len(f) = n - 1 /\ \A i \in 1..(n - 1) : f[i] = seq[i]
  BY <1>1, <1>4
<1>6. ASSUME f # <<>>
      PROVE  Last(f) \in Scenes
  <2>1. Len(f) \in 1..Len(f)
    BY <1>4, <1>6
  <2> QED
    BY <2>1, <1>4 DEF Last
<1>7. ASSUME NEW c \in Scenes, Contains(seq, c), c # Last(seq)
      PROVE  Contains(f, c)
  <2>1. PICK i \in 1..n : seq[i] = c
    BY <1>7 DEF Contains, n
  <2>2. i # n
    BY <2>1, <1>7 DEF Last, n
  <2>3. i \in 1..Len(f) /\ f[i] = c
    BY <2>1, <2>2, <1>1, <1>5
  <2> QED
    BY <2>3 DEF Contains
<1> QED
  BY <1>4, <1>6, <1>7 DEF f

(* Closing the top leaves a top that is current; closing another leaves at    *)
(* least what the types say.                                                  *)
LEMMA CloseSceneTops ==
  ASSUME NEW h \in Huds, NEW lost \in BOOLEAN, Homed(lost, h), NEW s \in Scenes, NEW loses \in BOOLEAN,
         lost => loses, h.stack # <<>> /\ Last(h.stack) # s => loses
  PROVE  /\ CloseScene(h, s) \in Huds /\ Homed(loses, CloseScene(h, s))
         /\ ~loses => Topped(CloseScene(h, s))
<1> DEFINE kids == ToSet(h.children[s])
           drawn == [w \in Scenes |-> IF w \in kids THEN Closed(h, w).widget[w] ELSE h.widget[w]]
           emptied == [h EXCEPT !.children[s] = <<>>, !.widget = drawn]
           popped == [emptied EXCEPT !.stack = Front(@)]
<1>1. CloseScene(h, s) = IF emptied.stack = <<>> THEN emptied
                         ELSE IF popped.stack = <<>> THEN popped
                         ELSE OpenScene(popped, Last(popped.stack), TRUE)
  BY DEF CloseScene
<1>2. drawn \in [Scenes -> Widgets]
  BY WidgetCalls DEF Huds
<1> HIDE DEF drawn, kids
<1> DEFINE children == [h.children EXCEPT ![s] = <<>>]
<1>3. /\ children \in [Scenes -> Seq(Scenes)]
      /\ \A c \in Scenes : children[c] = IF c = s THEN <<>> ELSE h.children[c]
  BY DEF Huds
<1>4. emptied = [h EXCEPT !.children = children, !.widget = drawn]
  BY DEF Huds
<1> HIDE DEF children
<1>5. /\ emptied \in Huds /\ emptied.stack = h.stack
      /\ \A c \in Scenes : emptied.children[c] = IF c = s THEN <<>> ELSE h.children[c]
  BY <1>2, <1>3, <1>4 DEF Huds
<1> HIDE DEF emptied
<1>6. Homed(loses, emptied)
  BY <1>5 DEF Homed
<1>7. CASE emptied.stack = <<>>
  BY <1>1, <1>5, <1>6, <1>7 DEF Topped
<1>8. CASE emptied.stack # <<>>
  <2>1. emptied.stack \in Seq(Scenes) /\ (~loses => Last(emptied.stack) = s)
    BY <1>5, <1>8 DEF Huds
  <2>2. /\ Front(emptied.stack) \in Seq(Scenes)
        /\ Front(emptied.stack) # <<>> => Last(Front(emptied.stack)) \in Scenes
        /\ \A c \in Scenes : Contains(emptied.stack, c) /\ c # Last(emptied.stack)
                               => Contains(Front(emptied.stack), c)
    BY <2>1, <1>8, FrontKeepsOthers
  <2>3. popped \in Huds /\ popped.stack = Front(emptied.stack) /\ popped.children = emptied.children
    BY <1>5, <2>2 DEF Huds
  <2> HIDE DEF popped
  <2>4. Homed(loses, popped)
    BY <1>5, <1>6, <2>1, <2>2, <2>3 DEF Homed
  <2>5. CASE popped.stack = <<>>
    BY <1>1, <1>8, <2>3, <2>4, <2>5 DEF Topped
  <2>6. CASE popped.stack # <<>>
    <3>1. Last(popped.stack) \in Scenes
      BY <2>2, <2>3, <2>6
    <3> QED
      BY <3>1, <1>1, <1>8, <2>3, <2>4, <2>6, OpenSceneTops
  <2> QED
    BY <2>5, <2>6
<1> QED
  BY <1>7, <1>8

(* Closing all leaves nothing open.                                           *)
LEMMA CloseAllEmpties ==
  ASSUME NEW h \in Huds
  PROVE  CloseAllUI(h) \in Huds /\ Homed(FALSE, CloseAllUI(h)) /\ Topped(CloseAllUI(h))
<1> DEFINE none == [w \in Scenes |-> Uncreated]
<1>1. none \in [Scenes -> Widgets] /\ SceneDatas \in [Scenes -> Seq(Scenes)] /\ <<>> \in Seq(Scenes)
      /\ \A s \in Scenes : SceneDatas[s] = <<>>
  BY ThreeScenes DEF SceneDatas
<1>2. CloseAllUI(h) = [[h EXCEPT !.widget = none] EXCEPT !.cur = NoScene, !.stack = <<>>, !.children = SceneDatas]
  BY DEF CloseAllUI, NewHud
<1> HIDE DEF none
<1>3. /\ CloseAllUI(h) \in Huds /\ CloseAllUI(h).stack = <<>>
      /\ CloseAllUI(h).children = SceneDatas
  BY <1>1, <1>2 DEF Huds
<1> QED
  BY <1>1, <1>3 DEF Homed, Topped

(* A change of sequence leaves the scenes alone, or opens one with nothing    *)
(* else open.                                                                 *)
LEMMA ChangeSequenceTops ==
  ASSUME NEW h \in Huds, NEW sequence \in LoginSequences
  PROVE  /\ ChangeSequence(h, sequence) \in Huds
         /\ sequence # "ConnectLoginServer" => SameScreens(h, ChangeSequence(h, sequence))
         /\ sequence = "ConnectLoginServer" =>
              Homed(FALSE, ChangeSequence(h, sequence)) /\ Topped(ChangeSequence(h, sequence))
<1> DEFINE noted == [h EXCEPT !.sequence = sequence]
<1>1. noted \in Huds /\ SameScreens(h, noted)
  BY DEF Huds, SameScreens
<1>2. /\ sequence = "ConnectLoginServerReady" => ChangeSequence(h, sequence) = SetLoginMode(noted, "id")
      /\ sequence = "ConnectLoginServer" =>
           ChangeSequence(h, sequence) = OpenScene(CloseAllUI(noted), Menu, TRUE)
      /\ sequence \notin {"ConnectLoginServerReady", "ConnectLoginServer"} => ChangeSequence(h, sequence) = noted
  BY DEF ChangeSequence
<1> HIDE DEF noted
<1>3. SetLoginMode(noted, "id") \in Huds /\ SameScreens(noted, SetLoginMode(noted, "id"))
  <2>1. Login \in Scenes /\ noted.widget[Login] \in Widgets
    BY <1>1, ThreeScenes DEF Huds
  <2> QED
    BY <2>1, <1>1 DEF SetLoginMode, Huds, Widgets, SameScreens
<1>4. /\ OpenScene(CloseAllUI(noted), Menu, TRUE) \in Huds
      /\ Homed(FALSE, OpenScene(CloseAllUI(noted), Menu, TRUE))
      /\ Topped(OpenScene(CloseAllUI(noted), Menu, TRUE))
  <2>1. CloseAllUI(noted) \in Huds /\ Homed(FALSE, CloseAllUI(noted))
    BY <1>1, CloseAllEmpties
  <2> QED
    BY <2>1, ThreeScenes, OpenSceneTops
<1>5. SameScreens(h, SetLoginMode(noted, "id"))
  BY <1>1, <1>3 DEF SameScreens
<1> QED
  BY <1>1, <1>2, <1>3, <1>4, <1>5

Strays == SUBSET {"top", "children"}
Ordered(h, strays) ==
  /\ Homed("children" \in strays, h)
  /\ strays = {} => Topped(h)
HudInv ==
  /\ hud \in Huds /\ going \in Levels \cup {"none"}
  /\ astray \in Strays /\ Ordered(hud, astray)

\* What leaves the scenes alone leaves them in order, and so does closing all.
LEMMA StaysOrdered ==
  ASSUME NEW h \in Huds, NEW strays \in Strays, Ordered(h, strays)
  PROVE  /\ \A g : SameScreens(h, g) => Ordered(g, strays)
         /\ \A g : Homed("children" \in strays, g) /\ g.cur = h.cur /\ g.stack = h.stack => Ordered(g, strays)
         /\ \A g : Homed(FALSE, g) /\ Topped(g) => Ordered(g, {})
BY DEF Ordered, SameScreens, Homed, Topped

(* Every step of the screens leaves them in order.                            *)
LEMMA HudStep == HudInv /\ [HudNext]_hudVars => HudInv'
<1> SUFFICES ASSUME HudInv, [HudNext]_hudVars
             PROVE  HudInv'
  OBVIOUS
<1> DEFINE lost == "children" \in astray
<1>1. /\ hud \in Huds /\ going \in Levels \cup {"none"} /\ astray \in Strays /\ Ordered(hud, astray)
      /\ Homed(lost, hud) /\ lost \in BOOLEAN
  BY DEF HudInv, Ordered
<1> HIDE DEF lost
<1>2. {} \in Strays /\ astray \ {"top"} \in Strays /\ astray \cup {"top"} \in Strays
      /\ astray \cup {"children"} \in Strays /\ (astray \ {"top"}) \cup {"children"} \in Strays
  BY <1>1 DEF Strays
<1>3. /\ \A g : SameScreens(hud, g) => Ordered(g, astray)
      /\ \A g : Homed(lost, g) /\ g.cur = hud.cur /\ g.stack = hud.stack => Ordered(g, astray)
      /\ \A g : Homed(FALSE, g) /\ Topped(g) => Ordered(g, {})
  BY <1>1, StaysOrdered DEF lost
<1>4. ASSUME hud' \in Huds, Ordered(hud', astray'), astray' \in Strays, going' \in Levels \cup {"none"}
      PROVE  HudInv'
  BY <1>4 DEF HudInv
<1>5. CASE OnAnimationFinished \/ OnTouchAnyPress \/ OnClicked_Login
  <2>1. PICK sequence \in LoginSequences :
          /\ hud' = ChangeSequence(hud, sequence)
          /\ sequence = "ConnectLoginServer" => astray' = {}
          /\ sequence # "ConnectLoginServer" => astray' = astray
    BY <1>5 DEF OnAnimationFinished, OnTouchAnyPress, OnClicked_Login, LoginSequences
  <2>2. going' \in Levels \cup {"none"}
    BY <1>1, <1>5 DEF OnAnimationFinished, OnTouchAnyPress, OnClicked_Login, Levels
  <2>3. /\ hud' \in Huds
        /\ sequence # "ConnectLoginServer" => SameScreens(hud, hud')
        /\ sequence = "ConnectLoginServer" => Homed(FALSE, hud') /\ Topped(hud')
    BY <2>1, <1>1, ChangeSequenceTops
  <2> QED
    BY <2>1, <2>2, <2>3, <1>1, <1>2, <1>3, <1>4
<1>6. CASE OnClicked_Start
  <2>1. hud' = hud /\ astray' = astray /\ going' \in Levels
    BY <1>6 DEF OnClicked_Start, Levels
  <2> QED
    BY <2>1, <1>1, <1>4
<1>7. CASE BeginPlay
  <2>1. \/ hud' = OpenScene(CloseAllUI(hud), Launcher, TRUE) \/ hud' = OpenScene(CloseAllUI(hud), Login, TRUE)
        \/ hud' = CloseAllUI(hud)
    BY <1>7 DEF BeginPlay
  <2>2. CloseAllUI(hud) \in Huds /\ Homed(FALSE, CloseAllUI(hud)) /\ Topped(CloseAllUI(hud))
    BY <1>1, CloseAllEmpties
  <2>3. hud' \in Huds /\ Homed(FALSE, hud') /\ Topped(hud')
    BY <2>1, <2>2, ThreeScenes, OpenSceneTops
  <2>4. astray' = {} /\ going' = "none"
    BY <1>7 DEF BeginPlay
  <2> QED
    BY <2>3, <2>4, <1>2, <1>3, <1>4
<1>8. ASSUME NEW w \in Scenes, OnCloseAnimationFinished(w) \/ Collect(w)
      PROVE  HudInv'
  <2>1. hud' = Destroy(hud, w) \/ hud' = [hud EXCEPT !.widget[w] = Uncreated]
    BY <1>8 DEF OnCloseAnimationFinished, Collect
  <2>2. Destroy(hud, w) \in Huds /\ SameScreens(hud, Destroy(hud, w))
    BY <1>1, WidgetCalls
  <2>3. [hud EXCEPT !.widget[w] = Uncreated] \in Huds /\ SameScreens(hud, [hud EXCEPT !.widget[w] = Uncreated])
    BY <1>1, ThreeScenes, OneWidget
  <2>4. hud' \in Huds /\ SameScreens(hud, hud')
    BY <2>1, <2>2, <2>3
  <2>5. astray' = astray /\ going' = going
    BY <1>8 DEF OnCloseAnimationFinished, Collect
  <2> QED
    BY <2>4, <2>5, <1>1, <1>3, <1>4
<1>9. ASSUME NEW after, NEW strays, Outside(after, strays),
             after \in Huds, strays \in Strays, Ordered(after, strays)
      PROVE  HudInv'
  <2>1. hud' = after /\ astray' = strays /\ going' = going
    BY <1>9 DEF Outside
  <2> QED
    BY <2>1, <1>1, <1>4, <1>9
<1>10. ASSUME NEW s \in Scenes, SceneOpens(s)
       PROVE  HudInv'
  <2>1. Outside(OpenScene(hud, s, TRUE), astray \ {"top"})
    BY <1>10 DEF SceneOpens
  <2>2. OpenScene(hud, s, TRUE) \in Huds /\ Ordered(OpenScene(hud, s, TRUE), astray \ {"top"})
    <3>1. /\ OpenScene(hud, s, TRUE) \in Huds /\ Homed(lost, OpenScene(hud, s, TRUE))
          /\ ~lost => Topped(OpenScene(hud, s, TRUE))
      BY <1>1, OpenSceneTops
    <3>2. ("children" \in astray \ {"top"}) = lost /\ (astray \ {"top"} = {} => ~lost)
      BY DEF lost
    <3> QED
      BY <3>1, <3>2 DEF Ordered
  <2> QED
    BY <2>1, <2>2, <1>2, <1>9
<1>11. ASSUME NEW s \in Scenes, SceneOpensAnew(s) \/ SceneRises(s)
       PROVE  HudInv'
  <2>1. PICK after : Outside(after, astray \cup {"top"}) /\ after \in {OpenScene(hud, s, FALSE), RaiseOnTopFromStack(hud, s)}
    BY <1>11 DEF SceneOpensAnew, SceneRises
  <2>2. after \in Huds /\ Homed(lost, after)
    BY <2>1, <1>1, OpenSceneTops, RaisedIsOnTop
  <2>3. Ordered(after, astray \cup {"top"})
    <3>1. ("children" \in astray \cup {"top"}) = lost /\ astray \cup {"top"} # {}
      BY DEF lost
    <3> QED
      BY <3>1, <2>2 DEF Ordered
  <2> QED
    BY <2>1, <2>2, <2>3, <1>2, <1>9
<1>12. ASSUME NEW s \in Scenes, SceneCloses(s)
       PROVE  HudInv'
  <2> DEFINE other == ~(hud.stack = <<>> \/ Last(hud.stack) = s)
             strays == (astray \ {"top"}) \cup IF ~other THEN {} ELSE {"children"}
             loses == "children" \in strays
  <2>1. Outside(CloseScene(hud, s), strays)
    BY <1>12 DEF SceneCloses
  <2>2. /\ strays \in Strays /\ loses \in BOOLEAN /\ (lost => loses)
        /\ hud.stack # <<>> /\ Last(hud.stack) # s => loses
    <3> HIDE DEF other
    <3>1. strays = (astray \ {"top"}) \cup {} \/ strays = (astray \ {"top"}) \cup {"children"}
      BY Zenon
    <3>2. strays \in Strays
      BY <3>1, <1>2
    <3>3. lost => loses
      BY <3>1 DEF lost
    <3>4. other => loses
      OBVIOUS
    <3>5. hud.stack # <<>> /\ Last(hud.stack) # s => other
      BY DEF other
    <3>6. loses \in BOOLEAN
      OBVIOUS
    <3> QED
      BY <3>2, <3>3, <3>4, <3>5, <3>6
  <2>3. strays = {} => ~loses
    OBVIOUS
  <2> HIDE DEF loses, other
  <2>4. /\ CloseScene(hud, s) \in Huds /\ Homed(loses, CloseScene(hud, s))
        /\ ~loses => Topped(CloseScene(hud, s))
    BY <2>2, <1>1, CloseSceneTops
  <2>5. Ordered(CloseScene(hud, s), strays)
    BY <2>3, <2>4 DEF Ordered, loses
  <2> HIDE DEF strays
  <2> QED
    BY <2>1, <2>2, <2>4, <2>5, <1>9
<1>13. ASSUME NEW after, Outside(after, astray), after \in Huds, Homed(lost, after),
              after.cur = hud.cur, after.stack = hud.stack
       PROVE  HudInv'
  BY <1>13, <1>1, <1>3, <1>9
<1>14. ASSUME NEW s \in Scenes, SceneHides(s)
       PROVE  HudInv'
  BY <1>1, <1>13, <1>14, HideChildrenKeeps DEF SceneHides
<1>15. ASSUME NEW w \in Scenes, NEW pre \in BOOLEAN, UIOpens(w, pre) \/ UICloses(w)
       PROVE  HudInv'
  BY <1>1, <1>13, <1>15, OpenUIKeeps, CloseUIKeeps DEF UIOpens, UICloses
<1>16. CASE AllClose
  <2>1. CloseAllUI(hud) \in Huds /\ Homed(FALSE, CloseAllUI(hud)) /\ Topped(CloseAllUI(hud))
    BY <1>1, CloseAllEmpties
  <2> QED
    BY <2>1, <1>2, <1>3, <1>9, <1>16 DEF AllClose
<1>17. CASE UNCHANGED hudVars
  BY <1>1, <1>4, <1>17 DEF hudVars
<1> QED
  BY <1>5, <1>6, <1>7, <1>8, <1>10, <1>11, <1>12, <1>14, <1>15, <1>16, <1>17 DEF HudNext

(* However the scenes open, close and restore each other, and whatever public *)
(* call comes between, the current scene is the top of the stack unless a     *)
(* scene was raised, or opened without being restored, since the last one was *)
(* opened the usual way; and only scenes of the stack have children, unless   *)
(* another scene than the top was closed (AZHUD.h:65-150, AZHUD.cpp:125-455). *)
THEOREM TheTopIsTheCurrent == HudSpec => []TopIsCurrent
<1>1. HudInit => HudInv
  BY ThreeScenes DEF HudInit, HudInv, Huds, Ordered, Homed, Topped, SceneDatas, LoginSequences, Levels, Strays
<1>2. HudInv => TopIsCurrent
  BY DEF HudInv, Ordered, Homed, Topped, TopIsCurrent
<1> QED
  BY <1>1, <1>2, HudStep, PTL DEF HudSpec

----------------------------------------------------------------------------
(* The tables: every cell is where the first line says it is.                *)

\* What was selected of the first n is where it was when all are through.
LEMMA SelectingGrows ==
  ASSUME NEW S, NEW T, NEW seq \in Seq(T)
  PROVE  \A n \in Nat : n <= Len(seq) =>
           /\ Len(Selecting(seq, S)[n]) <= Len(Selected(seq, S))
           /\ \A i \in 1..Len(Selecting(seq, S)[n]) : Selected(seq, S)[i] = Selecting(seq, S)[n][i]
<1> DEFINE f == Selecting(seq, S)
           Behind(n, m) == Len(f[n]) <= Len(f[m]) /\ \A i \in 1..Len(f[n]) : f[m][i] = f[n][i]
           P == {m \in Nat : m <= Len(seq) => \A n \in 0..m : Behind(n, m)}
<1>1. /\ f[0] = <<>> /\ Len(seq) \in Nat
      /\ \A n \in Nat : n + 1 <= Len(seq) =>
           f[n + 1] = IF seq[n + 1] \in S THEN Append(f[n], seq[n + 1]) ELSE f[n]
  BY SelectingSteps
<1>2. \A n \in Nat : n <= Len(seq) => f[n] \in Seq(T)
  BY SelectingType
<1>3. f[Len(seq)] = Selected(seq, S)
  BY DEF Selected
<1> HIDE DEF f
<1>4. \A m \in Nat : m \in P <=> (m <= Len(seq) => \A n \in 0..m : Behind(n, m))
  OBVIOUS
<1> HIDE DEF P
<1>5. 0 \in P
  <2>1. \A n \in 0..0 : Behind(n, 0)
    BY <1>1
  <2> QED
    BY <2>1, <1>4
<1>6. ASSUME NEW m \in Nat, m \in P
      PROVE  m + 1 \in P
  <2>1. m + 1 \in Nat
    OBVIOUS
  <2> SUFFICES ASSUME m + 1 <= Len(seq), NEW n \in 0..(m + 1)
               PROVE  Behind(n, m + 1)
    BY <2>1, <1>4
  <2>2. m <= Len(seq) /\ f[m] \in Seq(T) /\ seq[m + 1] \in T
    BY <1>1, <1>2
  <2>3. f[m + 1] = f[m] \/ f[m + 1] = Append(f[m], seq[m + 1])
    BY <1>1
  <2>4. /\ Len(f[m]) \in Nat /\ Len(f[m]) <= Len(f[m + 1])
        /\ \A i \in 1..Len(f[m]) : f[m + 1][i] = f[m][i]
    BY <2>2, <2>3, Appended
  <2>5. CASE n = m + 1
    <3>1. f[m + 1] \in Seq(T)
      BY <2>1, <1>2
    <3> QED
      BY <2>5, <3>1
  <2>6. CASE n # m + 1
    <3>1. n \in 0..m /\ n \in Nat /\ n <= Len(seq)
      BY <2>2, <2>6
    <3>2. Behind(n, m) /\ f[n] \in Seq(T)
      BY <3>1, <2>2, <1>2, <1>4, <1>6
    <3>3. Len(f[n]) \in Nat
      BY <3>2
    <3>4. f[m + 1] \in Seq(T)
      BY <2>1, <1>2
    <3>5. Len(f[m + 1]) \in Nat
      BY <3>4
    <3>6. Len(f[n]) <= Len(f[m + 1])
      BY <3>2, <3>3, <3>5, <2>4
    <3>7. ASSUME NEW i \in 1..Len(f[n])
          PROVE  f[m + 1][i] = f[n][i]
      <4>1. i \in 1..Len(f[m])
        BY <3>2, <3>3, <2>4
      <4> QED
        BY <4>1, <3>2, <2>4
    <3> QED
      BY <3>6, <3>7
  <2> QED
    BY <2>5, <2>6
<1>7. Nat \subseteq P
  BY <1>5, <1>6, Induction
<1>8. \A n \in 0..Len(seq) : Behind(n, Len(seq))
  BY <1>1, <1>4, <1>7
<1> QED
  BY <1>1, <1>3, <1>8 DEF f

\* A sequence of nothing but selected elements is selected as it is.
LEMMA SelectedAll ==
  ASSUME NEW S, NEW T, NEW seq \in Seq(T), \A i \in 1..Len(seq) : seq[i] \in S
  PROVE  Selected(seq, S) = seq
<1> DEFINE f == Selecting(seq, S)
           P == {n \in Nat : n <= Len(seq) => Len(f[n]) = n /\ \A i \in 1..n : f[n][i] = seq[i]}
<1>1. /\ f[0] = <<>> /\ Len(seq) \in Nat
      /\ \A n \in Nat : n + 1 <= Len(seq) =>
           f[n + 1] = IF seq[n + 1] \in S THEN Append(f[n], seq[n + 1]) ELSE f[n]
  BY SelectingSteps
<1>2. \A n \in Nat : n <= Len(seq) => f[n] \in Seq(T)
  BY SelectingType
<1>3. f[Len(seq)] = Selected(seq, S)
  BY DEF Selected
<1> HIDE DEF f
<1>4. \A n \in Nat : n \in P <=> (n <= Len(seq) => Len(f[n]) = n /\ \A i \in 1..n : f[n][i] = seq[i])
  OBVIOUS
<1> HIDE DEF P
<1>5. 0 \in P
  BY <1>1, <1>4
<1>6. ASSUME NEW n \in Nat, n \in P
      PROVE  n + 1 \in P
  <2>1. n + 1 \in Nat
    OBVIOUS
  <2> SUFFICES ASSUME n + 1 <= Len(seq)
               PROVE  Len(f[n + 1]) = n + 1 /\ \A i \in 1..(n + 1) : f[n + 1][i] = seq[i]
    BY <2>1, <1>4
  <2>2. n <= Len(seq) /\ n + 1 \in 1..Len(seq)
    BY <1>1
  <2>3. f[n] \in Seq(T) /\ seq[n + 1] \in T /\ f[n + 1] = Append(f[n], seq[n + 1])
    <3>1. f[n] \in Seq(T)
      BY <2>2, <1>2
    <3>2. seq[n + 1] \in S /\ seq[n + 1] \in T
      BY <2>2
    <3> QED
      BY <3>1, <3>2, <1>1
  <2>4. Len(f[n]) = n /\ \A i \in 1..n : f[n][i] = seq[i]
    BY <2>2, <1>4, <1>6
  <2>5. /\ Len(f[n + 1]) = Len(f[n]) + 1 /\ f[n + 1][Len(f[n]) + 1] = seq[n + 1]
        /\ \A i \in 1..Len(f[n]) : f[n + 1][i] = f[n][i]
    BY <2>3, Appended
  <2>6. \A i \in 1..(n + 1) : i \in 1..n \/ i = n + 1
    OBVIOUS
  <2> QED
    BY <2>4, <2>5, <2>6
<1>7. Nat \subseteq P
  BY <1>5, <1>6, Induction
<1>8. Len(f[Len(seq)]) = Len(seq) /\ \A i \in 1..Len(seq) : f[Len(seq)][i] = seq[i]
  BY <1>1, <1>4, <1>7
<1>9. f[Len(seq)] \in Seq(T)
  BY <1>1, <1>2
<1> QED
  BY <1>3, <1>8, <1>9, SeqEqual

\* Without the element at a place the ones behind move up.
LEMMA RemovedAt ==
  ASSUME NEW T, NEW s \in Seq(T), NEW i \in 1..Len(s)
  PROVE  /\ RemoveAt(s, i) \in Seq(T) /\ Len(RemoveAt(s, i)) = Len(s) - 1
         /\ \A j \in 1..(Len(s) - 1) : RemoveAt(s, i)[j] = IF j < i THEN s[j] ELSE s[j + 1]
<1> DEFINE n == Len(s)
           u == SubSeq(s, 1, i - 1)
           v == SubSeq(s, i + 1, n)
           w == u \o v
<1>1. n \in Nat /\ i \in Nat /\ 1 <= i /\ i <= n /\ \A j \in 1..n : s[j] \in T
  OBVIOUS
<1>2. RemoveAt(s, i) = w
  BY DEF RemoveAt
<1> HIDE DEF n
<1>3. 1 \in Int /\ i - 1 \in Int /\ i + 1 \in Int /\ n \in Int
      /\ (\A j \in 1..(i - 1) : s[j] \in T) /\ (\A j \in (i + 1)..n : s[j] \in T)
  BY <1>1
<1>4. /\ u \in Seq(T) /\ Len(u) = (IF 1 <= i - 1 THEN (i - 1) - 1 + 1 ELSE 0)
      /\ \A j \in 1..((i - 1) - 1 + 1) : u[j] = s[1 + j - 1]
  BY <1>3, SubSeqProperties
<1>5. /\ v \in Seq(T) /\ Len(v) = (IF i + 1 <= n THEN n - (i + 1) + 1 ELSE 0)
      /\ \A j \in 1..(n - (i + 1) + 1) : v[j] = s[i + 1 + j - 1]
  BY <1>3, SubSeqProperties
<1> HIDE DEF u, v
<1>6. Len(u) = i - 1 /\ \A j \in 1..(i - 1) : u[j] = s[j]
  BY <1>1, <1>4
<1>7. Len(v) = n - i /\ \A j \in 1..(n - i) : v[j] = s[i + j]
  BY <1>1, <1>5
<1>8. /\ w \in Seq(T) /\ Len(w) = Len(u) + Len(v)
      /\ \A j \in 1..(Len(u) + Len(v)) : w[j] = IF j <= Len(u) THEN u[j] ELSE v[j - Len(u)]
  BY <1>4, <1>5, ConcatProperties
<1> HIDE DEF w
<1>9. Len(w) = n - 1
  BY <1>1, <1>6, <1>7, <1>8
<1>10. ASSUME NEW j \in 1..(n - 1)
       PROVE  w[j] = IF j < i THEN s[j] ELSE s[j + 1]
  <2>1. w[j] = IF j <= i - 1 THEN u[j] ELSE v[j - (i - 1)]
    BY <1>1, <1>6, <1>7, <1>8
  <2>2. CASE j < i
    <3>1. j \in 1..(i - 1)
      BY <2>2, <1>1
    <3> QED
      BY <2>1, <2>2, <3>1, <1>6
  <2>3. CASE ~(j < i)
    <3>1. j - (i - 1) \in 1..(n - i) /\ ~(j <= i - 1) /\ i + (j - (i - 1)) = j + 1
      BY <2>3, <1>1
    <3> QED
      BY <2>1, <2>3, <3>1, <1>7
  <2> QED
    BY <2>2, <2>3
<1> QED
  BY <1>2, <1>8, <1>9, <1>10 DEF n

\* One step of the removal: what is left after k columns, from what was after k - 1.
OneLess(cols, except, left, k) == IF k = 0 THEN cols ELSE RemoveAt(left[k - 1], except[k] - (k - 1))

\* The function that Keeping asks for exists.
LEMMA KeepingExists ==
  ASSUME NEW cols, NEW except
  PROVE  \A m \in Nat : \E left : left = [n \in 0..m |-> OneLess(cols, except, left, n)]
<1> DEFINE Defined == {m \in Nat : \E left : left = [n \in 0..m |-> OneLess(cols, except, left, n)]}
<1>1. 0 \in Defined
  <2> DEFINE f == [n \in 0..0 |-> cols]
  <2>1. f = [n \in 0..0 |-> OneLess(cols, except, f, n)]
    BY DEF OneLess
  <2> QED
    BY <2>1
<1>2. ASSUME NEW m \in Nat, m \in Defined
      PROVE  m + 1 \in Defined
  <2>1. PICK f : f = [n \in 0..m |-> OneLess(cols, except, f, n)]
    BY <1>2
  <2> DEFINE g == [n \in 0..(m + 1) |-> IF n = m + 1 THEN OneLess(cols, except, f, n) ELSE f[n]]
  <2>2. ASSUME NEW n \in 0..(m + 1)
        PROVE  g[n] = OneLess(cols, except, g, n)
    <3>1. n # 0 => n - 1 \in 0..m /\ g[n - 1] = f[n - 1]
      OBVIOUS
    <3>2. OneLess(cols, except, g, n) = OneLess(cols, except, f, n)
      BY <3>1 DEF OneLess
    <3>3. CASE n = m + 1
      BY <3>2, <3>3
    <3>4. CASE n # m + 1
      <4>1. n \in 0..m /\ g[n] = f[n]
        BY <3>4
      <4>2. f[n] = OneLess(cols, except, f, n)
        BY <2>1, <4>1
      <4> QED
        BY <3>2, <4>1, <4>2
    <3> QED
      BY <3>3, <3>4
  <2>3. g = [n \in 0..(m + 1) |-> OneLess(cols, except, g, n)]
    BY <2>2
  <2> HIDE DEF g
  <2>4. \E left : left = [n \in 0..(m + 1) |-> OneLess(cols, except, left, n)]
    BY <2>3
  <2> QED
    BY <2>4
<1>3. Nat \subseteq Defined
  <2> HIDE DEF Defined
  <2> QED
    BY <1>1, <1>2, Induction
<1> QED
  BY <1>3

\* ... so Keeping is it: one column goes after the other.
LEMMA KeepingSteps ==
  ASSUME NEW cols, NEW except, Len(except) \in Nat
  PROVE  /\ Keeping(cols, except)[0] = cols
         /\ \A k \in Nat : k + 1 <= Len(except) =>
              Keeping(cols, except)[k + 1] = RemoveAt(Keeping(cols, except)[k], except[k + 1] - k)
<1> DEFINE f == Keeping(cols, except)
<1>1. \E left : left = [n \in 0..Len(except) |-> OneLess(cols, except, left, n)]
  BY KeepingExists
<1>2. f = CHOOSE left : left = [n \in 0..Len(except) |-> OneLess(cols, except, left, n)]
  BY DEF Keeping, OneLess
<1> HIDE DEF f
<1>3. f = [n \in 0..Len(except) |-> OneLess(cols, except, f, n)]
  BY <1>1, <1>2
<1>4. \A n \in 0..Len(except) : f[n] = OneLess(cols, except, f, n)
  BY <1>3
<1>5. f[0] = cols
  BY <1>4 DEF OneLess
<1>6. ASSUME NEW k \in Nat, k + 1 <= Len(except)
      PROVE  f[k + 1] = RemoveAt(f[k], except[k + 1] - k)
  <2>1. k + 1 \in 0..Len(except) /\ k + 1 # 0 /\ (k + 1) - 1 = k
    BY <1>6
  <2>2. f[k + 1] = OneLess(cols, except, f, k + 1)
    BY <1>4, <2>1
  <2> QED
    BY <2>1, <2>2 DEF OneLess
<1> QED
  BY <1>5, <1>6 DEF f

\* The numbers of the columns, and which of them go.
Numbers(file) == [i \in 1..Len(file.fields) |-> i]
Removed(file) == {i \in DOMAIN file.fields : file.fields[i] \in file.out}
Stays(file) == Range(file.fields) \ file.out

(* After the columns that go among the first n are removed, the ones of the   *)
(* first n that stay are at the front, in the order of their names, and       *)
(* behind them comes what was behind the first n.                             *)
LEMMA ColumnsMoveUp ==
  ASSUME NEW T, NEW cols \in Seq(T), NEW file, file.fields \in Seq(Range(file.fields)),
         Len(file.fields) <= Len(cols)
  PROVE  LET left == Kept(cols, ExceptIndex(file))
         IN  /\ left \in Seq(T) /\ Len(Fields(file)) \in Nat /\ Len(Fields(file)) <= Len(left)
             /\ \A i \in 1..Len(Fields(file)) :
                  \E p \in DOMAIN file.fields : file.fields[p] = Fields(file)[i] /\ left[i] = cols[p]
<1> DEFINE fields == file.fields
           N == Len(fields)
           Stay == Stays(file)
           Go == Removed(file)
           F == Range(fields)
           ids == Numbers(file)
           kept == Selecting(fields, Stay)
           gone == Selecting(ids, Go)
           except == ExceptIndex(file)
           left == Keeping(cols, except)
           C == Len(cols)
           a(n) == Len(kept[n])
           k(n) == Len(gone[n])
           Aligned(n) ==
             /\ a(n) + k(n) = n
             /\ left[k(n)] \in Seq(T) /\ Len(left[k(n)]) = C - k(n)
             /\ \A i \in 1..a(n) : \E p \in 1..N : fields[p] = kept[n][i] /\ left[k(n)][i] = cols[p]
             /\ \A i \in (a(n) + 1)..(C - k(n)) : left[k(n)][i] = cols[i + k(n)]
           P == {n \in Nat : n <= N => Aligned(n)}
<1>1. /\ fields \in Seq(F) /\ N \in Nat /\ DOMAIN fields = 1..N /\ C \in Nat /\ N <= C
      /\ \A i \in 1..N : fields[i] \in F
  OBVIOUS
<1>2. /\ ids \in Seq(Nat) /\ Len(ids) = N /\ \A i \in 1..N : ids[i] = i
  BY <1>1 DEF Numbers
<1>3. \A i \in 1..N : /\ (i \in Go <=> fields[i] \notin Stay)
  BY <1>1 DEF Removed, Stays
<1>4. except = Selected(ids, Go) /\ Fields(file) = Selected(fields, Stay)
  BY DEF ExceptIndex, Fields, Numbers, Removed, Stays
<1> HIDE DEF fields, Stay, Go, F, ids, N, C
<1>5. /\ kept[0] = <<>>
      /\ \A n \in Nat : n + 1 <= N =>
           kept[n + 1] = IF fields[n + 1] \in Stay THEN Append(kept[n], fields[n + 1]) ELSE kept[n]
  BY <1>1, SelectingSteps DEF N
<1>6. \A n \in Nat : n <= N => kept[n] \in Seq(F)
  BY <1>1, SelectingType DEF N
<1>7. /\ gone[0] = <<>>
      /\ \A n \in Nat : n + 1 <= Len(ids) =>
           gone[n + 1] = IF ids[n + 1] \in Go THEN Append(gone[n], ids[n + 1]) ELSE gone[n]
  BY <1>2, SelectingSteps
<1>8. \A n \in Nat : n <= Len(ids) => gone[n] \in Seq(Nat)
  BY <1>2, SelectingType
<1>9. \A n \in Nat : n <= Len(ids) =>
        Len(gone[n]) <= Len(except) /\ \A i \in 1..Len(gone[n]) : except[i] = gone[n][i]
  <2>1. \A n \in Nat : n <= Len(ids) =>
          /\ Len(gone[n]) <= Len(Selected(ids, Go))
          /\ \A i \in 1..Len(gone[n]) : Selected(ids, Go)[i] = gone[n][i]
    <3>1. ids \in Seq(Nat)
      BY <1>2
    <3> QED
      BY <3>1, SelectingGrows
  <2> QED
    BY <2>1, <1>4
<1>10. except \in Seq(Nat)
  BY <1>2, <1>4, SelectedType
<1>11. Selected(fields, Stay) = kept[N] /\ Selected(ids, Go) = gone[N]
  BY <1>2 DEF Selected, N
<1> HIDE DEF kept, gone, except
<1>12. /\ left[0] = cols
       /\ \A j \in Nat : j + 1 <= Len(except) => left[j + 1] = RemoveAt(left[j], except[j + 1] - j)
  BY <1>10, KeepingSteps
<1> HIDE DEF left
<1>13. \A n \in Nat : n \in P <=> (n <= N => Aligned(n))
  OBVIOUS
<1> HIDE DEF P
<1>14. 0 \in P
  <2>1. a(0) = 0 /\ k(0) = 0
    BY <1>5, <1>7
  <2>2. Aligned(0)
    BY <2>1, <1>1, <1>12 DEF C
  <2> QED
    BY <2>2, <1>13
<1>15. ASSUME NEW n \in Nat, n \in P
       PROVE  n + 1 \in P
  <2>1. n + 1 \in Nat
    OBVIOUS
  <2> SUFFICES ASSUME n + 1 <= N
               PROVE  Aligned(n + 1)
    BY <2>1, <1>13
  <2>2. n <= N /\ n + 1 \in 1..N
    BY <1>1
  <2>3. Aligned(n)
    BY <2>2, <1>13, <1>15
  <2>4. /\ kept[n] \in Seq(F) /\ gone[n] \in Seq(Nat) /\ fields[n + 1] \in F
        /\ ids[n + 1] = n + 1 /\ a(n) \in Nat /\ k(n) \in Nat
    BY <2>2, <1>1, <1>2, <1>6, <1>8
  <2> DEFINE b == a(n)
             c == k(n)
             l == left[c]
  <2>5. /\ b + c = n /\ l \in Seq(T) /\ Len(l) = C - c /\ b \in Nat /\ c \in Nat
        /\ (\A i \in 1..b : \E p \in 1..N : fields[p] = kept[n][i] /\ l[i] = cols[p])
        /\ \A i \in (b + 1)..(C - c) : l[i] = cols[i + c]
    BY <2>3, <2>4
  <2>6. CASE fields[n + 1] \in Stay
    <3>1. kept[n + 1] = Append(kept[n], fields[n + 1]) /\ gone[n + 1] = gone[n]
      <4>1. n + 1 \notin Go /\ n + 1 <= N /\ n + 1 <= Len(ids)
        BY <2>2, <2>6, <1>2, <1>3
      <4> QED
        BY <4>1, <2>4, <2>6, <1>5, <1>7
    <3>2. /\ a(n + 1) = b + 1 /\ k(n + 1) = c /\ kept[n + 1][b + 1] = fields[n + 1]
          /\ \A i \in 1..b : kept[n + 1][i] = kept[n][i]
      BY <3>1, <2>4, Appended
    <3> HIDE DEF b, c, l
    <3>3. l[b + 1] = cols[n + 1]
      <4>1. b + 1 \in (b + 1)..(C - c) /\ (b + 1) + c = n + 1
        BY <2>2, <2>5, <1>1
      <4> QED
        BY <4>1, <2>5
    <3>4. \A i \in 1..(b + 1) : \E p \in 1..N : fields[p] = kept[n + 1][i] /\ l[i] = cols[p]
      <4>1. \A i \in 1..(b + 1) : i \in 1..b \/ i = b + 1
        BY <2>5
      <4> QED
        BY <4>1, <3>2, <3>3, <2>2, <2>5
    <3>5. \A i \in ((b + 1) + 1)..(C - c) : l[i] = cols[i + c]
      BY <2>5, <1>1
    <3>6. (b + 1) + c = n + 1
      BY <2>5
    <3> QED
      BY <3>2, <3>4, <3>5, <3>6, <2>5 DEF l
  <2>7. CASE fields[n + 1] \notin Stay
    <3>1. kept[n + 1] = kept[n] /\ gone[n + 1] = Append(gone[n], n + 1)
      <4>1. n + 1 \in Go /\ n + 1 <= N /\ n + 1 <= Len(ids)
        BY <2>2, <2>7, <1>2, <1>3
      <4> QED
        BY <4>1, <2>4, <2>7, <1>5, <1>7
    <3>2. a(n + 1) = b /\ k(n + 1) = c + 1 /\ gone[n + 1][c + 1] = n + 1
      BY <3>1, <2>4, Appended
    <3>3. c + 1 <= Len(except) /\ except[c + 1] = n + 1
      <4>1. n + 1 \in Nat /\ n + 1 <= Len(ids)
        BY <2>1, <1>2
      <4>2. Len(gone[n + 1]) <= Len(except) /\ \A i \in 1..Len(gone[n + 1]) : except[i] = gone[n + 1][i]
        BY <4>1, <1>9
      <4>3. Len(gone[n + 1]) = c + 1 /\ c + 1 \in 1..(c + 1)
        BY <3>2, <2>4
      <4> QED
        BY <4>2, <4>3, <3>2
    <3> HIDE DEF b, c, l
    <3>4. left[c + 1] = RemoveAt(l, (n + 1) - c)
      BY <3>3, <2>5, <1>12 DEF l
    <3>5. (n + 1) - c = b + 1 /\ b + 1 \in 1..Len(l)
      BY <2>2, <2>5, <1>1
    <3> DEFINE r == RemoveAt(l, b + 1)
    <3>6. /\ r \in Seq(T) /\ Len(r) = Len(l) - 1
          /\ \A j \in 1..(Len(l) - 1) : r[j] = IF j < b + 1 THEN l[j] ELSE l[j + 1]
      BY <3>5, <2>5, RemovedAt
    <3>7. left[c + 1] = r
      BY <3>4, <3>5
    <3> HIDE DEF r
    <3>8. Len(r) = C - (c + 1)
      BY <3>6, <2>5, <1>1
    <3>9. \A i \in 1..b : r[i] = l[i]
      BY <3>5, <3>6, <2>5
    <3>10. ASSUME NEW i \in (b + 1)..(C - (c + 1))
           PROVE  r[i] = cols[i + (c + 1)]
      <4>1. i \in 1..(Len(l) - 1) /\ ~(i < b + 1) /\ i + 1 \in (b + 1)..(C - c) /\ (i + 1) + c = i + (c + 1)
        BY <2>5, <1>1
      <4> QED
        BY <4>1, <3>6, <2>5
    <3>11. \A i \in 1..b : \E p \in 1..N : fields[p] = kept[n + 1][i] /\ r[i] = cols[p]
      BY <3>1, <3>9, <2>5
    <3>12. b + (c + 1) = n + 1
      BY <2>5
    <3> QED
      BY <3>2, <3>6, <3>7, <3>8, <3>10, <3>11, <3>12
  <2> QED
    BY <2>6, <2>7
<1>16. Nat \subseteq P
  BY <1>14, <1>15, Induction
<1>17. Aligned(N)
  <2>1. N \in Nat /\ N \in P /\ N <= N
    BY <1>1, <1>16
  <2> QED
    BY <2>1, <1>13, Zenon
<1>18. except = gone[N] /\ Fields(file) = kept[N]
  BY <1>4, <1>11
<1>19. left[k(N)] = Kept(cols, except)
  BY <1>18 DEF Kept, left
<1>20. a(N) \in Nat /\ k(N) \in Nat /\ a(N) <= Len(left[k(N)])
  <2>1. a(N) \in Nat /\ k(N) \in Nat
    BY <1>1, <1>2, <1>6, <1>8
  <2>2. a(N) + k(N) = N /\ Len(left[k(N)]) = C - k(N)
    BY <1>17
  <2> DEFINE x == a(N)
             y == k(N)
  <2>3. x \in Nat /\ y \in Nat /\ x + y = N /\ Len(left[y]) = C - y
    BY <2>1, <2>2
  <2> HIDE DEF x, y
  <2>4. x <= Len(left[y])
    BY <2>3, <1>1
  <2> QED
    BY <2>3, <2>4 DEF x, y
<1> QED
  BY <1>1, <1>17, <1>18, <1>19, <1>20 DEF except, fields

\* What a line of the file comes to.
LeftOf(line, file) == Kept(ParseIntoArray(line), ExceptIndex(file))
ColValues(line, file) ==
  [f \in Range(Fields(file)) |->
     LeftOf(line, file)[CHOOSE i \in DOMAIN Fields(file) : Fields(file)[i] = f]]
KeyOf(line, file) == Atoi[LeftOf(line, file)[1]]
RowOf(table, line, file) == LoadRow(Known[table], ColValues(line, file))
IsOutcome(so) == so = [end |-> so.end, rows |-> so.rows]

\* One step of the loading, and the function that Loading asks for.
OneRow(table, file, so, n) ==
  IF n = 0 THEN [end |-> "none", rows |-> <<>>] ELSE WithRow(so[n - 1], table, file.lines[n], file)

(* Loading is defined line by line.                                           *)
LEMMA LoadingExists ==
  ASSUME NEW table, NEW file
  PROVE  \A m \in Nat : \E so : so = [n \in 0..m |-> OneRow(table, file, so, n)]
<1> DEFINE Defined == {m \in Nat : \E so : so = [n \in 0..m |-> OneRow(table, file, so, n)]}
<1>1. 0 \in Defined
  <2> DEFINE f == [n \in 0..0 |-> [end |-> "none", rows |-> <<>>]]
  <2>1. f = [n \in 0..0 |-> OneRow(table, file, f, n)]
    BY DEF OneRow
  <2> QED
    BY <2>1
<1>2. ASSUME NEW m \in Nat, m \in Defined
      PROVE  m + 1 \in Defined
  <2>1. PICK f : f = [n \in 0..m |-> OneRow(table, file, f, n)]
    BY <1>2
  <2> DEFINE g == [n \in 0..(m + 1) |-> IF n = m + 1 THEN OneRow(table, file, f, n) ELSE f[n]]
  <2>2. ASSUME NEW n \in 0..(m + 1)
        PROVE  g[n] = OneRow(table, file, g, n)
    <3>1. n # 0 => n - 1 \in 0..m /\ g[n - 1] = f[n - 1]
      OBVIOUS
    <3>2. OneRow(table, file, g, n) = OneRow(table, file, f, n)
      BY <3>1 DEF OneRow
    <3>3. CASE n = m + 1
      BY <3>2, <3>3
    <3>4. CASE n # m + 1
      <4>1. n \in 0..m /\ g[n] = f[n]
        BY <3>4
      <4>2. f[n] = OneRow(table, file, f, n)
        BY <2>1, <4>1
      <4> QED
        BY <3>2, <4>1, <4>2
    <3> QED
      BY <3>3, <3>4
  <2>3. g = [n \in 0..(m + 1) |-> OneRow(table, file, g, n)]
    BY <2>2
  <2> HIDE DEF g
  <2>4. \E so : so = [n \in 0..(m + 1) |-> OneRow(table, file, so, n)]
    BY <2>3
  <2> QED
    BY <2>4
<1>3. Nat \subseteq Defined
  <2> HIDE DEF Defined
  <2> QED
    BY <1>1, <1>2, Induction
<1> QED
  BY <1>3

\* ... so Loading is it: one row goes on top of the others.
LEMMA LoadingSteps ==
  ASSUME NEW table, NEW file, Len(file.lines) \in Nat
  PROVE  /\ Loading(table, file)[0] = [end |-> "none", rows |-> <<>>]
         /\ \A n \in Nat : n + 1 <= Len(file.lines) =>
              Loading(table, file)[n + 1] = WithRow(Loading(table, file)[n], table, file.lines[n + 1], file)
<1> DEFINE f == Loading(table, file)
<1>1. \E so : so = [n \in 0..Len(file.lines) |-> OneRow(table, file, so, n)]
  BY LoadingExists
<1>2. f = CHOOSE so : so = [n \in 0..Len(file.lines) |-> OneRow(table, file, so, n)]
  BY DEF Loading, OneRow
<1> HIDE DEF f
<1>3. f = [n \in 0..Len(file.lines) |-> OneRow(table, file, f, n)]
  BY <1>1, <1>2
<1>4. \A n \in 0..Len(file.lines) : f[n] = OneRow(table, file, f, n)
  BY <1>3
<1>5. f[0] = [end |-> "none", rows |-> <<>>]
  BY <1>4 DEF OneRow
<1>6. ASSUME NEW n \in Nat, n + 1 <= Len(file.lines)
      PROVE  f[n + 1] = WithRow(f[n], table, file.lines[n + 1], file)
  <2>1. n + 1 \in 0..Len(file.lines) /\ n + 1 # 0 /\ (n + 1) - 1 = n
    BY <1>6
  <2>2. f[n + 1] = OneRow(table, file, f, n + 1)
    BY <1>4, <2>1
  <2> QED
    BY <2>1, <2>2 DEF OneRow
<1> QED
  BY <1>5, <1>6 DEF f

\* A row that goes well on top of the others.
LEMMA RowSteps ==
  ASSUME NEW so, IsOutcome(so), NEW table, NEW line, NEW file
  PROVE  LET after == WithRow(so, table, line, file)
             key == KeyOf(line, file)
         IN  /\ IsOutcome(after)
             /\ after.end = "none" =>
                  /\ so.end = "none" /\ ~(Len(ParseIntoArray(line)) < Len(file.fields))
                  /\ key \notin DOMAIN so.rows
                  /\ DOMAIN after.rows = DOMAIN so.rows \cup {key}
                  /\ after.rows[key] = RowOf(table, line, file)
                  /\ \A other \in DOMAIN so.rows : after.rows[other] = so.rows[other]
<1> DEFINE after == WithRow(so, table, line, file)
           key == KeyOf(line, file)
           row == RowOf(table, line, file)
           rows == TMapAdd(key, row, so.rows)
           short == Len(ParseIntoArray(line)) < Len(file.fields)
<1>1. /\ so.end # "none" => after = so
      /\ so.end = "none" /\ short => after = [so EXCEPT !.end = "range"]
      /\ so.end = "none" /\ ~short /\ key \in DOMAIN so.rows => after = [so EXCEPT !.end = "double"]
      /\ so.end = "none" /\ ~short /\ key \notin DOMAIN so.rows => after = [so EXCEPT !.rows = rows]
  BY DEF WithRow, KeyOf, RowOf, LeftOf, ColValues
<1>2. /\ DOMAIN rows = DOMAIN so.rows \cup {key} /\ rows[key] = row
      /\ \A other \in DOMAIN so.rows : other # key => rows[other] = so.rows[other]
  BY DEF TMapAdd
<1> HIDE DEF after, key, row, rows, short
<1>3. /\ IsOutcome([so EXCEPT !.end = "range"]) /\ [so EXCEPT !.end = "range"].end = "range"
      /\ IsOutcome([so EXCEPT !.end = "double"]) /\ [so EXCEPT !.end = "double"].end = "double"
      /\ IsOutcome([so EXCEPT !.rows = rows]) /\ [so EXCEPT !.rows = rows].rows = rows
  BY DEF IsOutcome
<1>4. /\ IsOutcome(after)
      /\ after.end = "none" => so.end = "none" /\ ~short /\ key \notin DOMAIN so.rows /\ after.rows = rows
  BY <1>1, <1>3
<1> QED
  BY <1>2, <1>4 DEF after, key, row, short

(* In a table that was loaded to its end every line is under its number.      *)
LEMMA EveryLineIsThere ==
  ASSUME NEW table, NEW file, Len(file.lines) \in Nat, Loading(table, file)[Len(file.lines)].end = "none"
  PROVE  LET rows == Loading(table, file)[Len(file.lines)].rows
         IN  \A k \in 1..Len(file.lines) :
               /\ ~(Len(ParseIntoArray(file.lines[k])) < Len(file.fields))
               /\ KeyOf(file.lines[k], file) \in DOMAIN rows
               /\ rows[KeyOf(file.lines[k], file)] = RowOf(table, file.lines[k], file)
<1> DEFINE f == Loading(table, file)
           L == Len(file.lines)
           key(k) == KeyOf(file.lines[k], file)
           row(k) == RowOf(table, file.lines[k], file)
           short(k) == Len(ParseIntoArray(file.lines[k])) < Len(file.fields)
           There(n) == \A k \in 1..n : ~short(k) /\ key(k) \in DOMAIN f[n].rows /\ f[n].rows[key(k)] = row(k)
           P == {n \in Nat : n <= L => IsOutcome(f[n]) /\ (f[n].end = "none" => There(n))}
<1>1. /\ f[0] = [end |-> "none", rows |-> <<>>] /\ L \in Nat
      /\ \A n \in Nat : n + 1 <= L => f[n + 1] = WithRow(f[n], table, file.lines[n + 1], file)
  BY LoadingSteps
<1> HIDE DEF f, L
<1>2. \A n \in Nat : n \in P <=> (n <= L => IsOutcome(f[n]) /\ (f[n].end = "none" => There(n)))
  OBVIOUS
<1> HIDE DEF P
<1>3. 0 \in P
  <2>1. IsOutcome(f[0]) /\ There(0)
    BY <1>1 DEF IsOutcome
  <2> QED
    BY <2>1, <1>2
<1>4. ASSUME NEW n \in Nat, n \in P
      PROVE  n + 1 \in P
  <2>1. n + 1 \in Nat
    OBVIOUS
  <2> SUFFICES ASSUME n + 1 <= L
               PROVE  IsOutcome(f[n + 1]) /\ (f[n + 1].end = "none" => There(n + 1))
    BY <2>1, <1>2
  <2>2. IsOutcome(f[n]) /\ (f[n].end = "none" => There(n))
    BY <1>1, <1>2, <1>4
  <2> DEFINE new == key(n + 1)
  <2>3. /\ IsOutcome(f[n + 1])
        /\ f[n + 1].end = "none" =>
             /\ f[n].end = "none" /\ ~short(n + 1) /\ new \notin DOMAIN f[n].rows
             /\ DOMAIN f[n + 1].rows = DOMAIN f[n].rows \cup {new} /\ f[n + 1].rows[new] = row(n + 1)
             /\ \A other \in DOMAIN f[n].rows : f[n + 1].rows[other] = f[n].rows[other]
    BY <2>2, <1>1, RowSteps
  <2> HIDE DEF key, row, short
  <2>4. ASSUME f[n + 1].end = "none", NEW k \in 1..(n + 1)
        PROVE  ~short(k) /\ key(k) \in DOMAIN f[n + 1].rows /\ f[n + 1].rows[key(k)] = row(k)
    <3>1. CASE k = n + 1
      BY <2>3, <2>4, <3>1
    <3>2. CASE k # n + 1
      <4>1. k \in 1..n
        BY <3>2
      <4>2. ~short(k) /\ key(k) \in DOMAIN f[n].rows /\ f[n].rows[key(k)] = row(k)
        BY <4>1, <2>2, <2>3, <2>4
      <4> QED
        BY <4>2, <2>3, <2>4
    <3> QED
      BY <3>1, <3>2
  <2> QED
    BY <2>3, <2>4
<1>5. Nat \subseteq P
  BY <1>3, <1>4, Induction
<1>6. There(L)
  <2>1. L \in P /\ L <= L /\ f[L].end = "none"
    BY <1>1, <1>5 DEF f, L
  <2> QED
    BY <2>1, <1>1, <1>2
<1> QED
  BY <1>6 DEF f, L

PlaceOf(file, f) == CHOOSE j \in DOMAIN file.fields : file.fields[j] = f
ReadAs(f, cell) == IF f \in Numeric THEN Atoi[cell] ELSE cell
UnderNames(table, line, file) ==
  \A f \in Range(Fields(file)) \cap Known[table] :
    RowOf(table, line, file)[f] = ReadAs(f, line[PlaceOf(file, f)])

(* In it a line without an empty cell has each cell where the first line has  *)
(* its name.                                                                  *)
LEMMA CellsUnderNames ==
  ASSUME NEW table, NEW file, IsFile(file), NEW line \in Seq(Cells), NoCell \notin Range(line),
         ~(Len(ParseIntoArray(line)) < Len(file.fields))
  PROVE  /\ KeyOf(line, file) = Atoi[line[PlaceOf(file, Fields(file)[1])]]
         /\ UnderNames(table, line, file)
<1> DEFINE fields == file.fields
           At(f) == PlaceOf(file, f)
           left == LeftOf(line, file)
           names == Fields(file)
<1>1. /\ fields \in Seq(Range(fields)) /\ line \in Seq(Cells)
      /\ \A i, j \in DOMAIN fields : fields[i] = fields[j] => i = j
  BY DEF IsFile, IsInjective
<1>2. ParseIntoArray(line) = line
  <2>1. \A i \in 1..Len(line) : line[i] \in Cells \ {NoCell}
    <3>1. DOMAIN line = 1..Len(line) /\ \A i \in 1..Len(line) : line[i] \in Cells
      BY <1>1
    <3>2. \A i \in 1..Len(line) : line[i] \in Range(line)
      BY <3>1 DEF Range
    <3> QED
      BY <3>1, <3>2
  <2> QED
    BY <2>1, <1>1, SelectedAll DEF ParseIntoArray
<1>3. Len(fields) <= Len(line)
  BY <1>1, <1>2
<1>4. /\ left \in Seq(Cells) /\ Len(names) \in Nat
      /\ \A i \in 1..Len(names) : \E p \in DOMAIN fields : fields[p] = names[i] /\ left[i] = line[p]
  BY <1>1, <1>2, <1>3, ColumnsMoveUp DEF LeftOf
<1>5. names \in Seq(Range(fields)) /\ DOMAIN names = 1..Len(names)
  BY <1>1, SelectedType DEF Fields
<1>6. Len(names) >= 1
  <2> DEFINE S == Range(fields) \ file.out
  <2>1. PICK f \in Range(fields) : f \notin file.out
    BY DEF IsFile
  <2>2. names = Selected(fields, S)
    BY DEF Fields
  <2>3. f \in S /\ f \in {fields[i] : i \in 1..Len(fields)}
    BY <2>1, <1>1 DEF Range
  <2> HIDE DEF names, S, fields
  <2>4. {names[i] : i \in 1..Len(names)} = {fields[i] : i \in 1..Len(fields)} \cap S
    BY <2>2, <1>1, SelectedElements
  <2>5. f \in {names[i] : i \in 1..Len(names)}
    BY <2>3, <2>4
  <2> QED
    BY <2>5, <1>4
<1>10. \A f : At(f) = CHOOSE j \in DOMAIN fields : fields[j] = f
  BY DEF PlaceOf
<1> HIDE DEF fields, left, names, At
<1>7. ASSUME NEW i \in 1..Len(names)
      PROVE  left[i] = line[At(names[i])]
  <2>1. PICK p \in DOMAIN fields : fields[p] = names[i] /\ left[i] = line[p]
    BY <1>4
  <2>2. At(names[i]) = p
    BY <2>1, <1>1, <1>10
  <2> QED
    BY <2>1, <2>2
<1>8. KeyOf(line, file) = Atoi[line[At(names[1])]]
  <2>1. 1 \in 1..Len(names)
    BY <1>4, <1>6
  <2>2. left[1] = line[At(names[1])]
    BY <2>1, <1>7
  <2> QED
    BY <2>2 DEF KeyOf, left
<1>9. ASSUME NEW f \in Range(names) \cap Known[table]
      PROVE  RowOf(table, line, file)[f] = ReadAs(f, line[At(f)])
  <2> DEFINE i == CHOOSE i \in DOMAIN names : names[i] = f
             values == ColValues(line, file)
  <2>1. i \in DOMAIN names /\ names[i] = f
    BY DEF Range
  <2>2. values[f] = left[i] /\ DOMAIN values = Range(names)
    BY DEF ColValues, left, names
  <2> HIDE DEF i, values
  <2>3. values[f] = line[At(f)]
    BY <2>1, <2>2, <1>5, <1>7
  <2>4. f \in Known[table] \cap DOMAIN values
    BY <2>2
  <2>5. RowOf(table, line, file)[f] = ReadAs(f, values[f])
    BY <2>4 DEF RowOf, LoadRow, values, ReadAs
  <2> QED
    BY <2>3, <2>5
<1> QED
  BY <1>8, <1>9 DEF names, At, UnderNames

\* A loaded table is what its file comes to.
TablesInv ==
  /\ files \in Directory /\ loaded \in Nat
  /\ \A table \in DOMAIN tables :
       /\ table \in Range(Tables) /\ files[table] # NoFile
       /\ LoadTable(table, files[table]).end = "none"
       /\ tables[table] = LoadTable(table, files[table]).rows

(* A step leaves the loaded tables what their files come to.                  *)
LEMMA TablesStep == TablesInv /\ [TablesNext]_tableVars => TablesInv'
<1> SUFFICES ASSUME TablesInv, [TablesNext]_tableVars
             PROVE  TablesInv'
  OBVIOUS
<1>1. CASE LoadAll
  <2> DEFINE table == Tables[loaded + 1]
             result == LoadTable(table, files[table])
  <2>1. /\ files' = files /\ loaded' = loaded + 1 /\ loaded < Len(Tables)
        /\ tables' = IF result.end = "none" THEN TMapAdd(table, result.rows, tables) ELSE tables
    BY <1>1 DEF LoadAll
  <2>2. table \in Range(Tables)
    <3>1. Len(Tables) \in Nat /\ DOMAIN Tables = 1..Len(Tables)
      BY TablesAssumption
    <3>2. loaded + 1 \in DOMAIN Tables
      BY <2>1, <3>1 DEF TablesInv
    <3> QED
      BY <3>2 DEF Range
  <2>3. result.end = "none" => files[table] # NoFile
    BY DEF LoadTable
  <2> HIDE DEF table, result
  <2>4. ASSUME result.end = "none", NEW t \in DOMAIN tables'
        PROVE  \/ t = table /\ tables'[t] = result.rows
               \/ t \in DOMAIN tables /\ tables'[t] = tables[t]
    BY <2>1, <2>4 DEF TMapAdd
  <2>5. ASSUME NEW t \in DOMAIN tables'
        PROVE  /\ t \in Range(Tables) /\ files[t] # NoFile
               /\ LoadTable(t, files[t]).end = "none" /\ tables'[t] = LoadTable(t, files[t]).rows
    BY <2>1, <2>2, <2>3, <2>4, <2>5 DEF TablesInv, result
  <2> QED
    BY <2>1, <2>5 DEF TablesInv
<1>2. CASE LoadComplete \/ UNCHANGED tableVars
  BY <1>2 DEF LoadComplete, tableVars, TablesInv
<1> QED
  BY <1>1, <1>2 DEF TablesNext

(* A table that was loaded holds every line of its file that has no empty     *)
(* cell, under its own number, and in each member the cell at the place that  *)
(* the first line gives the member's name, whichever columns are left out     *)
(* (AZTableMgr.h:60-104).                                                     *)
THEOREM EveryCellIsUnderItsName == TablesSpec => []RowsKeepTheirColumns
<1>1. TablesInit => TablesInv
  BY DEF TablesInit, TablesInv
<1>2. TablesInv => RowsKeepTheirColumns
  <2> SUFFICES ASSUME TablesInv, NEW table \in DOMAIN tables,
                      NEW line \in Range(files[table].lines), NoCell \notin Range(line)
               PROVE  /\ Atoi[line[PlaceOf(files[table], Fields(files[table])[1])]] \in DOMAIN tables[table]
                      /\ \A f \in Range(Fields(files[table])) \cap Known[table] :
                           tables[table][Atoi[line[PlaceOf(files[table], Fields(files[table])[1])]]][f] =
                             IF f \in Numeric THEN Atoi[line[PlaceOf(files[table], f)]]
                             ELSE line[PlaceOf(files[table], f)]
    BY DEF RowsKeepTheirColumns, PlaceOf
  <2> DEFINE file == files[table]
             rows == tables[table]
  <2>1. /\ table \in Range(Tables) /\ file # NoFile /\ LoadTable(table, file).end = "none"
        /\ rows = LoadTable(table, file).rows /\ files \in Directory
    BY DEF TablesInv
  <2>2. IsFile(file)
    BY <2>1, TablesAssumption
  <2>3. LoadTable(table, file) = Loading(table, file)[Len(file.lines)]
    BY <2>1 DEF LoadTable
  <2>4. Len(file.lines) \in Nat /\ DOMAIN file.lines = 1..Len(file.lines)
    BY <2>2 DEF IsFile
  <2>5. PICK k \in 1..Len(file.lines) : file.lines[k] = line
    BY <2>4 DEF Range
  <2> HIDE DEF file, rows
  <2>6. /\ ~(Len(ParseIntoArray(line)) < Len(file.fields))
        /\ KeyOf(line, file) \in DOMAIN rows /\ rows[KeyOf(line, file)] = RowOf(table, line, file)
    BY <2>1, <2>3, <2>4, <2>5, EveryLineIsThere
  <2>7. line \in Seq(Cells)
    BY <2>2, <2>5 DEF IsFile
  <2>8. NoCell \notin Range(line) /\ ~(Len(ParseIntoArray(line)) < Len(file.fields))
    BY <2>6
  <2>9. KeyOf(line, file) = Atoi[line[PlaceOf(file, Fields(file)[1])]]
    BY <2>2, <2>7, <2>8, CellsUnderNames, Zenon
  <2>10. UnderNames(table, line, file)
    BY <2>2, <2>7, <2>8, CellsUnderNames, Zenon
  <2> QED
    BY <2>6, <2>9, <2>10 DEF file, rows, UnderNames, ReadAs
<1> QED
  BY <1>1, <1>2, TablesStep, PTL DEF TablesSpec

=============================================================================
