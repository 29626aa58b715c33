# TLA+ models of AZ_MHW

AZ_MHW is an Unreal Engine 5 game in C++ with a network layer of its own: a
login, chat and in-game server on Windows I/O completion ports, the client that
talks to it, and the game with its maps, screens, monsters and inventory. This
directory holds TLA+ modules for the parts whose control is hard to get right
and hard to test, TLC configurations that check them on small instances, and
proofs of the main results for instances of every size (TLAPS). Paths below are
relative to `src/Source/AZ_MHW/` unless they begin with `src/`.

The repository has no tests and no assets: behaviour trees, animation
blueprints, widget blueprints and the database's stored procedures are known
only from the code that uses them, and what the models say of them is marked
external in `PROJECT.json`.

## 1. Inventory

| Component | State | Operations | Hard | Correct when |
|---|---|---|---|---|
| Completion port server (`GameInstance/IocpNetServer.h`, `ClientInfo.h`) | slots with socket, connect flag, closing time, send queue; the port; thread flags | accepter arms closed slots; workers take completions and accept, receive, send, close; `SendMsg`; `DestroyThread` | slots are reused after a fixed wait; flags and sockets shared without locks; most results ignored | no I/O of an old session touches a new one; one receive and one send per slot; no message forgotten; shutdown returns |
| Start and end of the server (`GameInstance/AppServer.h`) | the manager, its thread and database, the server's threads | `ServerStart` in seven steps, `End` in three | threads run while later steps are still to come; failed steps are not noticed; the button can be pressed again | whoever is accepted finds a user, a running process thread and a prepared database |
| Packet layer (`GameInstance/PacketManager.cpp`, `User.h`, `UserManager.h`) | a sliding buffer with two positions per client; two queues under `lock_` | `OnReceive` on a worker; the process thread takes one packet per queued index | buffers are unlocked; TCP joins and splits packets; users outlive sessions | the buffer is a FIFO of whole packets; each request is taken; a session's requests are its own bytes |
| Client connection (`GameInstance/Client_To_Server.cpp`) | a socket, two queues of *pointers* under a mutex, three threads | receive, two readers, shutdown | the pointers are addresses of one local the receiver overwrites | packets are handled once and by their own reader; shutdown returns |
| Accounts (`PacketManager.cpp` handlers, `Login*.cpp`, `Chatting.cpp`, `Setting_Choice.cpp`) | pending requests, the widgets' shared flag, who is let in | login, sign-up, chat, entering the game | a reply is addressed by slot; a message to a slot whose send failed waits for good; widgets read a flag that any answer sets | every request has one answer, the right one while the driver works |
| Database (`GameInstance/Odbc.cpp`) | prepared statements, open cursors, one length indicator for all parameters | load, check, add, update, delete, read | one indicator for every parameter; cursors stay open on warnings; texts longer than their parameters; a modal box on the process thread | answers agree with the table |
| Monster movement and actions (`Controller/`, `Character/Monster/`, `BehaviorTree/BTTask/`) | mode, move state, animation; the controller's request; the Move task's members | patrol, select, tick, messages, perception, notifies, death | a move spans frames and ends by a queued message; detection and death come in between; the task node is shared | a walking monster is awaited, each request answered once, every walk ends |
| Monster health, mesh, aggro (`CharacterComponent/`) | hit points, damage taken by each part and effect, shown materials, best target | hits, broadcasts, detection | the mesh hears by broadcast only; two writers of the blackboard's target; weak pointers to characters that come and go | an effect happens once, the mesh agrees, who fights loses its target only with its prey |
| Services and decorators (`BehaviorTree/`) | the blackboard | `FindTarget`, conditions | it overwrites what aggro chose | as above |
| Map manager (`Manager/AZMapMgr.cpp`, `GameMode/`) | entry requests, load delegates, streaming and its timers, pause, loading scene | entering, moving, ticks, callbacks of the engine | callbacks meet requests that have changed since; the game is paused by one path and resumed by another, which does nothing while the player has no pawn | paused only in a state whose check resumes; one post-load per entry; streaming settles |
| Game state machine (`GameStateMachine/`) | current and previous state, one transition per state | delayed and immediate changes | handlers ask for a change while the machine is changing | no state serves a request of an earlier life |
| HUD and widgets (`HUD/`, `Widget/`, `Login/`) | a stack of scenes with children, widgets by weak pointer, animations under way | open, raise, close, back, restore | any public call may come at any time; closing animations end later; widgets die under the stack | the top of the stack is the current scene |
| Button (`Widget/System/AZButton.cpp`) | who pressed, where the press began | mouse and touch events | several pointers, capture, drag | a click is by a pointer that went down there and stayed |
| Tables (`Manager/AZTableMgr.cpp`) | rows by id | `LoadAll`, reading a file | empty cells, left-out columns, short rows | each cell is under its column |
| Inventory (`Manager/AZInventoryManager.cpp`, `Item/`) | items of pocket and warehouse, objects in slots, health | moves, uses, damage | items know where they lie and are removed by that; counts of copies | tags agree with places; moves lose nothing |
| Player's body (`Character/Player/`, `PlayerController/`) | meshes by part, sockets, keys | equipment, weapons, keys | ranges of ids are written twice | each part shows its own item |
| Player's animation (`AnimInstance/`) | montage, section, rate, pause, requests | requests served a frame later | requests meet another montage than they were made for | the section is the montage's; only a pause stands still |

`PROJECT.json` lists the same components, their sources and their hazards line
by line.

### How the parts interact

`AppServer` starts the workers, which call `OnConnect`, `OnReceive` and
`OnClose`; these feed `PacketManager`, whose process thread asks `Odbc` and
answers with `SendMsg`. The model of the packet layer uses of the server exactly
what is *proved* of it: one `OnReceive` per client at a time (`OneReceiver`),
and no callback of a session after the slot's next session began (`NoStaleIo`
and the refinement of `SlotLifecycle`). `Accounts` uses of the packet layer that
complete requests come in order, and keeps its weakness that a reply goes to a
slot and not to a client. `Hunt` composes the boss: perception and notifies call
into the monster (`MonsterAI`), hits into its body (`MonsterHealth`), and the
hit that takes the last health calls `SetDead`; the blackboard and the aggro
component connect the prey with both. The map manager, the state machine, the
screens and the player's parts call each other only through blueprints and
drivers that are not in the repository, so each is modelled with its public
operations called in any order.

## 2. Modules

| Module | Models |
|---|---|
| `IocpNetServer`, `SlotLifecycle` | server, slots, kernel; what a slot promises (abstract, refined) |
| `UserBuffer`, `ByteFifo` | `SetPacketData`, `GetPacket` run alone; what a buffer promises (abstract, refined) |
| `PacketManager` | the same buffer with its threads, queues, sessions and handlers; every unlocked access is a step |
| `ClientToServer` | the client's threads and shutdown |
| `AppServer` | start and end of the server, step by step, with the threads they create |
| `Odbc`, `Accounts` | the database's statements; login, sign-up, chat and entering the game on top of it |
| `MonsterAI`, `MonsterHealth`, `Hunt` | the monster's actions and movement; the boss's body; both with aggro, perception, blackboard and hits |
| `Inventory`, `PlayerAnim`, `PlayerBody` | what the player carries; which animation it shows; what it wears and holds, and its keys |
| `MapMgr` | entering maps and streaming |
| `GameStateMachine` | states that ask for each other |
| `Frontend`, `Button` | scenes, widgets and login flow; the button |
| `TableMgr` | reading tables |
| `Selection` | what a set selects of a sequence, in order; used by `Accounts`, `Frontend` and `TableMgr` |
| `MC...` | constants for TLC; `MCHunt` and `MCWorld` compose |
| `..._proofs` | theorems |

**`IocpNetServer`.** A slot's sockets are numbered by session (`sess`, `sock`), so
that an I/O knows whose it is. `pending` is the I/O in the kernel, `done` and
`failed` are completion packets in the port. A worker's `pc` names the point of
`WorkerThread` it has reached; a step ends at every access of shared state, so
`Close` is four steps (`close`, `stamp`, `release`, `report`) and `++client_cnt_`
is two. `SendMsg` and `SendCompleted` hold `send_lock_` and are one step each.
`ReadyAccept` is one step: it runs on the one accepter thread, on a slot nobody
else may touch. Time is `closedAge`, the seconds since `latest_closed_time_sec_`.
`Faults` names the Windows calls that may fail although nothing is wrong with
the connection. After a failed `WSASend` the message stays at the queue's front. A `WSARecv` may also
fail at once when the peer is gone: after `OnReceive` the worker does not look at
that, and the slot is deaf (`Deaf`), connected with no receive under way.

**`PacketManager`.** A unit of data stands for some bytes; the first unit of a
packet carries its header. `rx` is where a worker is in `SetPacketData` (test,
slide, rewind, copy, advance, notify) and `ppc` where the process thread is.
Positions are unsigned words (`WordSize`), so a read position ahead of the write
position gives the large difference it gives in C++. `fed`, `taken`, `handled` and
`raced` are history: `raced` records that the window slid while the process thread
was using it, after which the buffers promise nothing. `UserBuffer` is the same
code without the interleaving, which is what can be proved about in general.

**`ClientToServer`.** Since all pointers of a queue are the address of one local,
a queue is its length, and `data` is what the pointers show. A reader that holds
the mutex and has a message box open stands in `box`. `alive` becomes false when a
reader uses the stack of the finished receiving thread.

**`AppServer`.** The button's press is a program counter over the calls of
`ServerStart`; the threads created so far act in between. Nobody looks at what
`Init` and `BindAndListen` return: after a failed `Init` no worker is wanted, and
after a failed bind nobody is accepted. A second press replaces a manager whose
thread has not been joined, which ends the program (`terminated`). The flags that
stop the threads are never set again, so a server started after `End` accepts
nobody.

**`Odbc` and `Accounts`.** Every operation of `Odbc` is a function from the record
of statements, cursors, table and indicator to its answer and the record after,
with the code's early returns; `driver` is what `SQLExecute` and `SQLFetch` come to
while it lasts. The indicator
`m_cbColumn` is shared, so each execution binds what the last one left. A packet's
texts have up to 32 characters and the parameters room for 20: `Fits` are the texts
that leave room for a terminator, and for the others `AddSQL` and `LoginCheckSQL`
return the set of what may come of it: the driver may take what it finds behind
the text (`Found`), shorten it with a warning or refuse it, and a password may run
into the handle of the update statement (`Overrun`). Handlers
run on the process thread one at a time. Bad news opens the message box of
`Odbc::ErrorMsg` first, and nothing goes on until somebody closes it (`box`). A
request carries its slot and an answer
goes to that slot, whoever is connected there by then (`late` records that it was
another). `SendMsg` queues for any slot, connected or not; where the `WSASend` fails, and
it does where no client is, the message stays at the front, the slot is `silent`
from then on, for its next clients too, and a packet queued behind it is not `out`.
Entering the game and chat go to every connected client. Operations
that have no caller in the repository are "backstage" calls and share the bound
`MaxSent`.

**`MonsterAI`.** Locations are reduced to what the code asks: whether the monster
is within `acceptance_radius_` of its target (`reached`). `MoveBegin` walks over
the points that are already reached and stops at the first that is not, choosing
where that is. `node` holds the members of the Move task, which all monsters share;
`shared` records that one monster's task started during another's.

**`MonsterHealth` and `Hunt`.** A part of the body belongs to a group, a group has
three thresholds and counts what it has taken towards each. The column a threshold
is read from follows the struct the row is cast to (`CommonSource/AZStruct.h:163`),
and weaknesses follow the switch of the code, wings, body and back included.
`told` counts broadcasts and `looks` is the mesh component's own picture. `Hunt` adds
the target of the aggro component (`best`) and of the blackboard (`target`), the choice
of an action by mode, damage, sight and range, and the sphere trace that takes
every character for a player (`crashed`). `here` is the players that have a character;
both targets are weak pointers, so a character that is destroyed empties them, and
one that comes in its place is another object. `FindTarget` overwrites the
blackboard's with the first player's character, with nobody when that player has
none, or returns when there is no controller. `bereft` records which target was lost
to a character that is not there. Choosing an action by an empty target is a null
dereference.

**`Inventory`.** A storage maps a key to an item object with its count and the tag
that says where it lies; `RemoveItem` goes by the tag. The slots of the quick menu
hold objects: `InPocket` while the pocket keeps the object too, otherwise the count
of an object only the slot keeps. `Increase` is 1 for ammunition whatever is asked.

**`PlayerAnim`.** `anim` is the record of the members that input and notifies write;
`NativeUpdateAnimation` serves them in the code's order. Whether a name is one of a
montage or a section shows only then. `nested` records a second pause while one mode is
paused, after which the code no longer finds the rate.

**`PlayerBody`.** Ids are integers; `PartIds` are the ranges of
`AAZPlayer::ChangeEquipmentMesh`, `KindIds` those of `GetSkeletalMesh`. Keys keep
what each handler keeps.

**`MapMgr`.** The engine is a set of choices: which levels are pending, when a map is
loaded, whether the loading widget's class can be loaded. `bound` has the handles
bound to `PostLoadMapWithWorld`, one of which `handle` remembers; `OpenLevel` of the
front end fires those that are bound. The player's pawn comes and goes as the engine
likes (`player`, `PawnChanges`): `UpdateStreaming` returns while there is none
(`Manager/AZMapMgr.cpp:737`), and the preparation of a cinematic dereferences it.
`MaxRenew`, `MaxWait` and `MaxCheck` stand for 10, 300 and 120.

**`GameStateMachine`.** What `BeginState` and `EndState` of a state ask is any one
request or none, at every such call, since the repository has no subclass. A
request that is made inside `BeginState` with no delay is lost, as in the code. Any
id may be asked for; one that has no state ends the program (`fallen`).

**`Frontend`.** One record holds the HUD's stack of scenes with their children, the
widgets of the game instance, known by weak pointers, and the login manager. A
widget's closing animation may end after it was opened again. Every public call of
the HUD that changes a scene or a widget may come at any time: opening with or
without restoring, raising a scene of the stack, closing or hiding one, current or
not, opening and closing a widget, closing all. Opening without restoring closes
the scene's children in a loop that does not end when the last one is closed
already (`hung`). `astray` records which order a call has disturbed, until a later
one sets it right.

**`Button`.** Pointers are the mouse and fingers, places 0..2 on a line; a distance
of 2 is a drag. Another button of the mouse moves the origin of a drag (`crowded`).

**`TableMgr`.** A file is its columns, the set of those whose name begins with `~`, and
lines of cells of which some are empty. Splitting a line drops empty cells, so the
cells after one shift to the left; a row that is shorter than the columns reads
past its end (`broken`).

## 3. Runs

| Run | Instance | Shows |
|---|---|---|
| `server_safety` | 1 slot, 2 workers, 2 sessions, 3 messages, all faults | types; no stale I/O; one receiver; ordered single sends; no lost send; refinement of `SlotLifecycle`; no crash but that of a failed accept |
| `server_liveness` | the same with 2 messages; calls fail on a connection that is gone, and `WSASend` on any | a slot whose peer left accepts again unless it is deaf, queues drain, `DestroyThread` returns |
| `user_buffer` | 8 units, packets of 2 and 3, receives up to 3 | the buffer is a FIFO of whole packets through every slide |
| `packets_sessions` | 4 units, 2 sessions, joined and split packets | contents are right until the window slides under the process thread |
| `packets_live` | 8 units, 1 session, one packet end per receive | every packet has its turn and is taken |
| `client_app` | every stream of three packets | handling is right unless a packet was overwritten, no kind goes to the wrong reader, shutdown returns |
| `hunt` | one boss, two players, paths of three points; three kinds of items, three montages, both ends of every id range | effects happen once and the mesh agrees; a target is lost only with its character; walks are awaited, answered once and end; tags agree and moves lose nothing; sections and meshes fit |
| `world` | two maps, three game states, three screens, one finger, two slots, files of up to two rows, three presses | never left paused, one post-load per entry; with a pawn that stays pauses end and streaming settles; no stale transition; the top is current; clicks are their own; one answer each, in agreement with the table; rows keep their columns; a client accepted finds all it needs |
| `client_first` | two packets | refutes that the packet received first is handled first |
| `packets_coalesced` | two packets may end in one receive | refutes that each request is processed |
| `packets_mix` | two sessions of one slot | refutes that a user is returned when its connection is lost |
| `monster_hang` | paths of 3 points | refutes that a Move task waits for a movement that was requested |

The last four check one statement of a comment in the code that the code does
not keep; `PROJECT.json` gives the quotation and the reason under `findings`.

`MCHunt` and `MCWorld` run several components in one state space. Those that share
no variable take no steps of each other's: `focus` is chosen at the start and names
the component that moves, so each is seen through all of its own behaviours and
the product of unrelated state spaces is not built. Inside `Hunt`, and between
`Odbc` and `Accounts`, the components do interact and every interleaving is checked.
Two of them are looked at twice. The monster is seen whole with one player whose
character stays ("monster"), and with two whose characters come and go while it is
either not hit or killed ("prey"). The accounts are seen with one client that may type
what is too long ("Server"), and with two that do not ("Crowd").

**Bounds.** `MaxSession`, `MaxSend`, `MaxSent`, `MaxPoints`, `MaxCalls`, `MaxAsked`,
`MaxHudCalls`, `MaxPress`, `MaxMove`, `MinCount` and `MaxCount` bound
counters and calls from outside. Slots share nothing but workers and the port, so
one slot and two workers give every race on a slot: two completions handled at
once, and a third queued. Two sessions are what it takes for an old one to meet
a new one. Three messages give a queue with a message in the kernel, one next and
one behind it. For the buffers, the sizes make each slide boundary, full
half-buffer and split header occur; the proofs cover all other sizes. Three
packets let two meet in each queue of the client. Three path points give a first,
a middle and a last move, and three request ids wrap around while a message is
under way. The boss has 2 health and parts that have all effects, some or none;
a hit takes 0, 1 or 2, so a threshold is met exactly, passed, and passed by the
hit that kills. Item counts reach below 0 and above the start, a warehouse holds
one kind so that it is full, and moves take all or half. Two maps, one composed
of levels and one not, and three calls from outside let a second entry meet the
first one's callbacks; timers of 2 expire in the middle. Three states with one
forbidden change and three requests let a state be left and entered with a
request pending. Four calls of the HUD open, cover, close and reopen a scene, and the
fifth meets the loop that does not end. Two
slots and three requests let an answer meet the next client of its slot, and a
message that was sent to an empty slot, or whose send failed (`Breaks`), silence it. One
identification and password that fit, and one of each that does not and begins
like them, are enough to take one user for another. A press
of the button that follows `End` and one that does not both fit into three.

**Deadlock checking** is off where the system may stop: servers that were shut
down, sessions that are used up, a dead monster, a terminated program.

**Fairness.** *Server:* threads are scheduled by Windows (weak fairness of each
worker, the accepter and `DestroyThread`), the kernel completes what it must
complete (sends, and receives whose connection is gone), the clock ticks. The port
is a FIFO in Windows and a set here; strong fairness of a dequeue says only that a
packet is not passed over for ever. No peer need connect, send or leave.
*Packets:* the worker in `OnReceive` and the process thread run. *Client:* the three
threads run and the user closes message boxes; the mutex is not assumed fair.
*Hunt:* each frame ticks the controller, delivers messages and moves a walking
monster; the choices of the tree, players, animations, hits and death are not fair.
*World:* the engine calls the map manager's `Tick` every frame, which does nothing
while the player has no pawn. Whether there is one after a load is up to the engine
and the assets, so `PauseEnds` is claimed where from some time on the player has a pawn, and
`StreamingSettles` where besides no level is pending; without a pawn the game does
stay paused. Nothing else is fair, so levels may stay pending for ever, and the
code's own counters end the pause.

**Assumptions about the environment**, each a named constant or guard:

- `DrainTime <= ReuseWait` and the guard of `Tick`: the I/O of a closed session is
  over within the reuse wait. The code bets on it (`IocpNetServer.h:347`).
- `2 * MaxBacklog <= BufferSize`: no client has more than half a buffer of data
  waiting; `SetPacketData` has no test for it.
- `WaitCovers`: whether the process thread has caught up with a session before its
  slot is used again. False where only buffer contents are checked; true in
  `packets_mix`, so that the refutation does not rest on a slow thread.
- `Coalesce`: whether one receive can bring the ends of several packets.
- The peer's stream is well-formed packets, cut off anywhere.
- `AnswersAgree` is claimed of requests whose texts fit their parameters and that find
  the driver up, both statements prepared and the length indicator at `SQL_NTS`,
  whatever calls and texts came before.

**Exceptions the properties name.** Where the code leaves a case open, the property
says so instead of the model leaving it out: `SlotIsReused` excepts a slot that went
deaf, `OneAnswerEach` answers that went to the slot's next client and, from going out,
those queued behind a send that failed, `CombatHasTarget` a target that was lost to
a character that is not there, `TopIsCurrent` a stack that a call has put out of order
and none has set right, `ClickIsOwn` a pointer whose origin another button moved,
`StandsStillOnlyWhenPaused` a pause within a pause, `AcceptedFindsAll` the time between
the manager's end and the workers' join, `MovesLoseNothing` a full target and several
bottles moved at once, and the packet buffers' properties a window that slid under
its reader.

## 4. Proofs

All theorems hold for every choice of the constants that satisfies the named
assumptions of their modules (`ServerAssumption`, `BufferAssumption`,
`MonsterHealthAssumption`, `InventoryAssumption` and so on). Every invariant, every
action property and both refinements that the passing runs check have a theorem;
liveness stays with TLC.

**Server** (`IocpNetServer_proofs`, `IocpSessions_proofs`).

- **`TypeCorrect`** (`[]TypeOK`). Inductive with the clause that a worker that
  handles something holds a well-formed completion.
- **`SendsAreOrdered`, `NoSendIsLost`, `WorkersDoNotCrash`**, from
  `SendInv == TypeOK /\ SendDiscipline /\ NoLostSend`. The two need each other: the
  front of the queue is popped only by the holder of the one outstanding send, and
  because of that a queue that is not empty has one. That `SendCompleted` never
  pops an empty queue follows, so a failed accept is the only crash.
- **`NoStaleIoEver`**, from `SessionInv`. That a slot has no old I/O when a socket is
  created needs `Drained` (closed for longer than `DrainTime` means quiet),
  `SockIsNewest` (new I/O is the newest session's), `ClosedHasNoSocket` (a closed
  slot cannot post I/O, but for the worker that is just closing it) and
  `FreshIsQuiet` (a slot never used has none).
- **`OneReceiverEver`, `ReuseIsReported`**, from `SlotInv`, which adds that an accepting or
  closing slot is disconnected (`AcceptingIsClosed`, `ClosingIsClosed`), a slot with
  a closing time is free (`ClosedIsFree`), and its report was made or is about to
  be (`ReportIsDue`).
- **`ServerImplementsLifecycle`**: under `SlotInv` each step is a step of
  `SlotLifecycle` or leaves it unchanged.

**Packet buffer** (`UserBuffer_proofs`).

- **`WindowInBounds`, `SlidesAreDisjoint`**: the positions of a packet buffer stay
  inside the allocation, and `memcpy` never copies between overlapping regions.
- **`BufferIsFifo`**: `SetPacketData` appends to the window (`PutAppends`), `GetPacket`
  takes a whole packet from its front (`GetTakesFront`), whether it slides or not.

**Packet layer** (`PacketManager_proofs`), for any number of clients and any sizes,
under `PacketAssumption`.

- **`PacketTypes`**, from `Typed`. It has to say that what a worker is about to add to
  the window was written inside the buffer, and that no `User` ever leaves the domain
  state `NONE`.
- **`TheWindowIsTheBacklog`, `EveryRequestIsIntact`, `OnlyARaceCrashes`**, from
  `Typed /\ Unraced`. For a client whose window never slid under its reader, `Unraced`
  relates the two threads: the window holds what was received and not taken (`Backlog`);
  what is being received has room and, once copied, lies behind the window (`Fits`); what
  `GetPacket` measured stays true while it works, and the packet its handler is about
  to read stays where the pointer shows (`Reading`). The unsigned difference of the two
  positions does not wrap then, and a worker that writes during a handler's read
  writes elsewhere.
- **`EveryPacketIsPromised`**, from `Promised` on top of it: in a slot's first session
  `GetPacket` always stands at the start of a packet, and the packet ends behind it are
  at most the turns to come, one fewer when this turn measured before the last unit
  arrived. That a packet has only one end before the next one starts is proved by
  taking the first unit that would deny it.

**Client connection** (`ClientToServer_proofs`).

- **`ClientTypes`**: with the clause that a busy reader has not popped its pointer yet, so
  that no reader pops from an empty queue.
- **`InGameReaderIsShownItsOwn`**, from `GameLocal`: the in-game local is written only
  after `Login_data` was found to hold an in-game packet.
- **`RightUnlessOverwritten`**, from `OneAtATime`: until something is overwritten each queue
  has at most one pointer, the local shows the packet it was pushed for, and the
  reader has handled all that came before, in order.

**What surrounds a hunt** (`World_proofs`).

- **`StartingServerIsWhole`**, from `AppTypeOK` and `AppInv`, which says how much of the
  manager is there at each point of the press, and that threads which accept exist
  only once it is whole. It covers any number of clients, workers and presses.
- **`NoTransitionIsStale`**: whatever states there are, which block each other and what
  their handlers ask for, ids without a state included, a transition is one that was asked of the state that
  starts it, in its present life.
- **`ClicksAreOwn`**, from `ButtonInv`: a pressed button has a pointer that is down on it
  (`SomebodyPresses`); while only one thing is down that pointer went down here, and
  the place the button remembers is the place where it did (`AloneStays`).
- **`PausesAreWatched`, `TravelsAreHeardOnce`**, from `MapInv`, in which a record that pauses
  is in a state the streaming check looks at (`Awake`), whatever the limits of the
  rounds; a travel under way has the newest handle bound and nothing else.
- **`AnswersAlwaysAgree`**: with the operations of `Odbc` looked through one by one, no
  earlier call leaves a cursor open that would fail a later one, nor anything in the
  parameters that a later one would take for its own, whatever the texts. While a
  message box is open nothing of the database moves, so that the answer sent behind
  it is still the one that was found.
- **`EveryAskerIsAnsweredOnce`**, from `Answering`: what a client still expects is, kind by
  kind, the answers queued for it followed by its requests that wait. Each lemma
  says how one operation moves the boundary between the two. That all of them go out
  is a second invariant: a packet that will not is queued only for a silent slot.
- **`TheTopIsTheCurrent`**, from `HudInv`, for every public call in any order. Only scenes of
  the stack have children (`Homed`): without that a scene that is opened "back" through
  its children need not be on the stack. Each half holds until a call disturbs it and
  again once one has set it right (`Ordered`), so the steps that set it right are
  proved for a stack that is out of order.
- **`EveryCellIsUnderItsName`**: each column that is left out moves those behind it by
  one, so what is at place i after the removals is what is selected of the places
  that stay (`ColumnsMoveUp`); and a file that loads to its end has every line
  (`EveryLineIsThere`). `TablesAssumption` says that the first line of a file names every
  column once and does not leave all of them out, which is so in each file of
  `RawContent/Csv`.

The last three rest on recursive definitions (`Selecting`, `Keeping`, `Loading`). They
are recursive functions rather than folds. What they compute is proved for every
number by looking at the least one outside the set of those for which it holds
(`Induction`, from the library's well-foundedness of `<`).

**Boss and hunt** (`Hunt_proofs`).

- **`EffectsAlwaysHappenOnce`, `MeshAlwaysShowsDamage`**, from one invariant over what the
  component knows (`state`), what it has told and what the mesh shows. An effect
  that has been told is no longer able to happen, which is why it is told once; the
  mesh hears of it in the same step.
- **`WalkersAreAwaited`, `RequestsAreAnsweredOnce`**, from `MonsterInv`: unless the task node was
  ever shared, a monster has at most one message on its way, none while a request is
  active, and while it walks its Move task waits for the active request or for that
  message; the node belongs to the monster whose Move task runs. The ids may wrap:
  no clause needs two of them to differ.
- **`FighterHasTarget`**, from `PreyInv`: only the detection starts a combat, it has
  written both targets by then, and what empties one of them is a character's
  destruction or a service that finds none.

**Player** (`Player_proofs`).

- **`TagsAlwaysAgree`**: no sequence of moves and uses gives an item a tag of another
  storage. The invariant adds that a slot that shows the pocket's object has one
  there, so that the count a use reads exists.
- **`NoMoveLoses`**, from the same invariant: what a move leaves in the two storages is
  computed by `AddCounts` and `MoveTotals` for every count and stack limit.
- **`SectionAlwaysFits`, `StillIsPaused`**: for all montages, sections and missing assets.
  `RateInv` says whose pause a rate of 0 is, as long as pauses are not nested.
- **`EachPartAlwaysShowsItsOwn`**: for every id, not only the ends of the ranges.

**Only model-checked:** the liveness properties (`SlotIsReused`, `QueueDrains`,
`DestroyReturns`, `ShutdownReturns`, `WalkEnds`, `PauseEnds`, `StreamingSettles`), since
the prover has no rules for fairness and ENABLED here, and the refutations of section 3.

## 5. What the code does that a reader would not expect

Met while modelling, and kept in the models as the code has it. None of these is
denied by a comment or a test except those of section 3 and those quoted here.

- *Server.* A failed `Init` or bind goes unnoticed; a second press of the button
  destroys a running thread object. After `End` the flags of the threads stay off.
  A slot whose `WSASocket` or `AcceptEx` fails is lost, and so is one whose `WSARecv` fails
  at once behind `OnReceive`: the comment at `GameInstance/ClientInfo.h:178` treats such a
  socket as disconnected, `GameInstance/IocpNetServer.h:298` does not look. A message to an
  empty slot stays at the front of its queue and silences every later client of it
  (`GameInstance/ClientInfo.h:209-215`). Between the manager's `End` and
  `DestroyThread` accepted clients feed a thread that has been joined.
- *Accounts.* Identifications and passwords of 20 characters and more run over the
  parameters of the statements (`GameInstance/Odbc.cpp:258,502`), and every refused
  login stops the server until its message box is closed (`GameInstance/Odbc.cpp:155`).
  `AddSQL` answers failure when the driver warns, though the row is there;
  nothing makes names unique; `LoginCheckSQL` takes a fetch error for a match;
  `UpdateSQL` always answers `TRUE` and resets the wrong statement when it fails
  (`GameInstance/Odbc.cpp:344`); `Load` leaves its cursor open on a warning and does
  not end on a fetch error.
- *Inventory.* A move of potions leaves the source's count as it was
  (`Manager/AZInventoryManager.cpp:339`); items moved to a full storage are gone; a
  potion that is used up still heals, although `PlayerState/AZPlayerState.h:275-279`
  says that it does not.
- *Animation.* When both modes pause, the resumed montage keeps rate 0
  (`AnimInstance/AZAnimInstance_Player.cpp:237`).
- *Screens.* The stack is not unwound scene by scene when it goes back
  (`HUD/AZHUD.cpp:415`): children are hardly ever recorded, earlier scenes stay, and
  the stack grows duplicates. `RaiseOnTopFromStack`, and `OpenScene` without restoring, leave
  the current scene and the top of the stack apart; the latter does not end when its
  last child is closed already (`HUD/AZHUD.h:123`). Closing a scene that is not the top
  drops the top instead. A closing animation that is not stopped destroys a
  widget that was opened again.
- *Button.* An action that makes a press never finishes (`Tick` is empty).
- *Maps.* The game begins play before `PostLoadMap`, so one branch that pauses is not
  reached; a second entry leaves the first one's delegate bound; lights are never
  hidden. Preparing a cinematic while the player has no pawn is a null dereference
  (`Manager/AZMapMgr.cpp:1242`), and a game paused after a load stays so until it has one.
- *States.* `SetPreState` after A, B, C, B makes B and C each other's predecessors. The
  delay given to `ChangeState` is dropped. An id without a state is a null dereference
  (`GameStateMachine/AZStateMachine.cpp:113`).
- *Boss.* Columns of the threshold struct are shifted against the table
  (`CommonSource/AZStruct.h:163`); weakness is divided as an integer; a hit on a monster
  that is no boss reads an empty array; `FindTarget` replaces the target aggro chose.
  After the prey's character is destroyed `best_target_` stays empty, and the monster
  turns to the world's origin; the service may write that there is nobody, which the
  next choice of an action dereferences
  (`BehaviorTree/BTTask/BTTask_SelectRandomAction.cpp:158`).
- *Tables.* An empty cell would shift a row to the left; no table of the repository
  has one.

## 6. Not modelled

- *Pure presentation*: layout, text boxes, viewport, world actors and environment;
  camera, zoom and look; disappearing objects and dungeon info.
- *Lookups*: the asset, configuration, save-data, input and resource managers load
  once and are read by key afterwards; the game instance creates the managers. The
  lines of `GameInstance/AZGameInstance.cpp` that create the server and the client
  connection (77-82) and end them (93-98) are commented out at this commit; the
  models take both as they are written.
- *Not connected*: `ClientMsg/`; `Odbc::CreateInsertAccount` and `DisConnect`; the second
  inventory manager, which is commented out; the in-game mode's table of
  characters, which nothing writes; a list of asynchronous loads that is not empty.
- *No control*: generated tables, the vendored enum library, the C# table
  generator, configuration and batch files.
- *In assets*: behaviour trees, blueprints and animation graphs. What they may ask is
  an arbitrary choice of the models.
- *Data abstracted*: geometry and angles of monsters, the contents of chat and of
  in-game movement, text and layout of widgets, the physics of line traces.

## 7. What is left

- A termination argument for the liveness properties could be prepared by proving the
  decreasing measure of each (the length of a send queue, the time until a slot is
  reused) as an action property; the runs check the properties themselves.
- Hazards without a property are listed in `PROJECT.json` with the reason.
- Of the unmodelled parts, the asynchronous loading of the game modes and the game
  instance would be next once the repository connects them.
