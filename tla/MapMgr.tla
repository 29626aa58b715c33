------------------------------- MODULE MapMgr -------------------------------
(* UAZMapMgr: how a map is entered and how the streaming of its levels       *)
(* pauses the game.  Entering a map travels, and the engine calls back when  *)
(* some map is loaded; from then on the manager looks at the levels once a   *)
(* frame.  The front end opens levels without telling the manager.  Which    *)
(* levels are pending, and whether the class of the loading widget can be    *)
(* loaded, is up to the engine.  Nothing in the repository fills the list of *)
(* packages to load: collecting them ends at once.  Nothing reserves a kick  *)
(* or an entry, so those are left out.                                       *)
EXTENDS Integers, FiniteSets, SequencesExt

CONSTANTS Maps, Worlds,
          LoadingRows,    \* the maps LoadingData has a row of
          MapName,        \* the world of a map's data
          Composed,       \* the worlds with a WorldComposition
          FirstWorld, NoMap, NoWorld,
          WidgetLoads,    \* the outcomes of loading the class of the loading widget
          MaxRenew, MaxWait, MaxCheck,   \* 10, 300 and 120 in the code
          MaxCalls        \* bound: calls from outside

ASSUME MapMgrAssumption ==
  /\ LoadingRows \subseteq Maps
  /\ MapName \in [Maps -> Worlds] /\ Composed \subseteq Worlds /\ FirstWorld \in Worlds
  /\ NoMap \notin Maps /\ NoWorld \notin Worlds
  /\ WidgetLoads \in (SUBSET BOOLEAN) \ {{}}
  /\ {MaxRenew, MaxWait, MaxCheck, MaxCalls} \subseteq Nat \ {0}

VARIABLES world,       \* the world the game is in
          streaming,   \* what UpdateStreaming keeps from frame to frame, and of the
                       \* game mode game_paused_, is_started and the load state
          pending,     \* environment: what is pending: a level at the streaming
                       \* position, one in the player's view only, the shaders
          current,     \* current_map_
          entered,     \* is_map_entered_
          travel,      \* the world a seamless travel is under way to
          bound,       \* the handles bound to PostLoadMapWithWorld
          handle,      \* post_load_map_delegate_handle_
          timers,      \* callbacks for later frames, in order
          widget,      \* loading_widget_
          scene,       \* a loading scene actor is in the world
          loadingMap,  \* loading_map_index_
          crashed,     \* a null pointer was followed
          player,      \* environment: GetPlayer() is not null
          calls,       \* calls from outside so far
          overlapped   \* history: a map was entered while a travel was under way

entryVars == <<current, entered, travel, bound, handle, widget, loadingMap, overlapped>>
mapVars == <<world, streaming, pending, entryVars, timers, scene, crashed, player, calls>>

MapInit ==
  /\ world = FirstWorld /\ pending = {}
  /\ streaming = [state |-> "None", waited |-> 0, checked |-> 0, renewed |-> 0,
                  paused |-> FALSE, close |-> FALSE, begun |-> TRUE, loaded |-> FALSE]
  /\ current = NoMap /\ entered = FALSE /\ travel = NoWorld
  /\ bound = {} /\ handle = 0 /\ timers = <<>>
  /\ widget = "none" /\ loadingMap = NoMap
  /\ scene = FALSE /\ crashed = FALSE /\ player = FALSE /\ calls = 0 /\ overlapped = FALSE

IsOnLoading == widget = "shown"

----------------------------------------------------------------------------
(* The levels, frame by frame: operators on the record.                      *)

\* OnGamePaused and OnGamePauseReleased stop and start the world's clock
SetGamePaused(s, paused) == [s EXCEPT !.paused = paused]

\* a level counts when its bounds hold one of these places
GetStreamingLocations(s) ==
  (IF s.state = "Waiting" THEN {} ELSE {"View"}) \cup
  (IF s.state \in {"Waiting", "Postload", "PrepareCinematic"} THEN {"Position"} ELSE {})
EndWaiting(s) ==
  pending \cap ({"Shaders"} \cup IF s.state = "PrepareCinematic" THEN {"View", "Position"}
                                 ELSE GetStreamingLocations(s)) = {}

\* RenewLevelStreamingState
Renewed(s, close) ==
  SetGamePaused([s EXCEPT !.state = "Waiting", !.waited = 0, !.close = close], TRUE)

\* OnFinishStreamingLevelShown: the first MaxRenew times it starts all over
\* Mutant: the game stays paused.
FinishedPaused(s) ==
  IF s.renewed < MaxRenew THEN [Renewed(s, s.close) EXCEPT !.renewed = s.renewed + 1]
  ELSE [s EXCEPT !.state = "Postload", !.checked = 0, !.renewed = 0, !.close = FALSE]
Finished(s) ==
  IF s.renewed < MaxRenew THEN [Renewed(s, s.close) EXCEPT !.renewed = s.renewed + 1]
  ELSE SetGamePaused([s EXCEPT !.state = "Postload", !.checked = 0, !.renewed = 0,
                               !.close = FALSE], FALSE)
\* its last call in a row asks for the loading scene to be closed
ClosesScene(s) == s.renewed >= MaxRenew /\ s.close /\ IsOnLoading

\* UpdateStreamingCheck, state by state
\* Mutant: no limit to the frames it waits.
AwaitedForEver(s) == IF ~EndWaiting(s) THEN [s EXCEPT !.waited = MaxWait - 1] ELSE Finished(s)
Awaited(s) ==
  IF EndWaiting(s) THEN Finished(s)
  ELSE IF s.waited + 1 >= MaxWait THEN Finished([s EXCEPT !.waited = @ + 1])
  ELSE [s EXCEPT !.waited = @ + 1]
\* Mutant: streams anew whatever the levels do.
RecheckedAlways(s) == Renewed([s EXCEPT !.checked = @ + 1], FALSE)
Rechecked(s) ==
  LET t == [s EXCEPT !.checked = @ + 1]
  IN  CASE t.checked >= MaxCheck -> [t EXCEPT !.state = "Normal"]
        [] t.checked < MaxCheck /\ ~EndWaiting(s) -> Renewed(t, FALSE)
        [] OTHER -> t
Prepared(s) ==
  IF EndWaiting(s) \/ s.waited >= MaxWait
  THEN SetGamePaused([s EXCEPT !.state = "OnCinematic"], FALSE)
  ELSE [s EXCEPT !.waited = @ + 1]

\* UpdateStreaming: only a composed world streams
UpdateStreaming(s) ==
  CASE s.state = "None" -> Renewed(s, FALSE)
    [] s.state = "Waiting" -> Awaited(s)
    [] s.state = "Postload" -> Rechecked(s)
    [] s.state = "PrepareCinematic" -> Prepared(s)
    [] OTHER -> s

Finishes(s) == s.state = "Waiting" /\ (EndWaiting(s) \/ s.waited + 1 >= MaxWait)
\* a frame without the player's pawn checks nothing
Tick ==
  /\ world \in Composed /\ player
  /\ streaming' = UpdateStreaming(streaming)
  /\ timers' = IF Finishes(streaming) /\ ClosesScene(streaming)
               THEN Append(timers, "Third") ELSE timers
  /\ UNCHANGED <<world, pending, entryVars, scene, crashed, player, calls>>

LevelsChange ==
  /\ \E one \in {"Position", "View", "Shaders"} :
       pending' = IF one \in pending THEN pending \ {one} ELSE pending \cup {one}
  /\ UNCHANGED <<world, streaming, entryVars, timers, scene, crashed, player, calls>>

\* The engine gives the pawn some time after the world is there, where the game
\* mode has a class for it, and takes it again.
PawnChanges ==
  /\ player' = ~player
  /\ UNCHANGED <<world, streaming, pending, entryVars, timers, scene, crashed, calls>>

\* Returns when no level that counts is pending; what else was may be there too.
FlushStreaming(s) == pending' \in SUBSET (pending \ GetStreamingLocations(s))

----------------------------------------------------------------------------
(* Entering a map.                                                           *)

Called == calls < MaxCalls /\ calls' = calls + 1

\* The first row of the map is read before their number is: where there is none
\* the build may follow a null pointer, or read nothing until it needs the row.
\* The class of the actor may not load.
SyncLoadingActorInstance(m) ==
  \/ scene /\ UNCHANGED <<scene, crashed>>
  \/ ~scene /\ scene' \in BOOLEAN /\ UNCHANGED crashed
  \/ ~scene /\ m \notin LoadingRows /\ crashed' = TRUE /\ UNCHANGED scene

\* asks for the widget of a map it does not show already
OpenLoadingScene(m) ==
  /\ loadingMap' = m
  /\ \/ loadingMap = m /\ UNCHANGED <<widget, scene, crashed>>
     \/ loadingMap # m /\ widget # "none" /\ SyncLoadingActorInstance(m) /\ UNCHANGED widget
     \/ /\ loadingMap # m /\ widget = "none" /\ TRUE \in WidgetLoads
        /\ widget' = "shown" /\ SyncLoadingActorInstance(m)
     \/ /\ loadingMap # m /\ widget = "none" /\ FALSE \in WidgetLoads
        /\ UNCHANGED <<widget, scene, crashed>>

\* It returns when there is a widget, and goes on to use it when there is none.
CloseLoadingScene == crashed' = (widget = "none")

OnMapExit == entered' = FALSE

\* an index of no map makes none, and the null pointer is followed at once
CreateMap(m) ==
  /\ current' = m
  /\ m \notin Maps => crashed' = TRUE

\* A map of the same world moves nobody.
MapEnter(m) ==
  /\ Called
  /\ OnMapExit /\ CreateMap(m)
  /\ IF m \notin Maps
     THEN UNCHANGED <<travel, bound, handle, widget, loadingMap, overlapped, scene>>
     ELSE IF current # NoMap /\ MapName[current] = MapName[m]
     THEN UNCHANGED <<travel, bound, handle, widget, loadingMap, overlapped, scene, crashed>>
     ELSE /\ OpenLoadingScene(m)
          /\ travel' = MapName[m]
          /\ handle' = handle + 1 /\ bound' = bound \cup {handle + 1}
          /\ overlapped' = (overlapped \/ bound # {})
  /\ UNCHANGED <<world, streaming, pending, timers, player>>

\* PostLoadMapFunction, once for each handle that is bound; each call removes
\* the newest
\* Mutant: the delegate stays bound.
UnboundNever == UNCHANGED bound
Unbound == bound' = bound \ (IF bound = {} THEN {} ELSE {handle})

\* Nothing puts a package on the list, so that there is none to wait for.
BeginAsyncLoad(s) == [s EXCEPT !.loaded = TRUE]
CollectAsyncLoadPackage(s) ==
  IF s.loaded THEN s
  ELSE BeginAsyncLoad(IF world' \in Composed THEN SetGamePaused(s, TRUE) ELSE s)
StartPlayManuallyProc(s) == SetGamePaused(CollectAsyncLoadPackage(s), FALSE)

\* Only the first call starts the play, here that of the engine.
StartPlayManually(s) == IF s.begun THEN s ELSE [s EXCEPT !.begun = TRUE]

\* A world is there: the one of a travel, or one that OpenLevel was asked for
\* by the front end.  It has a game mode of its own, which is not paused and
\* begins play before anybody hears of it.
Loaded(w) ==
  /\ world' = w /\ travel' = NoWorld
  /\ Unbound
  /\ scene' = FALSE /\ player' \in BOOLEAN
  /\ LET fresh == StartPlayManually([streaming EXCEPT !.paused = FALSE, !.begun = FALSE,
                                                        !.loaded = FALSE])
     IN  /\ streaming' = CASE bound = {} -> fresh
                           [] bound # {} /\ w \in Composed -> Renewed(fresh, FALSE)
                           [] OTHER -> StartPlayManuallyProc([fresh EXCEPT !.state = "None"])
         /\ timers' = IF w \in Composed THEN timers
                      ELSE timers \o [i \in 1..Cardinality(bound) |-> "First"]
  /\ UNCHANGED <<pending, current, entered, handle, loadingMap, crashed, overlapped>>

TravelEnds == travel # NoWorld /\ Loaded(travel) /\ UNCHANGED <<widget, calls>>
\* it takes every widget off the viewport
OpenLevel(w) ==
  /\ Called
  /\ Loaded(w) /\ widget' = IF IsOnLoading THEN "removed" ELSE widget

\* The callbacks of StartPlayManuallyProc.
Callback ==
  /\ timers # <<>>
  /\ LET rest == Tail(timers)
         started == StartPlayManually(streaming)
     IN  CASE timers[1] = "First" ->
                /\ timers' = Append(rest, "Second")
                /\ streaming' = IF world \in Composed THEN Renewed(started, TRUE)
                                                      ELSE started
                /\ UNCHANGED crashed
           [] timers[1] = "Second" ->
                /\ timers' = IF world \in Composed THEN rest ELSE Append(rest, "Third")
                /\ UNCHANGED <<streaming, crashed>>
           [] timers[1] = "Third" ->
                /\ timers' = rest /\ CloseLoadingScene
                /\ UNCHANGED streaming
  /\ UNCHANGED <<world, pending, entryVars, scene, player, calls>>

OnMapEnter_Ack ==
  /\ Called /\ entered' = TRUE
  /\ UNCHANGED <<world, streaming, pending, current, travel, bound, handle, timers,
                 widget, loadingMap, scene, crashed, player, overlapped>>

\* LobbyEnterAck
MapDestroy ==
  /\ Called /\ current' = NoMap
  /\ UNCHANGED <<world, streaming, pending, entered, travel, bound, handle, timers,
                 widget, loadingMap, scene, crashed, player, overlapped>>

----------------------------------------------------------------------------
(* Requests of the server and of cinematics.                                 *)

Asked(s) == /\ Called /\ world \in Composed /\ streaming' = s
            /\ UNCHANGED <<world, entryVars, timers, scene, player>>
OnRecvWarpRequest(teleport) ==
  Asked([streaming EXCEPT !.close = @ \/ teleport]) /\ UNCHANGED <<pending, crashed>>
\* it asks the pawn where it is before anything else
SetPrepareCinematicStreaming ==
  /\ crashed' = ~player
  /\ Asked(IF player
           THEN SetGamePaused([streaming EXCEPT !.state = "PrepareCinematic", !.waited = 0], TRUE)
           ELSE streaming)
  /\ UNCHANGED pending
\* RenewLevelStreamingState with force_flush, which finishes at once
FinishCinematicStreaming ==
  /\ streaming.state \in {"OnCinematic", "PrepareCinematic"}
  /\ LET renewed == Renewed(streaming, FALSE)
     IN  FlushStreaming(renewed) /\ Asked(Finished(renewed)) /\ UNCHANGED crashed

MapNext ==
  /\ ~crashed
  /\ \/ Tick \/ LevelsChange \/ PawnChanges \/ TravelEnds \/ Callback \/ OnMapEnter_Ack \/ MapDestroy
     \/ \E m \in Maps \cup {NoMap} : MapEnter(m)
     \/ \E w \in Worlds : OpenLevel(w)
     \/ \E teleport \in BOOLEAN : OnRecvWarpRequest(teleport)
     \/ SetPrepareCinematicStreaming \/ FinishCinematicStreaming

MapFairness == WF_mapVars(~crashed /\ Tick)
MapSpec == MapInit /\ [][MapNext]_mapVars /\ MapFairness

----------------------------------------------------------------------------
(* The game is paused only where somebody will wake it up: in a world that   *)
(* streams, and in a state whose check leads to SetGamePaused(false)         *)
(* (AZMapMgr.cpp:1080-1193; the four callers pause and unpause in pairs      *)
(* across frames, worlds and requests).                                      *)
NeverLeftPaused ==
  streaming.paused => world \in Composed /\ streaming.state \in {"Waiting", "PrepareCinematic"}

(* One call of PostLoadMapFunction for each travel, none left over for a     *)
(* level that somebody else opens, as long as a map is not entered while     *)
(* another is on its way: the manager remembers only the newest handle       *)
(* (AZMapMgr.cpp:191, 345).                                                  *)
OnePostLoadPerEntry ==
  ~overlapped => Cardinality(bound) = IF travel = NoWorld THEN 0 ELSE 1

(* Wherever the player's pawn stays, the game does not stay paused, whatever *)
(* the levels do: the limits on the frames and on the rounds end every wait  *)
(* (AZMapMgr.cpp:943, 1126).  Without a pawn nothing ends it (737), and no   *)
(* code of the repository sees to one.                                       *)
PauseEnds == <>[]player => []<>(crashed \/ ~streaming.paused)

(* Once the levels and the pawn are there for good, the streaming comes to   *)
(* rest.                                                                     *)
StreamingSettles ==
  <>[](pending = {} /\ player) =>
    <>(crashed \/ [](world \in Composed => streaming.state \in {"Normal", "OnCinematic"}))
=============================================================================
