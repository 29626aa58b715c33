-------------------------- MODULE GameStateMachine --------------------------
(* UAZStateMachine and its UAZGameState objects.  A state keeps a transition *)
(* somebody asked it for and starts it from its own tick; BeginState and     *)
(* EndState of the subclasses may ask for another one while the machine is   *)
(* changing.  The repository has the machine and no subclass yet: what these *)
(* handlers do is any one request, or none.                                  *)
EXTENDS Naturals

CONSTANTS GameStates,  \* the ids that have a state
          GameDefault,
          NoState,     \* None, and any other id that has none
          Blocks,      \* block_states_ of each state
          Start,       \* start_state, or NoState
          MaxDelay,    \* bound: the ticks a transition is delayed
          MaxAsked     \* bound: requests

ASSUME GameStateAssumption ==
  /\ GameDefault \in GameStates /\ NoState \notin GameStates
  /\ Blocks \in [GameStates -> SUBSET (GameStates \cup {NoState})]
  /\ Start \in GameStates \cup {NoState}
  /\ MaxDelay \in Nat /\ MaxAsked \in Nat

VARIABLES cur,       \* cur_state
          prev,      \* prev_state_id of each state
          change,    \* the transition of each state: is_change_state_, where to, the time left
          fallen,    \* a null pointer was followed
          asked,     \* bound: requests so far
          requested    \* history: the requests the current state got since it began

gsmVars == <<cur, prev, change, fallen, asked, requested>>

Ids == GameStates \cup {NoState}
Nowhere == [on |-> FALSE, to |-> NoState, time |-> 0]
Towards(s, time) == [on |-> TRUE, to |-> s, time |-> time]

GsmInit ==
  /\ cur = NoState /\ prev = [s \in GameStates |-> NoState]
  /\ change = [s \in GameStates |-> Nowhere]
  /\ fallen = FALSE /\ asked = 0 /\ requested = {}

\* What a handler may ask for: nothing, ChangeState(to), or SetState(to) of the
\* state, which takes any id.  The machine is changing, so that a request to be
\* served at once is dropped: TransitionState takes it back and SetState does
\* nothing.
Requests == {Nowhere} \cup {Towards(s, 0) : s \in Ids}

\* SetState to another state: EndState, the links back, ClearTransition and
\* BeginState.  A request made in EndState is left to the state that ends.
\* Mutant: a state begins with what it was asked for in its last life.
BeginUncleared(s, left, begins) ==
  /\ change' = [left EXCEPT ![s] = IF begins.on THEN begins ELSE @]
  /\ requested' = IF begins.on THEN {begins.to} ELSE {}
BeginState(s, left, begins) ==
  /\ change' = [left EXCEPT ![s] = begins]
  /\ requested' = IF begins.on THEN {begins.to} ELSE {}

Linked(s, restore) ==
  IF s = GameDefault THEN [t \in GameStates |-> NoState]
  ELSE IF cur # NoState /\ ~restore THEN [prev EXCEPT ![s] = cur] ELSE prev

Entered(s, restore, left) ==
  \E ends \in Requests, begins \in Requests :
    /\ cur' = s
    /\ prev' = Linked(s, restore)
    /\ BeginState(s, IF cur # NoState /\ ends.on THEN [left EXCEPT ![cur] = ends] ELSE left,
                  begins)

IsBlockChangeTo(state, s) == s \in Blocks[state]

\* SetState, with what is left of the transition that led to it.  The state of an
\* id that has none is asked for its id before the test for null.
SetState(s, restore, left) ==
  IF s = cur \/ (cur # NoState /\ IsBlockChangeTo(cur, s))
  THEN change' = left /\ UNCHANGED <<cur, prev, requested, fallen>>
  ELSE \/ s \in GameStates /\ Entered(s, restore, left) /\ UNCHANGED fallen
       \/ /\ s \notin GameStates /\ fallen' = TRUE
          /\ change' = left /\ UNCHANGED <<cur, prev, requested>>

OnStart ==
  /\ cur = NoState
  /\ SetState(IF Start = NoState THEN GameDefault ELSE Start, FALSE, change)
  /\ UNCHANGED asked

\* ChangeState and the SetState of a state, from outside any handler.  The delay
\* that is passed to ChangeState is not passed on.
ChangeStateFirst(s) ==
  /\ cur = NoState /\ asked < MaxAsked /\ asked' = asked + 1
  /\ SetState(s, FALSE, change)
Ask(s, time) ==
  /\ cur # NoState /\ asked < MaxAsked
  /\ change' = [change EXCEPT ![cur] = Towards(s, time)]
  /\ requested' = requested \cup {s} /\ asked' = asked + 1
  /\ UNCHANGED <<cur, prev, fallen>>

Due(c) == c.on /\ c.time <= 1
Served(c) == [c EXCEPT !.on = FALSE, !.time = 0]

\* at once: TransitionState counts one frame off
AskImmediately(s, time) ==
  /\ cur # NoState /\ asked < MaxAsked /\ asked' = asked + 1
  /\ IF Due(Towards(s, time))
     THEN SetState(s, FALSE, [change EXCEPT ![cur] = Served(Towards(s, time))])
     ELSE /\ change' = [change EXCEPT ![cur] = Towards(s, time - 1)]
          /\ requested' = requested \cup {s} /\ UNCHANGED <<cur, prev, fallen>>

GsmTick ==
  /\ cur # NoState /\ change[cur].on
  /\ IF Due(change[cur])
     THEN SetState(change[cur].to, FALSE, [change EXCEPT ![cur] = Served(@)])
     ELSE /\ change' = [change EXCEPT ![cur].time = @ - 1]
          /\ UNCHANGED <<cur, prev, requested, fallen>>
  /\ UNCHANGED asked

SetPreState ==
  /\ cur # NoState /\ asked < MaxAsked /\ asked' = asked + 1
  /\ SetState(IF prev[cur] # NoState THEN prev[cur] ELSE GameDefault, TRUE, change)

\* EndPlay of the game mode, and OnCreate of the next one's machine
ReleaseSubobjects ==
  /\ cur # NoState /\ asked < MaxAsked /\ asked' = asked + 1
  /\ cur' = NoState /\ prev' = [s \in GameStates |-> NoState]
  /\ change' = [s \in GameStates |-> Nowhere] /\ requested' = {}
  /\ UNCHANGED fallen

GsmNext ==
  /\ ~fallen
  /\ \/ OnStart \/ GsmTick \/ SetPreState \/ ReleaseSubobjects
     \/ \E s \in GameStates : ChangeStateFirst(s)
     \/ \E s \in Ids, time \in 0..MaxDelay : Ask(s, time) \/ AskImmediately(s, time)

GsmSpec == GsmInit /\ [][GsmNext]_gsmVars /\ WF_gsmVars(~fallen /\ GsmTick)

----------------------------------------------------------------------------
(* A state never starts a transition it was asked for before it began: what  *)
(* EndState, or somebody during it, asked of the old state must not come     *)
(* back when that state is entered again (AZStateMachine.cpp:114-139).       *)
NoStaleTransition == cur # NoState /\ change[cur].on => change[cur].to \in requested
=============================================================================
