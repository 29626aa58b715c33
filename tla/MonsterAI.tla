------------------------------- MODULE MonsterAI -------------------------------
(***************************************************************************)
(* How monsters walk, fight and die: AAZMonster's action state, its        *)
(* AAZAIController with the move request it has under way, and the tasks   *)
(* UBTTask_Move and UBTTask_SelectRandomAction of the behaviour tree.  All *)
(* run on the game thread, one call at a time, but a move lasts many       *)
(* frames: its end comes back as a message through the brain's queue, and  *)
(* the perception system, the animations and death come in between.        *)
(*                                                                         *)
(* Positions are left out but for what MoveToLocation and Tick ask of      *)
(* them: whether the monster is within acceptance_radius_ of its target.   *)
(* UBTTask_Move makes no instance per monster: owner_, path_index_ and     *)
(* path_points_ are those of the monster that executed it last.            *)
(***************************************************************************)
EXTENDS Naturals, Sequences, FiniteSets

CONSTANTS
  Monsters,       \* the monsters that run the same tree
  NoMonster,
  MaxPoints,      \* bound: length of path_points_, the start included
  IdSpace,        \* 2^32: next_request_id_ is a uint32
  HasTransition   \* has_combat_transition_anim_

ASSUME MonsterAssumption ==
  /\ NoMonster \notin Monsters
  /\ MaxPoints \in Nat \ {0, 1}
  /\ IdSpace \in Nat \ {0}
  /\ HasTransition \in BOOLEAN

VARIABLES
  mode,     \* action_mode
  prio,     \* priority_score
  move,     \* move_state
  action,   \* the kind of action animation_name belongs to
  doing,    \* is_doing_action_
  playing,  \* the kind of action whose animation is being played
  reached,  \* within acceptance_radius_ of target_location_
  active,   \* active_move_request_id_
  nextId,   \* next_request_id_
  mail,     \* MoveFinished messages on their way to the monster's tree
  bt,       \* whether the tree is in its Move task
  waits,    \* the requests that task called WaitForMessage for
  dead,     \* SetDead was called: the tree is stopped
  node,     \* the members of UBTTask_Move: owner_, path_index_, path_points_.Num()
  aborted,  \* history: a Move task of the monster was aborted by its tree
  shared    \* history: the node was executed for one monster during another's task

bodyVars == <<mode, prio, move, action>>
animVars == <<doing, playing>>
requestVars == <<reached, active, nextId>>
treeVars == <<bt, waits, node>>
vars == <<bodyVars, animVars, requestVars, mail, treeVars, dead, aborted, shared>>

Ids == 0..(IdSpace - 1)
Invalid == IdSpace
Kinds == {"none", "normal", "transition", "combat"}

Init ==
  /\ mode = [m \in Monsters |-> "Normal"]
  /\ prio = [m \in Monsters |-> "Locomotion"]
  /\ move = [m \in Monsters |-> "None"]
  /\ action = [m \in Monsters |-> "none"]
  /\ doing = [m \in Monsters |-> FALSE]
  /\ playing = [m \in Monsters |-> "none"]
  /\ reached = [m \in Monsters |-> FALSE]
  /\ active = [m \in Monsters |-> Invalid]
  /\ nextId = [m \in Monsters |-> 0]
  /\ mail = [m \in Monsters |-> <<>>]
  /\ bt = [m \in Monsters |-> "idle"]
  /\ waits = [m \in Monsters |-> {}]
  /\ dead = [m \in Monsters |-> FALSE]
  /\ node = [owner |-> NoMonster, index |-> 0, num |-> 0]
  /\ aborted = [m \in Monsters |-> FALSE]
  /\ shared = FALSE

IsInCombat(m) == mode[m] # "Normal"
IsMoving(m) == prio[m] = "Locomotion" /\ move[m] = "Walk"
-----------------------------------------------------------------------------
(* AAZMonster and AAZAIController.                                         *)

SetMoveState(m, state) ==
  /\ prio' = [prio EXCEPT ![m] = "Locomotion"]
  /\ move' = [move EXCEPT ![m] = state]
  /\ action' = [action EXCEPT ![m] = "none"]

Send(m, id, ok) == mail' = [mail EXCEPT ![m] = Append(@, [id |-> id, ok |-> ok])]

\* Mutant: the request stays active when it is answered.
TickKeepsRequest(m) ==
  /\ IsMoving(m) /\ active[m] # Invalid /\ reached[m]
  /\ Len(mail[m]) < 2
  /\ Send(m, active[m], TRUE)
  /\ UNCHANGED <<bodyVars, animVars, requestVars, treeVars, dead, aborted, shared>>

\* Mutant: the request is over before its end is told, and nobody is.
TickTellsNobody(m) ==
  /\ IsMoving(m) /\ active[m] # Invalid /\ reached[m]
  /\ active' = [active EXCEPT ![m] = Invalid]
  /\ UNCHANGED <<bodyVars, animVars, reached, nextId, mail, treeVars, dead, aborted, shared>>

\* AAZAIController::Tick.
Tick(m) ==
  /\ IsMoving(m) /\ active[m] # Invalid /\ reached[m]
  /\ Send(m, active[m], TRUE)
  /\ active' = [active EXCEPT ![m] = Invalid]
  /\ UNCHANGED <<bodyVars, animVars, reached, nextId, treeVars, dead, aborted, shared>>

SetActionMode(m, to) == mode' = [mode EXCEPT ![m] = to]

\* OnPlayerDetected -> EnterCombat -> SetActionMode, OnEnterCombat; sight is then
\* switched off.
OnPlayerDetected(m) ==
  /\ ~IsInCombat(m)
  /\ SetActionMode(m, IF HasTransition THEN "Transition" ELSE "Combat")
  /\ IF active[m] # Invalid THEN Send(m, active[m], FALSE) ELSE UNCHANGED mail
  /\ active' = [active EXCEPT ![m] = Invalid]
  /\ UNCHANGED <<prio, move, action, animVars, reached, nextId, treeVars, dead, aborted, shared>>

\* SetDead: StopLogic ends the task the tree is in; the messages go nowhere.
SetDead(m) ==
  /\ ~dead[m]
  /\ dead' = [dead EXCEPT ![m] = TRUE]
  /\ bt' = [bt EXCEPT ![m] = "idle"]
  /\ waits' = [waits EXCEPT ![m] = {}]
  /\ mail' = [mail EXCEPT ![m] = <<>>]
  /\ UNCHANGED <<bodyVars, animVars, requestVars, node, aborted, shared>>
-----------------------------------------------------------------------------
(* UBTTask_Move.                                                           *)

\* MoveToLocation takes a new id before it looks where the monster is.
NewIds(o, n) ==
  /\ nextId' = [nextId EXCEPT ![o] = (@ + n) % IdSpace]
  /\ active' = [active EXCEPT ![o] = IF n = 0 THEN @ ELSE (nextId[o] + n - 1) % IdSpace]

\* MoveBegin of m's task at path_index_ = i with owner_ = o, on monsters whose
\* IsMoving is given by moving.  It calls MoveToLocation for every point that is
\* already reached (AlreadyAtGoal) and for the first, j, that is not; result is
\* what it returns.
MoveBegin(m, o, i, num, moving, result) ==
  \/ /\ i >= num /\ result = "Failed"
     /\ NewIds(o, 0) /\ node' = [owner |-> o, index |-> i, num |-> num]
     /\ UNCHANGED <<reached, waits>>
  \/ /\ i < num /\ result = "Succeeded"
     /\ NewIds(o, num - i) /\ node' = [owner |-> o, index |-> num - 1, num |-> num]
     /\ reached' = [reached EXCEPT ![o] = TRUE]
     /\ UNCHANGED waits
  \/ \E j \in i..(num - 1) :
       /\ result = IF moving THEN "Failed" ELSE "InProgress"
       /\ NewIds(o, j - i + 1) /\ node' = [owner |-> o, index |-> j, num |-> num]
       /\ reached' = [reached EXCEPT ![o] = FALSE]
       /\ waits' = IF moving THEN waits ELSE [waits EXCEPT ![m] = @ \cup {active'[o]}]

\* A successful request starts the walk.
Walks(o, result) ==
  IF result = "InProgress" THEN SetMoveState(o, "Walk") ELSE UNCHANGED <<prio, move, action>>

\* The tree starts a Move task on its patrol branch.  Without a path the task
\* fails at once; at its destination it is InProgress with nothing to wait for.
ExecuteTask(m) ==
  /\ ~dead[m] /\ ~IsInCombat(m) /\ bt[m] = "idle"
  /\ shared' = (shared \/ \E o \in Monsters \ {m} : bt[o] = "move")
  /\ \/ /\ bt' = [bt EXCEPT ![m] = "move"]
        /\ node' = [node EXCEPT !.owner = m, !.index = 1]
        /\ UNCHANGED <<prio, move, action, requestVars, waits>>
     \/ /\ node' = [node EXCEPT !.owner = m, !.index = 1]
        /\ UNCHANGED <<prio, move, action, requestVars, bt, waits>>
     \/ \E num \in 0..MaxPoints, result \in {"Failed", "Succeeded", "InProgress"} :
          /\ MoveBegin(m, m, 1, num, IsMoving(m), result)
          /\ Walks(m, result)
          /\ bt' = [bt EXCEPT ![m] = IF result = "InProgress" THEN "move" ELSE "idle"]
  /\ UNCHANGED <<mode, animVars, mail, dead, aborted>>

MorePoints == node.index < node.num - 1

Finished(m) ==
  /\ bt' = [bt EXCEPT ![m] = "idle"]
  /\ waits' = [waits EXCEPT ![m] = {}]

\* Mutant: the monster is not stopped before the next move is requested.
OnMessageWalksOn(m, ok) ==
  LET o == node.owner IN
  IF ok /\ MorePoints
  THEN \E result \in {"Failed", "Succeeded", "InProgress"} :
         /\ MoveBegin(m, o, node.index + 1, node.num, IsMoving(o), result)
         /\ Walks(o, result)
         /\ UNCHANGED bt
  ELSE /\ Finished(m)
       /\ UNCHANGED <<prio, move, action, requestVars, node>>

\* OnMessage stops the monster the node belongs to; after a success with points
\* left it moves on, and ignores what MoveBegin returns.
OnMessage(m, ok) ==
  LET o == node.owner IN
  IF ok /\ MorePoints
  THEN \E result \in {"Failed", "Succeeded", "InProgress"} :
         /\ MoveBegin(m, o, node.index + 1, node.num, FALSE, result)
         /\ SetMoveState(o, IF result = "InProgress" THEN "Walk" ELSE "StopMove")
         /\ UNCHANGED bt
  ELSE /\ SetMoveState(o, "StopMove")
       /\ Finished(m)
       /\ UNCHANGED <<requestVars, node>>

\* The brain hands a message to the task that waits for its request.
Deliver(m) ==
  /\ mail[m] # <<>>
  /\ mail' = [mail EXCEPT ![m] = Tail(@)]
  /\ IF bt[m] = "move" /\ Head(mail[m]).id \in waits[m]
     THEN OnMessage(m, Head(mail[m]).ok)
     ELSE UNCHANGED <<prio, move, action, requestVars, treeVars>>
  /\ UNCHANGED <<mode, animVars, dead, aborted, shared>>

\* A tree whose patrol branch no longer applies may abort its Move task;
\* UBTTask_Move has no AbortTask of its own.
Abort(m) ==
  /\ bt[m] = "move" /\ IsInCombat(m)
  /\ Finished(m)
  /\ aborted' = [aborted EXCEPT ![m] = TRUE]
  /\ UNCHANGED <<bodyVars, animVars, requestVars, mail, node, dead, shared>>
-----------------------------------------------------------------------------
(* Actions and animations.                                                 *)

\* UBTTask_SelectRandomAction -> SetActionState; priority_score never exceeds Action.
SelectAction(m) ==
  /\ ~dead[m] /\ bt[m] = "idle"
  /\ action' = [action EXCEPT ![m] =
       CASE mode[m] = "Normal" -> "normal"
         [] mode[m] = "Transition" -> "transition"
         [] mode[m] = "Combat" -> "combat"]
  /\ prio' = [prio EXCEPT ![m] = "Action"]
  /\ doing' = IF mode[m] = "Transition" THEN [doing EXCEPT ![m] = FALSE] ELSE doing
  /\ UNCHANGED <<mode, move, playing, requestVars, mail, treeVars, dead, aborted, shared>>

\* The animation blueprint plays the new action.
PlayAction(m) ==
  /\ prio[m] = "Action" /\ ~doing[m]
  /\ playing' = [playing EXCEPT ![m] = action[m]]
  /\ doing' = [doing EXCEPT ![m] = TRUE]
  /\ UNCHANGED <<bodyVars, requestVars, mail, treeVars, dead, aborted, shared>>

AnimNotify_EndOfAction(m) ==
  /\ playing[m] # "none"
  /\ IF mode[m] = "Transition" THEN SetActionMode(m, "Combat") ELSE UNCHANGED mode
  /\ doing' = [doing EXCEPT ![m] = FALSE]
  /\ playing' = [playing EXCEPT ![m] = "none"]
  /\ SetMoveState(m, "None")
  /\ UNCHANGED <<requestVars, mail, treeVars, dead, aborted, shared>>

AnimNotify_JumpToAnimation(m) ==
  /\ playing[m] # "none"
  /\ action' = [action EXCEPT ![m] = playing[m]]
  /\ doing' = [doing EXCEPT ![m] = FALSE]
  /\ UNCHANGED <<mode, prio, move, playing, requestVars, mail, treeVars, dead, aborted, shared>>

\* Root motion: a walking monster comes to its target.
Walk(m) ==
  /\ IsMoving(m) /\ ~reached[m]
  /\ reached' = [reached EXCEPT ![m] = TRUE]
  /\ UNCHANGED <<bodyVars, animVars, active, nextId, mail, treeVars, dead, aborted, shared>>
-----------------------------------------------------------------------------
Next ==
  \E m \in Monsters :
    \/ Tick(m) \/ OnPlayerDetected(m) \/ SetDead(m)
    \/ ExecuteTask(m) \/ Deliver(m) \/ Abort(m)
    \/ SelectAction(m) \/ PlayAction(m)
    \/ AnimNotify_EndOfAction(m) \/ AnimNotify_JumpToAnimation(m)
    \/ Walk(m)

Spec == Init /\ [][Next]_vars

\* Every frame the controllers tick, the brains hand out their messages and a
\* walking monster moves on.  What the tree chooses is not fair, and no player,
\* animation or death has to come.
FairSpec ==
  /\ Spec
  /\ \A m \in Monsters : WF_vars(Tick(m)) /\ WF_vars(Deliver(m)) /\ WF_vars(Walk(m))
-----------------------------------------------------------------------------
(* Properties.                                                             *)

TypeOK ==
  /\ mode \in [Monsters -> {"Normal", "Transition", "Combat"}]
  /\ prio \in [Monsters -> {"Locomotion", "Action"}]
  /\ move \in [Monsters -> {"None", "StopMove", "Walk"}]
  /\ action \in [Monsters -> Kinds] /\ playing \in [Monsters -> Kinds]
  /\ reached \in [Monsters -> BOOLEAN] /\ doing \in [Monsters -> BOOLEAN]
  /\ active \in [Monsters -> Ids \cup {Invalid}] /\ nextId \in [Monsters -> Ids]
  /\ mail \in [Monsters -> Seq([id : Ids, ok : BOOLEAN])]
  /\ bt \in [Monsters -> {"idle", "move"}]
  /\ waits \in [Monsters -> SUBSET Ids]
  /\ dead \in [Monsters -> BOOLEAN] /\ aborted \in [Monsters -> BOOLEAN]
  /\ shared \in BOOLEAN
  /\ node \in [owner : Monsters \cup {NoMonster}, index : 0..(MaxPoints - 1), num : 0..MaxPoints]

Answers(m) == {mail[m][k].id : k \in DOMAIN mail[m]}

\* The request m's Move task waits for is under way or already answered.
Awaited(m) == bt[m] = "move" /\ waits[m] \cap (Answers(m) \cup {active[m]}) # {}

\* A monster walks only while its Move task will be told of the end: no message
\* of the controller is lost or sent twice between Tick, OnEnterCombat and the
\* queue (AZAIController.cpp:93-97 and 204-212).
MovingIsAwaited ==
  ~shared => \A m \in Monsters : IsMoving(m) => Awaited(m) \/ aborted[m] \/ dead[m]

\* A request is answered once, by Tick or by OnEnterCombat, and then over.
OneAnswerPerRequest ==
  ~shared => \A m \in Monsters :
    /\ active[m] \notin Answers(m)
    /\ \A j, k \in DOMAIN mail[m] : mail[m][j].id = mail[m][k].id => j = k

\* BTTask_Move.cpp:137 says "If the request is successful, wait for movement to
\* end", and line 144 "If already at goal, move to next path point": a Move task
\* that began a movement waits for one that is under way, or is about to go on.
WaitsOnlyForMovement ==
  ~shared => \A m \in Monsters : bt[m] = "move" /\ waits[m] # {} => Awaited(m)
=============================================================================
