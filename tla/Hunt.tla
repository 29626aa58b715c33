-------------------------------- MODULE Hunt --------------------------------
(* One boss as a whole: its body (MonsterHealth), its movement and actions   *)
(* (MonsterAI) and what it knows of its prey.  The controller's perception   *)
(* puts the prey into the aggro component and, when combat begins, from      *)
(* there on the blackboard; the service FindTarget writes the same key on    *)
(* its own clock; the tasks that choose an action read it.                   *)
EXTENDS MonsterAI, MonsterHealth

CONSTANTS Hunted,           \* the boss
          Players, NoPlayer,
          First,            \* GetPlayerCharacter(0)
          Behavior,         \* behavior_type
          NonCombatActions, \* noncombat_action_map_: [inRange, ratio]
          CombatActions     \* combat_action_map_: [transition, damage, sight, inRange]

NonCombatAction == [inRange : BOOLEAN, ratio : SUBSET {0, 1}]
CombatAction == [transition : BOOLEAN, damage : BOOLEAN, sight : BOOLEAN, inRange : BOOLEAN]

ASSUME HuntAssumption ==
  /\ Monsters = {Hunted} /\ First \in Players /\ NoPlayer \notin Players
  /\ Behavior \in {"Hostile", "Neutral", "Friendly"}
  /\ NonCombatActions \subseteq NonCombatAction /\ CombatActions \subseteq CombatAction

VARIABLES best,        \* best_target_ of the aggro component
          target,      \* blackboard: target_character
          sighted,     \* blackboard: is_triggered_by_sight
          sight,       \* the sense of sight is enabled
          here,        \* environment: the players with a character
          bereft,      \* history: which of best and target was lost to a character
                       \* that is not there
          patrol,      \* blackboard: a destination was set
          crashed      \* a target, or a player, that is not there was dereferenced

preyVars == <<best, target, sighted, sight, here, bereft>>
huntVars == <<vars, healthVars, preyVars, patrol, crashed>>

\* the controller's perception looks for the player as soon as it possesses
PerceptionInit ==
  /\ best = NoPlayer /\ target = NoPlayer /\ sighted = FALSE /\ sight = TRUE
  /\ here \in SUBSET Players /\ bereft = {}
HuntInit == Init /\ HealthInit /\ PerceptionInit /\ patrol = FALSE /\ crashed = FALSE

GetTeamAttitudeTowardsPlayer == IF Behavior = "Hostile" THEN "Hostile" ELSE "Other"

\* AAZAIController::OnPlayerDetected and all that EnterCombat calls
\* Mutant: the prey is known to the aggro component only after combat began.
TargetedLate(p) ==
  /\ best' = p /\ target' = best
Targeted(p) ==
  /\ best' = p /\ target' = p
SightNoted == sighted' = TRUE
DetectPlayer(p) ==
  /\ sight /\ p \in here /\ GetTeamAttitudeTowardsPlayer = "Hostile"
  /\ OnPlayerDetected(Hunted)
  /\ Targeted(p) /\ SightNoted /\ sight' = FALSE /\ bereft' = {}
  /\ UNCHANGED <<healthVars, here, patrol, crashed>>

\* A character is destroyed: best_target_ and the key of the blackboard are weak
\* and null from then on, for one that comes in its place is another object.
CharacterGoes(p) ==
  /\ p \in here /\ here' = here \ {p}
  /\ best' = IF best = p THEN NoPlayer ELSE best
  /\ target' = IF target = p THEN NoPlayer ELSE target
  /\ bereft' = bereft \cup (IF best = p THEN {"best"} ELSE {})
                      \cup (IF target = p THEN {"target"} ELSE {})
  /\ UNCHANGED <<vars, healthVars, sighted, sight, patrol, crashed>>
CharacterComes(p) ==
  /\ p \notin here /\ here' = here \cup {p}
  /\ UNCHANGED <<vars, healthVars, best, target, sighted, sight, bereft, patrol, crashed>>

\* The service of the tree: the character of the first player controller, whoever
\* was chosen, and nobody when it has none; without a controller it returns.
GetPlayerCharacter == IF First \in here THEN First ELSE NoPlayer
FindTarget ==
  /\ ~dead[Hunted]
  /\ \/ /\ target' = GetPlayerCharacter
        /\ bereft' = IF First \in here THEN bereft \ {"target"} ELSE bereft \cup {"target"}
     \/ First \notin here /\ UNCHANGED <<target, bereft>>
  /\ UNCHANGED <<vars, healthVars, best, sighted, sight, here, patrol, crashed>>

\* UBTTask_PatrolBegin: a point to go to, if the navigation finds one
PatrolBegin ==
  /\ ~dead[Hunted] /\ ~IsInCombat(Hunted) /\ bt[Hunted] = "idle"
  /\ patrol' = TRUE
  /\ UNCHANGED <<vars, healthVars, preyVars, crashed>>

\* UBTTask_SelectRandomAction: the actions it may choose from.  Nothing sets
\* is_flying_ or is_player_in_range_, nor asks flying of an action in the tables.
SelectNonCombatAction == {a \in NonCombatActions : ~a.inRange /\ GetHealthRatio \in a.ratio}
SelectTransitionAction ==
  {a \in CombatActions : a.transition /\ (a.sight /\ ~a.damage => sighted)}
Plain(a) == ~a.transition /\ ~a.damage /\ ~a.sight
SelectCombatAction(near) == {a \in CombatActions : Plain(a) /\ (a.inRange => near)}
Selectable(near) ==
  CASE mode[Hunted] = "Normal"     -> SelectNonCombatAction
    [] mode[Hunted] = "Transition" -> SelectTransitionAction
    [] mode[Hunted] = "Combat"     -> SelectCombatAction(near)

ReadsTarget == mode[Hunted] = "Combat" /\ \E a \in CombatActions : Plain(a) /\ a.inRange

SelectRandomAction(near) ==
  /\ UNCHANGED <<healthVars, preyVars, patrol>>
  /\ IF ReadsTarget /\ target = NoPlayer
     THEN /\ ~dead[Hunted] /\ bt[Hunted] = "idle"
          /\ crashed' = TRUE /\ UNCHANGED vars
     ELSE /\ Selectable(near) # {} /\ SelectAction(Hunted) /\ UNCHANGED crashed

\* AAZPlayer::ApplyDamage calls ProcessDamage of what it hit; the hit that takes
\* the last of the health calls SetDead
Dies == hp' <= 0
Hit(part, type) ==
  /\ UNCHANGED <<preyVars, patrol, crashed>>
  /\ \/ /\ ProcessDamage(part, type)
        /\ IF Dies THEN SetDead(Hunted) ELSE UNCHANGED vars
     \/ IgnoredHit(part, type) /\ UNCHANGED vars

\* The trace of an action's notify takes every character it meets for a player.
\* What it does to a player is worked out and comes to nothing.
AnimNotify_DoSphereTrace ==
  /\ playing[Hunted] # "none"
  /\ \E meets \in SUBSET {"player", "other"} : crashed' = ("other" \in meets)
  /\ UNCHANGED <<vars, healthVars, preyVars, patrol>>

Moves(m) ==
  \/ Tick(m) \/ Deliver(m) \/ Abort(m) \/ Walk(m)
  \/ patrol /\ ExecuteTask(m)
  \/ PlayAction(m) \/ AnimNotify_EndOfAction(m) \/ AnimNotify_JumpToAnimation(m)

HuntNext ==
  /\ ~crashed
  /\ \/ \E p \in Players : DetectPlayer(p) \/ CharacterGoes(p) \/ CharacterComes(p)
     \/ FindTarget \/ PatrolBegin \/ AnimNotify_DoSphereTrace
     \/ \E near \in BOOLEAN : SelectRandomAction(near)
     \/ \E part \in HitParts \cup OtherParts, type \in HunterTypes \cup OtherTypes :
          Hit(part, type)
     \/ Moves(Hunted) /\ UNCHANGED <<healthVars, preyVars, patrol, crashed>>

\* As in MonsterAI, every frame the controller ticks, messages are handed out and
\* a walking monster moves on; nobody has to hit it or be seen.
Frame(A) == ~crashed /\ A /\ UNCHANGED <<healthVars, preyVars, patrol, crashed>>
HuntSpec ==
  /\ HuntInit /\ [][HuntNext]_huntVars
  /\ WF_huntVars(Frame(Tick(Hunted)))
  /\ WF_huntVars(Frame(Deliver(Hunted)))
  /\ WF_huntVars(Frame(Walk(Hunted)))

----------------------------------------------------------------------------
(* A monster in combat is without a target on the blackboard, or in the aggro *)
(* component, only since a character went, or since the service looked while *)
(* the first player had none: perception has written both before the mode    *)
(* that lets a task choose (AZAIController.cpp:193-217), and each is lost to  *)
(* nothing else.  The choice of an action follows the target without a test  *)
(* (BTTask_SelectRandomAction.cpp:158).                                      *)
CombatHasTarget ==
  IsInCombat(Hunted) => /\ target = NoPlayer => "target" \in bereft
                        /\ best = NoPlayer => "best" \in bereft

(* A walk ends, in combat too: its request is answered once it is over, and  *)
(* the answer comes to a task that stops the monster or walks on to a next   *)
(* point (AZAIController.cpp:78-108, BTTask_Move.cpp:23-54).                 *)
WalkEnds ==
  IsMoving(Hunted) ~> ~IsMoving(Hunted) \/ aborted[Hunted] \/ dead[Hunted] \/ crashed
=============================================================================
