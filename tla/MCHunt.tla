------------------------------- MODULE MCHunt -------------------------------
(* The hunt and, when the monster is at rest, the parts of the player.  The  *)
(* boss has the columns of BossData.csv's kinds (what is not possible is -1) *)
(* and small numbers; every part of it takes 1 or 2 of a hit, or none.       *)
EXTENDS Hunt, MCPlayer

MCDamageInfo == [g \in Groups |->
  CASE g = "Head" -> <<2, 1, -1>> [] g = "Back" -> <<2, 2, 1>>
    [] g = "Tail" -> <<-1, -1, 2>> [] OTHER -> <<-1, -1, -1>>]
MCWeakness == [column \in Columns |-> [type \in HunterTypes |->
  CASE column = "head" -> 25 [] column = "tail" /\ type = "Ammo" -> 5 [] OTHER -> 10]]

MCNonCombat == {[inRange |-> FALSE, ratio |-> {0, 1}], [inRange |-> TRUE, ratio |-> {0, 1}]}
Action(transition, seen, inRange) ==
  [transition |-> transition, damage |-> FALSE, sight |-> seen, inRange |-> inRange]
MCCombat == {Action(TRUE, TRUE, FALSE), Action(FALSE, FALSE, TRUE), Action(FALSE, FALSE, FALSE)}

\* focus "monster": one player, who stays; "prey": they come and go, and the
\* monster is hit once, to death, or not at all
MCInit ==
  /\ HuntInit /\ PartsInit /\ focus \in Movers \cup {"monster", "prey"}
  /\ focus # "prey" => here = {First}
MCMonster ==
  /\ UNCHANGED partVars
  /\ \/ focus = "monster" /\ UNCHANGED here
     \/ focus = "prey" /\ (healthVars' = healthVars \/ Dies)
MCNext == (HuntNext /\ MCMonster) \/ (PartsNext /\ UNCHANGED huntVars)
MCVars == <<huntVars, partVars>>
\* the fairness of HuntSpec
MCSpec ==
  /\ MCInit /\ [][MCNext]_MCVars
  /\ WF_MCVars(Frame(Tick(Hunted)) /\ MCMonster)
  /\ WF_MCVars(Frame(Deliver(Hunted)) /\ MCMonster)
  /\ WF_MCVars(Frame(Walk(Hunted)) /\ MCMonster)
=============================================================================
