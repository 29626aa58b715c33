------------------------------ MODULE MCPlayer ------------------------------
(* The parts of the player share no variable, so that every behaviour of one *)
(* is seen with the others at rest: focus names the part that moves, or is   *)
(* the monster while none of them does.                                      *)
EXTENDS Inventory, PlayerAnim, PlayerBody

CONSTANTS BaseMontage, HitMontage, LostMontage, Jump, Roll

VARIABLE focus

MCInitCount == [k \in Keys |-> IF k \in Potions THEN 2 ELSE 1]
MCPocketMax == [kind \in Sorts |-> 2]
MCWarehouseMax == [kind \in Sorts |-> 1]
MCMinCount == -1

MCSections == [m \in {BaseMontage, HitMontage, LostMontage} |->
  IF m = HitMontage THEN {Default, Roll} ELSE IF m = BaseMontage THEN {Default, Jump} ELSE {Default}]

\* both ends of each range of ids
MCItemIds == {1000, 1001, 8000, 8001, 10000, 10001, 10500, 10501, 11000, 11001,
              11500, 11501, 12000, 12001, 12500, 12501, 12599, 12600}
MCHasAsset == MCItemIds \ {12500}
MCEquipment == [p \in Parts |->
  CASE p = "FBody" -> 10001 [] p = "FLeg" -> 10501 [] p = "FArm" -> 11001
    [] p = "FWaist" -> 11501 [] p = "FHead" -> 12500 [] p = "FHair" -> 12501]

Movers == {"items", "animation", "clothes", "weapons", "input"}

PartsInit == InventoryInit /\ AnimInit /\ PlayerInit
PartsNext ==
  /\ UNCHANGED focus
  /\ \/ focus = "items" /\ InventoryNext /\ UNCHANGED <<poseVars, playerVars>>
     \/ focus = "animation" /\ AnimNext /\ UNCHANGED <<inventoryVars, playerVars>>
     \/ focus = "clothes" /\ ClothesNext /\ UNCHANGED <<inventoryVars, poseVars, inputVars>>
     \/ focus = "weapons" /\ WeaponNext /\ UNCHANGED <<inventoryVars, poseVars, inputVars>>
     \/ focus = "input" /\ InputNext /\ UNCHANGED <<inventoryVars, poseVars, equipVars>>
partVars == <<inventoryVars, poseVars, playerVars, focus>>
=============================================================================
