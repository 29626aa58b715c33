---------------------------- MODULE PlayerBody -----------------------------
(* What the player wears and holds, and which way its keys point:            *)
(* AAZPlayer with its mesh components and AAZSocketActors, the tables of     *)
(* UAZPlayerAssetMgr::GetSkeletalMesh, and AAZPlayerController_InGame's      *)
(* handlers of the keys.  An item is its id; the id's range says what it is, *)
(* once where the asset is loaded and once where the part is chosen.         *)
EXTENDS Integers, FiniteSets

CONSTANTS ItemIds,              \* the ids that items have
          HasAsset,             \* those whose skeletal mesh there is
          NoMesh,               \* a component without a mesh, a socket without its component
          Equipment,            \* the ids it starts with, by part
          FirstWeapon, SecondWeapon,
          Slots                 \* names of sockets of the body

Parts   == {"FBody", "FLeg", "FArm", "FWaist", "FHead", "FHair"}
Sockets == {"MainHand", "SubHand"}
Arrows  == {"forward", "back", "left", "right"}
InputKeys ==  Arrows \cup {"action"}

\* FAZPlayerEquipmentState: an id for every part
EquipmentState == [Parts -> Nat]

ASSUME PlayerBodyAssumption ==
  /\ ItemIds \subseteq Nat /\ HasAsset \subseteq ItemIds
  /\ Equipment \in EquipmentState /\ FirstWeapon \in Nat /\ SecondWeapon \in Nat
  /\ NoMesh \notin Nat /\ "Socket_Back" \in Slots
  /\ \A p \in Parts : Equipment[p] \in ItemIds

VARIABLES mesh,      \* mesh[p]: the item whose mesh a part shows
          socket,    \* socket[s]: [item, slot], item NoMesh also when empty
          lost,      \* the sockets whose socket_mesh_asset_ is null
          derefs,    \* a null socket_mesh_asset_ was used
          held,      \* the keys that are down
          bits,      \* the bits of action_state_
          facing     \* input_direction, in the camera's frame

equipVars == <<mesh, socket, lost, derefs>>
inputVars == <<held, bits, facing>>
playerVars == <<equipVars, inputVars>>

----------------------------------------------------------------------------
(* GetSkeletalMesh: a mesh is loaded by the name of its kind, which the id   *)
(* tells, and its number.  From 8001 to 9999 the path has no kind.           *)
KindIds ==
  [Weapon |-> 1001..8000,       \* fourteen kinds of 500 ids each
   FBody |-> 10000..10500, FLeg |-> 10501..11000, FArm |-> 11001..11500,
   FWaist |-> 11501..12000, FHead |-> 12001..12500, FHair |-> 12501..12599]
HasKind(id) == \E kind \in DOMAIN KindIds : id \in KindIds[kind]
GetSkeletalMesh(id) == IF id \in HasAsset /\ HasKind(id) THEN id ELSE NoMesh

\* a part begins with an item of its kind, or with none that has a mesh
ASSUME EquipmentAssumption == \A p \in Parts : HasKind(Equipment[p]) => Equipment[p] \in KindIds[p]

\* the ids by which ChangeEquipmentMesh chooses the part
\* Mutant: the first leg armour counts as the last body armour.
PartIdsTooFar ==
  [FBody |-> 10001..10501, FLeg |-> 10502..11000, FArm |-> 11001..11500,
   FWaist |-> 11501..12000, FHead |-> 12001..12500, FHair |-> 12501..12599]
PartIds ==
  [FBody |-> 10001..10500, FLeg |-> 10501..11000, FArm |-> 11001..11500,
   FWaist |-> 11501..12000, FHead |-> 12001..12500, FHair |-> 12501..12599]

\* BeginPlay: SetSKMeshParts shows the hair only with the default head 12500,
\* SetSKMeshSocket drops the mesh component of a socket that has no mesh
SetSKMeshParts ==
  [p \in Parts |->
     IF p = (IF Equipment["FHead"] = 12500 THEN "FHead" ELSE "FHair") THEN NoMesh
     ELSE GetSkeletalMesh(Equipment[p])]
Weapon(s) == IF s = "MainHand" THEN FirstWeapon ELSE SecondWeapon

BodyInit ==
  /\ mesh = SetSKMeshParts
  /\ socket = [s \in Sockets |->
                 [item |-> GetSkeletalMesh(Weapon(s)), slot |-> "Socket_Back"]]
  /\ lost = {s \in Sockets : GetSkeletalMesh(Weapon(s)) = NoMesh}
  /\ derefs = FALSE

ChangeEquipmentMesh(p, id) ==
  /\ id \in PartIds[p] /\ GetSkeletalMesh(id) # NoMesh
  /\ mesh' = [mesh EXCEPT ![p] = GetSkeletalMesh(id)]
  /\ UNCHANGED <<socket, lost, derefs>>

ChangeSocketMesh(s, id) ==
  /\ GetSkeletalMesh(id) # NoMesh
  /\ IF s \in lost THEN derefs' = TRUE /\ UNCHANGED socket
     ELSE socket' = [socket EXCEPT ![s].item = GetSkeletalMesh(id)] /\ UNCHANGED derefs
  /\ UNCHANGED <<mesh, lost>>

\* ChangeSocketSlot, CreateSocketActor of one that exists, and the notify
\* ChangeSocket: the actor is attached again, to the parent it had
ChangeSocketSlot(s, slot) ==
  /\ socket' = [socket EXCEPT ![s].slot = slot]
  /\ UNCHANGED <<mesh, lost, derefs>>

----------------------------------------------------------------------------
(* Input.  In a frame the engine calls Action<Key>_Start for a key that is   *)
(* down, Action<Key>_End for one let go of, and ActionInputDirection while   *)
(* an arrow is down, in any order: it may read each bit before or after.     *)
Bit(B, k) == IF k \in B THEN 1 ELSE 0
Direction(B) == [x |-> Bit(B, "forward") - Bit(B, "back"),
                 y |-> Bit(B, "right") - Bit(B, "left")]

InputInit == held = {} /\ bits = {} /\ facing = Direction({})

Released(down) == held \ down
BitsAfter(down) == (bits \cup down) \ Released(down)
ReadMidway(down) ==
  {(bits \cap BitsAfter(down)) \cup some :
     some \in SUBSET ((bits \cup BitsAfter(down)) \ (bits \cap BitsAfter(down)))}
InputFrame(down) ==
  /\ bits' = BitsAfter(down)
  /\ IF down \cap Arrows = {} THEN UNCHANGED facing
     ELSE \E B \in ReadMidway(down) : facing' = Direction(B)
  /\ held' = down

ClothesNext == \E p \in Parts, id \in ItemIds : ChangeEquipmentMesh(p, id)
WeaponNext ==
  /\ ~derefs
  /\ \E s \in Sockets :
       \/ \E id \in ItemIds : ChangeSocketMesh(s, id)
       \/ \E slot \in Slots : ChangeSocketSlot(s, slot)
BodyNext == ClothesNext \/ WeaponNext
InputNext == \E down \in SUBSET InputKeys : InputFrame(down)

PlayerInit == BodyInit /\ InputInit
PlayerNext == (BodyNext /\ UNCHANGED inputVars) \/ (InputNext /\ UNCHANGED equipVars)

PlayerSpec == PlayerInit /\ [][PlayerNext]_playerVars

----------------------------------------------------------------------------
PlayerTypeOK ==
  /\ mesh \in [Parts -> ItemIds \cup {NoMesh}]
  /\ socket \in [Sockets -> [item : ItemIds \cup {NoMesh}, slot : Slots]]
  /\ lost \subseteq Sockets /\ derefs \in BOOLEAN
  /\ held \subseteq InputKeys /\ bits \subseteq InputKeys
  /\ facing \in [x : -1..1, y : -1..1]

(* Each part of the body shows an item of its own kind: the ranges by which  *)
(* AZPlayer.cpp:183-221 chooses the part and those by which                  *)
(* AZPlayerAssetMgr.cpp:148-257 chooses the asset agree on every boundary.   *)
EachPartShowsItsOwn ==
  \A p \in Parts : mesh[p] # NoMesh => mesh[p] \in KindIds[p]
=============================================================================
