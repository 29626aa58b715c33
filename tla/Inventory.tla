----------------------------- MODULE Inventory -----------------------------
(* What the player carries: UAZInventoryManager, the item objects it makes   *)
(* and the health that a potion restores (AAZPlayer_Playable, AAZPlayer).    *)
(* A storage maps an item's key to the item object kept under it.  The slots *)
(* of the quick menu hold objects, not keys: they are filled once, from the  *)
(* pocket, and keep an object that the pocket has let go of.                 *)
EXTENDS Integers, FiniteSets

CONSTANTS Potions, Bottles,     \* keys of the two kinds of consumables
          NormalBottle,         \* the keys whose item_name is "normal_bottle"
          FirstPotion,          \* the key of potion_slot_[0]
          InitCount,            \* init_count of TotalItemData, by key
          PocketMax,            \* pocket_max_count, by kind
          WarehouseMax,         \* warehouse_max_count, by kind
          Absent,               \* no object under a key
          InPocket,             \* the slot's object is the pocket's
          Heals,                \* the keys whose buff raises health
          Effect, MaxHealth,    \* effect of such a buff, max_health_point
          MaxMove, MaxCount, MinCount            \* bounds of the model

Keys     == Potions \cup Bottles
Sorts    == {"potion", "ammo"}
Storages == {"Pocket", "Warehouse"}
Items    == [count : Int, tag : Storages]

ASSUME InventoryAssumption ==
  /\ Potions \cap Bottles = {}
  /\ FirstPotion \in Potions
  /\ InitCount \in [Keys -> Nat \ {0}]
  /\ PocketMax \in [Sorts -> Nat \ {0}] /\ WarehouseMax \in [Sorts -> Nat \ {0}]
  /\ MaxHealth \in Nat \ {0} /\ Effect \in Nat
  /\ Cardinality(Potions) <= PocketMax["potion"] /\ Cardinality(Bottles) <= PocketMax["ammo"]
  /\ Absent \notin Items /\ InPocket \notin Int

VARIABLES store,    \* store[s][k]: [count, tag] of the object, or Absent
          slot,     \* slot[k]: InPocket, or the count of a slot's own object
          health    \* current_health_point

inventoryVars == <<store, slot, health>>

Kind(k)    == IF k \in Potions THEN "potion" ELSE "ammo"
Other(s)   == IF s = "Pocket" THEN "Warehouse" ELSE "Pocket"
Has(st, s, k) == st[s][k] # Absent

\* IsPocketFull and IsWarehouseFull count keys, not items
Capacity(s, kind) == IF s = "Pocket" THEN PocketMax[kind] ELSE WarehouseMax[kind]
InventoryCurrCount(st, s, kind) ==
  Cardinality({k \in Keys : Kind(k) = kind /\ Has(st, s, k)})
IsFull(st, s, kind) == InventoryCurrCount(st, s, kind) >= Capacity(s, kind)

\* UAZPotionItem::IncreaseCount takes the count, the bottles' call takes none
Increase(k, n) == IF k \in Potions THEN n ELSE 1

\* Add<Storage>Potion and Add<Storage>Bottle of n items of key k
\* Mutant: every new object says it lies in the pocket.
TagOfPocket(s) == "Pocket"
TagOfNew(s) == s
\* CreatePotion, CreateBottle
NewItem(s, n) == [count |-> n, tag |-> TagOfNew(s)]
\* Mutant: a second lot of the same key replaces the first.
AddReplaces(st, s, k, n) ==
  IF IsFull(st, s, Kind(k)) THEN st
                            ELSE [st EXCEPT ![s][k] = NewItem(s, n)]
Add(st, s, k, n) ==
  IF IsFull(st, s, Kind(k)) THEN st
  ELSE IF Has(st, s, k) THEN [st EXCEPT ![s][k].count = @ + Increase(k, n)]
                        ELSE [st EXCEPT ![s][k] = NewItem(s, n)]

RemoveItem(st, s, k) == [st EXCEPT ![s][k] = Absent]

\* the slot keeps the object, with count n, when the pocket lets go of it
Detach(after, k, n) ==
  IF slot[k] = InPocket /\ ~Has(after, "Pocket", k) THEN [slot EXCEPT ![k] = n]
                                                    ELSE slot

----------------------------------------------------------------------------
(* Init: CreateStartItem fills the pocket, SetPotionSlot and SetBottleSlot   *)
(* take its objects into the slots, and UsePotion(0) drinks the first one.   *)
Started == [k \in Keys |-> [count |-> InitCount[k], tag |-> "Pocket"]]
FirstUsed ==
  IF InitCount[FirstPotion] = 1 THEN [Started EXCEPT ![FirstPotion] = Absent]
                          ELSE [Started EXCEPT ![FirstPotion].count = @ - 1]

InventoryInit ==
  /\ store = [s \in Storages |->
               IF s = "Pocket" THEN FirstUsed ELSE [k \in Keys |-> Absent]]
  /\ slot = [k \in Keys |-> IF k = FirstPotion /\ InitCount[k] = 1 THEN 0 ELSE InPocket]
  /\ health = MaxHealth

(* ChangePotionStorage: the moved count is taken off a copy of the item's    *)
(* info, so what stays in the storage it came from keeps its count.          *)
PotionTaken(s, k, n) ==
  LET item == store[s][k]
  IN  IF item.count - n <= 0 THEN RemoveItem(store, item.tag, k) ELSE store
ChangePotionStorage(k, s, n) ==
  /\ k \in Potions /\ Has(store, s, k)
  /\ LET taken == PotionTaken(s, k, n)
     IN  /\ store' = Add(taken, Other(s), k, n)
         /\ slot'  = Detach(store', k, store[s][k].count)
  /\ UNCHANGED health

(* ChangeBottleStorage: the object itself is decreased, and let go of only   *)
(* when its count is exactly 0.                                              *)
BottleTaken(s, k, n) ==
  LET item == store[s][k]
  IN  IF item.count - n = 0 THEN RemoveItem(store, item.tag, k)
                            ELSE [store EXCEPT ![s][k].count = @ - n]
ChangeBottleStorage(k, s, n) ==
  /\ k \in Bottles /\ Has(store, s, k)
  /\ LET taken == BottleTaken(s, k, n)
     IN  /\ store' = Add(taken, Other(s), k, n)
         /\ slot'  = Detach(store', k, 0)
  /\ UNCHANGED health

\* the count the slot's object has, wherever it is kept
SlotCount(k) == IF slot[k] = InPocket THEN store["Pocket"][k].count ELSE slot[k]

\* one use of the slot's object, which has n left: none left empties the
\* pocket's entry of that key, even when the pocket keeps another object there
UseSlot(k, n) ==
  LET emptied == RemoveItem(store, "Pocket", k)
  IN  /\ store' = CASE n = 0 -> emptied
                    [] n # 0 /\ slot[k] = InPocket ->
                         [store EXCEPT !["Pocket"][k].count = n]
                    [] OTHER -> store
      /\ slot' = IF slot[k] = InPocket /\ n # 0 THEN slot ELSE [slot EXCEPT ![k] = n]

Floor(n) == IF n <= 0 THEN 0 ELSE n
Heal(h)  == IF MaxHealth < h + Effect THEN MaxHealth ELSE h + Effect

(* UsePotion, from AnimNotify_OnUseItem, which always uses slot 0.  A potion *)
(* that is used up still gives its effect.                                   *)
AnimNotify_OnUseItem ==
  LET k == FirstPotion
  IN  /\ UseSlot(k, Floor(SlotCount(k) - 1))
      /\ health' = IF k \in Heals THEN Heal(health) ELSE health

\* UseBottle: only an item named normal_bottle is not used up
UseBottle(k) ==
  /\ k \in Bottles
  /\ UseSlot(k, IF k \in NormalBottle THEN SlotCount(k) ELSE SlotCount(k) - 1)
  /\ UNCHANGED health

\* AAZPlayer::PostProcessDamage: a hit of some damage, never below 0
TakeDamage(d) ==
  /\ health' = Floor(health - d)
  /\ UNCHANGED <<store, slot>>

\* bound of the model: no count leaves MinCount .. MaxCount
Bounded(st, sl) == \A k \in Keys :
  /\ \A s \in Storages : Has(st, s, k) => st[s][k].count \in MinCount..MaxCount
  /\ sl[k] # InPocket => sl[k] >= MinCount

InventoryNext ==
  /\ \/ \E k \in Keys, s \in Storages, n \in 1..MaxMove :
          ChangePotionStorage(k, s, n) \/ ChangeBottleStorage(k, s, n)
     \/ AnimNotify_OnUseItem
     \/ \E k \in Bottles : UseBottle(k)
     \/ \E d \in {1, MaxHealth + 1} : TakeDamage(d)
  /\ Bounded(store', slot')

InventorySpec == InventoryInit /\ [][InventoryNext]_inventoryVars

----------------------------------------------------------------------------
(* The counts of a potion never go below 0, those of a bottle may: nothing   *)
(* stops a move of more bottles than there are.  Health stays between 0 and  *)
(* its maximum.                                                              *)
InventoryTypeOK ==
  /\ store \in [Storages -> [Keys -> Items \cup {Absent}]]
  /\ slot \in [Keys -> Int \cup {InPocket}]
  /\ health \in 0..MaxHealth

(* An object says of itself that it lies where it does lie.  RemoveItem goes *)
(* by what the object says (AZInventoryManager.cpp:342), so an object with   *)
(* another tag would empty the other storage's entry.                        *)
StorageTagsAgree ==
  \A s \in Storages, k \in Keys : Has(store, s, k) => store[s][k].tag = s

Count(st, s, k) == IF Has(st, s, k) THEN st[s][k].count ELSE 0
Total(st, k)    == Count(st, "Pocket", k) + Count(st, "Warehouse", k)

(* A move never loses a potion, and a move of one bottle neither loses nor   *)
(* makes one, unless the storage it goes to is full                          *)
(* (AZInventoryManager.cpp:325-345, 438-457).  (A move does make potions,    *)
(* and a move of several bottles onto an existing stack does lose some.)     *)
MovesLoseNothing ==
  [][\A k \in Keys : Total(store', k) # Total(store, k) =>
       \A s \in Storages : ~IsFull(store, Other(s), Kind(k)) =>
         /\ ~ChangeBottleStorage(k, s, 1)
         /\ \A n \in 1..MaxMove :
              ChangePotionStorage(k, s, n) => Total(store', k) > Total(store, k)]_inventoryVars
=============================================================================
