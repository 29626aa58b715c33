---------------------------- MODULE Player_proofs ----------------------------
(* What holds of the player's animation, clothes and items for every asset,  *)
(* name and item that the game may be given.  The three components share no  *)
(* variable, as in MCPlayer.                                                 *)
EXTENDS Inventory, PlayerAnim, PlayerBody, TLAPS

----------------------------------------------------------------------------
(* The animation.                                                            *)

\* A rate of 0 and a held montage are the work of one mode's pause each, and
\* while there is one pause at a time a held montage keeps the rate it had.
RateInv ==
  ~nested =>
    /\ anim.rate = 0 => "sequence" \in pauses
    /\ played.state = "held" => "montage" \in pauses /\ played.rate # 0
    /\ played.state = "plays" /\ played.rate = 0 => "sequence" \in pauses

AnimInv == AnimTypeOK /\ SectionFitsMontage /\ RateInv

\* The animation starts in its base pose, at its own rate.
LEMMA AnimInitHolds ==
  ASSUME AnimInit
  PROVE  AnimInv
<1>1. anim \in Members /\ anim.section = NoName /\ anim.rate = 20000
  BY PlayerAnimAssumption DEF AnimInit, Members, Rates
<1>2. /\ played \in [state : {"plays", "held", "over"}, rate : Rates]
      /\ played.state = "plays" /\ played.rate = 20000 /\ pauses = {} /\ nested = FALSE
  BY DEF AnimInit, Rates
<1>3. nested \in BOOLEAN /\ pauses \subseteq Modes
  <2>1. nested = FALSE /\ pauses = {}
    BY DEF AnimInit
  <2> QED
    BY <2>1
<1>4. AnimTypeOK
  BY <1>1, <1>2, <1>3 DEF AnimTypeOK
<1>5. SectionFitsMontage
  BY <1>1 DEF SectionFitsMontage
<1> QED
  BY <1>1, <1>2, <1>4, <1>5 DEF AnimInv, RateInv

\* Two steps of OnAnimationTransitionTrigger: the section that comes out is one
\* of the montage that comes out.
LEMMA TransitionKeepsSection ==
  ASSUME NEW a \in Members, a.section # NoName => a.section \in Sections[a.montage]
  PROVE  LET b == ChangeSection(ChangeMontage(a))
         IN  /\ b \in Members /\ b.is_montage = a.is_montage /\ b.rate = a.rate
             /\ b.section # NoName => b.section \in Sections[b.montage]
<1> DEFINE c == ChangeMontage(a)
           b == ChangeSection(c)
<1>1. /\ c \in Members /\ c.is_montage = a.is_montage /\ c.rate = a.rate
      /\ c.section # NoName => c.section \in Sections[c.montage]
  <2>1. CASE GoesTo(a)
    <3>1. a.nextMontage \in Montages /\ Default \in AllSections
      BY <2>1, PlayerAnimAssumption DEF GoesTo, Members, AllSections
    <3> QED
      BY <2>1, <3>1, PlayerAnimAssumption DEF ChangeMontage, Members
  <2>2. CASE ~GoesTo(a)
    BY <2>2 DEF ChangeMontage, Members
  <2> QED
    BY <2>1, <2>2
<1> HIDE DEF c
<1>2. /\ b \in Members /\ b.is_montage = c.is_montage /\ b.rate = c.rate
      /\ b.section # NoName => b.section \in Sections[b.montage]
  <2>1. Default \in Sections[c.montage] /\ Default \in AllSections
    BY <1>1, PlayerAnimAssumption DEF Members, AllSections
  <2>2. CASE c.nextSection = NoName
    BY <1>1, <2>1, <2>2 DEF ChangeSection, Members
  <2>3. CASE c.nextSection # NoName /\ c.nextSection \in Sections[c.montage]
    BY <1>1, <2>3 DEF ChangeSection, Members
  <2>4. CASE c.nextSection # NoName /\ c.nextSection \notin Sections[c.montage]
    BY <1>1, <2>4 DEF ChangeSection, Members
  <2> QED
    BY <2>2, <2>3, <2>4
<1> QED
  BY <1>1, <1>2 DEF c

\* A request changes neither the section nor the montage that is shown.
LEMMA RequestKeepsAnimInv ==
  ASSUME AnimInv, NEW a \in Members, Requests(a),
         a.section = anim.section, a.montage = anim.montage, a.rate = anim.rate
  PROVE  AnimInv'
BY DEF AnimInv, AnimTypeOK, SectionFitsMontage, RateInv, Requests

\* NativeUpdateAnimation keeps the section and the rate.
LEMMA UpdateKeepsAnimInv ==
  ASSUME AnimInv, NativeUpdateAnimation
  PROVE  AnimInv'
<1> DEFINE served == IF anim.is_montage THEN ChangeSection(ChangeMontage(anim))
                                        ELSE ChangeSequence(anim)
<1>1. /\ served \in Members /\ served.rate = anim.rate
      /\ served.section # NoName => served.section \in Sections[served.montage]
  <2>1. CASE anim.is_montage
    BY <2>1, TransitionKeepsSection DEF AnimInv, AnimTypeOK, SectionFitsMontage
  <2>2. CASE ~anim.is_montage
    BY <2>2, PlayerAnimAssumption
    DEF AnimInv, AnimTypeOK, SectionFitsMontage, ChangeSequence, GetSequence, Members
  <2> QED
    BY <2>1, <2>2
<1>2. /\ anim' = [served EXCEPT !.due = FALSE]
      /\ \/ played' = [state |-> "plays", rate |-> anim.rate]
         \/ played' = played
      /\ UNCHANGED <<pauses, nested>>
  BY DEF NativeUpdateAnimation
<1> HIDE DEF served
<1>3. /\ anim' \in Members /\ anim'.rate = anim.rate
      /\ anim'.section = served.section /\ anim'.montage = served.montage
  BY <1>1, <1>2 DEF Members
<1>4. played' \in [state : {"plays", "held", "over"}, rate : Rates]
  BY <1>2 DEF AnimInv, AnimTypeOK, Members
<1>5. SectionFitsMontage'
  BY <1>1, <1>3 DEF SectionFitsMontage
<1>6. RateInv'
  BY <1>2, <1>3 DEF AnimInv, RateInv
<1> QED
  BY <1>2, <1>3, <1>4, <1>5, <1>6 DEF AnimInv, AnimTypeOK

\* Pauses and rates leave the montage and its section as they are.
LEMMA RatesKeepAnimInv ==
  ASSUME AnimInv, PauseAnimation \/ ResumeAnimation \/ ChangeRate \/ MontageEnds
  PROVE  AnimInv'
<1> USE DEF AnimInv, AnimTypeOK, SetAnimPlayRate
<1>1. /\ anim' \in Members
      /\ anim'.section = anim.section /\ anim'.montage = anim.montage
  <2>1. CASE PauseAnimation
    BY <2>1 DEF PauseAnimation, Members, Rates
  <2>2. CASE ResumeAnimation
    BY <2>2 DEF ResumeAnimation, Members, Rates
  <2>3. CASE ChangeRate
    BY <2>3 DEF ChangeRate, Members, Rates
  <2>4. CASE MontageEnds
    BY <2>4 DEF MontageEnds
  <2> QED
    BY <2>1, <2>2, <2>3, <2>4
<1>2. played' \in [state : {"plays", "held", "over"}, rate : Rates]
  <2>1. CASE PauseAnimation
    BY <2>1 DEF PauseAnimation, Rates
  <2>2. CASE ResumeAnimation /\ anim.is_montage
    BY <2>2 DEF ResumeAnimation
  <2>3. CASE ResumeAnimation /\ ~anim.is_montage
    BY <2>3 DEF ResumeAnimation, Rates
  <2>4. CASE ChangeRate
    BY <2>4 DEF ChangeRate, Rates
  <2>5. CASE MontageEnds
    BY <2>5 DEF MontageEnds
  <2> QED
    BY <2>1, <2>2, <2>3, <2>4, <2>5
<1>3. pauses' \subseteq Modes /\ nested' \in BOOLEAN
  <2>1. pauses' \in {pauses, pauses \cup {Mode}, pauses \ {Mode}} /\ Mode \in Modes
    BY DEF PauseAnimation, ResumeAnimation, ChangeRate, MontageEnds, Mode, Modes
  <2>2. CASE PauseAnimation
    <3>1. nested' = (nested \/ pauses # {})
      BY <2>2 DEF PauseAnimation
    <3> QED
      BY <2>1, <3>1
  <2>3. CASE ResumeAnimation \/ ChangeRate \/ MontageEnds
    <3>1. nested' = nested
      BY <2>3 DEF ResumeAnimation, ChangeRate, MontageEnds
    <3> QED
      BY <2>1, <3>1
  <2> QED
    BY <2>2, <2>3
<1>4. SectionFitsMontage'
  BY <1>1 DEF SectionFitsMontage
<1>5. RateInv'
  <2>1. CASE PauseAnimation /\ anim.is_montage
    BY <2>1 DEF PauseAnimation, Mode, RateInv
  <2>2. CASE PauseAnimation /\ ~anim.is_montage
    BY <2>2 DEF PauseAnimation, Mode, RateInv, Members
  <2>3. CASE ResumeAnimation /\ anim.is_montage
    BY <2>3 DEF ResumeAnimation, Mode, RateInv
  <2>4. CASE ResumeAnimation /\ ~anim.is_montage
    BY <2>4 DEF ResumeAnimation, Mode, RateInv, Members
  <2>5. CASE ChangeRate
    BY <2>5 DEF ChangeRate, RateInv, Members
  <2>6. CASE MontageEnds
    BY <2>6 DEF MontageEnds, RateInv
  <2> QED
    BY <2>1, <2>2, <2>3, <2>4, <2>5, <2>6
<1> QED
  BY <1>1, <1>2, <1>3, <1>4, <1>5

\* Every step of the animation keeps its invariant.
LEMMA AnimStep ==
  ASSUME AnimInv, [AnimNext]_poseVars
  PROVE  AnimInv'
<1>1. anim \in Members
  BY DEF AnimInv, AnimTypeOK
<1>2. ASSUME NEW s \in Sequences, SetDirectAnimSequence(s)
      PROVE  AnimInv'
  <2> DEFINE a == [anim EXCEPT !.is_montage = FALSE, !.due = TRUE, !.nextSequence = s]
  <2>1. a \in Members /\ a.section = anim.section /\ a.montage = anim.montage /\ a.rate = anim.rate
    BY <1>1 DEF Members
  <2> QED
    BY <1>2, <2>1, RequestKeepsAnimInv DEF SetDirectAnimSequence
<1>3. ASSUME NEW m \in Montages, SetDirectAnimMontage(m)
      PROVE  AnimInv'
  <2> DEFINE a == [anim EXCEPT !.is_montage = TRUE, !.due = TRUE, !.nextMontage = m]
  <2>1. a \in Members /\ a.section = anim.section /\ a.montage = anim.montage /\ a.rate = anim.rate
    BY <1>1 DEF Members
  <2> QED
    BY <1>3, <2>1, RequestKeepsAnimInv DEF SetDirectAnimMontage
<1>4. ASSUME NEW m \in Montages, SetNextAnimMontage(m)
      PROVE  AnimInv'
  <2> DEFINE a == [anim EXCEPT !.is_montage = TRUE, !.nextMontage = m]
  <2>1. a \in Members /\ a.section = anim.section /\ a.montage = anim.montage /\ a.rate = anim.rate
    BY <1>1 DEF Members
  <2> QED
    BY <1>4, <2>1, RequestKeepsAnimInv DEF SetNextAnimMontage
<1>5. ASSUME NEW m \in Montages, NEW s \in AllSections \cup {NoName}, Notify_ChangeMontage(m, s)
      PROVE  AnimInv'
  <2> DEFINE a == [anim EXCEPT !.is_montage = TRUE, !.due = TRUE,
                               !.nextMontage = m, !.nextSection = s]
  <2>1. a \in Members /\ a.section = anim.section /\ a.montage = anim.montage /\ a.rate = anim.rate
    BY <1>1 DEF Members
  <2> QED
    BY <1>5, <2>1, RequestKeepsAnimInv DEF Notify_ChangeMontage
<1>6. ASSUME NEW s \in AllSections, SetDirectSection(s) \/ SetNextSection(s)
      PROVE  AnimInv'
  <2> DEFINE a(due) == [anim EXCEPT !.is_montage = TRUE, !.due = due, !.nextSection = s]
             b == [anim EXCEPT !.is_montage = TRUE, !.nextSection = s]
  <2>1. /\ a(TRUE) \in Members /\ a(TRUE).section = anim.section
        /\ a(TRUE).montage = anim.montage /\ a(TRUE).rate = anim.rate
    BY <1>1 DEF Members
  <2>2. b \in Members /\ b.section = anim.section /\ b.montage = anim.montage /\ b.rate = anim.rate
    BY <1>1 DEF Members
  <2>3. CASE SetDirectSection(s)
    BY <2>1, <2>3, RequestKeepsAnimInv DEF SetDirectSection
  <2>4. CASE SetNextSection(s)
    BY <2>2, <2>4, RequestKeepsAnimInv DEF SetNextSection
  <2> QED
    BY <1>6, <2>3, <2>4
<1>7. CASE Notify_ActionStart
  <2> DEFINE a == [anim EXCEPT !.is_montage = TRUE, !.due = TRUE]
  <2>1. a \in Members /\ a.section = anim.section /\ a.montage = anim.montage /\ a.rate = anim.rate
    BY <1>1 DEF Members
  <2> QED
    BY <1>7, <2>1, RequestKeepsAnimInv DEF Notify_ActionStart
<1>8. CASE UNCHANGED poseVars
  BY <1>8 DEF poseVars, AnimInv, AnimTypeOK, SectionFitsMontage, RateInv
<1> QED
  BY <1>2, <1>3, <1>4, <1>5, <1>6, <1>7, <1>8, UpdateKeepsAnimInv, RatesKeepAnimInv DEF AnimNext

(* Whatever is requested and whatever loads, the current section is one of   *)
(* the montage that is played (AZAnimInstance_Player.cpp:94-136).            *)
THEOREM SectionAlwaysFits == AnimSpec => []SectionFitsMontage
<1>1. AnimInit => AnimInv
  BY AnimInitHolds
<1>2. AnimInv /\ [AnimNext]_poseVars => AnimInv'
  BY AnimStep
<1>3. AnimInv => SectionFitsMontage
  BY DEF AnimInv
<1> QED
  BY <1>1, <1>2, <1>3, PTL DEF AnimSpec

(* The animation stands still only while a pause has not been taken back     *)
(* (AZAnimInstance_Player.cpp:200-246).                                      *)
THEOREM StillIsPaused == AnimSpec => []StandsStillOnlyWhenPaused
<1>1. AnimInit => AnimInv
  BY AnimInitHolds
<1>2. AnimInv /\ [AnimNext]_poseVars => AnimInv'
  BY AnimStep
<1>3. AnimInv => StandsStillOnlyWhenPaused
  BY DEF AnimInv, RateInv, StandsStillOnlyWhenPaused, StandsStill
<1> QED
  BY <1>1, <1>2, <1>3, PTL DEF AnimSpec

----------------------------------------------------------------------------
(* The clothes.                                                              *)

\* An id that the body takes for a part is one that the assets hold for that part.
LEMMA RangesAgree ==
  ASSUME NEW p \in Parts, NEW id \in PartIds[p]
  PROVE  id \in KindIds[p]
BY DEF Parts, PartIds, KindIds

ClothesInv == mesh \in [Parts -> ItemIds \cup {NoMesh}] /\ EachPartShowsItsOwn

\* The first meshes are of their parts.
LEMMA ClothesInitHolds ==
  ASSUME PlayerInit
  PROVE  ClothesInv
<1>1. ASSUME NEW p \in Parts
      PROVE  /\ SetSKMeshParts[p] \in ItemIds \cup {NoMesh}
             /\ SetSKMeshParts[p] # NoMesh => SetSKMeshParts[p] \in KindIds[p]
  <2>1. Equipment[p] \in ItemIds /\ (HasKind(Equipment[p]) => Equipment[p] \in KindIds[p])
    BY PlayerBodyAssumption, EquipmentAssumption
  <2>2. SetSKMeshParts[p] \in {NoMesh, GetSkeletalMesh(Equipment[p])}
    BY DEF SetSKMeshParts
  <2> QED
    BY <2>1, <2>2 DEF GetSkeletalMesh
<1>2. SetSKMeshParts \in [Parts -> ItemIds \cup {NoMesh}]
  BY <1>1 DEF SetSKMeshParts
<1>3. mesh = SetSKMeshParts
  BY DEF PlayerInit, BodyInit
<1> QED
  BY <1>1, <1>2, <1>3 DEF ClothesInv, EachPartShowsItsOwn

\* Every change of clothes keeps each part's kind.
LEMMA ClothesStep ==
  ASSUME ClothesInv, [PlayerNext]_playerVars
  PROVE  ClothesInv'
<1>1. ASSUME NEW p \in Parts, NEW id \in ItemIds, ChangeEquipmentMesh(p, id)
      PROVE  ClothesInv'
  <2>1. id \in KindIds[p]
    BY <1>1, RangesAgree DEF ChangeEquipmentMesh
  <2>2. mesh' = [mesh EXCEPT ![p] = id]
    BY <1>1 DEF ChangeEquipmentMesh, GetSkeletalMesh
  <2> QED
    BY <2>1, <2>2 DEF ClothesInv, EachPartShowsItsOwn
<1>2. CASE UNCHANGED mesh
  BY <1>2 DEF ClothesInv, EachPartShowsItsOwn
<1>3. CASE WeaponNext
  BY <1>2, <1>3 DEF WeaponNext, ChangeSocketMesh, ChangeSocketSlot
<1> QED
  BY <1>1, <1>2, <1>3 DEF PlayerNext, BodyNext, ClothesNext, equipVars, playerVars

(* Each part of the body shows an item of its own kind, for all ids: the two *)
(* lists of ranges agree on every id (AZPlayer.cpp:183-221,                  *)
(* AZPlayerAssetMgr.cpp:148-257).                                            *)
THEOREM EachPartAlwaysShowsItsOwn == PlayerSpec => []EachPartShowsItsOwn
<1>1. PlayerInit => ClothesInv
  BY ClothesInitHolds
<1>2. ClothesInv /\ [PlayerNext]_playerVars => ClothesInv'
  BY ClothesStep
<1>3. ClothesInv => EachPartShowsItsOwn
  BY DEF ClothesInv
<1> QED
  BY <1>1, <1>2, <1>3, PTL DEF PlayerSpec

----------------------------------------------------------------------------
(* What the player carries.  The invariant adds to the tags that a slot that *)
(* shows the pocket's object has one in the pocket: a use reads its count.   *)

StorageType == [Storages -> [Keys -> Items \cup {Absent}]]
Sound(st) ==
  /\ st \in StorageType
  /\ \A s \in Storages, k \in Keys : Has(st, s, k) => st[s][k].tag = s
SlotsFilled == \A k \in Keys : slot[k] = InPocket => Has(store, "Pocket", k)
InventoryInv ==
  /\ Sound(store)
  /\ slot \in [Keys -> Int \cup {InPocket}]
  /\ health \in 0..MaxHealth
  /\ SlotsFilled

\* An entry that becomes an object of the right tag, or none, leaves the rest.
LEMMA EntryIsReplaced ==
  ASSUME NEW st, Sound(st), NEW s \in Storages, NEW k \in Keys,
         NEW item \in Items \cup {Absent}, item # Absent => item.tag = s
  PROVE  /\ Sound([st EXCEPT ![s][k] = item])
         /\ \A s2 \in Storages, k2 \in Keys :
              [st EXCEPT ![s][k] = item][s2][k2]
                = IF s2 = s /\ k2 = k THEN item ELSE st[s2][k2]
<1> DEFINE new == [st EXCEPT ![s][k] = item]
<1>1. new \in StorageType
  BY DEF Sound, StorageType
<1>2. \A s2 \in Storages, k2 \in Keys :
        new[s2][k2] = IF s2 = s /\ k2 = k THEN item ELSE st[s2][k2]
  BY DEF Sound, StorageType
<1> HIDE DEF new
<1>3. \A s2 \in Storages, k2 \in Keys : Has(new, s2, k2) => new[s2][k2].tag = s2
  BY <1>2 DEF Has, Sound
<1>4. Sound(new)
  BY <1>1, <1>3 DEF Sound
<1> QED
  BY <1>2, <1>4 DEF new

\* RemoveItem touches no other key.
LEMMA RemoveKeepsTheRest ==
  ASSUME NEW st, Sound(st), NEW s \in Storages, NEW k \in Keys
  PROVE  /\ Sound(RemoveItem(st, s, k))
         /\ \A s2 \in Storages, k2 \in Keys :
              k2 # k => (Has(RemoveItem(st, s, k), s2, k2) <=> Has(st, s2, k2))
  BY EntryIsReplaced DEF RemoveItem, Has

\* A change of a count takes nothing away.
LEMMA CountKeepsTheRest ==
  ASSUME NEW st, Sound(st), NEW s \in Storages, NEW k \in Keys, NEW n \in Int,
         Has(st, s, k)
  PROVE  /\ Sound([st EXCEPT ![s][k].count = n])
         /\ \A s2 \in Storages, k2 \in Keys :
              Has([st EXCEPT ![s][k].count = n], s2, k2) <=> Has(st, s2, k2)
<1> DEFINE item == [st[s][k] EXCEPT !.count = n]
<1>1. st[s][k] \in Items /\ st[s][k].tag = s
  BY DEF Sound, StorageType, Has
<1>2. item \in Items /\ item.tag = s
  BY <1>1 DEF Items
<1>3. item # Absent
  BY <1>2, InventoryAssumption
<1>4. [st EXCEPT ![s][k].count = n] = [st EXCEPT ![s][k] = item]
  OBVIOUS
<1> HIDE DEF item
<1> QED
  BY <1>2, <1>3, <1>4, EntryIsReplaced DEF Has

\* Add takes nothing away, and a new object says where it lies.
LEMMA AddKeepsTheRest ==
  ASSUME NEW st, Sound(st), NEW s \in Storages, NEW k \in Keys, NEW n \in Int
  PROVE  /\ Sound(Add(st, s, k, n))
         /\ \A s2 \in Storages, k2 \in Keys : Has(st, s2, k2) => Has(Add(st, s, k, n), s2, k2)
<1>1. CASE IsFull(st, s, Kind(k))
  BY <1>1 DEF Add
<1>2. CASE ~IsFull(st, s, Kind(k)) /\ Has(st, s, k)
  <2> DEFINE c == st[s][k].count + Increase(k, n)
  <2>1. c \in Int
    <3>1. st[s][k] \in Items
      BY <1>2 DEF Sound, StorageType, Has
    <3>2. st[s][k].count \in Int
      BY <3>1 DEF Items
    <3>3. Increase(k, n) \in Int
      BY DEF Increase
    <3> QED
      BY <3>2, <3>3
  <2>2. Add(st, s, k, n) = [st EXCEPT ![s][k].count = c]
    BY <1>2 DEF Add
  <2> HIDE DEF c
  <2> DEFINE new == [st EXCEPT ![s][k].count = c]
  <2>3. /\ Sound(new)
        /\ \A s2 \in Storages, k2 \in Keys : Has(new, s2, k2) <=> Has(st, s2, k2)
    BY <1>2, <2>1, CountKeepsTheRest
  <2> HIDE DEF new
  <2>4. Add(st, s, k, n) = new
    BY <2>2 DEF new
  <2> QED
    BY <2>3, <2>4
<1>3. CASE ~IsFull(st, s, Kind(k)) /\ ~Has(st, s, k)
  <2> DEFINE item == NewItem(s, n)
  <2>1. item \in Items /\ item.tag = s
    BY DEF NewItem, TagOfNew, Items
  <2>2. item # Absent
    BY <2>1, InventoryAssumption
  <2>3. Add(st, s, k, n) = [st EXCEPT ![s][k] = item]
    BY <1>3 DEF Add
  <2> HIDE DEF item
  <2> DEFINE new == [st EXCEPT ![s][k] = item]
  <2>4. /\ Sound(new)
        /\ \A s2 \in Storages, k2 \in Keys :
             new[s2][k2] = IF s2 = s /\ k2 = k THEN item ELSE st[s2][k2]
    BY <2>1, EntryIsReplaced
  <2> HIDE DEF new
  <2>5. Add(st, s, k, n) = new
    BY <2>3 DEF new
  <2> QED
    BY <2>2, <2>4, <2>5 DEF Has
<1> QED
  BY <1>1, <1>2, <1>3

\* The start items lie in the pocket and in the slots.
LEMMA InventoryInitHolds ==
  ASSUME InventoryInit
  PROVE  InventoryInv
<1>1. FirstPotion \in Keys /\ InitCount \in [Keys -> Int]
  BY InventoryAssumption DEF Keys
<1>2. Started \in [Keys -> Items] /\ \A k \in Keys : Started[k].tag = "Pocket"
  BY <1>1 DEF Started, Items, Storages
<1>3. \A k \in Keys : k # FirstPotion => FirstUsed[k] = Started[k]
  BY <1>1 DEF FirstUsed, Started
<1>4. CASE InitCount[FirstPotion] = 1
  <2>1. FirstUsed = [Started EXCEPT ![FirstPotion] = Absent]
    BY <1>4 DEF FirstUsed
  <2>2. FirstUsed \in [Keys -> Items \cup {Absent}]
    BY <1>1, <1>2, <2>1
  <2>3. FirstUsed[FirstPotion] = Absent
    BY <1>1, <1>2, <2>1
  <2>4. Sound(store)
    BY <1>1, <1>2, <1>3, <2>2, <2>3 DEF InventoryInit, Sound, StorageType, Has, Storages
  <2>5. \A k \in Keys : slot[k] = IF k = FirstPotion THEN 0 ELSE InPocket
    BY <1>4 DEF InventoryInit
  <2>6. SlotsFilled
    <3> SUFFICES ASSUME NEW k \in Keys, slot[k] = InPocket
                 PROVE  Has(store, "Pocket", k)
      BY DEF SlotsFilled
    <3>1. k # FirstPotion
      BY <2>5, InventoryAssumption
    <3>2. FirstUsed[k] \in Items
      BY <1>2, <1>3, <3>1
    <3> QED
      BY <3>2, InventoryAssumption DEF InventoryInit, Has, Storages
  <2>7. slot \in [Keys -> Int \cup {InPocket}]
    BY DEF InventoryInit
  <2> QED
    BY <2>4, <2>6, <2>7, InventoryAssumption DEF InventoryInit, InventoryInv
<1>5. CASE InitCount[FirstPotion] # 1
  <2> DEFINE item == [Started[FirstPotion] EXCEPT !.count = @ - 1]
  <2>1. FirstUsed = [Started EXCEPT ![FirstPotion] = item]
    BY <1>5 DEF FirstUsed
  <2>2. item \in Items /\ item.tag = "Pocket"
    BY <1>1, <1>2 DEF Items
  <2> HIDE DEF item
  <2>3. FirstUsed \in [Keys -> Items] /\ \A k \in Keys : FirstUsed[k].tag = "Pocket"
    BY <1>1, <1>2, <2>1, <2>2
  <2>4. Sound(store)
    BY <2>3 DEF InventoryInit, Sound, StorageType, Has, Storages
  <2>5. SlotsFilled
    BY <2>3, InventoryAssumption DEF InventoryInit, SlotsFilled, Has, Storages
  <2>6. slot \in [Keys -> Int \cup {InPocket}]
    BY DEF InventoryInit
  <2> QED
    BY <2>4, <2>5, <2>6, InventoryAssumption DEF InventoryInit, InventoryInv
<1> QED
  BY <1>4, <1>5

\* What a move leaves of the slots when the entries of other keys stay.
LEMMA DetachKeepsSlots ==
  ASSUME InventoryInv, NEW k \in Keys, NEW n \in Int, slot' = Detach(store', k, n),
         \A k2 \in Keys : k2 # k /\ Has(store, "Pocket", k2) => Has(store', "Pocket", k2)
  PROVE  slot' \in [Keys -> Int \cup {InPocket}] /\ SlotsFilled'
<1>1. CASE slot[k] = InPocket /\ ~Has(store', "Pocket", k)
  <2>1. slot' = [slot EXCEPT ![k] = n]
    BY <1>1 DEF Detach
  <2> QED
    BY <2>1, InventoryAssumption DEF InventoryInv, SlotsFilled, Has
<1>2. CASE ~(slot[k] = InPocket /\ ~Has(store', "Pocket", k))
  <2>1. slot' = slot
    BY <1>2 DEF Detach
  <2> QED
    BY <1>2, <2>1 DEF InventoryInv, SlotsFilled, Has
<1> QED
  BY <1>1, <1>2

\* A move between the storages keeps the invariant.
LEMMA MovesKeepInventory ==
  ASSUME InventoryInv, NEW k \in Keys, NEW s \in Storages, NEW n \in Nat,
         ChangePotionStorage(k, s, n) \/ ChangeBottleStorage(k, s, n)
  PROVE  InventoryInv'
<1>1. store[s][k] \in Items /\ store[s][k].tag = s /\ Has(store, s, k)
  BY DEF ChangePotionStorage, ChangeBottleStorage, InventoryInv, Sound, StorageType, Has
<1>2. store[s][k].count \in Int /\ store[s][k].count - n \in Int
  BY <1>1 DEF Items
<1>3. Other(s) \in Storages
  BY DEF Other, Storages
<1>4. PICK taken : /\ Sound(taken)
                   /\ \A k2 \in Keys : k2 # k => (Has(taken, "Pocket", k2) <=> Has(store, "Pocket", k2))
                   /\ store' = Add(taken, Other(s), k, n)
  <2>1. CASE ChangePotionStorage(k, s, n)
    <3>1. PotionTaken(s, k, n) \in {store, RemoveItem(store, s, k)}
      BY <1>1 DEF PotionTaken
    <3>2. store' = Add(PotionTaken(s, k, n), Other(s), k, n)
      BY <2>1 DEF ChangePotionStorage
    <3> QED
      BY <3>1, <3>2, RemoveKeepsTheRest DEF InventoryInv, Storages
  <2>2. CASE ChangeBottleStorage(k, s, n)
    <3> DEFINE left == store[s][k].count - n
    <3>1. \/ BottleTaken(s, k, n) = RemoveItem(store, s, k)
          \/ BottleTaken(s, k, n) = [store EXCEPT ![s][k].count = left]
      BY <1>1 DEF BottleTaken
    <3> HIDE DEF left
    <3>2. left \in Int
      BY <1>2 DEF left
    <3>3. store' = Add(BottleTaken(s, k, n), Other(s), k, n)
      BY <2>2 DEF ChangeBottleStorage
    <3>4. Sound(store) /\ "Pocket" \in Storages
      BY DEF InventoryInv, Storages
    <3> DEFINE taken == BottleTaken(s, k, n)
    <3>5. /\ Sound(taken)
          /\ \A k2 \in Keys : k2 # k => (Has(taken, "Pocket", k2) <=> Has(store, "Pocket", k2))
      <4>1. CASE taken = RemoveItem(store, s, k)
        BY <3>4, <4>1, RemoveKeepsTheRest
      <4>2. CASE taken = [store EXCEPT ![s][k].count = left]
        <5>1. /\ Sound([store EXCEPT ![s][k].count = left])
              /\ \A s2 \in Storages, k2 \in Keys :
                   Has([store EXCEPT ![s][k].count = left], s2, k2) <=> Has(store, s2, k2)
          BY <1>1, <3>2, <3>4, CountKeepsTheRest, Zenon
        <5> HIDE DEF taken
        <5>2. Sound(taken) /\ \A s2 \in Storages, k2 \in Keys : Has(taken, s2, k2) <=> Has(store, s2, k2)
          BY <4>2, <5>1, Zenon
        <5> QED
          BY <3>4, <5>2
      <4> QED
        BY <3>1, <4>1, <4>2
    <3> QED
      BY <3>3, <3>5
  <2> QED
    BY <2>1, <2>2
<1>5. Sound(store')
  BY <1>3, <1>4, AddKeepsTheRest
<1>6. \A k2 \in Keys : k2 # k /\ Has(store, "Pocket", k2) => Has(store', "Pocket", k2)
  BY <1>3, <1>4, AddKeepsTheRest DEF Storages
<1>7. slot' = Detach(store', k, store[s][k].count) \/ slot' = Detach(store', k, 0)
  BY DEF ChangePotionStorage, ChangeBottleStorage
<1>8. slot' \in [Keys -> Int \cup {InPocket}] /\ SlotsFilled'
  BY <1>2, <1>6, <1>7, DetachKeepsSlots
<1>9. health' \in 0..MaxHealth
  BY DEF ChangePotionStorage, ChangeBottleStorage, InventoryInv
<1> QED
  BY <1>5, <1>8, <1>9 DEF InventoryInv, Sound, Has

\* A use of a slot's object keeps the tags and the slots.
LEMMA UsesKeepInventory ==
  ASSUME InventoryInv, NEW k \in Keys, NEW n \in Int, UseSlot(k, n)
  PROVE  /\ Sound(store')
         /\ slot' \in [Keys -> Int \cup {InPocket}]
         /\ SlotsFilled'
<1>1. "Pocket" \in Storages
  BY DEF Storages
<1>2. n # InPocket
  BY InventoryAssumption
<1>3. CASE n = 0
  <2>1. store' = RemoveItem(store, "Pocket", k) /\ slot' = [slot EXCEPT ![k] = n]
    BY <1>3 DEF UseSlot
  <2> QED
    BY <1>1, <1>2, <2>1, RemoveKeepsTheRest DEF InventoryInv, SlotsFilled, Has
<1>4. CASE n # 0 /\ slot[k] = InPocket
  <2>1. store' = [store EXCEPT !["Pocket"][k].count = n] /\ slot' = slot
    BY <1>4 DEF UseSlot
  <2>2. Has(store, "Pocket", k)
    BY <1>4 DEF InventoryInv, SlotsFilled
  <2>3. Sound(store)
    BY DEF InventoryInv
  <2>4. /\ Sound(store')
        /\ \A k2 \in Keys : Has(store', "Pocket", k2) <=> Has(store, "Pocket", k2)
    BY <1>1, <2>1, <2>2, <2>3, CountKeepsTheRest
  <2>5. SlotsFilled'
    BY <2>1, <2>4 DEF InventoryInv, SlotsFilled, Has
  <2> QED
    BY <2>1, <2>4, <2>5 DEF InventoryInv
<1>5. CASE n # 0 /\ slot[k] # InPocket
  <2>1. store' = store /\ slot' = [slot EXCEPT ![k] = n]
    BY <1>5 DEF UseSlot
  <2> QED
    BY <1>2, <2>1 DEF InventoryInv, SlotsFilled, Has, Sound
<1> QED
  BY <1>3, <1>4, <1>5

\* A slot always has an object to read the count of.
LEMMA SlotCountIsNumber ==
  ASSUME InventoryInv, NEW k \in Keys
  PROVE  SlotCount(k) \in Int
<1>1. CASE slot[k] = InPocket
  <2>1. store["Pocket"][k] \in Items
    BY <1>1 DEF InventoryInv, SlotsFilled, Sound, StorageType, Has, Storages
  <2> QED
    BY <1>1, <2>1 DEF SlotCount, Items
<1>2. CASE slot[k] # InPocket
  BY <1>2 DEF SlotCount, InventoryInv
<1> QED
  BY <1>1, <1>2

\* Every step of the inventory keeps its invariant.
LEMMA InventoryNextHolds ==
  ASSUME InventoryInv, InventoryNext
  PROVE  InventoryInv'
<1>1. CASE \E k \in Keys, s \in Storages, n \in 1..MaxMove :
             ChangePotionStorage(k, s, n) \/ ChangeBottleStorage(k, s, n)
  <2>1. PICK k \in Keys, s \in Storages, n \in 1..MaxMove :
             ChangePotionStorage(k, s, n) \/ ChangeBottleStorage(k, s, n)
    BY <1>1
  <2>2. n \in Nat
    OBVIOUS
  <2> QED
    BY <2>1, <2>2, MovesKeepInventory
<1>2. CASE AnimNotify_OnUseItem
  <2>1. FirstPotion \in Keys
    BY InventoryAssumption DEF Keys
  <2>2. Floor(SlotCount(FirstPotion) - 1) \in Int
    BY <2>1, SlotCountIsNumber DEF Floor
  <2>3. UseSlot(FirstPotion, Floor(SlotCount(FirstPotion) - 1))
    BY <1>2 DEF AnimNotify_OnUseItem
  <2>4. health' \in 0..MaxHealth
    BY <1>2, InventoryAssumption DEF AnimNotify_OnUseItem, Heal, InventoryInv
  <2> QED
    BY <2>1, <2>2, <2>3, <2>4, UsesKeepInventory DEF InventoryInv, Sound, Has
<1>3. CASE \E k \in Bottles : UseBottle(k)
  <2>1. PICK k \in Bottles : UseBottle(k)
    BY <1>3
  <2>2. k \in Keys
    BY DEF Keys
  <2> DEFINE n == IF k \in NormalBottle THEN SlotCount(k) ELSE SlotCount(k) - 1
  <2>3. n \in Int
    BY <2>2, SlotCountIsNumber
  <2>4. UseSlot(k, n) /\ health' = health
    BY <2>1 DEF UseBottle
  <2> HIDE DEF n
  <2> QED
    BY <2>2, <2>3, <2>4, UsesKeepInventory DEF InventoryInv, Sound, Has
<1>4. CASE \E d \in {1, MaxHealth + 1} : TakeDamage(d)
  <2>1. PICK d \in {1, MaxHealth + 1} : TakeDamage(d)
    BY <1>4
  <2>2. health' \in 0..MaxHealth
    BY <2>1, InventoryAssumption DEF TakeDamage, Floor, InventoryInv
  <2> QED
    BY <2>1, <2>2 DEF TakeDamage, InventoryInv, SlotsFilled, Has, Sound
<1> QED
  BY <1>1, <1>2, <1>3, <1>4 DEF InventoryNext

\* Every operation keeps both storages sound.
LEMMA InventoryStep ==
  ASSUME InventoryInv, [InventoryNext]_inventoryVars
  PROVE  InventoryInv'
<1>1. CASE InventoryNext
  BY <1>1, InventoryNextHolds
<1>2. CASE UNCHANGED inventoryVars
  BY <1>2 DEF inventoryVars, InventoryInv, SlotsFilled, Sound, Has
<1> QED
  BY <1>1, <1>2

(* However items are moved, used up and made anew, an object says of itself  *)
(* that it lies in the storage that holds it, so RemoveItem, which goes by   *)
(* what the object says, takes the entry it was called for                   *)
(* (AZInventoryManager.cpp:342).  It holds for any storages and counts.      *)
THEOREM TagsAlwaysAgree == InventorySpec => []StorageTagsAgree
<1>1. InventoryInit => InventoryInv
  BY InventoryInitHolds
<1>2. InventoryInv /\ [InventoryNext]_inventoryVars => InventoryInv'
  BY InventoryStep
<1>3. InventoryInv => StorageTagsAgree
  BY DEF InventoryInv, Sound, StorageTagsAgree
<1> QED
  BY <1>1, <1>2, <1>3, PTL DEF InventorySpec

\* What a storage holds of a key before and after its entry is replaced.
LEMMA EntryCounts ==
  ASSUME NEW st, Sound(st), NEW s \in Storages, NEW k \in Keys,
         NEW item \in Items \cup {Absent}, item # Absent => item.tag = s
  PROVE  /\ Count([st EXCEPT ![s][k] = item], s, k) = IF item = Absent THEN 0 ELSE item.count
         /\ Count([st EXCEPT ![s][k] = item], Other(s), k) = Count(st, Other(s), k)
         /\ Count(st, s, k) \in Int /\ Count(st, Other(s), k) \in Int
<1>1. Other(s) \in Storages /\ Other(s) # s
  BY DEF Other, Storages
<1> DEFINE new == [st EXCEPT ![s][k] = item]
<1>0. \A s2 \in Storages, k2 \in Keys :
        new[s2][k2] = IF s2 = s /\ k2 = k THEN item ELSE st[s2][k2]
  BY DEF Sound, StorageType
<1> HIDE DEF new
<1>2. new[s][k] = item /\ new[Other(s)][k] = st[Other(s)][k]
  BY <1>0, <1>1
<1>3. Count(new, s, k) = IF item = Absent THEN 0 ELSE item.count
  BY <1>2 DEF Count, Has
<1>4. Count(new, Other(s), k) = Count(st, Other(s), k)
  BY <1>2 DEF Count, Has
<1>5. \A s2 \in Storages : Count(st, s2, k) \in Int
  BY DEF Count, Has, Sound, StorageType, Items
<1> QED
  BY <1>1, <1>3, <1>4, <1>5 DEF new

\* An item of another count is an item that lies where it lay.
LEMMA Recounted ==
  ASSUME NEW st, Sound(st), NEW s \in Storages, NEW k \in Keys, NEW n \in Int, Has(st, s, k)
  PROVE  /\ [st[s][k] EXCEPT !.count = n] \in Items
         /\ [st[s][k] EXCEPT !.count = n] # Absent
         /\ [st[s][k] EXCEPT !.count = n].tag = s
         /\ [st[s][k] EXCEPT !.count = n].count = n
         /\ [st EXCEPT ![s][k].count = n] = [st EXCEPT ![s][k] = [st[s][k] EXCEPT !.count = n]]
         /\ Count(st, s, k) = st[s][k].count /\ st[s][k].count \in Int
<1>1. st[s][k] \in Items /\ st[s][k].tag = s
  BY DEF Sound, StorageType, Has
<1> DEFINE item == [st[s][k] EXCEPT !.count = n]
<1>2. item \in Items /\ item.tag = s /\ item.count = n
  BY <1>1 DEF Items
<1>3. item # Absent
  BY <1>2, InventoryAssumption
<1>4. Count(st, s, k) = st[s][k].count /\ st[s][k].count \in Int
  BY <1>1 DEF Count, Items
<1>5. [st EXCEPT ![s][k].count = n] = [st EXCEPT ![s][k] = item]
  OBVIOUS
<1> QED
  BY <1>2, <1>3, <1>4, <1>5

\* Add to a storage that is not full: so many more there, and as many elsewhere.
LEMMA AddCounts ==
  ASSUME NEW st, Sound(st), NEW s \in Storages, NEW k \in Keys, NEW n \in Int,
         ~IsFull(st, s, Kind(k))
  PROVE  /\ Count(Add(st, s, k, n), s, k)
              = Count(st, s, k) + IF Has(st, s, k) THEN Increase(k, n) ELSE n
         /\ Count(Add(st, s, k, n), Other(s), k) = Count(st, Other(s), k)
<1>1. CASE Has(st, s, k)
  <2> DEFINE c == st[s][k].count + Increase(k, n)
             item == [st[s][k] EXCEPT !.count = c]
  <2>1. st[s][k].count \in Int /\ Count(st, s, k) = st[s][k].count
    <3>1. st[s][k] \in Items
      BY <1>1 DEF Sound, StorageType, Has
    <3> QED
      BY <1>1, <3>1 DEF Items, Count
  <2>2. c \in Int
    BY <2>1 DEF Increase
  <2>3. Add(st, s, k, n) = [st EXCEPT ![s][k].count = c]
    BY <1>1 DEF Add
  <2> HIDE DEF c
  <2>4. /\ item \in Items /\ item # Absent /\ item.tag = s /\ item.count = c
        /\ [st EXCEPT ![s][k].count = c] = [st EXCEPT ![s][k] = item]
    BY <1>1, <2>2, Recounted
  <2> HIDE DEF item
  <2>5. /\ Count([st EXCEPT ![s][k] = item], s, k) = c
        /\ Count([st EXCEPT ![s][k] = item], Other(s), k) = Count(st, Other(s), k)
    BY <2>4, EntryCounts
  <2>6. Count(Add(st, s, k, n), s, k) = c /\ Count(Add(st, s, k, n), Other(s), k) = Count(st, Other(s), k)
    BY <2>3, <2>4, <2>5
  <2> QED
    BY <1>1, <2>1, <2>6 DEF c
<1>2. CASE ~Has(st, s, k)
  <2> DEFINE item == NewItem(s, n)
  <2>1. item \in Items /\ item.tag = s /\ item.count = n
    BY DEF NewItem, TagOfNew, Items
  <2>2. item # Absent
    BY <2>1, InventoryAssumption
  <2>3. Add(st, s, k, n) = [st EXCEPT ![s][k] = item]
    BY <1>2 DEF Add
  <2> HIDE DEF item
  <2>4. /\ Count([st EXCEPT ![s][k] = item], s, k) = n
        /\ Count([st EXCEPT ![s][k] = item], Other(s), k) = Count(st, Other(s), k)
    BY <2>1, <2>2, EntryCounts
  <2>5. Count(st, s, k) = 0
    BY <1>2 DEF Count
  <2> QED
    BY <1>2, <2>3, <2>4, <2>5
<1> QED
  BY <1>1, <1>2

\* A storage is as full as before while the other one is taken from.
LEMMA FullnessStays ==
  ASSUME NEW st, Sound(st), NEW s \in Storages, NEW k \in Keys,
         NEW item \in Items \cup {Absent}, item # Absent => item.tag = s
  PROVE  /\ \A kind : IsFull([st EXCEPT ![s][k] = item], Other(s), kind) <=> IsFull(st, Other(s), kind)
         /\ \A o \in Keys : Has([st EXCEPT ![s][k] = item], Other(s), o) <=> Has(st, Other(s), o)
<1> DEFINE new == [st EXCEPT ![s][k] = item]
<1>1. Other(s) \in Storages /\ Other(s) # s
  BY DEF Other, Storages
<1>2. \A o \in Keys : new[Other(s)][o] = st[Other(s)][o]
  BY <1>1, EntryIsReplaced
<1> HIDE DEF new
<1>3. \A o \in Keys : Has(new, Other(s), o) <=> Has(st, Other(s), o)
  BY <1>2 DEF Has
<1>4. ASSUME NEW kind
      PROVE  IsFull(new, Other(s), kind) <=> IsFull(st, Other(s), kind)
  <2>1. {o \in Keys : Kind(o) = kind /\ Has(new, Other(s), o)}
          = {o \in Keys : Kind(o) = kind /\ Has(st, Other(s), o)}
    BY <1>3
  <2>2. InventoryCurrCount(new, Other(s), kind) = InventoryCurrCount(st, Other(s), kind)
    BY <2>1 DEF InventoryCurrCount
  <2> QED
    BY <2>2 DEF IsFull
<1> QED
  BY <1>3, <1>4 DEF new

\* What a move of n leaves in the two storages when the target has room.
LEMMA MoveTotals ==
  ASSUME Sound(store), NEW s \in Storages, NEW k \in Keys, NEW n \in Int,
         NEW item \in Items \cup {Absent}, item # Absent => item.tag = s,
         ~IsFull(store, Other(s), Kind(k)),
         store' = Add([store EXCEPT ![s][k] = item], Other(s), k, n)
  PROVE  \E more \in {n, Increase(k, n)} :
           Total(store', k) = (IF item = Absent THEN 0 ELSE item.count)
                                + Count(store, Other(s), k) + more
<1> DEFINE taken == [store EXCEPT ![s][k] = item]
           left == IF item = Absent THEN 0 ELSE item.count
           more == IF Has(taken, Other(s), k) THEN Increase(k, n) ELSE n
<1>1. Other(s) \in Storages /\ Other(Other(s)) = s
  BY DEF Other, Storages
<1>2. /\ Count(taken, s, k) = left
      /\ Count(taken, Other(s), k) = Count(store, Other(s), k)
      /\ Count(store, Other(s), k) \in Int
  BY EntryCounts
<1>3. Sound(taken) /\ ~IsFull(taken, Other(s), Kind(k))
  BY EntryIsReplaced, FullnessStays
<1>4. left \in Int
  BY DEF Items
<1> HIDE DEF taken, left
<1>5. /\ Count(Add(taken, Other(s), k, n), Other(s), k) = Count(taken, Other(s), k) + more
      /\ Count(Add(taken, Other(s), k, n), Other(Other(s)), k) = Count(taken, Other(Other(s)), k)
  BY <1>1, <1>3, AddCounts
<1>6. more \in {n, Increase(k, n)} /\ more \in Int
  BY DEF Increase
<1>7. Total(store', k) = Count(store', s, k) + Count(store', Other(s), k)
  <2>1. Count(store', s, k) \in Int /\ Count(store', Other(s), k) \in Int
    BY <1>1, <1>2, <1>4, <1>5, <1>6 DEF taken
  <2>2. CASE s = "Pocket"
    BY <2>2 DEF Total, Other
  <2>3. CASE s # "Pocket"
    BY <2>1, <2>3 DEF Total, Other, Storages
  <2> QED
    BY <2>2, <2>3
<1>8. store' = Add(taken, Other(s), k, n)
  BY DEF taken
<1> HIDE DEF more
<1>9. Total(store', k) = left + Count(store, Other(s), k) + more
  BY <1>1, <1>2, <1>4, <1>5, <1>6, <1>7, <1>8
<1> QED
  BY <1>6, <1>9 DEF left

\* The total is what one storage has and what the other has.
LEMMA TotalOfTwo ==
  ASSUME Sound(store), NEW s \in Storages, NEW k \in Keys
  PROVE  /\ Total(store, k) = Count(store, s, k) + Count(store, Other(s), k)
         /\ Count(store, Other(s), k) \in Int
<1>1. \A s2 \in Storages : Count(store, s2, k) \in Int
  BY DEF Count, Has, Sound, StorageType, Items
<1>2. "Pocket" \in Storages /\ "Warehouse" \in Storages /\ s \in {"Pocket", "Warehouse"}
  BY DEF Storages
<1> QED
  BY <1>1, <1>2 DEF Total, Other

\* What there is of a key is a number.
LEMMA TotalsAreNumbers ==
  ASSUME NEW st, Sound(st), NEW k \in Keys
  PROVE  Total(st, k) \in Int
<1>1. \A s2 \in Storages : Count(st, s2, k) \in Int
  BY DEF Count, Has, Sound, StorageType, Items
<1> QED
  BY <1>1 DEF Total, Storages

\* A move of potions, and one of a single bottle, to a storage with room.
LEMMA PotionMoveGains ==
  ASSUME Sound(store), NEW k \in Keys, NEW s \in Storages, NEW n \in Nat, n > 0,
         ChangePotionStorage(k, s, n), ~IsFull(store, Other(s), Kind(k))
  PROVE  Total(store', k) >= Total(store, k)
<1>1. store[s][k] \in Items /\ store[s][k].tag = s /\ store[s][k] # Absent
  BY DEF ChangePotionStorage, Sound, StorageType, Has
<1> DEFINE c == store[s][k].count
<1>2. c \in Int /\ Count(store, s, k) = c
  BY <1>1 DEF Items, Count, Has
<1>3. /\ Total(store, k) = Count(store, s, k) + Count(store, Other(s), k)
      /\ Count(store, Other(s), k) \in Int
  BY TotalOfTwo
<1>4. Increase(k, n) = n /\ store' = Add(PotionTaken(s, k, n), Other(s), k, n)
  BY DEF ChangePotionStorage, Increase
<1> DEFINE item == IF c - n <= 0 THEN Absent ELSE store[s][k]
<1>5. PotionTaken(s, k, n) = [store EXCEPT ![s][k] = item]
  <2>1. CASE c - n <= 0
    BY <1>1, <2>1 DEF PotionTaken, RemoveItem
  <2>2. CASE ~(c - n <= 0)
    <3>1. PotionTaken(s, k, n) = store
      BY <2>2 DEF PotionTaken
    <3>2. store = [store EXCEPT ![s][k] = store[s][k]]
      BY DEF Sound, StorageType
    <3> QED
      BY <2>2, <3>1, <3>2
  <2> QED
    BY <2>1, <2>2
<1>6. item \in Items \cup {Absent} /\ (item # Absent => item.tag = s)
      /\ (IF item = Absent THEN 0 ELSE item.count) = (IF c - n <= 0 THEN 0 ELSE c)
  BY <1>1
<1> HIDE DEF item
<1>7. Total(store', k) = (IF item = Absent THEN 0 ELSE item.count)
                           + Count(store, Other(s), k) + n
  <2>1. n \in Int /\ store' = Add([store EXCEPT ![s][k] = item], Other(s), k, n)
    BY <1>4, <1>5
  <2>2. PICK more \in {n, Increase(k, n)} :
          Total(store', k) = (IF item = Absent THEN 0 ELSE item.count)
                               + Count(store, Other(s), k) + more
    BY <1>6, <2>1, MoveTotals
  <2> QED
    BY <1>4, <2>2
<1> HIDE DEF c
<1> QED
  BY <1>2, <1>3, <1>6, <1>7

\* A bottle that moves with room for it is neither lost nor doubled.
LEMMA BottleMoveKeeps ==
  ASSUME Sound(store), NEW k \in Keys, NEW s \in Storages,
         ChangeBottleStorage(k, s, 1), ~IsFull(store, Other(s), Kind(k))
  PROVE  Total(store', k) = Total(store, k)
<1>1. store[s][k] \in Items /\ store[s][k].tag = s /\ store[s][k] # Absent /\ Has(store, s, k)
  BY DEF ChangeBottleStorage, Sound, StorageType, Has
<1> DEFINE c == store[s][k].count
<1>2. c \in Int /\ c - 1 \in Int /\ Count(store, s, k) = c
  BY <1>1 DEF Items, Count, Has
<1>3. /\ Total(store, k) = Count(store, s, k) + Count(store, Other(s), k)
      /\ Count(store, Other(s), k) \in Int
  BY TotalOfTwo
<1>4. Increase(k, 1) = 1 /\ store' = Add(BottleTaken(s, k, 1), Other(s), k, 1)
  BY DEF ChangeBottleStorage, Increase
<1> DEFINE less == [store[s][k] EXCEPT !.count = c - 1]
           item == IF c - 1 = 0 THEN Absent ELSE less
<1>5. /\ less \in Items /\ less # Absent /\ less.tag = s /\ less.count = c - 1
      /\ [store EXCEPT ![s][k].count = c - 1] = [store EXCEPT ![s][k] = less]
  BY <1>1, <1>2, Recounted
<1> HIDE DEF less
<1>6. BottleTaken(s, k, 1) = [store EXCEPT ![s][k] = item]
  <2>1. CASE c - 1 = 0
    BY <1>1, <2>1 DEF BottleTaken, RemoveItem
  <2>2. CASE c - 1 # 0
    <3>1. BottleTaken(s, k, 1) = [store EXCEPT ![s][k].count = c - 1]
      BY <2>2 DEF BottleTaken
    <3> QED
      BY <1>5, <2>2, <3>1
  <2> QED
    BY <2>1, <2>2
<1>7. item \in Items \cup {Absent} /\ (item # Absent => item.tag = s)
      /\ (IF item = Absent THEN 0 ELSE item.count) = c - 1
  BY <1>5
<1> HIDE DEF item
<1>8. Total(store', k) = (IF item = Absent THEN 0 ELSE item.count)
                           + Count(store, Other(s), k) + 1
  BY <1>4, <1>6, <1>7, MoveTotals
<1> HIDE DEF c
<1> QED
  BY <1>2, <1>3, <1>7, <1>8

(* However many potions are moved and whatever is there already, none is     *)
(* lost, and no bottle is when one is moved, as long as the storage it goes  *)
(* to has room (AZInventoryManager.cpp:325-345, 438-457).                    *)
THEOREM NoMoveLoses == InventorySpec => MovesLoseNothing
<1>1. InventoryInit => InventoryInv
  BY InventoryInitHolds
<1>2. InventoryInv /\ [InventoryNext]_inventoryVars => InventoryInv'
  BY InventoryStep
<1>3. InventoryInv => [\A k \in Keys : Total(store', k) # Total(store, k) =>
                         \A s \in Storages : ~IsFull(store, Other(s), Kind(k)) =>
                           /\ ~ChangeBottleStorage(k, s, 1)
                           /\ \A n \in 1..MaxMove :
                                ChangePotionStorage(k, s, n) => Total(store', k) > Total(store, k)
                      ]_inventoryVars
  <2> SUFFICES ASSUME InventoryInv, NEW k \in Keys, Total(store', k) # Total(store, k),
                      NEW s \in Storages, ~IsFull(store, Other(s), Kind(k))
               PROVE  /\ ~ChangeBottleStorage(k, s, 1)
                      /\ \A n \in 1..MaxMove :
                           ChangePotionStorage(k, s, n) => Total(store', k) > Total(store, k)
    OBVIOUS
  <2>1. Sound(store)
    BY DEF InventoryInv
  <2>2. ~ChangeBottleStorage(k, s, 1)
    BY <2>1, BottleMoveKeeps
  <2>3. ASSUME NEW n \in 1..MaxMove, ChangePotionStorage(k, s, n)
        PROVE  Total(store', k) > Total(store, k)
    <3>1. n \in Nat /\ n > 0
      OBVIOUS
    <3>2. Total(store', k) >= Total(store, k)
      BY <2>1, <2>3, <3>1, PotionMoveGains
    <3>3. Total(store', k) \in Int /\ Total(store, k) \in Int
      <4>1. Sound(store')
        BY <2>3, <3>1, MovesKeepInventory DEF InventoryInv, Sound, Has
      <4> QED
        BY <2>1, <4>1, TotalsAreNumbers
    <3> QED
      BY <3>2, <3>3
  <2> QED
    BY <2>2, <2>3
<1> QED
  BY <1>1, <1>2, <1>3, PTL DEF InventorySpec, MovesLoseNothing

=============================================================================
